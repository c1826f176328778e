--------------------------- MODULE AnalyticsLogger ---------------------------
(***************************************************************************)
(* The analytics logger: Log, the worker and insertRequestLog of           *)
(* src/go/analytics/logger.go and Publish of kafka.go. One worker takes    *)
(* events from a buffered channel; each is inserted in PostgreSQL, then    *)
(* published to Kafka. Either may fail, which is only written to the log.  *)
(*                                                                         *)
(* A definition named D_X is D with the mistake X in it. It is no part of  *)
(* the specification: it shows that a property can tell D from D_X.        *)
(***************************************************************************)
EXTENDS Naturals, Sequences

CONSTANTS
    Events,         \* the events that may be logged
    QueueCapacity   \* slots of the channel: 1000 in the code

VARIABLES
    queue,      \* the channel
    worker,     \* "waiting" | "inserting" | "publishing"
    job,        \* <<event>> the worker is at, <<>> while it waits
    rows,       \* the rows of request_logs, in the order of insertion
    topic,      \* the events handed to the writer of request-analytics, which
                \* may send each once, more than once or not at all
    logged,     \* history: the events Log was called with, in order
    lost        \* history: the events dropped, failed to insert or crashed

logger == <<queue, worker, job, rows, topic, logged, lost>>

TypeOK ==
    /\ queue \in Seq(Events) /\ Len(queue) <= QueueCapacity
    /\ worker \in {"waiting", "inserting", "publishing"}
    /\ job \in Seq(Events) /\ Len(job) = IF worker = "waiting" THEN 0 ELSE 1
    /\ rows \in Seq(Events)
    /\ topic \subseteq Events
    /\ logged \in Seq(Events)
    /\ lost \subseteq Events

Init ==
    /\ queue = <<>>
    /\ worker = "waiting"
    /\ job = <<>>
    /\ rows = <<>>
    /\ topic = {}
    /\ logged = <<>>
    /\ lost = {}

\* The sender never waits: a full queue drops the event.
Log(e) ==
    /\ logged' = Append(logged, e)
    /\ \/ Len(queue) < QueueCapacity /\ queue' = Append(queue, e) /\ UNCHANGED lost
       \/ Len(queue) = QueueCapacity /\ lost' = lost \cup {e} /\ UNCHANGED queue
    /\ UNCHANGED <<worker, job, rows, topic>>

Take_Shares ==
    /\ queue # <<>>
    /\ worker' = "inserting"
    /\ job' = <<Head(queue)>>
    /\ queue' = Tail(queue)
    /\ UNCHANGED <<rows, topic, logged, lost>>
Take_Newest ==
    /\ worker = "waiting" /\ queue # <<>>
    /\ worker' = "inserting"
    /\ job' = <<queue[Len(queue)]>>
    /\ queue' = SubSeq(queue, 1, Len(queue) - 1)
    /\ UNCHANGED <<rows, topic, logged, lost>>
\* for event := range l.events
Take ==
    /\ worker = "waiting" /\ queue # <<>>
    /\ worker' = "inserting"
    /\ job' = <<Head(queue)>>
    /\ queue' = Tail(queue)
    /\ UNCHANGED <<rows, topic, logged, lost>>

\* An insert that fails is not tried again, and the event is published anyway.
Insert ==
    /\ worker = "inserting"
    /\ worker' = "publishing"
    /\ \/ rows' = rows \o job /\ UNCHANGED lost
       \/ lost' = lost \cup {job[1]} /\ UNCHANGED rows
    /\ UNCHANGED <<queue, job, topic, logged>>

Publish_StaysWithJob ==
    /\ worker = "publishing"
    /\ topic' = topic \cup {job[1]}
    /\ UNCHANGED <<queue, worker, job, rows, logged, lost>>
\* WriteMessages, whose failure is only logged.
Publish ==
    /\ worker = "publishing"
    /\ topic' = topic \cup {job[1]}
    /\ worker' = "waiting"
    /\ job' = <<>>
    /\ UNCHANGED <<queue, rows, logged, lost>>

\* The gateway process ends: the channel and the worker's event are gone.
Crash ==
    /\ lost' = lost \cup {queue[i] : i \in DOMAIN queue}
                    \cup (IF worker = "inserting" THEN {job[1]} ELSE {})
    /\ queue' = <<>>
    /\ worker' = "waiting"
    /\ job' = <<>>
    /\ UNCHANGED <<rows, topic, logged>>

Internal == Take \/ Insert \/ Publish

\* s is what is left of t when some members are struck out.
IsSubsequence(s, t) ==
    \E at \in [DOMAIN s -> DOMAIN t] :
        /\ \A i \in DOMAIN s : t[at[i]] = s[i]
        /\ \A i, j \in DOMAIN s : i < j => at[i] < at[j]

\* logger.go:34-46, :49-60. The table holds logged events only, in the order
\* they were logged, each at most once: the one worker never reorders them, and
\* no insert is tried twice.
InLogOrder == IsSubsequence(rows, logged)

\* logger.go:36-45, :51-60. An event that was logged is in the table, or in the
\* queue, or with the worker, or was lost in one of the ways counted: a full
\* queue, a failed insert, a crash. None disappears otherwise; and who reads of an
\* event in the topic finds its row, unless it was lost.
NoneDisappears ==
    LET Inserted(e) == \E i \in DOMAIN rows : rows[i] = e IN
    /\ \A i \in DOMAIN logged :
          \/ Inserted(logged[i])
          \/ \E j \in DOMAIN queue : queue[j] = logged[i]
          \/ worker = "inserting" /\ job[1] = logged[i]
          \/ logged[i] \in lost
    /\ \A e \in topic : Inserted(e) \/ e \in lost
=============================================================================
