----------------------------- MODULE CycleDetector -----------------------------
(***************************************************************************)
(* CheckCycle of the Python cycle detector (src/python/cycle_detector),    *)
(* several calls at once: the queue and the threads of the gRPC server,    *)
(* the lazily loaded embedding model, the session windows and cycle flags  *)
(* in Redis, and the gateway, which gives a call up after 500 ms while the *)
(* thread that serves it goes on.                                          *)
(*                                                                         *)
(* ChatPipeline has one CheckCycle as one step. Here its calls to Redis    *)
(* are steps of their own, so that the calls of a session interleave.      *)
(*                                                                         *)
(* A call stands for the response it brings and for the node this becomes. *)
(* All that matters of the embeddings is which pairs are similar: any      *)
(* reflexive and symmetric relation, not necessarily a transitive one.     *)
(*                                                                         *)
(* A definition named D_X is D with the mistake X in it. It is no part of  *)
(* the specification: it shows that a property can tell D from D_X.        *)
(***************************************************************************)
EXTENDS Naturals, Sequences, FiniteSets

CONSTANTS
    Calls,           \* the calls of CheckCycle considered
    Sessions,        \* session ids
    SessionOf,       \* the session of each call
    Threads,         \* threads of the server: 10 in the code
    WindowSize,      \* nodes kept per session: 20 in the code
    MinCycleLength,  \* shortest loop that is remediated: 3 in the code
    MaxFaults,       \* bound of the model: exceptions, resends and restarts
    Impatient        \* bound of the model: calls the gateway may give up

ASSUME SessionsAssumption == SessionOf \in [Calls -> Sessions]
ASSUME SizesAssumption ==
    /\ Threads \in Nat \ {0}
    /\ WindowSize \in Nat \ {0}
    /\ MinCycleLength \in Nat \ {0}
    /\ MaxFaults \in Nat
ASSUME ImpatientAssumption == Impatient \subseteq Calls

VARIABLES
    similar,    \* the pairs of calls whose responses are similar
    call,       \* each call: its thread and the gateway behind it
    queue,      \* calls that wait for a thread
    models,     \* embedding models this process has loaded
    window,     \* cyclegraph:{id}:nodes, the Redis list of each session
    flag,       \* cycleflag:{id} exists in Redis
    faults,     \* exceptions, resends and restarts so far
    log,        \* history: every node added to each session
    forgotten   \* history: how many of them had been when the list expired

vars == <<similar, call, queue, models, window, flag, faults, log, forgotten>>

redis == <<window, flag, log, forgotten>>
-----------------------------------------------------------------------------
PC == {"idle", "queued", "embed", "load", "read", "add", "flag", "reply", "done"}

\* found is what find_cycle returned (0 is no cycle) and ok that nothing was
\* raised. after, seen and start are history: the calls of the session that were
\* over for the gateway when this one was made, and the nodes that had been added
\* and forgotten when this one read the window.
Call == [pc : PC, gate : {"none", "waiting", "answered", "gaveup"}, ok : BOOLEAN,
         compared : BOOLEAN, found : Nat, after : SUBSET Calls, seen : Nat, start : Nat]

Serving(c) == call[c].pc \in {"embed", "load", "read", "add", "flag", "reply"}

\* What the gateway reads in the reply of a call.
Length(c)    == IF call[c].ok THEN call[c].found ELSE 0
Remediate_AnyLoop(c) == Length(c) > 0

Remediate(c) == Length(c) >= MinCycleLength
Answered(c)  == call[c].gate = "answered" /\ call[c].ok

LastOf_OneMore(nodes, n) ==
    IF Len(nodes) <= n + 1 THEN nodes ELSE SubSeq(nodes, Len(nodes) - n, Len(nodes))

\* LTRIM key -n -1.
LastOf(nodes, n) ==
    IF Len(nodes) <= n THEN nodes ELSE SubSeq(nodes, Len(nodes) - n + 1, Len(nodes))

Offsets(nodes, c) ==
    {k \in 1 .. Len(nodes) : <<c, nodes[Len(nodes) + 1 - k]>> \in similar}

\* find_cycle: the newest nodes first, the first similar one ends the search.
FindCycle(nodes, c) ==
    IF Offsets(nodes, c) = {}
      THEN 0
      ELSE CHOOSE k \in Offsets(nodes, c) : \A j \in Offsets(nodes, c) : k <= j

Init ==
    /\ similar \in SUBSET (Calls \X Calls)
    /\ \A c, d \in Calls : /\ <<c, c>> \in similar
                           /\ <<c, d>> \in similar => <<d, c>> \in similar
    /\ call = [c \in Calls |->
                  [pc |-> "idle", gate |-> "none", ok |-> TRUE, compared |-> FALSE,
                   found |-> 0, after |-> {}, seen |-> 0, start |-> 0]]
    /\ queue = <<>>
    /\ models = 0
    /\ window = [s \in Sessions |-> <<>>]
    /\ flag = [s \in Sessions |-> FALSE]
    /\ faults = 0
    /\ log = [s \in Sessions |-> <<>>]
    /\ forgotten = [s \in Sessions |-> 0]
-----------------------------------------------------------------------------
(* The gateway. *)

\* Client.CheckCycle.
Submit(c) ==
    /\ call[c].pc = "idle"
    /\ call' = [call EXCEPT
          ![c].pc = "queued", ![c].gate = "waiting",
          ![c].after = {d \in Calls : /\ SessionOf[d] = SessionOf[c]
                                      /\ call[d].gate \in {"answered", "gaveup"}}]
    /\ queue' = Append(queue, c)
    /\ UNCHANGED <<similar, models, redis, faults>>

\* 500 ms are over, or the context of the chat request is cancelled. The gateway
\* goes on as if nothing had been found.
GiveUp(c) ==
    /\ c \in Impatient
    /\ call[c].gate = "waiting"
    /\ call' = [call EXCEPT ![c].gate = "gaveup"]
    /\ UNCHANGED <<similar, queue, models, redis, faults>>
-----------------------------------------------------------------------------
(* A thread of the server. *)

Start_CancelledStays ==
    /\ queue # <<>>
    /\ Cardinality({c \in Calls : Serving(c)}) < Threads
    /\ LET c == Head(queue)
       IN  /\ call[c].gate = "waiting"
           /\ call' = [call EXCEPT ![c].pc = "embed"]
    /\ queue' = Tail(queue)
    /\ UNCHANGED <<similar, models, redis, faults>>

\* A free thread takes the next call. One that was cancelled while it waited is
\* not served, unless the server has not heard of the cancellation yet.
Start ==
    /\ queue # <<>>
    /\ Cardinality({c \in Calls : Serving(c)}) < Threads
    /\ LET c == Head(queue)
       IN  \/ call' = [call EXCEPT ![c].pc = "embed"]
           \/ call[c].gate = "gaveup" /\ call' = [call EXCEPT ![c].pc = "done"]
    /\ queue' = Tail(queue)
    /\ UNCHANGED <<similar, models, redis, faults>>

\* embed: _get_model looks whether the model has been loaded.
Embed(c) ==
    /\ call[c].pc = "embed"
    /\ call' = [call EXCEPT ![c].pc = IF models = 0 THEN "load" ELSE "read"]
    /\ UNCHANGED <<similar, queue, models, redis, faults>>

\* The model is loaded and kept. Nothing keeps two threads from doing so.
Load(c) ==
    /\ call[c].pc = "load"
    /\ call' = [call EXCEPT ![c].pc = "read"]
    /\ models' = models + 1
    /\ UNCHANGED <<similar, queue, redis, faults>>

\* get_nodes and find_cycle.
Read(c) ==
    LET s == SessionOf[c]
    IN  /\ call[c].pc = "read"
        /\ call' = [call EXCEPT ![c].pc = "add", ![c].compared = TRUE,
                                ![c].found = FindCycle(window[s], c),
                                ![c].seen = Len(log[s]), ![c].start = forgotten[s]]
        /\ UNCHANGED <<similar, queue, models, redis, faults>>

\* RPUSH, LTRIM and EXPIRE in one transaction.
AddNode(c) ==
    LET s == SessionOf[c]
    IN  /\ window' = [window EXCEPT ![s] = LastOf(Append(@, c), WindowSize)]
        /\ log' = [log EXCEPT ![s] = Append(@, c)]
        /\ UNCHANGED <<flag, forgotten>>

Add_OnlyNew(c) ==
    /\ call[c].pc = "add"
    /\ call' = [call EXCEPT ![c].pc = IF Remediate(c) THEN "flag" ELSE "reply"]
    /\ IF call[c].found = 0 THEN AddNode(c) ELSE UNCHANGED redis
    /\ UNCHANGED <<similar, queue, models, faults>>

\* add_node, whatever find_cycle returned.
Add(c) ==
    /\ call[c].pc = "add"
    /\ call' = [call EXCEPT ![c].pc = IF Remediate(c) THEN "flag" ELSE "reply"]
    /\ AddNode(c)
    /\ UNCHANGED <<similar, queue, models, faults>>

SetFlag(c) ==
    /\ flag' = [flag EXCEPT ![SessionOf[c]] = TRUE]
    /\ UNCHANGED <<window, log, forgotten>>

\* flag_cycle.
FlagCycle(c) ==
    /\ call[c].pc = "flag"
    /\ call' = [call EXCEPT ![c].pc = "reply"]
    /\ SetFlag(c)
    /\ UNCHANGED <<similar, queue, models, faults>>

\* The reply reaches the gateway if it is still waiting.
Reply(c) ==
    /\ call[c].pc = "reply"
    /\ call' = [call EXCEPT ![c].pc = "done",
                            ![c].gate = IF @ = "waiting" THEN "answered" ELSE @]
    /\ UNCHANGED <<similar, queue, models, redis, faults>>

Fault == faults < MaxFaults /\ faults' = faults + 1

\* Anything raised is caught and answered with PASS: the model, the encoder, the
\* network to Redis, or a Redis command whose reply is lost after it took effect.
Raise(c) ==
    /\ call[c].pc \in {"embed", "load", "read", "add", "flag"}
    /\ call' = [call EXCEPT ![c].pc = "reply", ![c].ok = FALSE]
    /\ \/ UNCHANGED redis
       \/ call[c].pc = "add" /\ AddNode(c)
       \/ call[c].pc = "flag" /\ SetFlag(c)
    /\ Fault
    /\ UNCHANGED <<similar, queue, models>>
\* A redis client that retries sends the transaction again when its reply is
\* lost, although it took effect. (requirements.txt allows any redis-py from 5.0.3
\* on; from 6.0 on it retries by default.)
Resend(c) ==
    /\ call[c].pc = "add"
    /\ AddNode(c)
    /\ Fault
    /\ UNCHANGED <<similar, call, queue, models>>
-----------------------------------------------------------------------------
(* The environment. *)

\* The process is killed and started again. Its calls fail, Redis keeps what it has.
Restart ==
    /\ call' = [c \in Calls |->
                   IF call[c].pc \in {"idle", "done"}
                     THEN call[c]
                     ELSE [call[c] EXCEPT !.pc = "done", !.ok = FALSE,
                              !.gate = IF @ = "waiting" THEN "gaveup" ELSE @]]
    /\ queue' = <<>>
    /\ models' = 0
    /\ Fault
    /\ UNCHANGED <<similar, redis>>

\* 24 hours without a new node.
WindowExpires(s) ==
    /\ window[s] # <<>>
    /\ window' = [window EXCEPT ![s] = <<>>]
    /\ forgotten' = [forgotten EXCEPT ![s] = Len(log[s])]
    /\ UNCHANGED <<similar, call, queue, models, flag, faults, log>>

\* An hour without a new flag.
FlagExpires(s) ==
    /\ flag[s]
    /\ flag' = [flag EXCEPT ![s] = FALSE]
    /\ UNCHANGED <<similar, call, queue, models, window, faults, log, forgotten>>
-----------------------------------------------------------------------------
Serve(c) ==
    Embed(c) \/ Load(c) \/ Read(c) \/ Add(c) \/ FlagCycle(c) \/ Reply(c)

Next ==
    \/ Start
    \/ \E c \in Calls : Submit(c) \/ GiveUp(c) \/ Serve(c) \/ Raise(c) \/ Resend(c)
    \/ \E s \in Sessions : WindowExpires(s) \/ FlagExpires(s)
    \/ Restart

Spec == Init /\ [][Next]_vars

\* The server's threads are scheduled, and Redis answers or its connection breaks:
\* grpc_server.py sets no timeout on it. Nothing is assumed of the gateway, of
\* expiry or of restarts.
Fairness == WF_vars(Start) /\ \A c \in Calls : WF_vars(Serve(c))

FairSpec == Spec /\ Fairness
-----------------------------------------------------------------------------
(* Properties. *)

TypeOK ==
    /\ similar \subseteq Calls \X Calls
    /\ call \in [Calls -> Call]
    /\ queue \in Seq(Calls)
    /\ models \in Nat
    /\ window \in [Sessions -> Seq(Calls)]
    /\ flag \in [Sessions -> BOOLEAN]
    /\ faults \in 0 .. MaxFaults
    /\ log \in [Sessions -> Seq(Calls)]
    /\ forgotten \in [Sessions -> Nat]

\* The sliding window of GraphStore: a session's list holds the newest WindowSize
\* responses since it last expired, oldest first, however the calls interleave,
\* whatever is raised and across restarts.
WindowIsRecent ==
    \A s \in Sessions :
        LET n == Len(window[s])
            kept == Len(log[s]) - forgotten[s]
        IN  /\ forgotten[s] <= Len(log[s])
            /\ n = IF kept < WindowSize THEN kept ELSE WindowSize
            /\ \A i \in 1 .. n : window[s][i] = log[s][Len(log[s]) - n + i]

\* A turn the gateway got a verdict on is compared with every later turn of its
\* session: if the two are similar, the later one finds a loop at most as long as
\* the distance between them, unless the earlier one has expired or has been
\* pushed out of the window by then.
AnsweredTurnsAreCompared ==
    \A d \in Calls : \A c \in call[d].after :
        (Answered(c) /\ call[d].compared /\ <<d, c>> \in similar) =>
            \E i \in 1 .. call[d].seen :
                /\ log[SessionOf[d]][i] = c
                /\ \/ i <= call[d].start
                   \/ i + WindowSize <= call[d].seen
                   \/ call[d].found \in 1 .. call[d].seen + 1 - i

\* A session is flagged, and kept from the cache for an hour, only if two similar
\* responses were added to it at least MinCycleLength nodes apart.
FlagIsJustified ==
    \A s \in Sessions :
        flag[s] => \E i, j \in 1 .. Len(log[s]) :
                       /\ i + MinCycleLength <= j
                       /\ <<log[s][j], log[s][i]>> \in similar

\* Every call that is made leaves its thread or the queue again, also when the
\* gateway has given it up: no thread of the pool is lost.
CallsEnd == \A c \in Calls : (call[c].pc = "queued") ~> (call[c].pc = "done")
=============================================================================
