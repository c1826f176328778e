-------------------------- MODULE ChatPipelineProofs --------------------------
(***************************************************************************)
(* Proofs about ChatPipeline, for any set of requests, sessions, prompts   *)
(* and answers, any bounds, and any choice of optional services.           *)
(***************************************************************************)
EXTENDS ChatPipeline, SequenceTheorems, TLAPS

-----------------------------------------------------------------------------
(* Sequences. *)

LEMMA AppendFacts ==
    ASSUME NEW S, NEW s \in Seq(S), NEW x \in S
    PROVE  /\ Append(s, x) \in Seq(S)
           /\ Len(s) \in Nat
           /\ Len(Append(s, x)) = Len(s) + 1
           /\ \A i \in 1 .. Len(s) : Append(s, x)[i] = s[i]
           /\ Append(s, x)[Len(s) + 1] = x
OBVIOUS

\* What LTRIM keeps is what was there.
LEMMA LastOfFacts ==
    ASSUME NEW S, NEW s \in Seq(S), NEW n \in Nat \ {0}
    PROVE  /\ LastOf(s, n) \in Seq(S)
           /\ Len(LastOf(s, n)) <= n
           /\ \A i \in 1 .. Len(LastOf(s, n)) :
                 \E j \in 1 .. Len(s) : LastOf(s, n)[i] = s[j]
<1> DEFINE m == IF Len(s) > n THEN Len(s) - n + 1 ELSE 1
<1>1. Len(s) \in Nat /\ m \in Nat /\ m >= 1 /\ m <= Len(s) + 1 /\ Len(s) - m + 1 <= n
    OBVIOUS
<1>2. \A i \in m .. Len(s) : s[i] \in S
    BY <1>1
<1>3. /\ SubSeq(s, m, Len(s)) \in Seq(S)
      /\ Len(SubSeq(s, m, Len(s))) = IF m <= Len(s) THEN Len(s) - m + 1 ELSE 0
      /\ \A i \in 1 .. Len(s) - m + 1 : SubSeq(s, m, Len(s))[i] = s[m + i - 1]
    <2> HIDE DEF m
    <2> QED
        BY <1>1, <1>2, SubSeqProperties
<1>4. LastOf(s, n) = SubSeq(s, m, Len(s))
    BY DEF LastOf
<1> HIDE DEF m
<1>5. ASSUME NEW i \in 1 .. Len(LastOf(s, n))
      PROVE  \E j \in 1 .. Len(s) : LastOf(s, n)[i] = s[j]
    <2>1. i \in 1 .. Len(s) - m + 1 /\ m + i - 1 \in 1 .. Len(s)
        BY <1>1, <1>3, <1>4
    <2> QED
        BY <2>1, <1>3, <1>4
<1> QED
    BY <1>1, <1>3, <1>4, <1>5

\* A response that is added n times.
LEMMA CopiesFacts ==
    ASSUME NEW S, NEW s \in Seq(S), NEW x \in S, NEW n \in Nat \ {0},
           NEW z, z = s \o [i \in 1 .. n |-> x]
    PROVE  /\ z \in Seq(S)
           /\ \A i \in 1 .. Len(z) : z[i] = x \/ \E j \in 1 .. Len(s) : z[i] = s[j]
           /\ n = 1 => z = Append(s, x)
<1> DEFINE copies == [i \in 1 .. n |-> x]
<1>1. copies \in Seq(S) /\ Len(copies) = n /\ \A i \in 1 .. n : copies[i] = x
    OBVIOUS
<1>2. n = 1 => copies = <<x>>
    OBVIOUS
<1>3. Len(s) \in Nat
    OBVIOUS
<1> HIDE DEF copies
<1>4. /\ z \in Seq(S) /\ Len(z) = Len(s) + n
      /\ \A i \in 1 .. Len(s) + n :
            z[i] = IF i <= Len(s) THEN s[i] ELSE copies[i - Len(s)]
    BY <1>1, ConcatProperties DEF copies
<1>5. ASSUME NEW i \in 1 .. Len(z)
      PROVE  z[i] = x \/ \E j \in 1 .. Len(s) : z[i] = s[j]
    <2>1. CASE i <= Len(s)
        BY <1>3, <1>4, <2>1
    <2>2. CASE i > Len(s)
        <3>1. i - Len(s) \in 1 .. n
            BY <1>3, <1>4, <2>2
        <3> QED
            BY <1>1, <1>3, <1>4, <2>2, <3>1
    <2> QED
        BY <1>3, <2>1, <2>2
<1>6. n = 1 => z = Append(s, x)
    BY <1>2, AppendIsConcat DEF copies
<1> QED
    BY <1>4, <1>5, <1>6

-----------------------------------------------------------------------------
(* The inductive invariant. *)

NoHint(s) == \A i \in 1 .. Len(s) : s[i].role # "system"

Ordered(ev) ==
    \A i \in 1 .. Len(ev) : Precedes(IF i = 1 THEN "none" ELSE ev[i - 1], ev[i])

LastEvent(ev) == IF ev = <<>> THEN "none" ELSE ev[Len(ev)]

\* What holds of one handler at each of its program points: which event it wrote
\* last, that nothing is answered or reported before the LLM was called, and that
\* a MISS has no cached answer in its context.
EventInv(c) ==
    /\ Ordered(c.events)
    /\ c.pc \in {"idle", "load", "append", "flag", "query", "hit", "call"}
          => c.events = <<>>
    /\ c.pc \in {"stream", "verdict"}
          => LastEvent(c.events) = IF c.reply.len > 0 THEN "token" ELSE "none"
    /\ c.pc = "verdict" => c.reply.len > 0
    /\ c.pc = "remediate" => LastEvent(c.events) = "loop_detected"
    /\ c.pc = "retry" => LastEvent(c.events) = "remediation"
    /\ c.pc = "retrying" => LastEvent(c.events) \in {"remediation", "correction"}
    /\ c.pc = "finish"
          => LastEvent(c.events) \in {"none", "token", "remediation", "correction"}

ResponseInv(c) ==
    /\ c.pc \in {"idle", "load", "append", "flag", "query", "call"} => c.reply.len = 0
    /\ c.pc \in {"idle", "load", "append", "flag", "query"} => c.tier = "MISS"
    /\ c.pc = "hit" => c.tier = "HIT"
    /\ c.pc \in {"verdict", "remediate", "retry", "retrying", "finish"} => c.usage > 0
    /\ (c.pc \in {"save", "write", "log"} /\ c.tier # "HIT") => c.usage > 0
    /\ c.tier = "MISS" => NoHint(c.context)

KeyInv(c) ==
    /\ c.seen <= Len(c.events)
    /\ c.pc \in {"idle", "load", "append"} => c.key \in Prompts

RequestInv(c) == EventInv(c) /\ ResponseInv(c) /\ KeyInv(c)

\* A cached or coming entry is settled: its request is past the write.
Settled(c) == c.pc \in {"log", "done"}

EntryInv(e, c) ==
    /\ Settled(c)
    /\ c.tier = "MISS" /\ c.usage > 0
    /\ e.text = c.reply /\ e.text.len > 0
    /\ c.retry.len = 0

GlobalTypes ==
    /\ history \in [Sessions -> Seq(Message)]
    /\ window \in [Sessions -> Seq([ans : Answers \cup {NoAnswer}, from : Requests])]
    /\ cycleflag \in [Sessions -> BOOLEAN]
    /\ entries \subseteq Entry
    /\ writes \subseteq Entry
    /\ rows \subseteq Row
    /\ faults \in 0 .. MaxFaults
    /\ flagged \subseteq Sessions \X (Answers \cup {NoAnswer})

RequestsInv ==
    /\ chat \in [Requests -> Chat]
    /\ \A r \in Requests : RequestInv(chat[r])

HistoryInv == \A s \in Sessions : NoHint(history[s])

CacheInv == \A e \in entries \cup writes : EntryInv(e, chat[e.from])

IInv == GlobalTypes /\ RequestsInv /\ HistoryInv /\ CacheInv

-----------------------------------------------------------------------------
(* A handler moves from chat[r] to c and disturbs nothing else. *)

\* Nothing about a settled request changes any more.
Stable(d, c) ==
    Settled(d) => /\ Settled(c)
                  /\ c.tier = d.tier /\ c.usage = d.usage
                  /\ c.reply = d.reply /\ c.retry = d.retry

LEMMA Moves ==
    ASSUME IInv, NEW r \in Requests, NEW c \in Chat,
           chat' = [chat EXCEPT ![r] = c], RequestInv(c), Stable(chat[r], c)
    PROVE  /\ RequestsInv'
           /\ \A e \in entries \cup writes : EntryInv(e, chat'[e.from])
<1>1. chat' \in [Requests -> Chat]
    BY DEF IInv, RequestsInv
<1>2. /\ chat'[r] = c
      /\ \A q \in Requests \ {r} : chat'[q] = chat[q]
    BY DEF IInv, RequestsInv
<1>3. \A q \in Requests : RequestInv(chat'[q])
    BY <1>2 DEF IInv, RequestsInv
<1>4. ASSUME NEW e \in entries \cup writes
      PROVE  EntryInv(e, chat'[e.from])
    <2>1. e.from \in Requests /\ EntryInv(e, chat[e.from])
        BY DEF IInv, GlobalTypes, CacheInv, Entry
    <2>2. CASE e.from = r
        BY <1>2, <2>1, <2>2 DEF EntryInv, Stable
    <2>3. CASE e.from # r
        BY <1>2, <2>1, <2>3
    <2> QED
        BY <2>2, <2>3
<1> QED
    BY <1>1, <1>3, <1>4 DEF RequestsInv

LEMMA OnlyChatMoves ==
    ASSUME IInv, NEW r \in Requests, NEW c \in Chat,
           chat' = [chat EXCEPT ![r] = c], RequestInv(c), Stable(chat[r], c),
           UNCHANGED <<history, detector, cache, rows>>, faults' \in 0 .. MaxFaults
    PROVE  IInv'
<1>1. RequestsInv' /\ \A e \in entries \cup writes : EntryInv(e, chat'[e.from])
    BY Moves
<1>2. GlobalTypes' /\ HistoryInv'
    BY DEF IInv, GlobalTypes, HistoryInv, detector, cache
<1>3. CacheInv'
    BY <1>1 DEF CacheInv, cache
<1> QED
    BY <1>1, <1>2, <1>3 DEF IInv

LEMMA FaultType ==
    ASSUME IInv, NEW r \in Requests
    PROVE  /\ Fault => faults' \in 0 .. MaxFaults
           /\ Fail(r) => faults' \in 0 .. MaxFaults
           /\ UNCHANGED faults => faults' \in 0 .. MaxFaults
BY BoundsAssumption DEF IInv, GlobalTypes, Fault, Fail
\* An event that may follow the last one keeps the events in order.
LEMMA EventFacts ==
    ASSUME NEW ev \in Seq(Event), NEW x \in Event,
           Ordered(ev), Precedes(LastEvent(ev), x)
    PROVE  /\ Append(ev, x) \in Seq(Event)
           /\ Len(Append(ev, x)) = Len(ev) + 1 /\ Len(ev) \in Nat
           /\ Ordered(Append(ev, x))
           /\ LastEvent(Append(ev, x)) = x
<1> DEFINE new == Append(ev, x)
<1>1. /\ new \in Seq(Event) /\ Len(ev) \in Nat /\ Len(new) = Len(ev) + 1
      /\ \A i \in 1 .. Len(ev) : new[i] = ev[i]
      /\ new[Len(ev) + 1] = x
    BY AppendFacts
<1> HIDE DEF new
<1>2. LastEvent(new) = x
    BY <1>1 DEF LastEvent
<1>3. ASSUME NEW i \in 1 .. Len(new)
      PROVE  Precedes(IF i = 1 THEN "none" ELSE new[i - 1], new[i])
    <2>1. CASE i \in 1 .. Len(ev)
        <3>1. new[i] = ev[i] /\ (i # 1 => new[i - 1] = ev[i - 1])
            BY <1>1, <2>1
        <3> QED
            BY <2>1, <3>1 DEF Ordered
    <2>2. CASE i = Len(ev) + 1
        <3>1. LastEvent(ev) = IF i = 1 THEN "none" ELSE new[i - 1]
            BY <1>1, <2>2 DEF LastEvent
        <3> QED
            BY <1>1, <2>2, <3>1
    <2> QED
        BY <1>1, <2>1, <2>2
<1> QED
    BY <1>1, <1>2, <1>3 DEF Ordered, new

\* Messages and texts are of their types.
LEMMA MessageFacts ==
    /\ Empty \in Text /\ Empty.len = 0
    /\ \A r \in Requests : User(r) \in Message /\ User(r).role # "system"
    /\ \A e \in Entry : Hint(e) \in Message
<1>1. Empty \in Text /\ Empty.len = 0
    BY BoundsAssumption DEF Empty, Text
<1>2. \A r \in Requests : User(r) \in Message /\ User(r).role # "system"
    BY <1>1 DEF User, Message
<1>3. \A e \in Entry : Hint(e) \in Message
    BY DEF Hint, Message, Entry
<1> QED
    BY <1>1, <1>2, <1>3

\* A longer text is a text, and not empty.
LEMMA LongerFacts ==
    ASSUME NEW t \in Text, t.len < MaxTokens, NEW u \in Longer(t)
    PROVE  u \in Text /\ u.len = t.len + 1 /\ t.len \in Nat
<1>1. PICK a \in (IF t.len = 0 THEN Answers ELSE {t.ans}) :
        u = [ans |-> a, len |-> t.len + 1]
    BY DEF Longer
<1>2. t.len \in 0 .. MaxTokens /\ t.ans \in Answers \cup {NoAnswer}
    BY DEF Text
<1>3. a \in Answers \cup {NoAnswer} /\ t.len + 1 \in 0 .. MaxTokens
    BY <1>1, <1>2, BoundsAssumption
<1> QED
    BY <1>1, <1>2, <1>3 DEF Text

\* Remembering a message of the conversation adds no hint to it.
LEMMA RememberFacts ==
    ASSUME NEW h \in Seq(Message), NEW m \in Message, NoHint(h), m.role # "system"
    PROVE  Remember(h, m) \in Seq(Message) /\ NoHint(Remember(h, m))
<1> DEFINE g == Append(h, m)
<1>1. /\ g \in Seq(Message) /\ Len(h) \in Nat /\ Len(g) = Len(h) + 1
      /\ \A i \in 1 .. Len(h) : g[i] = h[i]
      /\ g[Len(h) + 1] = m
    BY AppendFacts
<1> HIDE DEF g
<1>2. NoHint(g)
    BY <1>1 DEF NoHint
<1>3. /\ LastOf(g, MaxMessages) \in Seq(Message)
      /\ \A i \in 1 .. Len(LastOf(g, MaxMessages)) :
            \E j \in 1 .. Len(g) : LastOf(g, MaxMessages)[i] = g[j]
    <2>1. MaxMessages \in Nat \ {0}
        BY BoundsAssumption
    <2> QED
        BY <1>1, <2>1, LastOfFacts
<1> QED
    BY <1>2, <1>3 DEF NoHint, Remember, g

-----------------------------------------------------------------------------
(* One lemma per action. *)

\* What an action starts from.
LEMMA Here ==
    ASSUME IInv, NEW r \in Requests
    PROVE  /\ chat \in [Requests -> Chat]
           /\ chat[r] \in Chat /\ RequestInv(chat[r])
BY DEF IInv, RequestsInv

LEMMA Fields ==
    ASSUME IInv, NEW r \in Requests
    PROVE  /\ chat[r].events \in Seq(Event) /\ Len(chat[r].events) \in Nat
           /\ chat[r].seen \in Nat /\ chat[r].usage \in 0 .. 2
           /\ chat[r].reply \in Text /\ chat[r].retry \in Text
           /\ chat[r].session \in Sessions /\ chat[r].key \in Keys
           /\ chat[r].context \in Seq(Message)
BY Here DEF Chat

LEMMA RejectStep ==
    ASSUME IInv, NEW r \in Requests, Reject(r), ~Settled(chat[r]),
           UNCHANGED <<history, detector, cache, rows>>, faults' \in 0 .. MaxFaults
    PROVE  IInv'
<1>0. chat \in [Requests -> Chat] /\ chat[r] \in Chat /\ RequestInv(chat[r])
    BY Here
<1> DEFINE x == <<"reject">>
           c == [chat[r] EXCEPT !.pc = "done", !.events = x, !.seen = 1]
<1>1. "done" \in PC /\ x \in Seq(Event) /\ Len(x) = 1
    BY DEF PC, Event
<1>7. Ordered(x)
    <2>1. \A i \in 1 .. 1 : i = 1
        OBVIOUS
    <2>2. x[1] = "reject" /\ Precedes("none", "reject")
        BY DEF Precedes
    <2> QED
        BY <1>1, <2>1, <2>2 DEF Ordered
<1>2. chat' = [chat EXCEPT ![r].pc = "done", ![r].events = x, ![r].seen = 1]
    BY DEF Reject
<1> HIDE DEF x
<1>3. c \in Chat
    BY <1>0, <1>1 DEF Chat
<1>4. chat' = [chat EXCEPT ![r] = c]
    BY <1>0, <1>2
<1>8. /\ c.pc = "done" /\ c.events = x /\ c.seen = 1
      /\ c.tier = chat[r].tier /\ c.context = chat[r].context
    BY <1>0 DEF Chat
<1>5. RequestInv(c)
    <2> HIDE DEF c
    <2>1. ResponseInv(c)
        BY <1>0, <1>8 DEF RequestInv, ResponseInv
    <2>2. KeyInv(c)
        <3>1. Len(c.events) = 1
            BY <1>1, <1>8
        <3> QED
            BY <3>1, <1>8 DEF KeyInv
    <2>3. Ordered(c.events)
        BY <1>7, <1>8
    <2>4. EventInv(c)
        BY <2>3, <1>8 DEF EventInv
    <2> QED
        BY <2>1, <2>2, <2>4 DEF RequestInv
<1>6. Stable(chat[r], c)
    BY DEF Stable
<1> HIDE DEF c
<1> QED
    BY <1>3, <1>4, <1>5, <1>6, OnlyChatMoves

\* A step that only moves the program counter.
LEMMA PcStep ==
    ASSUME IInv, NEW r \in Requests, NEW pc \in PC,
           chat' = [chat EXCEPT ![r].pc = pc], ~Settled(chat[r]),
           RequestInv([chat[r] EXCEPT !.pc = pc]),
           UNCHANGED <<history, detector, cache, rows>>, faults' \in 0 .. MaxFaults
    PROVE  IInv'
<1>0. chat \in [Requests -> Chat] /\ chat[r] \in Chat /\ RequestInv(chat[r])
    BY Here
<1> DEFINE c == [chat[r] EXCEPT !.pc = pc]
<1>1. c \in Chat /\ chat' = [chat EXCEPT ![r] = c]
    BY <1>0 DEF Chat
<1>2. Stable(chat[r], c)
    BY DEF Stable
<1> HIDE DEF c
<1> QED
    BY <1>1, <1>2, OnlyChatMoves DEF c

LEMMA ArriveStep ==
    ASSUME IInv, NEW r \in Requests, Arrive(r)
    PROVE  IInv'
<1>0. chat \in [Requests -> Chat] /\ chat[r] \in Chat /\ RequestInv(chat[r])
    BY Here
<1>1. chat[r].pc = "idle" /\ ~Settled(chat[r])
    BY DEF Arrive, At, Settled
<1>2. faults' \in 0 .. MaxFaults /\ UNCHANGED <<history, detector, cache, rows>>
    BY FaultType DEF Arrive
<1>3. CASE Reject(r)
    BY <1>1, <1>2, <1>3, RejectStep
<1>4. CASE ~Reject(r)
    <2> DEFINE a == {q \in Requests \ {r} :
                       /\ chat[q].session = chat[r].session
                       /\ \E i \in 1 .. chat[q].seen : chat[q].events[i] = "final"}
               c == [chat[r] EXCEPT !.pc = "load", !.after = a]
    <2>1. "load" \in PC /\ a \in SUBSET Requests
        BY DEF PC
    <2>2. chat' = [chat EXCEPT ![r].pc = "load", ![r].after = a]
        BY <1>4 DEF Arrive
    <2> HIDE DEF a
    <2>3. c \in Chat
        BY <1>0, <2>1 DEF Chat
    <2>6. chat' = [chat EXCEPT ![r] = c]
        BY <1>0, <2>2
    <2>4. RequestInv(c)
        BY <1>0, <1>1 DEF Chat, RequestInv, EventInv, ResponseInv, KeyInv
    <2>5. Stable(chat[r], c)
        BY <1>1 DEF Stable
    <2> HIDE DEF c
    <2> QED
        BY <1>2, <2>3, <2>4, <2>5, <2>6, OnlyChatMoves
<1> QED
    BY <1>3, <1>4

LEMMA GetHistoryStep ==
    ASSUME IInv, NEW r \in Requests, GetHistory(r)
    PROVE  IInv'
<1>0. chat \in [Requests -> Chat] /\ chat[r] \in Chat /\ RequestInv(chat[r])
    BY Here
<1>1. chat[r].pc = "load" /\ ~Settled(chat[r])
    BY DEF GetHistory, At, Settled
<1>2. faults' \in 0 .. MaxFaults /\ UNCHANGED <<history, detector, cache, rows>>
    BY FaultType DEF GetHistory
<1>3. CASE Reject(r)
    BY <1>1, <1>2, <1>3, RejectStep
<1>4. CASE ~Reject(r)
    <2> DEFINE h == history[chat[r].session]
               x == Append(h, User(r))
               c == [chat[r] EXCEPT !.pc = "append", !.context = x]
    <2>1. h \in Seq(Message) /\ NoHint(h)
        <3>1. chat[r].session \in Sessions
            BY Fields
        <3> QED
            BY <3>1 DEF IInv, GlobalTypes, HistoryInv
    <2>2. chat' = [chat EXCEPT ![r].pc = "append", ![r].context = x]
        BY <1>4 DEF GetHistory
    <2> HIDE DEF h
    <2>3. /\ x \in Seq(Message) /\ Len(h) \in Nat /\ Len(x) = Len(h) + 1
          /\ \A i \in 1 .. Len(h) : x[i] = h[i]
          /\ x[Len(h) + 1] = User(r)
        BY <2>1, MessageFacts, AppendFacts
    <2> HIDE DEF x
    <2>4. "append" \in PC /\ x \in Seq(Message) /\ NoHint(x)
        BY <2>1, <2>3, MessageFacts DEF PC, NoHint
    <2>5. c \in Chat
        BY <1>0, <2>4 DEF Chat
    <2>8. chat' = [chat EXCEPT ![r] = c]
        BY <1>0, <2>2
    <2>6. RequestInv(c)
        BY <1>0, <1>1, <2>4 DEF Chat, RequestInv, EventInv, ResponseInv, KeyInv
    <2>7. Stable(chat[r], c)
        BY <1>1 DEF Stable
    <2> HIDE DEF c
    <2> QED
        BY <1>2, <2>5, <2>6, <2>7, <2>8, OnlyChatMoves
<1> QED
    BY <1>3, <1>4

LEMMA AppendUserStep ==
    ASSUME IInv, NEW r \in Requests, AppendUser(r)
    PROVE  IInv'
<1>0. chat \in [Requests -> Chat] /\ chat[r] \in Chat /\ RequestInv(chat[r])
    BY Here
<1>1. /\ chat[r].pc = "append" /\ ~Settled(chat[r])
      /\ UNCHANGED <<detector, cache, rows>>
    BY DEF AppendUser, At, Settled
<1>2. faults' \in 0 .. MaxFaults
    BY FaultType DEF AppendUser
<1>3. PICK k \in {chat[r].key} \cup
                  (IF "pruning" \in Clients THEN {PruneOf[chat[r].key]} ELSE {}) :
        chat' = [chat EXCEPT ![r].pc = "flag", ![r].key = k]
    BY DEF AppendUser
<1> DEFINE c == [chat[r] EXCEPT !.pc = "flag", !.key = k]
<1>4. "flag" \in PC /\ k \in Keys
    BY <1>0, <1>1, PromptsAssumption DEF PC, RequestInv, KeyInv
<1>5. c \in Chat /\ chat' = [chat EXCEPT ![r] = c]
    BY <1>0, <1>3, <1>4 DEF Chat
<1>6. RequestInv(c)
    BY <1>0, <1>1 DEF Chat, RequestInv, EventInv, ResponseInv, KeyInv
<1>7. Stable(chat[r], c)
    BY <1>1 DEF Stable
<1> HIDE DEF c
<1>8. RequestsInv' /\ CacheInv'
    BY <1>1, <1>5, <1>6, <1>7, Moves DEF CacheInv, cache
<1>9. history' \in [Sessions -> Seq(Message)] /\ HistoryInv'
    <2>1. CASE UNCHANGED history
        BY <2>1 DEF IInv, GlobalTypes, HistoryInv
    <2>2. CASE history' = [history EXCEPT ![chat[r].session] = Remember(@, User(r))]
        <3>1. \A s \in Sessions : /\ history[s] \in Seq(Message) /\ NoHint(history[s])
            BY DEF IInv, GlobalTypes, HistoryInv
        <3>2. \A s \in Sessions : /\ Remember(history[s], User(r)) \in Seq(Message)
                                  /\ NoHint(Remember(history[s], User(r)))
            BY <3>1, MessageFacts, RememberFacts
        <3> QED
            BY <2>2, <3>1, <3>2 DEF IInv, GlobalTypes, HistoryInv
    <2> QED
        BY <2>1, <2>2 DEF AppendUser
<1> QED
    BY <1>1, <1>2, <1>8, <1>9 DEF IInv, GlobalTypes, detector, cache

LEMMA SessionHadCycleStep ==
    ASSUME IInv, NEW r \in Requests, SessionHadCycle(r)
    PROVE  IInv'
<1>0. chat \in [Requests -> Chat] /\ chat[r] \in Chat /\ RequestInv(chat[r])
    BY Here
<1>1. chat[r].pc = "flag" /\ ~Settled(chat[r])
    BY DEF SessionHadCycle, At, Settled
<1>2. faults' \in 0 .. MaxFaults /\ UNCHANGED <<history, detector, cache, rows>>
    BY FaultType DEF SessionHadCycle
<1>3. PICK pc \in {"call", "query"} : chat' = [chat EXCEPT ![r].pc = pc]
    BY DEF SessionHadCycle
<1>4. pc \in PC
    BY DEF PC
<1>5. RequestInv([chat[r] EXCEPT !.pc = pc])
    BY <1>0, <1>1 DEF Chat, RequestInv, EventInv, ResponseInv, KeyInv
<1> QED
    BY <1>1, <1>2, <1>3, <1>4, <1>5, PcStep

LEMMA QueryCacheStep ==
    ASSUME IInv, NEW r \in Requests, QueryCache(r)
    PROVE  IInv'
<1>0. chat \in [Requests -> Chat] /\ chat[r] \in Chat /\ RequestInv(chat[r])
    BY Here
<1>1. chat[r].pc = "query" /\ ~Settled(chat[r])
    BY DEF QueryCache, At, Settled
<1>2. faults' \in 0 .. MaxFaults /\ UNCHANGED <<history, detector, cache, rows>>
    BY FaultType DEF QueryCache
<1>3. CASE chat' = [chat EXCEPT ![r].pc = "call"]
    <2>1. "call" \in PC
        BY DEF PC
    <2>2. RequestInv([chat[r] EXCEPT !.pc = "call"])
        BY <1>0, <1>1 DEF Chat, RequestInv, EventInv, ResponseInv, KeyInv
    <2> QED
        BY <1>1, <1>2, <1>3, <2>1, <2>2, PcStep
<1>4. CASE chat' # [chat EXCEPT ![r].pc = "call"]
    <2>1. PICK e \in Nearest(chat[r].key) :
            LET tier == Closeness[<<chat[r].key, e.key>>] IN
            chat' = [chat EXCEPT ![r].tier = tier,
               ![r].pc = IF tier = "HIT" THEN "hit" ELSE "call",
               ![r].reply = IF tier = "HIT" THEN e.text ELSE @,
               ![r].context = IF tier = "FEW_SHOT" THEN <<Hint(e)>> \o @ ELSE @]
        BY <1>4 DEF QueryCache
    <2> DEFINE tier == Closeness[<<chat[r].key, e.key>>]
               pc   == IF tier = "HIT" THEN "hit" ELSE "call"
               t    == IF tier = "HIT" THEN e.text ELSE chat[r].reply
               x    == IF tier = "FEW_SHOT" THEN <<Hint(e)>> \o chat[r].context
                       ELSE chat[r].context
               c    == [chat[r] EXCEPT !.tier = tier, !.pc = pc, !.reply = t,
                                       !.context = x]
    <2>2. e \in Entry
        BY DEF IInv, GlobalTypes, Nearest
    <2>3. e.text \in Text /\ e.key \in Keys
        BY <2>2 DEF Entry
    <2>4. chat[r].key \in Keys /\ chat[r].reply \in Text /\ chat[r].context \in Seq(Message)
        BY Fields
    <2>5. tier \in {"HIT", "FEW_SHOT", "MISS"}
        BY <2>3, <2>4, PromptsAssumption
    <2>6. chat' = [chat EXCEPT ![r].tier = tier, ![r].pc = pc, ![r].reply = t,
                               ![r].context = x]
        BY <1>0, <2>1
    <2> HIDE DEF tier
    <2>7. pc \in PC /\ t \in Text
        BY <2>3, <2>4 DEF PC
    <2>8. x \in Seq(Message)
        <3>1. Hint(e) \in Message
            BY <2>2, MessageFacts
        <3>2. <<Hint(e)>> \in Seq(Message)
            BY <3>1
        <3>3. <<Hint(e)>> \o chat[r].context \in Seq(Message)
            BY <2>4, <3>2, ConcatProperties
        <3> QED
            BY <2>4, <3>3
    <2>9. tier = "MISS" => x = chat[r].context
        OBVIOUS
    <2>10. /\ tier = "HIT" => pc = "hit"
           /\ tier # "HIT" => pc = "call" /\ t = chat[r].reply
        OBVIOUS
    <2> HIDE DEF pc, t, x
    <2>11. c \in Chat
        BY <1>0, <2>5, <2>7, <2>8 DEF Chat
    <2>12. chat' = [chat EXCEPT ![r] = c]
        BY <1>0, <2>6
    <2>13. /\ c.pc = pc /\ c.tier = tier /\ c.reply = t /\ c.context = x
           /\ c.events = chat[r].events /\ c.seen = chat[r].seen
        BY <1>0 DEF Chat
    <2>14. chat[r].tier = "MISS"
        BY <1>0, <1>1 DEF RequestInv, ResponseInv
    <2> HIDE DEF c
    <2>15. RequestInv(c)
        BY <1>0, <1>1, <2>5, <2>9, <2>10, <2>13, <2>14
        DEF RequestInv, EventInv, ResponseInv, KeyInv
    <2>16. Stable(chat[r], c)
        BY <1>1 DEF Stable
    <2> QED
        BY <1>2, <2>11, <2>12, <2>15, <2>16, OnlyChatMoves
<1> QED
    BY <1>3, <1>4

LEMMA ServeHitStep ==
    ASSUME IInv, NEW r \in Requests, ServeHit(r)
    PROVE  IInv'
<1>0. chat \in [Requests -> Chat] /\ chat[r] \in Chat /\ RequestInv(chat[r])
    BY Here
<1>1. chat[r].pc = "hit" /\ ~Settled(chat[r]) /\ "save" \in PC
    BY DEF ServeHit, At, Settled, PC
<1>2. faults' \in 0 .. MaxFaults /\ UNCHANGED <<history, detector, cache, rows>>
    BY FaultType DEF ServeHit
<1>3. CASE chat' = [chat EXCEPT ![r].pc = "save"]
    <2>1. RequestInv([chat[r] EXCEPT !.pc = "save"])
        BY <1>0, <1>1 DEF Chat, RequestInv, EventInv, ResponseInv, KeyInv
    <2> QED
        BY <1>1, <1>2, <1>3, <2>1, PcStep
<1>4. CASE chat' # [chat EXCEPT ![r].pc = "save"]
    <2> DEFINE x == <<"token", "final">>
               c == [chat[r] EXCEPT !.pc = "save", !.events = x, !.seen = 2]
    <2>1. x \in Seq(Event) /\ Len(x) = 2 /\ x[1] = "token" /\ x[2] = "final"
        BY DEF Event
    <2>2. Ordered(x)
        <3>1. Precedes("none", "token") /\ Precedes("token", "final")
            BY DEF Precedes
        <3>2. \A i \in 1 .. 2 : i = 1 \/ i = 2
            OBVIOUS
        <3> QED
            BY <2>1, <3>1, <3>2 DEF Ordered
    <2>3. chat' = [chat EXCEPT ![r].pc = "save", ![r].events = x, ![r].seen = 2]
        BY <1>4 DEF ServeHit
    <2> HIDE DEF x
    <2>4. c \in Chat
        BY <1>0, <1>1, <2>1 DEF Chat
    <2>5. chat' = [chat EXCEPT ![r] = c]
        BY <1>0, <2>3
    <2>6. /\ c.pc = "save" /\ c.events = x /\ c.seen = 2
          /\ c.tier = chat[r].tier /\ c.context = chat[r].context
        BY <1>0 DEF Chat
    <2> HIDE DEF c
    <2>7. RequestInv(c)
        <3>1. Len(c.events) = 2 /\ Ordered(c.events)
            BY <2>1, <2>2, <2>6
        <3> QED
            BY <1>0, <1>1, <2>6, <3>1 DEF RequestInv, EventInv, ResponseInv, KeyInv
    <2>8. Stable(chat[r], c)
        BY <1>1 DEF Stable
    <2> QED
        BY <1>2, <2>4, <2>5, <2>7, <2>8, OnlyChatMoves
<1> QED
    BY <1>3, <1>4

LEMMA CallLLMStep ==
    ASSUME IInv, NEW r \in Requests, CallLLM(r)
    PROVE  IInv'
<1>0. chat \in [Requests -> Chat] /\ chat[r] \in Chat /\ RequestInv(chat[r])
    BY Here
<1>1. chat[r].pc = "call" /\ ~Settled(chat[r]) /\ "stream" \in PC
    BY DEF CallLLM, At, Settled, PC
<1>2. faults' \in 0 .. MaxFaults /\ UNCHANGED <<history, detector, cache, rows>>
    BY FaultType DEF CallLLM
<1>3. CASE Reject(r)
    BY <1>1, <1>2, <1>3, RejectStep
<1>4. CASE ~Reject(r)
    <2>1. PICK m \in Model : chat' = [chat EXCEPT ![r].pc = "stream", ![r].model = m]
        BY <1>4 DEF CallLLM
    <2> DEFINE c == [chat[r] EXCEPT !.pc = "stream", !.model = m]
    <2>2. c \in Chat
        BY <1>0, <1>1 DEF Chat
    <2>3. chat' = [chat EXCEPT ![r] = c]
        BY <1>0, <2>1
    <2>4. /\ c.pc = "stream" /\ c.tier = chat[r].tier /\ c.context = chat[r].context
          /\ c.events = chat[r].events /\ c.seen = chat[r].seen
          /\ c.reply = chat[r].reply
        BY <1>0 DEF Chat
    <2> HIDE DEF c
    <2>5. RequestInv(c)
        BY <1>0, <1>1, <2>4
        DEF RequestInv, EventInv, ResponseInv, KeyInv, LastEvent
    <2>6. Stable(chat[r], c)
        BY <1>1 DEF Stable
    <2> QED
        BY <1>2, <2>2, <2>3, <2>5, <2>6, OnlyChatMoves
<1> QED
    BY <1>3, <1>4

LEMMA StreamTokenStep ==
    ASSUME IInv, NEW r \in Requests, StreamToken(r)
    PROVE  IInv'
<1>0. chat \in [Requests -> Chat] /\ chat[r] \in Chat /\ RequestInv(chat[r])
    BY Here
<1>1. chat[r].pc = "stream" /\ ~Settled(chat[r])
    BY DEF StreamToken, At, Settled
<1>2. faults' \in 0 .. MaxFaults /\ UNCHANGED <<history, detector, cache, rows>>
    BY FaultType DEF StreamToken
<1>3. PICK t \in Longer(chat[r].reply) :
        chat' = [chat EXCEPT ![r].reply = t, ![r].events = Append(@, "token"),
                             ![r].seen = @ + 1]
    BY DEF StreamToken
<1>4. /\ chat[r].reply \in Text /\ chat[r].reply.len < MaxTokens
      /\ chat[r].seen \in Nat /\ chat[r].events \in Seq(Event)
    BY Fields DEF StreamToken
<1>5. t \in Text /\ t.len > 0
    BY <1>3, <1>4, LongerFacts
<1> DEFINE x == Append(chat[r].events, "token")
           n == chat[r].seen + 1
           c == [chat[r] EXCEPT !.reply = t, !.events = x, !.seen = n]
<1>6. "token" \in Event /\ Precedes(LastEvent(chat[r].events), "token")
    BY <1>0, <1>1 DEF Event, Precedes, RequestInv, EventInv
<1>7. /\ x \in Seq(Event) /\ n \in Nat
      /\ Len(x) = Len(chat[r].events) + 1 /\ Len(chat[r].events) \in Nat
      /\ Ordered(x) /\ LastEvent(x) = "token"
    BY <1>0, <1>4, <1>6, EventFacts DEF RequestInv, EventInv
<1>8. chat' = [chat EXCEPT ![r].reply = t, ![r].events = x, ![r].seen = n]
    BY <1>0, <1>3
<1>9. n <= Len(x)
    BY <1>0, <1>4, <1>7 DEF RequestInv, KeyInv
<1> HIDE DEF x, n
<1>10. c \in Chat
    BY <1>0, <1>5, <1>7 DEF Chat
<1>11. chat' = [chat EXCEPT ![r] = c]
    BY <1>0, <1>8
<1>12. /\ c.pc = "stream" /\ c.tier = chat[r].tier /\ c.context = chat[r].context
       /\ c.events = x /\ c.seen = n /\ c.reply = t
    BY <1>0, <1>1 DEF Chat
<1> HIDE DEF c
<1>13. RequestInv(c)
    <2>1. c.seen <= Len(c.events) /\ Ordered(c.events) /\ LastEvent(c.events) = "token"
        BY <1>7, <1>9, <1>12
    <2> QED
        BY <1>0, <1>5, <1>12, <2>1 DEF RequestInv, EventInv, ResponseInv, KeyInv
<1>14. Stable(chat[r], c)
    BY <1>1 DEF Stable
<1> QED
    BY <1>2, <1>10, <1>11, <1>13, <1>14, OnlyChatMoves

LEMMA StreamErrorStep ==
    ASSUME IInv, NEW r \in Requests, StreamError(r)
    PROVE  IInv'
<1>0. chat \in [Requests -> Chat] /\ chat[r] \in Chat /\ RequestInv(chat[r])
    BY Here
<1>1. chat[r].pc = "stream" /\ ~Settled(chat[r]) /\ "done" \in PC
    BY DEF StreamError, At, Settled, PC
<1>2. faults' \in 0 .. MaxFaults /\ UNCHANGED <<history, detector, cache, rows>>
    BY FaultType DEF StreamError
<1>3. chat[r].seen \in Nat /\ chat[r].events \in Seq(Event)
    BY Fields
<1> DEFINE x == Append(chat[r].events, "error")
           n == chat[r].seen + 1
           c == [chat[r] EXCEPT !.pc = "done", !.events = x, !.seen = n]
<1>4. "error" \in Event /\ Precedes(LastEvent(chat[r].events), "error")
    BY <1>0, <1>1 DEF Event, Precedes, RequestInv, EventInv
<1>5. /\ x \in Seq(Event) /\ n \in Nat
      /\ Len(x) = Len(chat[r].events) + 1 /\ Len(chat[r].events) \in Nat
      /\ Ordered(x)
    BY <1>0, <1>3, <1>4, EventFacts DEF RequestInv, EventInv
<1>6. chat' = [chat EXCEPT ![r].pc = "done", ![r].events = x, ![r].seen = n]
    BY <1>0 DEF StreamError
<1>7. n <= Len(x)
    BY <1>0, <1>3, <1>5 DEF RequestInv, KeyInv
<1> HIDE DEF x, n
<1>8. c \in Chat
    BY <1>0, <1>1, <1>5 DEF Chat
<1>9. chat' = [chat EXCEPT ![r] = c]
    BY <1>0, <1>6
<1>10. /\ c.pc = "done" /\ c.tier = chat[r].tier /\ c.context = chat[r].context
       /\ c.events = x /\ c.seen = n
    BY <1>0 DEF Chat
<1> HIDE DEF c
<1>11. RequestInv(c)
    <2>1. c.seen <= Len(c.events) /\ Ordered(c.events)
        BY <1>5, <1>7, <1>10
    <2> QED
        BY <1>0, <1>10, <2>1 DEF RequestInv, EventInv, ResponseInv, KeyInv
<1>12. Stable(chat[r], c)
    BY <1>1 DEF Stable
<1> QED
    BY <1>2, <1>8, <1>9, <1>11, <1>12, OnlyChatMoves

LEMMA ClientGoneStep ==
    ASSUME IInv, NEW r \in Requests, ClientGone(r)
    PROVE  IInv'
<1>0. chat \in [Requests -> Chat] /\ chat[r] \in Chat /\ RequestInv(chat[r])
    BY Here
<1>1. /\ chat[r].pc = "stream" /\ ~Settled(chat[r]) /\ "done" \in PC
      /\ chat' = [chat EXCEPT ![r].pc = "done"]
    BY DEF ClientGone, At, Settled, PC
<1>2. faults' \in 0 .. MaxFaults /\ UNCHANGED <<history, detector, cache, rows>>
    BY FaultType DEF ClientGone
<1>3. RequestInv([chat[r] EXCEPT !.pc = "done"])
    BY <1>0, <1>1 DEF Chat, RequestInv, EventInv, ResponseInv, KeyInv
<1> QED
    BY <1>1, <1>2, <1>3, PcStep

LEMMA StreamEndStep ==
    ASSUME IInv, NEW r \in Requests, StreamEnd(r)
    PROVE  IInv'
<1>0. chat \in [Requests -> Chat] /\ chat[r] \in Chat /\ RequestInv(chat[r])
    BY Here
<1>1. chat[r].pc = "stream" /\ ~Settled(chat[r])
    BY DEF StreamEnd, At, Settled
<1>2. faults' \in 0 .. MaxFaults /\ UNCHANGED <<history, detector, cache, rows>>
    BY FaultType DEF StreamEnd
<1> DEFINE pc == IF Checked(chat[r]) THEN "verdict" ELSE "finish"
           k  == IF Checked(chat[r]) THEN "asked" ELSE "none"
           u  == 1
           c  == [chat[r] EXCEPT !.usage = u, !.pc = pc, !.check = k]
<1>3. chat' = [chat EXCEPT ![r].usage = u, ![r].pc = pc, ![r].check = k]
    BY DEF StreamEnd
<1>4. /\ pc \in PC /\ u \in 0 .. 2 /\ u > 0 /\ k \in {"none", "asked", "PASS", "REMEDIATE"}
      /\ pc \in {"verdict", "finish"}
      /\ pc = "verdict" => chat[r].reply.len > 0
    BY DEF PC, Checked
<1> HIDE DEF pc, k, u
<1>5. c \in Chat
    BY <1>0, <1>4 DEF Chat
<1>6. chat' = [chat EXCEPT ![r] = c]
    BY <1>0, <1>3
<1>7. /\ c.pc = pc /\ c.tier = chat[r].tier /\ c.context = chat[r].context
      /\ c.events = chat[r].events /\ c.seen = chat[r].seen
      /\ c.usage = u /\ c.reply = chat[r].reply
    BY <1>0 DEF Chat
<1> HIDE DEF c
<1>8. RequestInv(c)
    BY <1>0, <1>1, <1>4, <1>7 DEF RequestInv, EventInv, ResponseInv, KeyInv
<1>9. Stable(chat[r], c)
    BY <1>1 DEF Stable
<1> QED
    BY <1>2, <1>5, <1>6, <1>8, <1>9, OnlyChatMoves

LEMMA CheckReturnsStep ==
    ASSUME IInv, NEW r \in Requests, CheckReturns(r)
    PROVE  IInv'
<1>0. chat \in [Requests -> Chat] /\ chat[r] \in Chat /\ RequestInv(chat[r])
    BY Here
<1>1. /\ chat[r].pc = "verdict" /\ ~Settled(chat[r])
      /\ "remediate" \in PC /\ "finish" \in PC
    BY DEF CheckReturns, At, Settled, PC
<1>2. faults' \in 0 .. MaxFaults /\ UNCHANGED <<history, detector, cache, rows>>
    BY FaultType DEF CheckReturns
<1>3. CASE chat' = [chat EXCEPT ![r].pc = "finish"]
    <2>1. RequestInv([chat[r] EXCEPT !.pc = "finish"])
        BY <1>0, <1>1 DEF Chat, RequestInv, EventInv, ResponseInv, KeyInv
    <2> QED
        BY <1>1, <1>2, <1>3, <2>1, PcStep
<1>4. CASE chat' # [chat EXCEPT ![r].pc = "finish"]
    <2>1. chat[r].seen \in Nat /\ chat[r].events \in Seq(Event)
        BY Fields
    <2> DEFINE x == Append(chat[r].events, "loop_detected")
               c == [chat[r] EXCEPT !.pc = "remediate", !.events = x]
    <2>2. "loop_detected" \in Event /\ Precedes(LastEvent(chat[r].events), "loop_detected")
        BY <1>0, <1>1 DEF Event, Precedes, RequestInv, EventInv
    <2>3. /\ x \in Seq(Event)
          /\ Len(x) = Len(chat[r].events) + 1 /\ Len(chat[r].events) \in Nat
          /\ Ordered(x) /\ LastEvent(x) = "loop_detected"
        BY <1>0, <2>1, <2>2, EventFacts DEF RequestInv, EventInv
    <2>4. chat' = [chat EXCEPT ![r].pc = "remediate", ![r].events = x]
        BY <1>0, <1>4 DEF CheckReturns
    <2>5. chat[r].seen <= Len(x)
        BY <1>0, <2>1, <2>3 DEF RequestInv, KeyInv
    <2> HIDE DEF x
    <2>6. c \in Chat
        BY <1>0, <1>1, <2>3 DEF Chat
    <2>7. chat' = [chat EXCEPT ![r] = c]
        BY <1>0, <2>4
    <2>8. /\ c.pc = "remediate" /\ c.tier = chat[r].tier /\ c.context = chat[r].context
          /\ c.events = x /\ c.seen = chat[r].seen /\ c.usage = chat[r].usage
        BY <1>0 DEF Chat
    <2> HIDE DEF c
    <2>9. RequestInv(c)
        <3>1. /\ c.seen <= Len(c.events) /\ Ordered(c.events)
              /\ LastEvent(c.events) = "loop_detected"
            BY <2>3, <2>5, <2>8
        <3> QED
            BY <1>0, <1>1, <2>8, <3>1 DEF RequestInv, EventInv, ResponseInv, KeyInv
    <2>10. Stable(chat[r], c)
        BY <1>1 DEF Stable
    <2> QED
        BY <1>2, <2>6, <2>7, <2>9, <2>10, OnlyChatMoves
<1> QED
    BY <1>3, <1>4

LEMMA RemediateStep ==
    ASSUME IInv, NEW r \in Requests, Remediate(r)
    PROVE  IInv'
<1>0. chat \in [Requests -> Chat] /\ chat[r] \in Chat /\ RequestInv(chat[r])
    BY Here
<1>1. chat[r].pc = "remediate" /\ ~Settled(chat[r]) /\ "retry" \in PC
    BY DEF Remediate, At, Settled, PC
<1>2. faults' \in 0 .. MaxFaults /\ UNCHANGED <<history, detector, cache, rows>>
    BY FaultType DEF Remediate
<1>3. PICK m \in Model :
        chat' = [chat EXCEPT ![r].pc = "retry", ![r].newModel = m,
                             ![r].events = Append(@, "remediation")]
    BY DEF Remediate
<1>4. chat[r].seen \in Nat /\ chat[r].events \in Seq(Event)
    BY Fields
<1> DEFINE x == Append(chat[r].events, "remediation")
           c == [chat[r] EXCEPT !.pc = "retry", !.newModel = m, !.events = x]
<1>5. "remediation" \in Event /\ Precedes(LastEvent(chat[r].events), "remediation")
    BY <1>0, <1>1 DEF Event, Precedes, RequestInv, EventInv
<1>6. /\ x \in Seq(Event)
      /\ Len(x) = Len(chat[r].events) + 1 /\ Len(chat[r].events) \in Nat
      /\ Ordered(x) /\ LastEvent(x) = "remediation"
    BY <1>0, <1>4, <1>5, EventFacts DEF RequestInv, EventInv
<1>7. chat' = [chat EXCEPT ![r].pc = "retry", ![r].newModel = m, ![r].events = x]
    BY <1>0, <1>3
<1>8. chat[r].seen <= Len(x)
    BY <1>0, <1>4, <1>6 DEF RequestInv, KeyInv
<1> HIDE DEF x
<1>9. c \in Chat
    BY <1>0, <1>1, <1>6 DEF Chat
<1>10. chat' = [chat EXCEPT ![r] = c]
    BY <1>0, <1>7
<1>11. /\ c.pc = "retry" /\ c.tier = chat[r].tier /\ c.context = chat[r].context
       /\ c.events = x /\ c.seen = chat[r].seen /\ c.usage = chat[r].usage
    BY <1>0 DEF Chat
<1> HIDE DEF c
<1>12. RequestInv(c)
    <2>1. /\ c.seen <= Len(c.events) /\ Ordered(c.events)
          /\ LastEvent(c.events) = "remediation"
        BY <1>6, <1>8, <1>11
    <2> QED
        BY <1>0, <1>1, <1>11, <2>1 DEF RequestInv, EventInv, ResponseInv, KeyInv
<1>13. Stable(chat[r], c)
    BY <1>1 DEF Stable
<1> QED
    BY <1>2, <1>9, <1>10, <1>12, <1>13, OnlyChatMoves

LEMMA RetryCallStep ==
    ASSUME IInv, NEW r \in Requests, RetryCall(r)
    PROVE  IInv'
<1>0. chat \in [Requests -> Chat] /\ chat[r] \in Chat /\ RequestInv(chat[r])
    BY Here
<1>1. chat[r].pc = "retry" /\ ~Settled(chat[r])
    BY DEF RetryCall, At, Settled
<1>2. faults' \in 0 .. MaxFaults /\ UNCHANGED <<history, detector, cache, rows>>
    BY FaultType DEF RetryCall
<1>3. PICK pc \in {"retrying", "finish"} : chat' = [chat EXCEPT ![r].pc = pc]
    BY DEF RetryCall
<1>4. pc \in PC
    BY DEF PC
<1>5. RequestInv([chat[r] EXCEPT !.pc = pc])
    BY <1>0, <1>1 DEF Chat, RequestInv, EventInv, ResponseInv, KeyInv
<1> QED
    BY <1>1, <1>2, <1>3, <1>4, <1>5, PcStep

LEMMA RetryTokenStep ==
    ASSUME IInv, NEW r \in Requests, RetryToken(r)
    PROVE  IInv'
<1>0. chat \in [Requests -> Chat] /\ chat[r] \in Chat /\ RequestInv(chat[r])
    BY Here
<1>1. chat[r].pc = "retrying" /\ ~Settled(chat[r])
    BY DEF RetryToken, At, Settled
<1>2. faults' \in 0 .. MaxFaults /\ UNCHANGED <<history, detector, cache, rows>>
    BY FaultType DEF RetryToken
<1>3. PICK t \in Longer(chat[r].retry) :
        chat' = [chat EXCEPT ![r].retry = t, ![r].events = Append(@, "correction")]
    BY DEF RetryToken
<1>4. /\ chat[r].retry \in Text /\ chat[r].retry.len < MaxTokens
      /\ chat[r].seen \in Nat /\ chat[r].events \in Seq(Event)
    BY Fields DEF RetryToken
<1>5. t \in Text
    BY <1>3, <1>4, LongerFacts
<1> DEFINE x == Append(chat[r].events, "correction")
           c == [chat[r] EXCEPT !.retry = t, !.events = x]
<1>6. "correction" \in Event /\ Precedes(LastEvent(chat[r].events), "correction")
    BY <1>0, <1>1 DEF Event, Precedes, RequestInv, EventInv
<1>7. /\ x \in Seq(Event)
      /\ Len(x) = Len(chat[r].events) + 1 /\ Len(chat[r].events) \in Nat
      /\ Ordered(x) /\ LastEvent(x) = "correction"
    BY <1>0, <1>4, <1>6, EventFacts DEF RequestInv, EventInv
<1>8. chat' = [chat EXCEPT ![r].retry = t, ![r].events = x]
    BY <1>0, <1>3
<1>9. chat[r].seen <= Len(x)
    BY <1>0, <1>4, <1>7 DEF RequestInv, KeyInv
<1> HIDE DEF x
<1>10. c \in Chat
    BY <1>0, <1>5, <1>7 DEF Chat
<1>11. chat' = [chat EXCEPT ![r] = c]
    BY <1>0, <1>8
<1>12. /\ c.pc = "retrying" /\ c.tier = chat[r].tier /\ c.context = chat[r].context
       /\ c.events = x /\ c.seen = chat[r].seen /\ c.usage = chat[r].usage
    BY <1>0, <1>1 DEF Chat
<1> HIDE DEF c
<1>13. RequestInv(c)
    <2>1. /\ c.seen <= Len(c.events) /\ Ordered(c.events)
          /\ LastEvent(c.events) = "correction"
        BY <1>7, <1>9, <1>12
    <2> QED
        BY <1>0, <1>1, <1>12, <2>1 DEF RequestInv, EventInv, ResponseInv, KeyInv
<1>14. Stable(chat[r], c)
    BY <1>1 DEF Stable
<1> QED
    BY <1>2, <1>10, <1>11, <1>13, <1>14, OnlyChatMoves

LEMMA RetryEndStep ==
    ASSUME IInv, NEW r \in Requests, RetryEnd(r)
    PROVE  IInv'
<1>0. chat \in [Requests -> Chat] /\ chat[r] \in Chat /\ RequestInv(chat[r])
    BY Here
<1>1. chat[r].pc = "retrying" /\ ~Settled(chat[r]) /\ "finish" \in PC
    BY DEF RetryEnd, At, Settled, PC
<1>2. faults' \in 0 .. MaxFaults /\ UNCHANGED <<history, detector, cache, rows>>
    BY FaultType DEF RetryEnd
<1>3. CASE chat' = [chat EXCEPT ![r].pc = "finish"]
    <2>1. RequestInv([chat[r] EXCEPT !.pc = "finish"])
        BY <1>0, <1>1 DEF Chat, RequestInv, EventInv, ResponseInv, KeyInv
    <2> QED
        BY <1>1, <1>2, <1>3, <2>1, PcStep
<1>4. CASE chat' # [chat EXCEPT ![r].pc = "finish"]
    <2> DEFINE u == 2
               c == [chat[r] EXCEPT !.pc = "finish", !.usage = u]
    <2>1. u \in 0 .. 2 /\ u > 0
        OBVIOUS
    <2>2. chat' = [chat EXCEPT ![r].pc = "finish", ![r].usage = u]
        BY <1>4 DEF RetryEnd
    <2> HIDE DEF u
    <2>3. c \in Chat
        BY <1>0, <1>1, <2>1 DEF Chat
    <2>4. chat' = [chat EXCEPT ![r] = c]
        BY <1>0, <2>2
    <2>5. /\ c.pc = "finish" /\ c.tier = chat[r].tier /\ c.context = chat[r].context
          /\ c.events = chat[r].events /\ c.seen = chat[r].seen /\ c.usage = u
        BY <1>0 DEF Chat
    <2> HIDE DEF c
    <2>6. RequestInv(c)
        BY <1>0, <1>1, <2>1, <2>5 DEF RequestInv, EventInv, ResponseInv, KeyInv
    <2>7. Stable(chat[r], c)
        BY <1>1 DEF Stable
    <2> QED
        BY <1>2, <2>3, <2>4, <2>6, <2>7, OnlyChatMoves
<1> QED
    BY <1>3, <1>4

LEMMA BufferFullStep ==
    ASSUME IInv, NEW r \in Requests, BufferFull(r)
    PROVE  IInv'
<1>0. chat \in [Requests -> Chat] /\ chat[r] \in Chat /\ RequestInv(chat[r])
    BY Here
<1>1. chat[r].pc = "retrying" /\ ~Settled(chat[r])
    BY DEF BufferFull, At, Settled
<1>2. faults' \in 0 .. MaxFaults /\ UNCHANGED <<history, detector, cache, rows>>
    BY FaultType DEF BufferFull
<1> DEFINE n == Len(chat[r].events)
           c == [chat[r] EXCEPT !.seen = n]
<1>3. n \in Nat
    BY Fields
<1>4. chat' = [chat EXCEPT ![r].seen = n]
    BY DEF BufferFull
<1>5. n <= Len(chat[r].events)
    BY <1>3
<1> HIDE DEF n
<1>6. c \in Chat
    BY <1>0, <1>3 DEF Chat
<1>7. chat' = [chat EXCEPT ![r] = c]
    BY <1>0, <1>4
<1>8. /\ c.pc = chat[r].pc /\ c.tier = chat[r].tier /\ c.context = chat[r].context
      /\ c.events = chat[r].events /\ c.seen = n /\ c.usage = chat[r].usage
    BY <1>0 DEF Chat
<1> HIDE DEF c
<1>9. RequestInv(c)
    BY <1>0, <1>1, <1>5, <1>8 DEF RequestInv, EventInv, ResponseInv, KeyInv
<1>10. Stable(chat[r], c)
    BY <1>1 DEF Stable
<1> QED
    BY <1>2, <1>6, <1>7, <1>9, <1>10, OnlyChatMoves

LEMMA FinishStep ==
    ASSUME IInv, NEW r \in Requests, Finish(r)
    PROVE  IInv'
<1>0. chat \in [Requests -> Chat] /\ chat[r] \in Chat /\ RequestInv(chat[r])
    BY Here
<1>1. chat[r].pc = "finish" /\ ~Settled(chat[r]) /\ "save" \in PC
    BY DEF Finish, At, Settled, PC
<1>2. faults' \in 0 .. MaxFaults /\ UNCHANGED <<history, detector, cache, rows>>
    BY FaultType DEF Finish
<1>3. chat[r].seen \in Nat /\ chat[r].events \in Seq(Event)
    BY Fields
<1> DEFINE x == Append(chat[r].events, "final")
           c == [chat[r] EXCEPT !.pc = "save", !.events = x]
<1>4. "final" \in Event /\ Precedes(LastEvent(chat[r].events), "final")
    BY <1>0, <1>1 DEF Event, Precedes, RequestInv, EventInv
<1>5. /\ x \in Seq(Event)
      /\ Len(x) = Len(chat[r].events) + 1 /\ Len(chat[r].events) \in Nat
      /\ Ordered(x)
    BY <1>0, <1>3, <1>4, EventFacts DEF RequestInv, EventInv
<1>6. chat' = [chat EXCEPT ![r].pc = "save", ![r].events = x]
    BY <1>0 DEF Finish
<1>7. chat[r].seen <= Len(x)
    BY <1>0, <1>3, <1>5 DEF RequestInv, KeyInv
<1> HIDE DEF x
<1>8. c \in Chat
    BY <1>0, <1>1, <1>5 DEF Chat
<1>9. chat' = [chat EXCEPT ![r] = c]
    BY <1>0, <1>6
<1>10. /\ c.pc = "save" /\ c.tier = chat[r].tier /\ c.context = chat[r].context
       /\ c.events = x /\ c.seen = chat[r].seen /\ c.usage = chat[r].usage
    BY <1>0 DEF Chat
<1> HIDE DEF c
<1>11. RequestInv(c)
    <2>1. c.seen <= Len(c.events) /\ Ordered(c.events)
        BY <1>5, <1>7, <1>10
    <2> QED
        BY <1>0, <1>1, <1>10, <2>1 DEF RequestInv, EventInv, ResponseInv, KeyInv
<1>12. Stable(chat[r], c)
    BY <1>1 DEF Stable
<1> QED
    BY <1>2, <1>8, <1>9, <1>11, <1>12, OnlyChatMoves

LEMMA DisconnectStep ==
    ASSUME IInv, NEW r \in Requests, Disconnect(r)
    PROVE  IInv'
<1>0. chat \in [Requests -> Chat] /\ chat[r] \in Chat /\ RequestInv(chat[r])
    BY Here
<1>1. faults' \in 0 .. MaxFaults /\ UNCHANGED <<history, detector, cache, rows>>
    BY FaultType DEF Disconnect
<1> DEFINE c == [chat[r] EXCEPT !.gone = TRUE]
<1>2. c \in Chat
    BY <1>0 DEF Chat
<1>3. chat' = [chat EXCEPT ![r] = c]
    BY <1>0 DEF Disconnect
<1>4. /\ c.pc = chat[r].pc /\ c.tier = chat[r].tier /\ c.context = chat[r].context
      /\ c.events = chat[r].events /\ c.seen = chat[r].seen /\ c.usage = chat[r].usage
      /\ c.reply = chat[r].reply /\ c.retry = chat[r].retry /\ c.key = chat[r].key
    BY <1>0 DEF Chat
<1> HIDE DEF c
<1>5. RequestInv(c)
    BY <1>0, <1>4 DEF RequestInv, EventInv, ResponseInv, KeyInv
<1>6. Stable(chat[r], c)
    BY <1>4 DEF Stable, Settled
<1> QED
    BY <1>1, <1>2, <1>3, <1>5, <1>6, OnlyChatMoves

\* The detector answers, and changes only what the request waits for, its own
\* window and the flags. A response gets into the window more than once only where
\* a call failed.
LEMMA DetectorFacts ==
    ASSUME IInv, NEW r \in Requests, DetectorServes(r)
    PROVE  /\ chat[r].check = "asked" /\ UNCHANGED <<history, cache, rows>>
           /\ \E k \in {"PASS", "REMEDIATE"} : chat' = [chat EXCEPT ![r].check = k]
           /\ faults' \in 0 .. MaxFaults /\ (faults' = 0 => faults = 0)
           /\ \/ cycleflag' = [cycleflag EXCEPT ![chat[r].session] = TRUE]
              \/ cycleflag' = cycleflag
           /\ \/ flagged' = flagged \cup {<<chat[r].session, chat[r].reply.ans>>}
              \/ flagged' = flagged
           /\ \/ UNCHANGED window
              \/ \E n \in Nat \ {0} : AddNode(r, n) /\ (faults' = 0 => n = 1)
<1>1. chat[r].check = "asked" /\ UNCHANGED <<history, cache, rows>>
    BY DEF DetectorServes
<1>2. faults \in 0 .. MaxFaults /\ MaxFaults \in Nat
    BY BoundsAssumption DEF IInv, GlobalTypes
<1>3. ASSUME NEW n \in Nat, Faults(n)
      PROVE  /\ faults' \in 0 .. MaxFaults /\ (faults' = 0 => faults = 0)
             /\ (faults' = 0 => n = 0)
    BY <1>2, <1>3 DEF Faults
<1>4. Verdict(r) \in {"PASS", "REMEDIATE"}
    BY DEF Verdict
<1>5. ASSUME FlagCycle(r) \/ UNCHANGED <<cycleflag, flagged>>
      PROVE  /\ \/ cycleflag' = [cycleflag EXCEPT ![chat[r].session] = TRUE]
                \/ cycleflag' = cycleflag
             /\ \/ flagged' = flagged \cup {<<chat[r].session, chat[r].reply.ans>>}
                \/ flagged' = flagged
    BY <1>5 DEF FlagCycle
<1>6. CASE DetectorAnswers(r)
    <2>1. PICK n \in 1 .. MaxFaults + 1 : AddNode(r, n) /\ Faults(n - 1)
        BY <1>6 DEF DetectorAnswers
    <2>2. n \in Nat \ {0} /\ n - 1 \in Nat
        BY <1>2, <2>1
    <2>3. /\ faults' \in 0 .. MaxFaults /\ (faults' = 0 => faults = 0)
          /\ (faults' = 0 => n = 1)
        BY <1>3, <2>1, <2>2
    <2>4. FlagCycle(r) /\ chat' = [chat EXCEPT ![r].check = Verdict(r)]
        BY <1>6 DEF DetectorAnswers
    <2> QED
        BY <1>1, <1>4, <1>5, <2>1, <2>2, <2>3, <2>4
<1>7. CASE DetectorRaises(r)
    <2>1. chat' = [chat EXCEPT ![r].check = "PASS"]
        BY <1>7 DEF DetectorRaises
    <2>2. CASE UNCHANGED detector /\ Faults(1)
        BY <1>1, <1>3, <2>1, <2>2 DEF detector
    <2>3. ASSUME NEW n \in 1 .. MaxFaults, AddNode(r, n), Faults(n),
                 FlagCycle(r) \/ UNCHANGED <<cycleflag, flagged>>
          PROVE  /\ faults' \in 0 .. MaxFaults /\ faults' # 0
                 /\ n \in Nat \ {0}
        BY <1>2, <1>3, <2>3
    <2> QED
        BY <1>1, <1>5, <1>7, <2>1, <2>2, <2>3 DEF DetectorRaises
<1> QED
    BY <1>6, <1>7 DEF DetectorServes

LEMMA DetectorServesStep ==
    ASSUME IInv, NEW r \in Requests, DetectorServes(r)
    PROVE  IInv'
<1>0. chat \in [Requests -> Chat] /\ chat[r] \in Chat /\ RequestInv(chat[r])
    BY Here
<1>1. UNCHANGED <<history, cache, rows>>
    BY DetectorFacts
<1>2. PICK k \in {"PASS", "REMEDIATE"} : chat' = [chat EXCEPT ![r].check = k]
    BY DetectorFacts
<1>3. faults' \in 0 .. MaxFaults
    BY DetectorFacts
<1> DEFINE c == [chat[r] EXCEPT !.check = k]
<1>4. c \in Chat
    BY <1>0, <1>2 DEF Chat
<1>5. chat' = [chat EXCEPT ![r] = c]
    BY <1>0, <1>2
<1>6. /\ c.pc = chat[r].pc /\ c.tier = chat[r].tier /\ c.context = chat[r].context
      /\ c.events = chat[r].events /\ c.seen = chat[r].seen /\ c.usage = chat[r].usage
      /\ c.reply = chat[r].reply /\ c.retry = chat[r].retry /\ c.key = chat[r].key
    BY <1>0 DEF Chat
<1> HIDE DEF c
<1>7. RequestInv(c)
    BY <1>0, <1>6 DEF RequestInv, EventInv, ResponseInv, KeyInv
<1>8. Stable(chat[r], c)
    BY <1>6 DEF Stable, Settled
<1>9. RequestsInv' /\ CacheInv'
    BY <1>1, <1>4, <1>5, <1>7, <1>8, Moves DEF CacheInv, cache
<1> DEFINE WindowItem == [ans : Answers \cup {NoAnswer}, from : Requests]
           x == [ans |-> chat[r].reply.ans, from |-> r]
           w == window[chat[r].session]
<1>10. chat[r].session \in Sessions /\ chat[r].reply.ans \in Answers \cup {NoAnswer}
    BY Fields DEF Text
<1>11. x \in WindowItem /\ w \in Seq(WindowItem)
    BY <1>10 DEF IInv, GlobalTypes
<1>12. WindowSize \in Nat \ {0}
    BY BoundsAssumption
<1>13. ASSUME NEW n \in Nat \ {0}, AddNode(r, n)
       PROVE  window' \in [Sessions -> Seq(WindowItem)]
    <2> DEFINE z == w \o [i \in 1 .. n |-> x]
    <2>1. window' = [window EXCEPT ![chat[r].session] = LastOf(z, WindowSize)]
        BY <1>13 DEF AddNode
    <2>2. z \in Seq(WindowItem)
        <3> HIDE DEF x, w, WindowItem
        <3> QED
            BY <1>11, CopiesFacts
    <2>3. window \in [Sessions -> Seq(WindowItem)]
        BY DEF IInv, GlobalTypes
    <2> HIDE DEF z, WindowItem
    <2>4. LastOf(z, WindowSize) \in Seq(WindowItem)
        BY <1>12, <2>2, LastOfFacts
    <2> QED
        BY <1>10, <2>1, <2>3, <2>4
<1>14. UNCHANGED window \/ \E n \in Nat \ {0} : AddNode(r, n)
    BY DetectorFacts
<1>15. window' \in [Sessions -> Seq(WindowItem)]
    <2>1. window \in [Sessions -> Seq(WindowItem)]
        BY DEF IInv, GlobalTypes
    <2> HIDE DEF x, w, WindowItem
    <2> QED
        BY <1>13, <1>14, <2>1
<1>16. cycleflag' \in [Sessions -> BOOLEAN]
    <2>1. cycleflag' = [cycleflag EXCEPT ![chat[r].session] = TRUE]
             \/ cycleflag' = cycleflag
        BY DetectorFacts
    <2> QED
        BY <1>10, <2>1 DEF IInv, GlobalTypes
<1>17. flagged' \subseteq Sessions \X (Answers \cup {NoAnswer})
    <2>1. flagged' = flagged \cup {<<chat[r].session, chat[r].reply.ans>>}
             \/ flagged' = flagged
        BY DetectorFacts
    <2> QED
        BY <1>10, <2>1 DEF IInv, GlobalTypes
<1>18. GlobalTypes' /\ HistoryInv'
    BY <1>1, <1>3, <1>15, <1>16, <1>17 DEF IInv, GlobalTypes, HistoryInv, cache
<1> QED
    BY <1>9, <1>18 DEF IInv

LEMMA FlagExpiresStep ==
    ASSUME IInv, NEW s \in Sessions, FlagExpires(s)
    PROVE  IInv'
<1>1. cycleflag' \in [Sessions -> BOOLEAN]
    BY DEF FlagExpires, IInv, GlobalTypes
<1>2. UNCHANGED <<chat, history, window, flagged, entries, writes, rows, faults>>
    BY DEF FlagExpires, cache
<1>3. GlobalTypes'
    BY <1>1, <1>2 DEF IInv, GlobalTypes
<1>4. RequestsInv' /\ HistoryInv' /\ CacheInv'
    BY <1>2 DEF IInv, RequestsInv, HistoryInv, CacheInv
<1> QED
    BY <1>3, <1>4 DEF IInv

LEMMA SaveAssistantMessageStep ==
    ASSUME IInv, NEW r \in Requests, SaveAssistantMessage(r)
    PROVE  IInv'
<1>0. chat \in [Requests -> Chat] /\ chat[r] \in Chat /\ RequestInv(chat[r])
    BY Here
<1>1. /\ chat[r].pc = "save" /\ ~Settled(chat[r])
      /\ UNCHANGED <<detector, cache, rows>>
    BY DEF SaveAssistantMessage, At, Settled
<1>2. faults' \in 0 .. MaxFaults
    BY FaultType DEF SaveAssistantMessage
<1> DEFINE pc == IF chat[r].tier = "HIT" THEN "log" ELSE "write"
           c == [chat[r] EXCEPT !.pc = pc]
<1>3. pc \in PC /\ pc \in {"log", "write"} /\ chat' = [chat EXCEPT ![r].pc = pc]
    BY DEF SaveAssistantMessage, PC
<1> HIDE DEF pc
<1>4. c \in Chat
    BY <1>0, <1>3 DEF Chat
<1>5. chat' = [chat EXCEPT ![r] = c]
    BY <1>0, <1>3
<1>6. /\ c.pc = pc /\ c.tier = chat[r].tier /\ c.context = chat[r].context
      /\ c.events = chat[r].events /\ c.seen = chat[r].seen /\ c.usage = chat[r].usage
    BY <1>0 DEF Chat
<1> HIDE DEF c
<1>7. RequestInv(c)
    BY <1>0, <1>1, <1>3, <1>6 DEF RequestInv, EventInv, ResponseInv, KeyInv
<1>8. Stable(chat[r], c)
    BY <1>1 DEF Stable
<1>9. RequestsInv' /\ CacheInv'
    BY <1>1, <1>4, <1>5, <1>7, <1>8, Moves DEF CacheInv, cache
<1> DEFINE m == [role |-> "assistant", from |-> r, text |-> Response(chat[r])]
<1>10. m \in Message /\ m.role # "system"
    BY Fields DEF Message, Response
<1>11. history' \in [Sessions -> Seq(Message)] /\ HistoryInv'
    <2>1. CASE UNCHANGED history
        BY <2>1 DEF IInv, GlobalTypes, HistoryInv
    <2>2. CASE history' = [history EXCEPT ![chat[r].session] = Remember(@, m)]
        <3> HIDE DEF m
        <3>1. \A s \in Sessions : /\ history[s] \in Seq(Message) /\ NoHint(history[s])
            BY DEF IInv, GlobalTypes, HistoryInv
        <3>2. \A s \in Sessions : /\ Remember(history[s], m) \in Seq(Message)
                                  /\ NoHint(Remember(history[s], m))
            BY <1>10, <3>1, RememberFacts
        <3> QED
            BY <2>2, <3>1, <3>2 DEF IInv, GlobalTypes, HistoryInv
    <2> QED
        BY <2>1, <2>2 DEF SaveAssistantMessage
<1> QED
    BY <1>1, <1>2, <1>9, <1>11 DEF IInv, GlobalTypes, detector, cache

\* The write guard lets only an uncorrected first response of a MISS through.
LEMMA WriteAsyncStep ==
    ASSUME IInv, NEW r \in Requests, WriteAsync(r)
    PROVE  IInv'
<1>0. chat \in [Requests -> Chat] /\ chat[r] \in Chat /\ RequestInv(chat[r])
    BY Here
<1>1. /\ chat[r].pc = "write" /\ ~Settled(chat[r])
      /\ UNCHANGED <<history, detector, entries, rows, faults>>
      /\ "log" \in PC /\ chat' = [chat EXCEPT ![r].pc = "log"]
    BY DEF WriteAsync, At, Settled, PC
<1> DEFINE c == [chat[r] EXCEPT !.pc = "log"]
           d == chat[r]
           n == [key |-> d.key, text |-> Response(d), from |-> r]
<1>2. c \in Chat
    BY <1>0, <1>1 DEF Chat
<1>3. chat' = [chat EXCEPT ![r] = c] /\ chat'[r] = c
    BY <1>0, <1>1
<1>4. /\ c.pc = "log" /\ c.tier = d.tier /\ c.context = d.context
      /\ c.events = d.events /\ c.seen = d.seen /\ c.usage = d.usage
      /\ c.reply = d.reply /\ c.retry = d.retry
    BY <1>0 DEF Chat
<1>5. writes' = writes \cup IF Cacheable(d) THEN {n} ELSE {}
    BY DEF WriteAsync
<1>6. /\ d.reply \in Text /\ d.retry \in Text /\ d.key \in Keys
      /\ d.reply.len \in Nat /\ d.retry.len \in Nat
    BY Fields DEF Text
<1>7. d.pc = "write" /\ RequestInv(d)
    BY <1>0, <1>1
<1> HIDE DEF c, d
<1>8. RequestInv(c)
    BY <1>4, <1>7 DEF RequestInv, EventInv, ResponseInv, KeyInv
<1>9. Stable(chat[r], c)
    BY <1>1 DEF Stable
<1>10. RequestsInv' /\ \A e \in entries \cup writes : EntryInv(e, chat'[e.from])
    BY <1>2, <1>3, <1>8, <1>9, Moves
<1>11. ASSUME Cacheable(d)
       PROVE  n \in Entry /\ EntryInv(n, chat'[n.from])
    <2>1. d.tier = "MISS" /\ Response(d).len > 0 /\ d.retry.len = 0
        BY <1>6, <1>11 DEF Cacheable, Applied
    <2>2. Response(d) = d.reply
        BY <2>1 DEF Response, Applied
    <2>3. d.usage > 0
        BY <1>7, <2>1 DEF RequestInv, ResponseInv
    <2>4. n \in Entry
        BY <1>6, <2>2 DEF Entry
    <2>5. n.from = r /\ n.text = d.reply
        BY <2>2
    <2> QED
        BY <1>3, <1>4, <2>1, <2>2, <2>3, <2>4, <2>5 DEF EntryInv, Settled
<1> HIDE DEF n
<1>12. writes' \subseteq Entry /\ CacheInv'
    BY <1>1, <1>5, <1>10, <1>11 DEF CacheInv, IInv, GlobalTypes
<1> QED
    BY <1>1, <1>10, <1>12 DEF IInv, GlobalTypes, HistoryInv, detector

LEMMA LogStep ==
    ASSUME IInv, NEW r \in Requests, Log(r)
    PROVE  IInv'
<1>0. chat \in [Requests -> Chat] /\ chat[r] \in Chat /\ RequestInv(chat[r])
    BY Here
<1>1. /\ chat[r].pc = "log" /\ "done" \in PC
      /\ UNCHANGED <<history, detector, cache, faults>>
    BY DEF Log, At, PC
<1> DEFINE n == Len(chat[r].events)
           c == [chat[r] EXCEPT !.pc = "done", !.seen = n]
<1>2. n \in Nat /\ n <= Len(chat[r].events)
    BY Fields
<1>3. chat' = [chat EXCEPT ![r].pc = "done", ![r].seen = n]
    BY DEF Log
<1> HIDE DEF n
<1>4. c \in Chat
    BY <1>0, <1>1, <1>2 DEF Chat
<1>5. chat' = [chat EXCEPT ![r] = c]
    BY <1>0, <1>3
<1>6. /\ c.pc = "done" /\ c.tier = chat[r].tier /\ c.context = chat[r].context
      /\ c.events = chat[r].events /\ c.seen = n /\ c.usage = chat[r].usage
      /\ c.reply = chat[r].reply /\ c.retry = chat[r].retry
    BY <1>0 DEF Chat
<1> HIDE DEF c
<1>7. RequestInv(c)
    BY <1>0, <1>1, <1>2, <1>6 DEF RequestInv, EventInv, ResponseInv, KeyInv
<1>8. Stable(chat[r], c)
    BY <1>6 DEF Stable, Settled
<1>9. RequestsInv' /\ CacheInv'
    BY <1>1, <1>4, <1>5, <1>7, <1>8, Moves DEF CacheInv, cache
<1>10. rows' \subseteq Row
    <2> DEFINE m == IF chat[r].tier = "HIT" THEN "cache" ELSE FinalModel(chat[r])
               y == CycleSeen(chat[r])
               u == chat[r].usage
               x == [from |-> r, usage |-> u, cycle |-> y,
                     hit |-> chat[r].tier = "HIT", model |-> m]
    <2>1. /\ u \in 0 .. 2
          /\ chat[r].model \in Model /\ chat[r].newModel \in Model
        BY <1>0 DEF Chat
    <2>2. y \in BOOLEAN
        BY DEF CycleSeen
    <2>3. m \in Model \cup {"cache"}
        BY <2>1 DEF FinalModel
    <2>4. rows' = rows \cup {x}
        BY DEF Log
    <2> HIDE DEF m, y, u
    <2>5. x \in Row
        BY <2>1, <2>2, <2>3 DEF Row
    <2> QED
        BY <2>4, <2>5 DEF IInv, GlobalTypes
<1> QED
    BY <1>1, <1>9, <1>10 DEF IInv, GlobalTypes, HistoryInv, detector, cache

LEMMA CacheWriteStep ==
    ASSUME IInv, NEW e \in writes, CacheWrite(e)
    PROVE  IInv'
<1>1. /\ UNCHANGED <<chat, history, window, cycleflag, flagged, rows>>
      /\ entries' \cup writes' \subseteq entries \cup writes
    BY DEF CacheWrite, detector
<1>2. faults' \in 0 .. MaxFaults
    BY BoundsAssumption DEF CacheWrite, Fault, IInv, GlobalTypes
<1>3. entries' \subseteq Entry /\ writes' \subseteq Entry
    BY <1>1 DEF IInv, GlobalTypes
<1>4. GlobalTypes'
    BY <1>1, <1>2, <1>3 DEF IInv, GlobalTypes
<1>5. RequestsInv' /\ HistoryInv' /\ CacheInv'
    BY <1>1 DEF IInv, RequestsInv, HistoryInv, CacheInv
<1> QED
    BY <1>4, <1>5 DEF IInv

-----------------------------------------------------------------------------
(* The invariant is inductive. *)

LEMMA InitIInv == Init => IInv
<1> SUFFICES ASSUME Init PROVE IInv
    OBVIOUS
<1>1. ASSUME NEW r \in Requests
      PROVE  chat[r] \in Chat /\ RequestInv(chat[r])
    <2> DEFINE z == 0
               ev == <<>>
               a == {}
    <2>1. PICK s \in Sessions, p \in Prompts : chat[r] =
            [pc |-> "idle", session |-> s, key |-> p, tier |-> "MISS",
             context |-> ev, model |-> "fast", reply |-> Empty, check |-> "none",
             newModel |-> "fast", retry |-> Empty, usage |-> z, events |-> ev,
             seen |-> z, gone |-> FALSE, after |-> a]
        BY DEF Init
    <2>2. /\ "idle" \in PC /\ p \in Keys /\ z \in Nat /\ z \in 0 .. 2
          /\ ev \in Seq(Message) /\ ev \in Seq(Event) /\ Len(ev) = 0
          /\ Empty \in Text /\ Empty.len = 0 /\ "fast" \in Model
          /\ a \in SUBSET Requests /\ z <= Len(ev)
        BY PromptsAssumption, MessageFacts DEF PC, Model
    <2>3. Ordered(ev) /\ NoHint(ev)
        BY <2>2 DEF Ordered, NoHint
    <2>4. ev = <<>>
        OBVIOUS
    <2> HIDE DEF z, ev, a
    <2>5. chat[r] \in Chat
        BY <2>1, <2>2 DEF Chat
    <2>6. /\ chat[r].pc = "idle" /\ chat[r].tier = "MISS" /\ chat[r].key = p
          /\ chat[r].context = ev /\ chat[r].events = ev /\ chat[r].seen = z
          /\ chat[r].reply = Empty
        BY <2>1
    <2>7. RequestInv(chat[r])
        BY <2>2, <2>3, <2>4, <2>6 DEF RequestInv, EventInv, ResponseInv, KeyInv
    <2> QED
        BY <2>5, <2>7
<1>2. RequestsInv
    BY <1>1 DEF Init, RequestsInv
<1>3. GlobalTypes /\ HistoryInv
    BY BoundsAssumption DEF Init, GlobalTypes, HistoryInv, NoHint
<1>4. CacheInv
    BY DEF Init, CacheInv
<1> QED
    BY <1>2, <1>3, <1>4 DEF IInv

LEMMA NextIInv == IInv /\ [Next]_vars => IInv'
<1> SUFFICES ASSUME IInv, [Next]_vars PROVE IInv'
    OBVIOUS
<1>1. CASE UNCHANGED vars
    BY <1>1 DEF vars, IInv, GlobalTypes, RequestsInv, HistoryInv, CacheInv
<1>2. ASSUME NEW r \in Requests,
             Arrive(r) \/ DetectorServes(r) \/ BufferFull(r) \/ Disconnect(r)
      PROVE  IInv'
    BY <1>2, ArriveStep, DetectorServesStep, BufferFullStep, DisconnectStep
<1>3. ASSUME NEW r \in Requests, Handler(r)
      PROVE  IInv'
    BY <1>3, GetHistoryStep, AppendUserStep, SessionHadCycleStep, QueryCacheStep,
       ServeHitStep, CallLLMStep, StreamTokenStep, StreamErrorStep,
       ClientGoneStep, StreamEndStep, CheckReturnsStep, RemediateStep,
       RetryCallStep, RetryTokenStep, RetryEndStep, FinishStep,
       SaveAssistantMessageStep, WriteAsyncStep, LogStep
    DEF Handler
<1>4. ASSUME NEW s \in Sessions, FlagExpires(s)
      PROVE  IInv'
    BY <1>4, FlagExpiresStep
<1>5. ASSUME NEW e \in writes, CacheWrite(e)
      PROVE  IInv'
    BY <1>5, CacheWriteStep
<1> QED
    BY <1>1, <1>2, <1>3, <1>4, <1>5 DEF Next

\* The inductive invariant holds in every reachable state.
LEMMA Invariance == Spec => []IInv
BY InitIInv, NextIInv, PTL DEF Spec

-----------------------------------------------------------------------------
\* Type correctness of the handlers and of what they share; in particular no
\* handler is ever ahead of its own events in what its client has seen.
THEOREM TypeCorrect == Spec => []TypeOK
<1>1. IInv => TypeOK
    BY DEF IInv, GlobalTypes, RequestsInv, RequestInv, KeyInv, TypeOK
<1> QED
    BY <1>1, Invariance, PTL

\* The SSE protocol of a chat response holds whatever calls fail, whenever the
\* client leaves, and however requests interleave.
THEOREM EventsInOrder == Spec => []EventOrder
<1>1. IInv => EventOrder
    BY DEF IInv, RequestsInv, RequestInv, EventInv, Ordered, EventOrder
<1> QED
    BY <1>1, Invariance, PTL

\* The cache holds only whole, uncorrected first responses of cache misses, made
\* without any cached answer in their context, for any number of requests.
THEOREM CacheHoldsFirstResponses == Spec => []CacheProvenance
<1>1. IInv => CacheProvenance
    <2> SUFFICES ASSUME IInv, NEW e \in entries \cup writes
                 PROVE  LET c == chat[e.from] IN
                        /\ c.tier = "MISS" /\ c.usage > 0
                        /\ e.text = c.reply /\ e.text.len > 0
                        /\ ~Applied(c)
                        /\ \A i \in 1 .. Len(c.context) : c.context[i].role # "system"
        BY DEF CacheProvenance
    <2>1. e.from \in Requests /\ EntryInv(e, chat[e.from])
        BY DEF IInv, GlobalTypes, CacheInv, Entry
    <2>2. RequestInv(chat[e.from])
        BY <2>1, Here
    <2> QED
        BY <2>1, <2>2 DEF EntryInv, RequestInv, ResponseInv, NoHint, Applied
<1> QED
    BY <1>1, Invariance, PTL
-----------------------------------------------------------------------------
(***************************************************************************)
(* What the handlers leave behind: the lists of the sessions, the windows  *)
(* of the detector, the analytics rows, and what the clients were told.    *)
(* These proofs rest on the invariant IInv and add OInv.                   *)
(***************************************************************************)
-----------------------------------------------------------------------------
(* Sequences. *)

\* k is s without its first d elements, and one more.
Shifted(k, s, d) ==
    /\ Len(k) = Len(s) + 1 - d
    /\ \A i \in 1 .. Len(k) - 1 : i + d \in 1 .. Len(s) /\ k[i] = s[i + d]

\* What was in s is still there, in the same order, x is its last, and only a
\* full list has lost its first.
Pushed(k, s, x, n) ==
    /\ Len(k) \in 1 .. n
    /\ k[Len(k)] = x
    /\ Shifted(k, s, 0) \/ (Len(s) = n /\ Shifted(k, s, 1))

\* Adding x at the end of a list of at most n keeps it at n (Store.Append).
LEMMA PushedFacts ==
    ASSUME NEW S, NEW s \in Seq(S), NEW x \in S, NEW n \in Nat \ {0}, Len(s) <= n,
           NEW k, k = LastOf(Append(s, x), n)
    PROVE  k \in Seq(S) /\ Pushed(k, s, x, n)
<1> DEFINE g == Append(s, x)
           m == IF Len(g) > n THEN Len(g) - n + 1 ELSE 1
<1>1. /\ g \in Seq(S) /\ Len(s) \in Nat /\ Len(g) = Len(s) + 1
      /\ \A i \in 1 .. Len(s) : g[i] = s[i]
      /\ g[Len(s) + 1] = x
    BY AppendFacts
<1>2. m \in {1, 2} /\ m <= Len(g) /\ Len(g) - m + 1 <= n /\ (m = 2 => Len(s) = n)
    <2> HIDE DEF g
    <2> QED
        BY <1>1
<1>3. k = SubSeq(g, m, Len(g))
    BY DEF LastOf
<1> HIDE DEF g, m
<1>4. \A i \in m .. Len(g) : g[i] \in S
    BY <1>1, <1>2
<1>5. /\ k \in Seq(S) /\ Len(k) = Len(g) - m + 1
      /\ \A i \in 1 .. Len(g) - m + 1 : k[i] = g[m + i - 1]
    BY <1>1, <1>2, <1>3, <1>4, SubSeqProperties
<1>6. ASSUME NEW d \in {0, 1}, m = d + 1 PROVE Shifted(k, s, d)
    <2>1. ASSUME NEW i \in 1 .. Len(k) - 1 PROVE i + d \in 1 .. Len(s) /\ k[i] = s[i + d]
        BY <1>1, <1>5, <1>6
    <2>2. Len(k) = Len(s) + 1 - d
        BY <1>1, <1>5, <1>6
    <2> QED
        BY <2>1, <2>2 DEF Shifted
<1>7. m = 0 + 1 \/ (m = 1 + 1 /\ Len(s) = n)
    BY <1>2
<1>8. Shifted(k, s, 0) \/ (Len(s) = n /\ Shifted(k, s, 1))
    BY <1>6, <1>7
<1>9. Len(k) \in 1 .. n /\ k[Len(k)] = x
    BY <1>1, <1>2, <1>5
<1> QED
    BY <1>5, <1>8, <1>9 DEF Pushed

Wrote(ev, x) == \E i \in 1 .. Len(ev) : ev[i] = x

\* What one more event adds to what a handler wrote.
LEMMA WroteFacts ==
    ASSUME NEW ev \in Seq(Event), NEW x \in Event
    PROVE  /\ Len(ev) \in Nat /\ Len(Append(ev, x)) = Len(ev) + 1
           /\ LastEvent(Append(ev, x)) = x
           /\ \A y \in Event : Wrote(Append(ev, x), y) <=> (Wrote(ev, y) \/ y = x)
<1> DEFINE g == Append(ev, x)
<1>1. /\ g \in Seq(Event) /\ Len(ev) \in Nat /\ Len(g) = Len(ev) + 1
      /\ \A i \in 1 .. Len(ev) : g[i] = ev[i]
      /\ g[Len(ev) + 1] = x
    BY AppendFacts
<1> HIDE DEF g
<1>2. LastEvent(g) = x
    BY <1>1 DEF LastEvent
<1>3. ASSUME NEW y \in Event
      PROVE  Wrote(g, y) <=> (Wrote(ev, y) \/ y = x)
    <2>1. ASSUME Wrote(g, y) PROVE Wrote(ev, y) \/ y = x
        BY <1>1, <2>1 DEF Wrote
    <2>2. ASSUME Wrote(ev, y) \/ y = x PROVE Wrote(g, y)
        BY <1>1, <2>2 DEF Wrote
    <2> QED
        BY <2>1, <2>2
<1> QED
    BY <1>1, <1>2, <1>3 DEF g

\* Nothing is written after the final event.
LEMMA FinalIsLast ==
    ASSUME NEW ev \in Seq(Event), Ordered(ev), NEW i \in 1 .. Len(ev), ev[i] = "final"
    PROVE  i = Len(ev) /\ LastEvent(ev) = "final"
<1>1. SUFFICES i = Len(ev)
    BY DEF LastEvent
<1>2. SUFFICES ASSUME i # Len(ev) PROVE FALSE
    OBVIOUS
<1>3. i + 1 \in 1 .. Len(ev) /\ i + 1 # 1 /\ (i + 1) - 1 = i
    BY <1>2
<1>4. Precedes("final", ev[i + 1]) /\ ev[i + 1] \in Event
    BY <1>3 DEF Ordered
<1> QED
    BY <1>4 DEF Precedes, Event

-----------------------------------------------------------------------------
(* The inductive invariant. *)

Unasked  == {"idle", "load", "append"}
Saved(c) == c.pc \in {"write", "log", "done"}

\* The handler has been through saveAssistantMessage and told its client so.
Finished(c) ==
    \/ c.pc \in {"write", "log"}
    \/ c.pc = "done" /\ LastEvent(c.events) = "final"

\* What a handler told its client, and what it takes for its answer.
TellingInv(c) ==
    /\ Corrected(c) <=> Applied(c)
    /\ CycleSeen(c) => c.check = "REMEDIATE"
    /\ c.pc = "stream" => c.seen = Len(c.events)
    /\ c.pc \in {"save", "write", "log"} =>
          /\ c.tier # "HIT" => LastEvent(c.events) = "final" /\ c.seen < Len(c.events)
          /\ c.gone \/ LastEvent(c.events) = "final"
    /\ c.pc = "done" => \/ c.gone
                        \/ /\ c.seen = Len(c.events)
                           /\ LastEvent(c.events) \in {"final", "error", "reject"}

\* A HIT makes no call, and only a finished first call on a MISS is checked.
CallsInv(c) ==
    /\ c.pc \in {"idle", "load"} => c.context = <<>>
    /\ c.pc \in {"append", "flag", "query"} => c.context # <<>>
    /\ c.pc \in {"idle", "load", "append", "flag", "query"} => c.usage = 0
    /\ c.tier = "HIT" => c.pc \in {"hit", "save", "log", "done"} /\ c.usage = 0
    /\ c.check # "none" =>
          /\ c.tier = "MISS" /\ c.usage > 0
          /\ c.pc \in {"verdict", "remediate", "retry", "retrying", "finish",
                       "save", "write", "log", "done"}

HandlerInv(c) == TellingInv(c) /\ CallsInv(c)

RowInv(x, c) ==
    /\ c.pc = "done"
    /\ x.usage = c.usage
    /\ x.cycle = CycleSeen(c)
    /\ x.hit = (c.tier = "HIT")
    /\ x.model = IF c.tier = "HIT" THEN "cache" ELSE FinalModel(c)
    /\ c.tier # "HIT" => c.usage > 0

MessageInv(m, s, c) ==
    /\ c.session = s
    /\ c.pc \notin Unasked
    /\ m.role = "assistant" => Saved(c) /\ m.text = Response(c)

\* A question comes once, and its answer once and later.
QuestionFirst(h) ==
    \A i, j \in 1 .. Len(h) :
        (i < j /\ h[i].from = h[j].from)
            => h[i].role = "user" /\ h[j].role = "assistant"

ItemInv(w, s, c) ==
    /\ c.check \in {"PASS", "REMEDIATE"}
    /\ c.session = s /\ c.reply.ans = w.ans

\* No response is in a window twice.
Distinct(w) == \A i, j \in 1 .. Len(w) : i # j => w[i].from # w[j].from

\* A list that has lost anything is full, and stays so.
Remembered(h, q) ==
    \/ Len(h) = MaxMessages
    \/ \E i \in 1 .. Len(h) : h[i].role = "assistant" /\ h[i].from = q

Done(c) == c.pc = "done" /\ LastEvent(c.events) = "final"

LLMTurn(c) == c.tier # "HIT" /\ Response(c).len > 0

HandlersInv == \A r \in Requests : HandlerInv(chat[r])

RowsInv == \A x \in rows : RowInv(x, chat[x.from])

MessagesInv ==
    \A s \in Sessions :
        /\ Len(history[s]) <= MaxMessages
        /\ QuestionFirst(history[s])
        /\ \A i \in 1 .. Len(history[s]) :
              MessageInv(history[s][i], s, chat[history[s][i].from])

WindowsInv ==
    \A s \in Sessions :
        /\ Len(window[s]) <= WindowSize
        /\ \A i \in 1 .. Len(window[s]) : ItemInv(window[s][i], s, chat[window[s][i].from])
        /\ faults = 0 => Distinct(window[s])

TurnsInv ==
    faults = 0 => \A q \in Requests :
        Finished(chat[q]) /\ LLMTurn(chat[q]) => Remembered(history[chat[q].session], q)

AfterInv(r) ==
    \A q \in chat[r].after :
        /\ chat[q].session = chat[r].session
        /\ chat[q].tier = "HIT" \/ Done(chat[q])
        /\ (faults = 0 /\ chat[r].context # <<>> /\ LLMTurn(chat[q])) => InContext(r, q)

ContextInv == \A r \in Requests : AfterInv(r)

OInv == HandlersInv /\ RowsInv /\ MessagesInv /\ WindowsInv /\ TurnsInv /\ ContextInv

-----------------------------------------------------------------------------
(* A handler moves from d to c, and nothing that was recorded of it changes. *)

Evolves(d, c) ==
    /\ c.session = d.session
    /\ d.pc \notin Unasked => c.pc \notin Unasked
    /\ d.tier = "HIT" => c.tier = "HIT"
    /\ Saved(d) => Saved(c) /\ c.tier = d.tier /\ c.reply = d.reply /\ c.retry = d.retry
    /\ d.check \in {"PASS", "REMEDIATE"} => c.check = d.check /\ c.reply = d.reply
    /\ d.pc = "done" =>
          /\ c.pc = "done" /\ c.events = d.events /\ c.usage = d.usage
          /\ c.model = d.model /\ c.newModel = d.newModel

\* Handler r moves.
Moving(r) ==
    /\ \A q \in Requests : q # r => chat'[q] = chat[q]
    /\ HandlerInv(chat'[r])
    /\ Evolves(chat[r], chat'[r])
    /\ faults' = 0 => faults = 0

\* What was recorded of a handler stays true of it.
LEMMA EvolvesFacts ==
    ASSUME NEW d, NEW c, Evolves(d, c)
    PROVE  /\ \A x : RowInv(x, d) => RowInv(x, c)
           /\ \A m, s : MessageInv(m, s, d) => MessageInv(m, s, c)
           /\ \A w, s : ItemInv(w, s, d) => ItemInv(w, s, c)
           /\ Done(d) => Done(c) /\ (LLMTurn(c) <=> LLMTurn(d))
<1>1. \A x : RowInv(x, d) => RowInv(x, c)
    BY DEF Evolves, RowInv, Saved, CycleSeen, FinalModel, Applied
<1>2. \A m, s : MessageInv(m, s, d) => MessageInv(m, s, c)
    BY DEF Evolves, MessageInv, Response, Applied
<1>3. \A w, s : ItemInv(w, s, d) => ItemInv(w, s, c)
    BY DEF Evolves, ItemInv
<1>4. Done(d) => Done(c) /\ (LLMTurn(c) <=> LLMTurn(d))
    BY DEF Evolves, Done, LLMTurn, Saved, Response, Applied, LastEvent
<1> QED
    BY <1>1, <1>2, <1>3, <1>4

\* What was recorded stays true when handler r moves.
LEMMA RecordsStay ==
    ASSUME IInv, OInv, NEW r \in Requests, Moving(r)
    PROVE  /\ HandlersInv'
           /\ \A x \in rows : RowInv(x, chat'[x.from])
           /\ \A s \in Sessions : \A i \in 1 .. Len(history[s]) :
                 MessageInv(history[s][i], s, chat'[history[s][i].from])
           /\ \A s \in Sessions : \A i \in 1 .. Len(window[s]) :
                 ItemInv(window[s][i], s, chat'[window[s][i].from])
<1>0. \A q \in Requests : q # r => chat'[q] = chat[q]
    BY DEF Moving
<1>1. HandlersInv'
    BY <1>0 DEF Moving, HandlersInv, OInv
<1>2. /\ \A x : RowInv(x, chat[r]) => RowInv(x, chat'[r])
      /\ \A m, s : MessageInv(m, s, chat[r]) => MessageInv(m, s, chat'[r])
      /\ \A w, s : ItemInv(w, s, chat[r]) => ItemInv(w, s, chat'[r])
    BY EvolvesFacts DEF Moving
<1>3. ASSUME NEW x \in rows PROVE RowInv(x, chat'[x.from])
    <2>1. x.from \in Requests /\ RowInv(x, chat[x.from])
        BY DEF IInv, GlobalTypes, Row, OInv, RowsInv
    <2> QED
        BY <1>0, <1>2, <2>1
<1>4. ASSUME NEW s \in Sessions, NEW i \in 1 .. Len(history[s])
      PROVE  MessageInv(history[s][i], s, chat'[history[s][i].from])
    <2>1. history[s] \in Seq(Message)
        BY DEF IInv, GlobalTypes
    <2>2. history[s][i].from \in Requests
        <3>1. history[s][i] \in Message
            BY <2>1, ElementOfSeq
        <3> QED
            BY <3>1 DEF Message
    <2>3. MessageInv(history[s][i], s, chat[history[s][i].from])
        BY DEF OInv, MessagesInv
    <2> QED
        BY <1>0, <1>2, <2>2, <2>3
<1>5. ASSUME NEW s \in Sessions, NEW i \in 1 .. Len(window[s])
      PROVE  ItemInv(window[s][i], s, chat'[window[s][i].from])
    <2>1. window[s] \in Seq([ans : Answers \cup {NoAnswer}, from : Requests])
        BY DEF IInv, GlobalTypes
    <2>2. window[s][i].from \in Requests
        <3>1. window[s][i] \in [ans : Answers \cup {NoAnswer}, from : Requests]
            BY <2>1, ElementOfSeq
        <3> QED
            BY <3>1
    <2>3. ItemInv(window[s][i], s, chat[window[s][i].from])
        BY DEF OInv, WindowsInv
    <2> QED
        BY <1>0, <1>2, <2>2, <2>3
<1> QED
    BY <1>1, <1>3, <1>4, <1>5

\* What a conversation owes to the requests before it: of the requests other
\* than the one that moves, and of that one too if its conversation grows or
\* stays.
LEMMA ContextsStay ==
    ASSUME IInv, OInv, NEW r \in Requests, Moving(r), NEW p \in Requests,
           chat'[p].after = chat[p].after, chat'[p].session = chat[p].session,
           \A q \in Requests : InContext(p, q) => InContext(p, q)',
           chat'[p].context # <<>> => chat[p].context # <<>>
    PROVE  AfterInv(p)'
<1>0. \A q \in Requests : q # r => chat'[q] = chat[q]
    BY DEF Moving
<1> SUFFICES ASSUME NEW q \in chat[p].after
             PROVE  /\ chat'[q].session = chat'[p].session
                    /\ chat'[q].tier = "HIT" \/ Done(chat'[q])
                    /\ (faults' = 0 /\ chat'[p].context # <<>> /\ LLMTurn(chat'[q]))
                          => InContext(p, q)'
    BY DEF AfterInv
<1>1. q \in Requests
    BY Here DEF Chat
<1>2. /\ chat[q].session = chat[p].session
      /\ chat[q].tier = "HIT" \/ Done(chat[q])
      /\ (faults = 0 /\ chat[p].context # <<>> /\ LLMTurn(chat[q])) => InContext(p, q)
    BY DEF OInv, ContextInv, AfterInv
<1>3. /\ chat'[q].session = chat[q].session
      /\ chat[q].tier = "HIT" => chat'[q].tier = "HIT"
      /\ Done(chat[q]) => Done(chat'[q]) /\ (LLMTurn(chat'[q]) <=> LLMTurn(chat[q]))
    <2>1. CASE q = r
        BY <2>1, EvolvesFacts DEF Moving, Evolves
    <2>2. CASE q # r
        BY <1>0, <1>1, <2>2
    <2> QED
        BY <2>1, <2>2
<1>4. LLMTurn(chat'[q]) => Done(chat[q])
    BY <1>2, <1>3 DEF LLMTurn
<1> QED
    BY <1>1, <1>2, <1>3, <1>4 DEF Moving

\* What the conversations of the other requests owe, when handler r moves.
LEMMA OtherContextsStay ==
    ASSUME IInv, OInv, NEW r \in Requests, Moving(r), NEW p \in Requests, p # r
    PROVE  AfterInv(p)'
<1>1. chat'[p] = chat[p]
    BY DEF Moving
<1>2. \A q \in Requests : InContext(p, q) => InContext(p, q)'
    BY <1>1 DEF InContext
<1> QED
    BY <1>1, <1>2, ContextsStay

\* The usual step: handler r moves, its conversation stays, and so do the lists,
\* the windows and the rows.
Quiet(r) ==
    /\ Moving(r)
    /\ chat'[r].context = chat[r].context /\ chat'[r].after = chat[r].after
    /\ Finished(chat'[r]) /\ LLMTurn(chat'[r]) => Finished(chat[r]) /\ LLMTurn(chat[r])

\* Finished turns stay remembered where no message is added.
LEMMA TurnsStay ==
    ASSUME IInv, OInv, NEW r \in Requests, Moving(r), UNCHANGED history,
           Finished(chat'[r]) /\ LLMTurn(chat'[r])
              => Finished(chat[r]) /\ LLMTurn(chat[r])
    PROVE  TurnsInv'
<1> SUFFICES ASSUME faults' = 0, NEW q \in Requests,
                    Finished(chat'[q]), LLMTurn(chat'[q])
             PROVE  Remembered(history[chat'[q].session], q)
    BY DEF TurnsInv, Remembered
<1>1. faults = 0 /\ \A p \in Requests : p # r => chat'[p] = chat[p]
    BY DEF Moving
<1>2. chat'[q].session = chat[q].session
    BY <1>1 DEF Moving, Evolves
<1>3. Finished(chat[q]) /\ LLMTurn(chat[q])
    BY <1>1
<1> QED
    BY <1>1, <1>2, <1>3 DEF OInv, TurnsInv

\* What the conversation of r owes, when r moves and keeps it.
LEMMA OwnContextStays ==
    ASSUME IInv, OInv, NEW r \in Requests, Moving(r),
           chat'[r].context = chat[r].context, chat'[r].after = chat[r].after
    PROVE  ContextInv'
<1>1. AfterInv(r)'
    <2>1. \A q \in Requests : InContext(r, q) => InContext(r, q)'
        BY DEF InContext
    <2> QED
        BY <2>1, ContextsStay DEF Moving, Evolves
<1> QED
    BY <1>1, OtherContextsStay DEF ContextInv

\* Steps that leave a store alone.
LEMMA ListsStay ==
    ASSUME IInv, OInv, NEW r \in Requests, Moving(r), UNCHANGED history
    PROVE  MessagesInv'
BY RecordsStay DEF MessagesInv, OInv, QuestionFirst

LEMMA WindowsStay ==
    ASSUME IInv, OInv, NEW r \in Requests, Moving(r), UNCHANGED window
    PROVE  WindowsInv'
BY RecordsStay DEF WindowsInv, OInv, Moving, Distinct

LEMMA RowsStay ==
    ASSUME IInv, OInv, NEW r \in Requests, Moving(r), UNCHANGED rows
    PROVE  HandlersInv' /\ RowsInv'
BY RecordsStay DEF RowsInv

\* A step that records nothing, asks nothing and finishes nothing.
LEMMA QuietStep ==
    ASSUME IInv, OInv, NEW r \in Requests, Quiet(r), UNCHANGED <<history, detector, rows>>
    PROVE  OInv'
<1>1. /\ Moving(r) /\ UNCHANGED <<history, window, rows>>
      /\ chat'[r].context = chat[r].context /\ chat'[r].after = chat[r].after
      /\ Finished(chat'[r]) /\ LLMTurn(chat'[r]) => Finished(chat[r]) /\ LLMTurn(chat[r])
    BY DEF Quiet, detector
<1> QED
    BY <1>1, ListsStay, WindowsStay, RowsStay, TurnsStay, OwnContextStays DEF OInv

-----------------------------------------------------------------------------
(* One lemma per action. *)

\* What an action starts from.
LEMMA Knows ==
    ASSUME IInv, OInv, NEW r \in Requests
    PROVE  /\ chat \in [Requests -> Chat] /\ chat[r] \in Chat
           /\ HandlerInv(chat[r])
           /\ EventInv(chat[r]) /\ ResponseInv(chat[r]) /\ KeyInv(chat[r])
BY Here DEF RequestInv, OInv, HandlersInv

\* A call that fails does not unfail another.
LEMMA FaultsGrow ==
    ASSUME IInv, NEW r \in Requests
    PROVE  /\ Fault => faults' # 0
           /\ Fail(r) => (faults' = 0 => faults = 0)
           /\ UNCHANGED faults => (faults' = 0 => faults = 0)
BY BoundsAssumption DEF IInv, GlobalTypes, Fault, Fail

\* Before the first event.
LEMMA NothingWritten == \A x : ~Wrote(<<>>, x)
BY DEF Wrote

\* The two events that decide what a handler reports.
LEMMA WroteIs ==
    ASSUME NEW c
    PROVE  (Corrected(c) <=> Wrote(c.events, "correction"))
           /\ (CycleSeen(c) <=> Wrote(c.events, "loop_detected"))
BY DEF Corrected, CycleSeen, Wrote

\* A response that is empty has no tokens.
LEMMA LenFacts ==
    ASSUME IInv, NEW r \in Requests
    PROVE  /\ chat[r].reply.len \in Nat /\ chat[r].retry.len \in Nat
           /\ Applied(chat[r]) <=> chat[r].retry.len # 0
<1>1. chat[r].reply.len \in Nat /\ chat[r].retry.len \in Nat
    BY Fields DEF Text
<1> QED
    BY <1>1 DEF Applied

\* A request that is turned away.
LEMMA QuietReject ==
    ASSUME IInv, OInv, NEW r \in Requests, Reject(r), faults' = 0 => faults = 0,
           chat[r].pc \in {"idle", "load", "call"}
    PROVE  Quiet(r)
<1> DEFINE d == chat[r]
           c == chat'[r]
           x == <<"reject">>
<1>0. d \in Chat /\ HandlerInv(d) /\ EventInv(d) /\ ResponseInv(d)
    BY Knows
<1>1. /\ \A q \in Requests : q # r => chat'[q] = chat[q]
      /\ c = [d EXCEPT !.pc = "done", !.events = x, !.seen = 1]
    BY Knows DEF Reject
<1>2. /\ Len(x) = 1 /\ LastEvent(x) = "reject"
      /\ ~Wrote(x, "correction") /\ ~Wrote(x, "loop_detected")
    BY DEF LastEvent, Wrote
<1> HIDE DEF x
<1>3. /\ c.pc = "done" /\ c.events = x /\ c.seen = 1
      /\ c.session = d.session /\ c.context = d.context /\ c.after = d.after
      /\ c.tier = d.tier /\ c.reply = d.reply /\ c.retry = d.retry
      /\ c.check = d.check /\ c.usage = d.usage
    BY <1>0, <1>1 DEF Chat
<1> HIDE DEF c
<1>4. ~Wrote(d.events, "correction") /\ d.check = "none" /\ d.tier # "HIT"
    <2>1. d.events = <<>>
        BY <1>0 DEF EventInv
    <2> QED
        BY <1>0, <2>1, NothingWritten DEF HandlerInv, CallsInv
<1>5. ~Applied(d) /\ ~Applied(c)
    BY <1>0, <1>3, <1>4, WroteIs DEF HandlerInv, TellingInv, Applied
<1>6. HandlerInv(c)
    BY <1>2, <1>3, <1>4, <1>5, WroteIs DEF HandlerInv, TellingInv, CallsInv
<1>7. Evolves(d, c)
    BY <1>3, <1>4 DEF Evolves, Saved, Unasked
<1>8. ~Finished(c)
    BY <1>2, <1>3 DEF Finished
<1> QED
    BY <1>1, <1>3, <1>6, <1>7, <1>8 DEF Quiet, Moving, c

\* A step that only moves the program counter, not past the answer.
LEMMA QuietPc ==
    ASSUME IInv, OInv, NEW r \in Requests, NEW pc \in PC,
           chat' = [chat EXCEPT ![r].pc = pc], faults' = 0 => faults = 0,
           HandlerInv([chat[r] EXCEPT !.pc = pc]),
           Evolves(chat[r], [chat[r] EXCEPT !.pc = pc]),
           pc = "done" => LastEvent(chat[r].events) # "final",
           pc \notin {"write", "log"}
    PROVE  Quiet(r)
<1> DEFINE d == chat[r]
           c == [d EXCEPT !.pc = pc]
<1>1. d \in Chat /\ chat'[r] = c /\ \A q \in Requests : q # r => chat'[q] = chat[q]
    BY Knows
<1>2. c.pc = pc /\ c.context = d.context /\ c.after = d.after /\ c.events = d.events
    BY <1>1 DEF Chat
<1> HIDE DEF c
<1>3. ~Finished(c)
    BY <1>2 DEF Finished
<1> QED
    BY <1>1, <1>2, <1>3 DEF Quiet, Moving, c

\* A request arrives; the ones of its session that it comes after are done.
LEMMA OutcomeArrive ==
    ASSUME IInv, OInv, NEW r \in Requests, Arrive(r)
    PROVE  OInv'
<1> DEFINE d == chat[r]
           c == chat'[r]
<1>0. /\ chat \in [Requests -> Chat] /\ d \in Chat
      /\ HandlerInv(d) /\ EventInv(d) /\ ResponseInv(d)
    BY Knows
<1>1. d.pc = "idle" /\ UNCHANGED <<history, detector, rows, faults>>
    BY DEF Arrive, At
<1>2. CASE Reject(r)
    BY <1>1, <1>2, QuietReject, QuietStep
<1>3. CASE ~Reject(r)
    <2> DEFINE a == {q \in Requests \ {r} :
                       /\ chat[q].session = chat[r].session
                       /\ \E i \in 1 .. chat[q].seen : chat[q].events[i] = "final"}
    <2>1. chat' = [chat EXCEPT ![r].pc = "load", ![r].after = a]
        BY <1>3 DEF Arrive
    <2> HIDE DEF a
    <2>2. \A q \in Requests : q # r => chat'[q] = chat[q]
        BY <1>0, <2>1
    <2>3. c = [d EXCEPT !.pc = "load", !.after = a]
        BY <1>0, <2>1
    <2>4. /\ c.pc = "load" /\ c.after = a /\ c.context = d.context
          /\ c.session = d.session /\ c.tier = d.tier /\ c.reply = d.reply
          /\ c.retry = d.retry /\ c.check = d.check /\ c.usage = d.usage
          /\ c.events = d.events
        BY <1>0, <2>3 DEF Chat
    <2> HIDE DEF c
    <2>5. HandlerInv(c)
        BY <1>0, <1>1, <2>4, WroteIs
        DEF HandlerInv, TellingInv, CallsInv, Applied
    <2>6. Evolves(d, c)
        BY <1>1, <2>4 DEF Evolves, Saved, Unasked
    <2>7. Moving(r)
        BY <1>1, <2>2, <2>5, <2>6 DEF Moving, c
    <2>8. ASSUME NEW q \in a
          PROVE  /\ q \in Requests /\ q # r /\ chat'[q].session = d.session
                 /\ chat'[q].tier = "HIT" \/ Done(chat'[q])
        <3>1. /\ q \in Requests /\ q # r /\ chat[q].session = d.session
              /\ \E i \in 1 .. chat[q].seen : chat[q].events[i] = "final"
            BY DEF a
        <3>2. PICK i \in 1 .. chat[q].seen : chat[q].events[i] = "final"
            BY <3>1
        <3>3. /\ HandlerInv(chat[q]) /\ EventInv(chat[q]) /\ KeyInv(chat[q])
              /\ chat[q] \in Chat
            BY <3>1, Knows
        <3>4. /\ chat[q].events \in Seq(Event) /\ chat[q].seen \in Nat
              /\ Len(chat[q].events) \in Nat
            BY <3>1, Fields
        <3>5. i \in 1 .. Len(chat[q].events)
            BY <3>3, <3>4 DEF KeyInv
        <3>6. i = Len(chat[q].events) /\ LastEvent(chat[q].events) = "final"
            BY <3>2, <3>3, <3>4, <3>5, FinalIsLast DEF EventInv
        <3>7. chat[q].events # <<>> /\ chat[q].seen = Len(chat[q].events)
            BY <3>3, <3>4, <3>6 DEF KeyInv
        <3>8. chat[q].tier = "HIT" \/ chat[q].pc = "done"
            BY <3>3, <3>6, <3>7
            DEF HandlerInv, TellingInv, EventInv, Chat, PC
        <3>9. chat'[q] = chat[q]
            BY <2>2, <3>1
        <3> QED
            BY <3>1, <3>6, <3>8, <3>9 DEF Done
    <2>9. AfterInv(r)'
        <3>1. c.context = <<>>
            BY <1>0, <1>1, <2>4 DEF HandlerInv, CallsInv
        <3> QED
            BY <2>4, <2>8, <3>1 DEF AfterInv, c
    <2>10. ContextInv'
        BY <2>7, <2>9, OtherContextsStay DEF ContextInv
    <2>11. ~Finished(c)
        BY <2>4 DEF Finished
    <2> QED
        BY <1>1, <2>7, <2>10, <2>11, ListsStay, WindowsStay, RowsStay, TurnsStay
        DEF OInv, detector, c
<1> QED
    BY <1>2, <1>3

\* The conversation is read, with the turns it owes to the requests before.
LEMMA OutcomeGetHistory ==
    ASSUME IInv, OInv, NEW r \in Requests, GetHistory(r)
    PROVE  OInv'
<1> DEFINE d == chat[r]
           c == chat'[r]
           h == history[d.session]
<1>0. /\ chat \in [Requests -> Chat] /\ d \in Chat
      /\ HandlerInv(d) /\ EventInv(d) /\ ResponseInv(d)
    BY Knows
<1>1. /\ d.pc = "load" /\ UNCHANGED <<history, detector, rows>>
      /\ faults' = 0 => faults = 0
    BY FaultsGrow DEF GetHistory, At
<1>2. CASE Reject(r)
    BY <1>1, <1>2, QuietReject, QuietStep
<1>3. CASE ~Reject(r)
    <2> DEFINE x == Append(h, User(r))
    <2>1. chat' = [chat EXCEPT ![r].pc = "append", ![r].context = x]
        BY <1>3 DEF GetHistory
    <2>2. d.session \in Sessions /\ h \in Seq(Message) /\ User(r) \in Message
        BY Fields, MessageFacts DEF IInv, GlobalTypes
    <2> HIDE DEF h
    <2>3. /\ Len(h) \in Nat /\ Len(x) = Len(h) + 1
          /\ \A i \in 1 .. Len(h) : x[i] = h[i]
        BY <2>2, AppendFacts
    <2> HIDE DEF x
    <2>4. /\ c = [d EXCEPT !.pc = "append", !.context = x]
          /\ \A q \in Requests : q # r => chat'[q] = chat[q]
        BY <1>0, <2>1
    <2>5. /\ c.pc = "append" /\ c.after = d.after /\ c.context = x
          /\ c.session = d.session /\ c.tier = d.tier /\ c.reply = d.reply
          /\ c.retry = d.retry /\ c.check = d.check /\ c.usage = d.usage
          /\ c.events = d.events
        BY <1>0, <2>4 DEF Chat
    <2> HIDE DEF c
    <2>6. HandlerInv(c)
        <3>1. x # <<>>
            BY <2>3
        <3> QED
            BY <1>0, <1>1, <2>5, <3>1, WroteIs
            DEF HandlerInv, TellingInv, CallsInv, Applied
    <2>7. Evolves(d, c)
        BY <1>1, <2>5 DEF Evolves, Saved, Unasked
    <2>8. Moving(r)
        BY <1>1, <2>4, <2>6, <2>7 DEF Moving, c
    <2>9. ASSUME NEW q \in c.after
          PROVE  /\ chat'[q].session = c.session
                 /\ chat'[q].tier = "HIT" \/ Done(chat'[q])
                 /\ faults' = 0 /\ LLMTurn(chat'[q]) => InContext(r, q)'
        <3>1. /\ q \in Requests /\ chat[q].session = d.session
              /\ chat[q].tier = "HIT" \/ Done(chat[q])
            BY <1>0, <2>5 DEF Chat, OInv, ContextInv, AfterInv
        <3>2. q # r
            BY <1>0, <1>1, <3>1 DEF Done, HandlerInv, CallsInv
        <3>3. chat'[q] = chat[q]
            BY <2>4, <3>1, <3>2
        <3>4. ASSUME faults' = 0, LLMTurn(chat[q]) PROVE InContext(r, q)'
            <4>1. Finished(chat[q]) /\ faults = 0
                BY <1>1, <3>1, <3>4 DEF LLMTurn, Done, Finished
            <4>2. Remembered(h, q)
                BY <3>1, <3>4, <4>1 DEF OInv, TurnsInv, h
            <4>3. CASE Len(h) = MaxMessages
                <5>1. Len(x) > MaxMessages
                    BY <2>3, <4>3
                <5> QED
                    BY <2>5, <5>1 DEF InContext, c
            <4>4. CASE \E i \in 1 .. Len(h) :
                          h[i].role = "assistant" /\ h[i].from = q
                <5>1. \E i \in 1 .. Len(x) : x[i].role = "assistant" /\ x[i].from = q
                    BY <2>3, <4>4
                <5> QED
                    BY <2>5, <5>1 DEF InContext, c
            <4> QED
                BY <4>2, <4>3, <4>4 DEF Remembered
        <3> QED
            BY <2>5, <3>1, <3>3, <3>4
    <2>10. ContextInv'
        <3>1. AfterInv(r)'
            BY <2>9 DEF AfterInv, c
        <3> QED
            BY <2>8, <3>1, OtherContextsStay DEF ContextInv
    <2>11. ~Finished(c)
        BY <2>5 DEF Finished
    <2> QED
        BY <1>1, <2>8, <2>10, <2>11, ListsStay, WindowsStay, RowsStay, TurnsStay
        DEF OInv, detector, c
<1> QED
    BY <1>2, <1>3

\* The session's flag is read.
LEMMA OutcomeSessionHadCycle ==
    ASSUME IInv, OInv, NEW r \in Requests, SessionHadCycle(r)
    PROVE  OInv'
<1>0. chat[r] \in Chat /\ HandlerInv(chat[r]) /\ EventInv(chat[r])
    BY Knows
<1>1. /\ chat[r].pc = "flag" /\ UNCHANGED <<history, detector, rows>>
      /\ faults' = 0 => faults = 0
    BY FaultsGrow DEF SessionHadCycle, At
<1>2. PICK pc \in {"call", "query"} : chat' = [chat EXCEPT ![r].pc = pc]
    BY DEF SessionHadCycle
<1> DEFINE c == [chat[r] EXCEPT !.pc = pc]
<1>3. HandlerInv(c) /\ Evolves(chat[r], c) /\ pc \in PC
    BY <1>0, <1>1 DEF Chat, PC, HandlerInv, TellingInv, CallsInv, Applied,
       Evolves, Saved, Unasked, Corrected, CycleSeen
<1> HIDE DEF c
<1>4. Quiet(r)
    BY <1>1, <1>2, <1>3, QuietPc DEF c
<1> QED
    BY <1>1, <1>4, QuietStep

\* The cache answers with a tier, or fails.
LEMMA OutcomeQueryCache ==
    ASSUME IInv, OInv, NEW r \in Requests, QueryCache(r)
    PROVE  OInv'
<1> DEFINE d == chat[r]
           c == chat'[r]
<1>0. /\ chat \in [Requests -> Chat] /\ d \in Chat
      /\ HandlerInv(d) /\ EventInv(d) /\ ResponseInv(d)
    BY Knows
<1>1. /\ d.pc = "query" /\ UNCHANGED <<history, detector, rows>>
      /\ faults' = 0 => faults = 0
    BY FaultsGrow DEF QueryCache, At
<1>2. CASE chat' = [chat EXCEPT ![r].pc = "call"]
    <2> DEFINE e == [d EXCEPT !.pc = "call"]
    <2>1. HandlerInv(e) /\ Evolves(d, e) /\ "call" \in PC
        BY <1>0, <1>1 DEF Chat, PC, HandlerInv, TellingInv, CallsInv, Applied,
           Evolves, Saved, Unasked, Corrected, CycleSeen
    <2> HIDE DEF e
    <2>2. Quiet(r)
        BY <1>1, <1>2, <2>1, QuietPc DEF e
    <2> QED
        BY <1>1, <2>2, QuietStep
<1>3. CASE chat' # [chat EXCEPT ![r].pc = "call"]
    <2>1. PICK e \in Nearest(d.key) :
            LET tier == Closeness[<<d.key, e.key>>] IN
            chat' = [chat EXCEPT ![r].tier = tier,
               ![r].pc = IF tier = "HIT" THEN "hit" ELSE "call",
               ![r].reply = IF tier = "HIT" THEN e.text ELSE @,
               ![r].context = IF tier = "FEW_SHOT" THEN <<Hint(e)>> \o @ ELSE @]
        BY <1>3 DEF QueryCache
    <2> DEFINE tier == Closeness[<<d.key, e.key>>]
               pc   == IF tier = "HIT" THEN "hit" ELSE "call"
               t    == IF tier = "HIT" THEN e.text ELSE d.reply
               x    == IF tier = "FEW_SHOT" THEN <<Hint(e)>> \o d.context
                       ELSE d.context
    <2>2. chat' = [chat EXCEPT ![r].tier = tier, ![r].pc = pc, ![r].reply = t,
                               ![r].context = x]
        BY <1>0, <2>1
    <2> HIDE DEF tier
    <2>3. /\ pc \in {"hit", "call"} /\ (tier = "HIT" <=> pc = "hit")
        OBVIOUS
    <2>4. /\ d.context \in Seq(Message) /\ x \in Seq(Message)
          /\ Len(d.context) \in Nat /\ Len(x) \in {Len(d.context), Len(d.context) + 1}
          /\ \A i \in 1 .. Len(d.context) : \E j \in 1 .. Len(x) : x[j] = d.context[i]
          /\ x = <<>> => d.context = <<>>
        <3>1. d.context \in Seq(Message) /\ Len(d.context) \in Nat
            BY Fields
        <3>2. CASE tier = "FEW_SHOT"
            <4> DEFINE a == Hint(e)
            <4>1. x = <<a>> \o d.context
                BY <3>2
            <4>2. a \in Message
                BY MessageFacts DEF IInv, GlobalTypes, Nearest
            <4> HIDE DEF a, x
            <4>3. <<a>> \in Seq(Message) /\ Len(<<a>>) = 1
                BY <4>2
            <4>4. /\ x \in Seq(Message) /\ Len(x) = Len(d.context) + 1
                  /\ \A j \in 1 .. Len(d.context) + 1 :
                        x[j] = IF j <= 1 THEN <<a>>[j] ELSE d.context[j - 1]
                BY <3>1, <4>1, <4>3, ConcatProperties
            <4>5. \A i \in 1 .. Len(d.context) :
                    /\ i + 1 \in 1 .. Len(x) /\ x[i + 1] = d.context[i]
                BY <3>1, <4>4
            <4>6. x # <<>>
                BY <3>1, <4>4
            <4> QED
                BY <3>1, <4>4, <4>5, <4>6
        <3>3. CASE tier # "FEW_SHOT"
            BY <3>1, <3>3
        <3> QED
            BY <3>2, <3>3
    <2> HIDE DEF pc, t, x
    <2>5. /\ c = [d EXCEPT !.tier = tier, !.pc = pc, !.reply = t, !.context = x]
          /\ \A q \in Requests : q # r => chat'[q] = chat[q]
        BY <1>0, <2>2
    <2>6. /\ c.pc = pc /\ c.tier = tier /\ c.context = x /\ c.after = d.after
          /\ c.session = d.session /\ c.retry = d.retry /\ c.check = d.check
          /\ c.usage = d.usage /\ c.events = d.events
        BY <1>0, <2>5 DEF Chat
    <2> HIDE DEF c
    <2>7. d.check = "none" /\ d.tier = "MISS"
        BY <1>0, <1>1 DEF HandlerInv, CallsInv, ResponseInv
    <2>8. HandlerInv(c)
        BY <1>0, <1>1, <2>3, <2>6, <2>7, WroteIs
        DEF HandlerInv, TellingInv, CallsInv, Applied
    <2>9. Evolves(d, c)
        BY <1>1, <2>3, <2>6, <2>7 DEF Evolves, Saved, Unasked
    <2>10. Moving(r)
        BY <1>1, <2>5, <2>8, <2>9 DEF Moving, c
    <2>11. \A q \in Requests : InContext(r, q) => InContext(r, q)'
        <3> SUFFICES ASSUME NEW q \in Requests, InContext(r, q)
                     PROVE  \/ Len(x) > MaxMessages
                            \/ \E j \in 1 .. Len(x) :
                                  x[j].role = "assistant" /\ x[j].from = q
            BY <2>6 DEF InContext, c
        <3>1. CASE Len(d.context) > MaxMessages
            BY <2>4, <3>1, BoundsAssumption
        <3>2. CASE \E i \in 1 .. Len(d.context) :
                      d.context[i].role = "assistant" /\ d.context[i].from = q
            BY <2>4, <3>2
        <3> QED
            BY <3>1, <3>2 DEF InContext
    <2>12. d.context # <<>>
        BY <1>0, <1>1 DEF HandlerInv, CallsInv
    <2>13. AfterInv(r)'
        BY <2>4, <2>6, <2>10, <2>11, <2>12, ContextsStay DEF c
    <2>14. ContextInv'
        BY <2>10, <2>13, OtherContextsStay DEF ContextInv
    <2>15. ~Finished(c)
        BY <2>3, <2>6 DEF Finished
    <2> QED
        BY <1>1, <2>10, <2>14, <2>15, ListsStay, WindowsStay, RowsStay, TurnsStay
        DEF OInv, detector, c
<1> QED
    BY <1>2, <1>3

\* A cached answer is streamed.
LEMMA OutcomeServeHit ==
    ASSUME IInv, OInv, NEW r \in Requests, ServeHit(r)
    PROVE  OInv'
<1> DEFINE d == chat[r]
           c == chat'[r]
<1>0. /\ chat \in [Requests -> Chat] /\ d \in Chat
      /\ HandlerInv(d) /\ EventInv(d) /\ ResponseInv(d)
    BY Knows
<1>1. d.pc = "hit" /\ UNCHANGED <<history, detector, rows, faults>>
    BY DEF ServeHit, At
<1>2. d.tier = "HIT" /\ d.events = <<>> /\ ~Applied(d)
    BY <1>0, <1>1, WroteIs, NothingWritten
    DEF ResponseInv, EventInv, HandlerInv, TellingInv
<1>3. CASE chat' = [chat EXCEPT ![r].pc = "save"] /\ d.gone
    <2> DEFINE e == [d EXCEPT !.pc = "save"]
    <2>1. HandlerInv(e) /\ Evolves(d, e) /\ "save" \in PC
        BY <1>0, <1>1, <1>2, <1>3 DEF Chat, PC, HandlerInv, TellingInv, CallsInv, Applied,
           Evolves, Saved, Unasked, Corrected, CycleSeen
    <2> HIDE DEF e
    <2>2. Quiet(r)
        BY <1>1, <1>3, <2>1, QuietPc DEF e
    <2> QED
        BY <1>1, <2>2, QuietStep
<1>4. CASE chat' = [chat EXCEPT ![r].pc = "save", ![r].events = <<"token", "final">>,
                                ![r].seen = 2]
    <2> DEFINE x == <<"token", "final">>
    <2>1. /\ LastEvent(x) = "final"
          /\ ~Wrote(x, "correction") /\ ~Wrote(x, "loop_detected")
        BY DEF LastEvent, Wrote
    <2> HIDE DEF x
    <2>2. /\ c = [d EXCEPT !.pc = "save", !.events = x, !.seen = 2]
          /\ \A q \in Requests : q # r => chat'[q] = chat[q]
        BY <1>0, <1>4 DEF x
    <2>3. /\ c.pc = "save" /\ c.events = x /\ c.context = d.context /\ c.after = d.after
          /\ c.session = d.session /\ c.tier = d.tier /\ c.reply = d.reply
          /\ c.retry = d.retry /\ c.check = d.check /\ c.usage = d.usage
        BY <1>0, <2>2 DEF Chat
    <2> HIDE DEF c
    <2>4. HandlerInv(c)
        BY <1>0, <1>1, <1>2, <2>1, <2>3, WroteIs
        DEF HandlerInv, TellingInv, CallsInv, Applied
    <2>5. Evolves(d, c)
        BY <1>1, <2>3 DEF Evolves, Saved, Unasked
    <2>6. ~Finished(c)
        BY <2>3 DEF Finished
    <2>7. Quiet(r)
        BY <1>1, <2>2, <2>3, <2>4, <2>5, <2>6 DEF Quiet, Moving, c
    <2> QED
        BY <1>1, <2>7, QuietStep
<1> QED
    BY <1>3, <1>4 DEF ServeHit

\* The first call of the LLM.
LEMMA OutcomeCallLLM ==
    ASSUME IInv, OInv, NEW r \in Requests, CallLLM(r)
    PROVE  OInv'
<1> DEFINE d == chat[r]
           c == chat'[r]
<1>0. /\ chat \in [Requests -> Chat] /\ d \in Chat
      /\ HandlerInv(d) /\ EventInv(d) /\ ResponseInv(d) /\ KeyInv(d)
    BY Knows
<1>1. /\ d.pc = "call" /\ UNCHANGED <<history, detector, rows>>
      /\ faults' = 0 => faults = 0
    BY FaultsGrow DEF CallLLM, At
<1>2. CASE Reject(r)
    BY <1>1, <1>2, QuietReject, QuietStep
<1>3. CASE ~Reject(r)
    <2>1. PICK m \in Model : chat' = [chat EXCEPT ![r].pc = "stream", ![r].model = m]
        BY <1>3 DEF CallLLM
    <2>2. /\ c = [d EXCEPT !.pc = "stream", !.model = m]
          /\ \A q \in Requests : q # r => chat'[q] = chat[q]
        BY <1>0, <2>1
    <2>3. /\ c.pc = "stream" /\ c.context = d.context /\ c.after = d.after
          /\ c.session = d.session /\ c.tier = d.tier /\ c.reply = d.reply
          /\ c.retry = d.retry /\ c.check = d.check /\ c.usage = d.usage
          /\ c.events = d.events /\ c.seen = d.seen
        BY <1>0, <2>2 DEF Chat
    <2> HIDE DEF c
    <2>4. d.seen = Len(d.events) /\ d.tier # "HIT" /\ d.check = "none"
        <3>1. d.events = <<>> /\ d.seen \in Nat
            BY <1>0, <1>1 DEF EventInv, Chat
        <3> QED
            BY <1>0, <1>1, <3>1 DEF KeyInv, HandlerInv, CallsInv
    <2>5. HandlerInv(c)
        BY <1>0, <1>1, <2>3, <2>4, WroteIs DEF HandlerInv, TellingInv, CallsInv, Applied
    <2>6. Evolves(d, c)
        BY <1>1, <2>3 DEF Evolves, Saved, Unasked
    <2>7. ~Finished(c)
        BY <2>3 DEF Finished
    <2>8. Quiet(r)
        BY <1>1, <2>2, <2>3, <2>5, <2>6, <2>7 DEF Quiet, Moving, c
    <2> QED
        BY <1>1, <2>8, QuietStep
<1> QED
    BY <1>2, <1>3

\* A step that writes one event, and changes nothing of what was recorded.
LEMMA OutcomeStreamToken ==
    ASSUME IInv, OInv, NEW r \in Requests, StreamToken(r)
    PROVE  OInv'
<1> DEFINE d == chat[r]
           c == chat'[r]
           x == Append(d.events, "token")
           n == d.seen + 1
<1>0. /\ chat \in [Requests -> Chat] /\ d \in Chat
      /\ HandlerInv(d) /\ EventInv(d) /\ ResponseInv(d)
    BY Knows
<1>1. d.pc = "stream" /\ UNCHANGED <<history, detector, rows, faults>>
    BY DEF StreamToken, At
<1>2. PICK t \in Longer(d.reply) :
        chat' = [chat EXCEPT ![r].reply = t, ![r].events = x, ![r].seen = n]
    BY <1>0 DEF StreamToken
<1>3. /\ Len(d.events) \in Nat /\ Len(x) = Len(d.events) + 1
      /\ Wrote(x, "correction") <=> Wrote(d.events, "correction")
      /\ Wrote(x, "loop_detected") <=> Wrote(d.events, "loop_detected")
    BY Fields, WroteFacts DEF Event
<1>4. n = Len(x) /\ d.check = "none" /\ d.tier # "HIT"
    BY <1>0, <1>1, <1>3 DEF HandlerInv, TellingInv, CallsInv
<1> HIDE DEF x, n
<1>5. /\ c = [d EXCEPT !.reply = t, !.events = x, !.seen = n]
      /\ \A q \in Requests : q # r => chat'[q] = chat[q]
    BY <1>0, <1>2
<1>6. /\ c.pc = "stream" /\ c.context = d.context /\ c.after = d.after
      /\ c.session = d.session /\ c.tier = d.tier /\ c.seen = n
      /\ c.retry = d.retry /\ c.check = d.check /\ c.usage = d.usage
      /\ c.events = x
    BY <1>0, <1>1, <1>5 DEF Chat
<1> HIDE DEF c
<1>7. HandlerInv(c)
    BY <1>0, <1>1, <1>3, <1>4, <1>6, WroteIs
    DEF HandlerInv, TellingInv, CallsInv, Applied
<1>8. Evolves(d, c)
    BY <1>1, <1>4, <1>6 DEF Evolves, Saved, Unasked
<1>9. ~Finished(c)
    BY <1>6 DEF Finished
<1>10. Quiet(r)
    BY <1>1, <1>5, <1>6, <1>7, <1>8, <1>9 DEF Quiet, Moving, c
<1> QED
    BY <1>1, <1>10, QuietStep

\* The LLM's stream breaks.
LEMMA OutcomeStreamError ==
    ASSUME IInv, OInv, NEW r \in Requests, StreamError(r)
    PROVE  OInv'
<1> DEFINE d == chat[r]
           c == chat'[r]
           x == Append(d.events, "error")
           n == d.seen + 1
<1>0. /\ chat \in [Requests -> Chat] /\ d \in Chat
      /\ HandlerInv(d) /\ EventInv(d) /\ ResponseInv(d)
    BY Knows
<1>1. /\ d.pc = "stream" /\ UNCHANGED <<history, detector, rows>>
      /\ faults' = 0 => faults = 0
    BY FaultsGrow DEF StreamError, At
<1>2. chat' = [chat EXCEPT ![r].pc = "done", ![r].events = x, ![r].seen = n]
    BY <1>0 DEF StreamError
<1>3. /\ Len(d.events) \in Nat /\ Len(x) = Len(d.events) + 1 /\ LastEvent(x) = "error"
      /\ Wrote(x, "correction") <=> Wrote(d.events, "correction")
      /\ Wrote(x, "loop_detected") <=> Wrote(d.events, "loop_detected")
    BY Fields, WroteFacts DEF Event
<1>4. n = Len(x) /\ d.check = "none" /\ d.tier # "HIT"
    BY <1>0, <1>1, <1>3 DEF HandlerInv, TellingInv, CallsInv
<1> HIDE DEF x, n
<1>5. /\ c = [d EXCEPT !.pc = "done", !.events = x, !.seen = n]
      /\ \A q \in Requests : q # r => chat'[q] = chat[q]
    BY <1>0, <1>2
<1>6. /\ c.pc = "done" /\ c.context = d.context /\ c.after = d.after
      /\ c.session = d.session /\ c.tier = d.tier /\ c.reply = d.reply /\ c.seen = n
      /\ c.retry = d.retry /\ c.check = d.check /\ c.usage = d.usage
      /\ c.events = x
    BY <1>0, <1>1, <1>5 DEF Chat
<1> HIDE DEF c
<1>7. HandlerInv(c)
    BY <1>0, <1>1, <1>3, <1>4, <1>6, WroteIs
    DEF HandlerInv, TellingInv, CallsInv, Applied
<1>8. Evolves(d, c)
    BY <1>1, <1>4, <1>6 DEF Evolves, Saved, Unasked
<1>9. ~Finished(c)
    BY <1>3, <1>6 DEF Finished
<1>10. Quiet(r)
    BY <1>1, <1>5, <1>6, <1>7, <1>8, <1>9 DEF Quiet, Moving, c
<1> QED
    BY <1>1, <1>10, QuietStep

\* The client has left in mid-stream.
LEMMA OutcomeClientGone ==
    ASSUME IInv, OInv, NEW r \in Requests, ClientGone(r)
    PROVE  OInv'
<1> DEFINE d == chat[r]
           c == [d EXCEPT !.pc = "done"]
<1>0. d \in Chat /\ HandlerInv(d) /\ EventInv(d)
    BY Knows
<1>1. /\ d.pc = "stream" /\ d.gone /\ UNCHANGED <<history, detector, rows, faults>>
      /\ chat' = [chat EXCEPT ![r].pc = "done"]
    BY DEF ClientGone, At
<1>2. HandlerInv(c) /\ Evolves(d, c) /\ "done" \in PC
    BY <1>0, <1>1 DEF Chat, PC, HandlerInv, TellingInv, CallsInv, Applied,
       Evolves, Saved, Unasked, Corrected, CycleSeen
<1>3. LastEvent(d.events) # "final"
    BY <1>0, <1>1 DEF EventInv
<1> HIDE DEF c
<1>4. Quiet(r)
    BY <1>1, <1>2, <1>3, QuietPc DEF c
<1> QED
    BY <1>1, <1>4, QuietStep

\* The LLM's stream ends, and the response is checked.
LEMMA OutcomeStreamEnd ==
    ASSUME IInv, OInv, NEW r \in Requests, StreamEnd(r)
    PROVE  OInv'
<1> DEFINE d  == chat[r]
           c  == chat'[r]
           pc == IF Checked(d) THEN "verdict" ELSE "finish"
           k  == IF Checked(d) THEN "asked" ELSE "none"
           u  == 1
<1>0. /\ chat \in [Requests -> Chat] /\ d \in Chat
      /\ HandlerInv(d) /\ EventInv(d) /\ ResponseInv(d)
    BY Knows
<1>1. d.pc = "stream" /\ UNCHANGED <<history, detector, rows, faults>>
    BY DEF StreamEnd, At
<1>2. chat' = [chat EXCEPT ![r].usage = u, ![r].pc = pc, ![r].check = k]
    BY DEF StreamEnd
<1>3. /\ pc \in {"verdict", "finish"} /\ k \in {"asked", "none"}
      /\ k = "asked" => d.tier = "MISS"
      /\ u > 0
    BY DEF Checked
<1>4. d.check = "none" /\ d.tier # "HIT"
    BY <1>0, <1>1 DEF HandlerInv, CallsInv
<1> HIDE DEF pc, k, u
<1>5. /\ c = [d EXCEPT !.usage = u, !.pc = pc, !.check = k]
      /\ \A q \in Requests : q # r => chat'[q] = chat[q]
    BY <1>0, <1>2
<1>6. /\ c.pc = pc /\ c.context = d.context /\ c.after = d.after
      /\ c.session = d.session /\ c.tier = d.tier /\ c.reply = d.reply
      /\ c.retry = d.retry /\ c.check = k /\ c.usage = u
      /\ c.events = d.events
    BY <1>0, <1>5 DEF Chat
<1> HIDE DEF c
<1>7. HandlerInv(c)
    BY <1>0, <1>1, <1>3, <1>4, <1>6, WroteIs
    DEF HandlerInv, TellingInv, CallsInv, Applied
<1>8. Evolves(d, c)
    BY <1>1, <1>3, <1>4, <1>6 DEF Evolves, Saved, Unasked
<1>9. ~Finished(c)
    BY <1>3, <1>6 DEF Finished
<1>10. Quiet(r)
    BY <1>1, <1>5, <1>6, <1>7, <1>8, <1>9 DEF Quiet, Moving, c
<1> QED
    BY <1>1, <1>10, QuietStep

\* The detector's verdict is waited for, or given up.
LEMMA OutcomeCheckReturns ==
    ASSUME IInv, OInv, NEW r \in Requests, CheckReturns(r)
    PROVE  OInv'
<1> DEFINE d == chat[r]
           c == chat'[r]
<1>0. /\ chat \in [Requests -> Chat] /\ d \in Chat
      /\ HandlerInv(d) /\ EventInv(d) /\ ResponseInv(d)
    BY Knows
<1>1. /\ d.pc = "verdict" /\ UNCHANGED <<history, detector, rows>>
      /\ faults' = 0 => faults = 0
    BY FaultsGrow DEF CheckReturns, At
<1>2. d.tier # "HIT"
    BY <1>0, <1>1 DEF HandlerInv, CallsInv
<1>3. CASE chat' = [chat EXCEPT ![r].pc = "finish"]
    <2> DEFINE e == [d EXCEPT !.pc = "finish"]
    <2>1. HandlerInv(e) /\ Evolves(d, e) /\ "finish" \in PC
        BY <1>0, <1>1, <1>2 DEF Chat, PC, HandlerInv, TellingInv, CallsInv, Applied,
           Evolves, Saved, Unasked, Corrected, CycleSeen
    <2> HIDE DEF e
    <2>2. Quiet(r)
        BY <1>1, <1>3, <2>1, QuietPc DEF e
    <2> QED
        BY <1>1, <2>2, QuietStep
<1>4. CASE chat' # [chat EXCEPT ![r].pc = "finish"]
    <2> DEFINE x == Append(d.events, "loop_detected")
    <2>1. /\ d.check = "REMEDIATE"
          /\ chat' = [chat EXCEPT ![r].pc = "remediate", ![r].events = x]
        BY <1>0, <1>4 DEF CheckReturns
    <2>2. Wrote(x, "correction") <=> Wrote(d.events, "correction")
        BY Fields, WroteFacts DEF Event
    <2> HIDE DEF x
    <2>3. /\ c = [d EXCEPT !.pc = "remediate", !.events = x]
          /\ \A q \in Requests : q # r => chat'[q] = chat[q]
        BY <1>0, <2>1
    <2>4. /\ c.pc = "remediate" /\ c.context = d.context /\ c.after = d.after
          /\ c.session = d.session /\ c.tier = d.tier /\ c.reply = d.reply
          /\ c.retry = d.retry /\ c.check = d.check /\ c.usage = d.usage
          /\ c.events = x
        BY <1>0, <2>3 DEF Chat
    <2> HIDE DEF c
    <2>5. HandlerInv(c)
        BY <1>0, <1>1, <1>2, <2>1, <2>2, <2>4, WroteIs
        DEF HandlerInv, TellingInv, CallsInv, Applied
    <2>6. Evolves(d, c)
        BY <1>1, <2>4 DEF Evolves, Saved, Unasked
    <2>7. ~Finished(c)
        BY <2>4 DEF Finished
    <2>8. Quiet(r)
        BY <1>1, <2>3, <2>4, <2>5, <2>6, <2>7 DEF Quiet, Moving, c
    <2> QED
        BY <1>1, <2>8, QuietStep
<1> QED
    BY <1>3, <1>4

\* A repeated response is announced.
LEMMA OutcomeRemediate ==
    ASSUME IInv, OInv, NEW r \in Requests, Remediate(r)
    PROVE  OInv'
<1> DEFINE d == chat[r]
           c == chat'[r]
           x == Append(d.events, "remediation")
<1>0. /\ chat \in [Requests -> Chat] /\ d \in Chat
      /\ HandlerInv(d) /\ EventInv(d) /\ ResponseInv(d)
    BY Knows
<1>1. /\ d.pc = "remediate" /\ UNCHANGED <<history, detector, rows>>
      /\ faults' = 0 => faults = 0
    BY FaultsGrow DEF Remediate, At
<1>2. PICK m \in Model :
        chat' = [chat EXCEPT ![r].pc = "retry", ![r].newModel = m, ![r].events = x]
    BY <1>0 DEF Remediate
<1>3. /\ Wrote(x, "correction") <=> Wrote(d.events, "correction")
      /\ Wrote(x, "loop_detected") <=> Wrote(d.events, "loop_detected")
    BY Fields, WroteFacts DEF Event
<1> HIDE DEF x
<1>4. /\ c = [d EXCEPT !.pc = "retry", !.newModel = m, !.events = x]
      /\ \A q \in Requests : q # r => chat'[q] = chat[q]
    BY <1>0, <1>2
<1>5. /\ c.pc = "retry" /\ c.context = d.context /\ c.after = d.after
      /\ c.session = d.session /\ c.tier = d.tier /\ c.reply = d.reply
      /\ c.retry = d.retry /\ c.check = d.check /\ c.usage = d.usage
      /\ c.events = x
    BY <1>0, <1>4 DEF Chat
<1> HIDE DEF c
<1>6. HandlerInv(c)
    BY <1>0, <1>1, <1>3, <1>5, WroteIs DEF HandlerInv, TellingInv, CallsInv, Applied
<1>7. Evolves(d, c)
    BY <1>1, <1>5 DEF Evolves, Saved, Unasked
<1>8. ~Finished(c)
    BY <1>5 DEF Finished
<1>9. Quiet(r)
    BY <1>1, <1>4, <1>5, <1>6, <1>7, <1>8 DEF Quiet, Moving, c
<1> QED
    BY <1>1, <1>9, QuietStep

\* The second call of the LLM.
LEMMA OutcomeRetryCall ==
    ASSUME IInv, OInv, NEW r \in Requests, RetryCall(r)
    PROVE  OInv'
<1>0. chat[r] \in Chat /\ HandlerInv(chat[r]) /\ EventInv(chat[r])
    BY Knows
<1>1. /\ chat[r].pc = "retry" /\ UNCHANGED <<history, detector, rows>>
      /\ faults' = 0 => faults = 0
    BY FaultsGrow DEF RetryCall, At
<1>2. PICK pc \in {"retrying", "finish"} : chat' = [chat EXCEPT ![r].pc = pc]
    BY DEF RetryCall
<1> DEFINE c == [chat[r] EXCEPT !.pc = pc]
<1>3. HandlerInv(c) /\ Evolves(chat[r], c) /\ pc \in PC
    BY <1>0, <1>1 DEF Chat, PC, HandlerInv, TellingInv, CallsInv, Applied,
       Evolves, Saved, Unasked, Corrected, CycleSeen
<1> HIDE DEF c
<1>4. Quiet(r)
    BY <1>1, <1>2, <1>3, QuietPc DEF c
<1> QED
    BY <1>1, <1>4, QuietStep

\* A token of the second response.
LEMMA OutcomeRetryToken ==
    ASSUME IInv, OInv, NEW r \in Requests, RetryToken(r)
    PROVE  OInv'
<1> DEFINE d == chat[r]
           c == chat'[r]
           x == Append(d.events, "correction")
<1>0. /\ chat \in [Requests -> Chat] /\ d \in Chat
      /\ HandlerInv(d) /\ EventInv(d) /\ ResponseInv(d)
    BY Knows
<1>1. d.pc = "retrying" /\ UNCHANGED <<history, detector, rows, faults>>
    BY DEF RetryToken, At
<1>2. PICK t \in Longer(d.retry) :
        chat' = [chat EXCEPT ![r].retry = t, ![r].events = x]
    BY <1>0 DEF RetryToken
<1>3. t.len > 0
    BY Fields, <1>2, LongerFacts DEF RetryToken
<1>4. /\ Wrote(x, "correction")
      /\ Wrote(x, "loop_detected") <=> Wrote(d.events, "loop_detected")
    BY Fields, WroteFacts DEF Event
<1> HIDE DEF x
<1>5. /\ c = [d EXCEPT !.retry = t, !.events = x]
      /\ \A q \in Requests : q # r => chat'[q] = chat[q]
    BY <1>0, <1>2
<1>6. /\ c.pc = "retrying" /\ c.context = d.context /\ c.after = d.after
      /\ c.session = d.session /\ c.tier = d.tier /\ c.reply = d.reply
      /\ c.retry = t /\ c.check = d.check /\ c.usage = d.usage
      /\ c.events = x
    BY <1>0, <1>1, <1>5 DEF Chat
<1> HIDE DEF c
<1>7. HandlerInv(c)
    BY <1>0, <1>1, <1>3, <1>4, <1>6, WroteIs
    DEF HandlerInv, TellingInv, CallsInv, Applied
<1>8. Evolves(d, c)
    BY <1>1, <1>6 DEF Evolves, Saved, Unasked
<1>9. ~Finished(c)
    BY <1>6 DEF Finished
<1>10. Quiet(r)
    BY <1>1, <1>5, <1>6, <1>7, <1>8, <1>9 DEF Quiet, Moving, c
<1> QED
    BY <1>1, <1>10, QuietStep

\* The second response replaces the first one, or is given up.
LEMMA OutcomeRetryEnd ==
    ASSUME IInv, OInv, NEW r \in Requests, RetryEnd(r)
    PROVE  OInv'
<1> DEFINE d == chat[r]
           c == chat'[r]
<1>0. /\ chat \in [Requests -> Chat] /\ d \in Chat
      /\ HandlerInv(d) /\ EventInv(d) /\ ResponseInv(d)
    BY Knows
<1>1. /\ d.pc = "retrying" /\ UNCHANGED <<history, detector, rows>>
      /\ faults' = 0 => faults = 0
    BY FaultsGrow DEF RetryEnd, At
<1>2. d.usage > 0
    BY <1>0, <1>1 DEF ResponseInv
<1> DEFINE u == 2
<1>3. /\ \/ c = [d EXCEPT !.pc = "finish", !.usage = u]
         \/ c = [d EXCEPT !.pc = "finish"]
      /\ \A q \in Requests : q # r => chat'[q] = chat[q]
    BY <1>0 DEF RetryEnd
<1>4. c.usage > 0
    <2>1. u > 0
        OBVIOUS
    <2> HIDE DEF u, c
    <2>2. c.usage = u \/ c.usage = d.usage
        BY <1>0, <1>3 DEF Chat
    <2> QED
        BY <1>2, <2>1, <2>2
<1> HIDE DEF u
<1>5. /\ c.pc = "finish" /\ c.context = d.context /\ c.after = d.after
      /\ c.session = d.session /\ c.tier = d.tier /\ c.reply = d.reply
      /\ c.retry = d.retry /\ c.check = d.check
      /\ c.events = d.events
    BY <1>0, <1>3 DEF Chat
<1> HIDE DEF c
<1>6. HandlerInv(c)
    BY <1>0, <1>1, <1>4, <1>5, WroteIs DEF HandlerInv, TellingInv, CallsInv, Applied
<1>7. Evolves(d, c)
    BY <1>1, <1>5 DEF Evolves, Saved, Unasked
<1>8. ~Finished(c)
    BY <1>5 DEF Finished
<1>9. Quiet(r)
    BY <1>1, <1>3, <1>5, <1>6, <1>7, <1>8 DEF Quiet, Moving, c
<1> QED
    BY <1>1, <1>9, QuietStep

\* The buffer fills and is flushed.
LEMMA OutcomeBufferFull ==
    ASSUME IInv, OInv, NEW r \in Requests, BufferFull(r)
    PROVE  OInv'
<1> DEFINE d == chat[r]
           c == chat'[r]
           n == Len(d.events)
<1>0. /\ chat \in [Requests -> Chat] /\ d \in Chat
      /\ HandlerInv(d) /\ EventInv(d) /\ ResponseInv(d)
    BY Knows
<1>1. /\ d.pc = "retrying" /\ UNCHANGED <<history, detector, rows, faults>>
      /\ chat' = [chat EXCEPT ![r].seen = n]
    BY DEF BufferFull, At
<1> HIDE DEF n
<1>2. /\ c = [d EXCEPT !.seen = n]
      /\ \A q \in Requests : q # r => chat'[q] = chat[q]
    BY <1>0, <1>1
<1>3. /\ c.pc = "retrying" /\ c.context = d.context /\ c.after = d.after
      /\ c.session = d.session /\ c.tier = d.tier /\ c.reply = d.reply
      /\ c.retry = d.retry /\ c.check = d.check /\ c.usage = d.usage
      /\ c.events = d.events
    BY <1>0, <1>1, <1>2 DEF Chat
<1> HIDE DEF c
<1>4. HandlerInv(c)
    BY <1>0, <1>1, <1>3, WroteIs DEF HandlerInv, TellingInv, CallsInv, Applied
<1>5. Evolves(d, c)
    BY <1>1, <1>3 DEF Evolves, Saved, Unasked
<1>6. ~Finished(c)
    BY <1>3 DEF Finished
<1>7. Quiet(r)
    BY <1>1, <1>2, <1>3, <1>4, <1>5, <1>6 DEF Quiet, Moving, c
<1> QED
    BY <1>1, <1>7, QuietStep

\* The final event is written behind what the client has been sent.
LEMMA OutcomeFinish ==
    ASSUME IInv, OInv, NEW r \in Requests, Finish(r)
    PROVE  OInv'
<1> DEFINE d == chat[r]
           c == chat'[r]
           x == Append(d.events, "final")
<1>0. /\ chat \in [Requests -> Chat] /\ d \in Chat
      /\ HandlerInv(d) /\ EventInv(d) /\ ResponseInv(d) /\ KeyInv(d)
    BY Knows
<1>1. d.pc = "finish" /\ UNCHANGED <<history, detector, rows, faults>>
    BY DEF Finish, At
<1>2. chat' = [chat EXCEPT ![r].pc = "save", ![r].events = x]
    BY <1>0 DEF Finish
<1>3. /\ Len(d.events) \in Nat /\ Len(x) = Len(d.events) + 1 /\ LastEvent(x) = "final"
      /\ Wrote(x, "correction") <=> Wrote(d.events, "correction")
      /\ Wrote(x, "loop_detected") <=> Wrote(d.events, "loop_detected")
    BY Fields, WroteFacts DEF Event
<1>4. d.seen < Len(x) /\ d.tier # "HIT"
    BY <1>0, <1>1, <1>3, Fields DEF KeyInv, HandlerInv, CallsInv
<1> HIDE DEF x
<1>5. /\ c = [d EXCEPT !.pc = "save", !.events = x]
      /\ \A q \in Requests : q # r => chat'[q] = chat[q]
    BY <1>0, <1>2
<1>6. /\ c.pc = "save" /\ c.context = d.context /\ c.after = d.after
      /\ c.session = d.session /\ c.tier = d.tier /\ c.reply = d.reply
      /\ c.retry = d.retry /\ c.check = d.check /\ c.usage = d.usage
      /\ c.events = x /\ c.seen = d.seen
    BY <1>0, <1>1, <1>5 DEF Chat
<1> HIDE DEF c
<1>7. HandlerInv(c)
    BY <1>0, <1>1, <1>3, <1>4, <1>6, WroteIs
    DEF HandlerInv, TellingInv, CallsInv, Applied
<1>8. Evolves(d, c)
    BY <1>1, <1>6 DEF Evolves, Saved, Unasked
<1>9. ~Finished(c)
    BY <1>6 DEF Finished
<1>10. Quiet(r)
    BY <1>1, <1>5, <1>6, <1>7, <1>8, <1>9 DEF Quiet, Moving, c
<1> QED
    BY <1>1, <1>10, QuietStep

\* The answer is handed to the cache's writer.
LEMMA OutcomeWriteAsync ==
    ASSUME IInv, OInv, NEW r \in Requests, WriteAsync(r)
    PROVE  OInv'
<1> DEFINE d == chat[r]
           c == chat'[r]
<1>0. /\ chat \in [Requests -> Chat] /\ d \in Chat
      /\ HandlerInv(d) /\ EventInv(d) /\ ResponseInv(d)
    BY Knows
<1>1. /\ d.pc = "write" /\ UNCHANGED <<history, detector, rows, faults>>
      /\ chat' = [chat EXCEPT ![r].pc = "log"]
    BY DEF WriteAsync, At
<1>2. /\ c = [d EXCEPT !.pc = "log"]
      /\ \A q \in Requests : q # r => chat'[q] = chat[q]
    BY <1>0, <1>1
<1>3. /\ c.pc = "log" /\ c.context = d.context /\ c.after = d.after
      /\ c.session = d.session /\ c.tier = d.tier /\ c.reply = d.reply
      /\ c.retry = d.retry /\ c.check = d.check /\ c.usage = d.usage
      /\ c.events = d.events /\ c.seen = d.seen /\ c.gone = d.gone
    BY <1>0, <1>1, <1>2 DEF Chat
<1> HIDE DEF c
<1>4. HandlerInv(c)
    BY <1>0, <1>1, <1>3, WroteIs DEF HandlerInv, TellingInv, CallsInv, Applied
<1>5. Evolves(d, c)
    BY <1>1, <1>3 DEF Evolves, Saved, Unasked
<1>6. Finished(d) /\ (LLMTurn(c) <=> LLMTurn(d))
    BY <1>1, <1>3 DEF Finished, LLMTurn, Response, Applied
<1>7. Quiet(r)
    BY <1>1, <1>2, <1>3, <1>4, <1>5, <1>6 DEF Quiet, Moving, c
<1> QED
    BY <1>1, <1>7, QuietStep

\* The client leaves.
LEMMA OutcomeDisconnect ==
    ASSUME IInv, OInv, NEW r \in Requests, Disconnect(r)
    PROVE  OInv'
<1> DEFINE d == chat[r]
           c == chat'[r]
<1>0. /\ chat \in [Requests -> Chat] /\ d \in Chat
      /\ HandlerInv(d) /\ EventInv(d) /\ ResponseInv(d)
    BY Knows
<1>1. /\ d.pc # "done" /\ UNCHANGED <<history, detector, rows, faults>>
      /\ chat' = [chat EXCEPT ![r].gone = TRUE]
    BY DEF Disconnect
<1>2. /\ c = [d EXCEPT !.gone = TRUE]
      /\ \A q \in Requests : q # r => chat'[q] = chat[q]
    BY <1>0, <1>1
<1>3. /\ c.pc = d.pc /\ c.context = d.context /\ c.after = d.after
      /\ c.session = d.session /\ c.tier = d.tier /\ c.reply = d.reply
      /\ c.retry = d.retry /\ c.check = d.check /\ c.usage = d.usage
      /\ c.events = d.events /\ c.seen = d.seen /\ c.gone = TRUE
    BY <1>0, <1>1, <1>2 DEF Chat
<1> HIDE DEF c
<1>4. HandlerInv(c)
    BY <1>0, <1>1, <1>3, WroteIs DEF HandlerInv, TellingInv, CallsInv, Applied
<1>5. Evolves(d, c)
    BY <1>1, <1>3 DEF Evolves, Saved, Unasked
<1>6. Finished(c) /\ LLMTurn(c) => Finished(d) /\ LLMTurn(d)
    BY <1>3 DEF Finished, LLMTurn, Response, Applied
<1>7. Quiet(r)
    BY <1>1, <1>2, <1>3, <1>4, <1>5, <1>6 DEF Quiet, Moving, c
<1> QED
    BY <1>1, <1>7, QuietStep

\* Steps of the services, which no handler sees.
LEMMA OutcomeFlagExpires ==
    ASSUME IInv, OInv, NEW s \in Sessions, FlagExpires(s)
    PROVE  OInv'
BY DEF FlagExpires, OInv, HandlersInv, RowsInv, MessagesInv, WindowsInv, TurnsInv,
   Distinct, ContextInv, AfterInv, InContext

LEMMA OutcomeCacheWrite ==
    ASSUME IInv, OInv, NEW e \in writes, CacheWrite(e)
    PROVE  OInv'
<1>1. /\ UNCHANGED <<chat, history, window, rows>>
      /\ faults' = 0 => faults = 0
    BY DEF CacheWrite, detector, Fault, IInv, GlobalTypes
<1> QED
    BY <1>1 DEF OInv, HandlersInv, RowsInv, MessagesInv, WindowsInv, TurnsInv,
       Distinct, ContextInv, AfterInv, InContext

-----------------------------------------------------------------------------
(* The actions that record something. *)

\* A message that is the first of its request, or the answer to its question.
InTurn(h, m) ==
    \A i \in 1 .. Len(h) :
        h[i].from = m.from => h[i].role = "user" /\ m.role = "assistant"

\* Nothing is in k but what was in h, and m.
From(k, h, m) == \A i \in 1 .. Len(k) : k[i] = m \/ \E j \in 1 .. Len(h) : k[i] = h[j]

\* Store.Append to a list that has not outgrown its bound.
LEMMA RememberKeeps ==
    ASSUME NEW h \in Seq(Message), Len(h) <= MaxMessages, QuestionFirst(h),
           NEW m \in Message, InTurn(h, m), NEW k, k = Remember(h, m)
    PROVE  /\ k \in Seq(Message) /\ Len(k) <= MaxMessages
           /\ From(k, h, m) /\ QuestionFirst(k)
           /\ \A q : Remembered(h, q) => Remembered(k, q)
           /\ m.role = "assistant" => Remembered(k, m.from)
<1>0. MaxMessages \in Nat \ {0} /\ Len(h) \in Nat
    BY BoundsAssumption
<1>1. k = LastOf(Append(h, m), MaxMessages)
    BY DEF Remember
<1>2. k \in Seq(Message) /\ Pushed(k, h, m, MaxMessages)
    BY <1>0, <1>1, PushedFacts
<1>3. k \in Seq(Message) /\ Len(k) \in 1 .. MaxMessages /\ k[Len(k)] = m
    BY <1>2 DEF Pushed
<1>4. PICK d \in {0, 1} : Shifted(k, h, d) /\ (d = 1 => Len(h) = MaxMessages)
    BY <1>2 DEF Pushed
<1>5. /\ Len(k) = Len(h) + 1 - d
      /\ \A i \in 1 .. Len(k) - 1 : i + d \in 1 .. Len(h) /\ k[i] = h[i + d]
    BY <1>4 DEF Shifted
<1>6. From(k, h, m)
    <2>1. ASSUME NEW i \in 1 .. Len(k), i # Len(k)
          PROVE  \E j \in 1 .. Len(h) : k[i] = h[j]
        <3>1. i \in 1 .. Len(k) - 1
            BY <1>3, <2>1
        <3> QED
            BY <1>5, <3>1
    <2> QED
        BY <1>3, <2>1 DEF From
<1>7. QuestionFirst(k)
    <2> SUFFICES ASSUME NEW i \in 1 .. Len(k), NEW j \in 1 .. Len(k),
                        i < j, k[i].from = k[j].from
                 PROVE  k[i].role = "user" /\ k[j].role = "assistant"
        BY DEF QuestionFirst
    <2>1. i \in 1 .. Len(k) - 1 /\ i + d \in 1 .. Len(h) /\ k[i] = h[i + d]
        BY <1>0, <1>3, <1>4, <1>5
    <2>2. CASE j = Len(k)
        BY <1>3, <2>1, <2>2 DEF InTurn
    <2>3. CASE j # Len(k)
        <3>0. j \in 1 .. Len(k) - 1
            BY <1>3, <2>3
        <3>1. j + d \in 1 .. Len(h) /\ k[j] = h[j + d]
            BY <1>5, <3>0
        <3>2. i + d < j + d
            BY <1>0, <1>4, <2>1
        <3> QED
            BY <2>1, <3>1, <3>2 DEF QuestionFirst
    <2> QED
        BY <2>2, <2>3
<1>8. ASSUME NEW q, Remembered(h, q) PROVE Remembered(k, q)
    <2>1. CASE Len(h) = MaxMessages
        <3>1. Len(k) = MaxMessages
            BY <1>0, <1>3, <1>4, <1>5, <2>1
        <3> QED
            BY <3>1 DEF Remembered
    <2>2. CASE Len(h) # MaxMessages
        <3>1. d = 0
            BY <1>4, <2>2
        <3>2. PICK i \in 1 .. Len(h) : h[i].role = "assistant" /\ h[i].from = q
            BY <1>8, <2>2 DEF Remembered
        <3>3. i \in 1 .. Len(k) - 1 /\ i + 0 = i
            BY <1>0, <1>3, <1>4, <1>5, <3>1
        <3>4. k[i] = h[i] /\ i \in 1 .. Len(k)
            BY <1>0, <1>3, <1>4, <1>5, <3>1, <3>3
        <3> QED
            BY <3>2, <3>4 DEF Remembered
    <2> QED
        BY <2>1, <2>2
<1>9. m.role = "assistant" => Remembered(k, m.from)
    BY <1>3 DEF Remembered
<1> QED
    BY <1>0, <1>3, <1>6, <1>7, <1>8, <1>9

\* A handler that moves pushes a message of its own to its session's list.
LEMMA ListPushed ==
    ASSUME IInv, OInv, NEW r \in Requests, Moving(r), NEW m \in Message, m.from = r,
           history' = [history EXCEPT ![chat[r].session] = Remember(@, m)],
           MessageInv(m, chat[r].session, chat'[r]),
           InTurn(history[chat[r].session], m)
    PROVE  /\ MessagesInv'
           /\ \A s \in Sessions, q \in Requests :
                 Remembered(history[s], q) => Remembered(history'[s], q)
           /\ m.role = "assistant" => Remembered(history'[chat[r].session], r)
<1> DEFINE s0 == chat[r].session
           h == history[s0]
<1>1. /\ s0 \in Sessions /\ history \in [Sessions -> Seq(Message)] /\ h \in Seq(Message)
      /\ Len(h) <= MaxMessages /\ QuestionFirst(h)
    BY Fields DEF IInv, GlobalTypes, OInv, MessagesInv
<1>2. /\ history'[s0] = Remember(h, m) /\ h = history[s0]
      /\ \A s \in Sessions : s # s0 => history'[s] = history[s]
    BY <1>1
<1> DEFINE k == Remember(h, m)
<1> HIDE DEF h, k
<1>3. /\ k \in Seq(Message) /\ Len(k) <= MaxMessages
      /\ From(k, h, m) /\ QuestionFirst(k)
      /\ \A q : Remembered(h, q) => Remembered(k, q)
      /\ m.role = "assistant" => Remembered(k, m.from)
    <2>1. k = Remember(h, m) /\ InTurn(h, m)
        BY DEF k, h
    <2> QED
        BY <1>1, <2>1, RememberKeeps
<1>4. \A s \in Sessions : \A i \in 1 .. Len(history[s]) :
         MessageInv(history[s][i], s, chat'[history[s][i].from])
    BY RecordsStay
<1>5. ASSUME NEW s \in Sessions
      PROVE  /\ Len(history'[s]) <= MaxMessages
             /\ QuestionFirst(history'[s])
             /\ \A i \in 1 .. Len(history'[s]) :
                   MessageInv(history'[s][i], s, chat'[history'[s][i].from])
    <2>1. CASE s = s0
        <3>1. ASSUME NEW i \in 1 .. Len(k) PROVE MessageInv(k[i], s0, chat'[k[i].from])
            <4>1. CASE k[i] = m
                BY <4>1
            <4>2. CASE \E j \in 1 .. Len(h) : k[i] = h[j]
                BY <1>1, <1>2, <1>4, <4>2
            <4> QED
                BY <1>3, <4>1, <4>2 DEF From
        <3> QED
            BY <1>2, <1>3, <2>1, <3>1 DEF k
    <2>2. CASE s # s0
        <3>1. /\ Len(history[s]) <= MaxMessages
              /\ QuestionFirst(history[s])
            BY DEF OInv, MessagesInv
        <3> QED
            BY <1>2, <1>4, <2>2, <3>1
    <2> QED
        BY <2>1, <2>2
<1>6. MessagesInv'
    BY <1>5 DEF MessagesInv, QuestionFirst
<1>7. \A s \in Sessions, q \in Requests :
         Remembered(history[s], q) => Remembered(history'[s], q)
    BY <1>2, <1>3 DEF k
<1> QED
    BY <1>2, <1>3, <1>6, <1>7 DEF k

\* Store.Append of the question, the first message of its request.
LEMMA OutcomeAppendUser ==
    ASSUME IInv, OInv, NEW r \in Requests, AppendUser(r)
    PROVE  OInv'
<1> DEFINE d == chat[r]
           c == chat'[r]
<1>0. /\ chat \in [Requests -> Chat] /\ d \in Chat
      /\ HandlerInv(d) /\ EventInv(d) /\ ResponseInv(d)
    BY Knows
<1>1. /\ d.pc = "append" /\ UNCHANGED <<detector, rows>>
      /\ faults' = 0 => faults = 0
    BY FaultsGrow DEF AppendUser, At
<1>2. PICK k \in {d.key} \cup
                  (IF "pruning" \in Clients THEN {PruneOf[d.key]} ELSE {}) :
        chat' = [chat EXCEPT ![r].pc = "flag", ![r].key = k]
    BY DEF AppendUser
<1>3. /\ c = [d EXCEPT !.pc = "flag", !.key = k]
      /\ \A q \in Requests : q # r => chat'[q] = chat[q]
    BY <1>0, <1>2
<1>4. /\ c.pc = "flag" /\ c.context = d.context /\ c.after = d.after
      /\ c.session = d.session /\ c.tier = d.tier /\ c.reply = d.reply
      /\ c.retry = d.retry /\ c.check = d.check /\ c.usage = d.usage
      /\ c.events = d.events
    BY <1>0, <1>3 DEF Chat
<1> HIDE DEF c
<1>5. HandlerInv(c)
    BY <1>0, <1>1, <1>4, WroteIs DEF HandlerInv, TellingInv, CallsInv, Applied
<1>6. Evolves(d, c)
    BY <1>1, <1>4 DEF Evolves, Saved, Unasked
<1>7. ~Finished(c)
    BY <1>4 DEF Finished
<1>8. Moving(r)
    BY <1>1, <1>3, <1>5, <1>6 DEF Moving, c
<1>9. MessagesInv' /\ TurnsInv'
    <2>1. CASE UNCHANGED history
        BY <1>7, <1>8, <2>1, ListsStay, TurnsStay DEF c
    <2>2. CASE history' = [history EXCEPT ![d.session] = Remember(@, User(r))]
        <3> DEFINE m == User(r)
                   s0 == d.session
        <3>1. m \in Message /\ m.from = r /\ m.role = "user"
            BY MessageFacts DEF User
        <3>2. MessageInv(m, s0, c)
            BY <1>4, <3>1 DEF MessageInv, Unasked
        <3>3. s0 \in Sessions
            BY Fields
        <3>4. InTurn(history[s0], m)
            BY <1>1, <3>1, <3>3 DEF OInv, MessagesInv, MessageInv, Unasked, InTurn
        <3> HIDE DEF m
        <3>5. /\ MessagesInv'
              /\ \A s \in Sessions, q \in Requests :
                    Remembered(history[s], q) => Remembered(history'[s], q)
            BY <1>8, <2>2, <3>1, <3>2, <3>4, ListPushed DEF m, c
        <3>6. TurnsInv'
            <4> SUFFICES ASSUME faults' = 0, NEW q \in Requests,
                                Finished(chat'[q]), LLMTurn(chat'[q])
                         PROVE  Remembered(history'[chat'[q].session], q)
                BY DEF TurnsInv, Remembered
            <4>1. q # r /\ chat'[q] = chat[q] /\ faults = 0
                BY <1>1, <1>3, <1>7 DEF c
            <4>2. Remembered(history[chat[q].session], q) /\ chat[q].session \in Sessions
                BY <4>1, Fields DEF OInv, TurnsInv
            <4> QED
                BY <3>5, <4>1, <4>2
        <3> QED
            BY <3>5, <3>6
    <2> QED
        BY <2>1, <2>2 DEF AppendUser
<1> QED
    BY <1>1, <1>4, <1>8, <1>9, WindowsStay, RowsStay, OwnContextStays
    DEF OInv, detector, c

\* saveAssistantMessage.
LEMMA OutcomeSave ==
    ASSUME IInv, OInv, NEW r \in Requests, SaveAssistantMessage(r)
    PROVE  OInv'
<1> DEFINE d == chat[r]
           c == chat'[r]
           pc == IF d.tier = "HIT" THEN "log" ELSE "write"
           m == [role |-> "assistant", from |-> r, text |-> Response(d)]
<1>0. /\ chat \in [Requests -> Chat] /\ d \in Chat
      /\ HandlerInv(d) /\ EventInv(d) /\ ResponseInv(d)
    BY Knows
<1>1. /\ d.pc = "save" /\ UNCHANGED <<detector, rows>>
      /\ chat' = [chat EXCEPT ![r].pc = pc]
      /\ faults' = 0 => faults = 0
    BY FaultsGrow DEF SaveAssistantMessage, At
<1>2. pc \in {"log", "write"} /\ (d.tier = "HIT" => pc = "log")
    OBVIOUS
<1> HIDE DEF pc
<1>3. /\ c = [d EXCEPT !.pc = pc]
      /\ \A q \in Requests : q # r => chat'[q] = chat[q]
    BY <1>0, <1>1
<1>4. /\ c.pc = pc /\ c.context = d.context /\ c.after = d.after
      /\ c.session = d.session /\ c.tier = d.tier /\ c.reply = d.reply
      /\ c.retry = d.retry /\ c.check = d.check /\ c.usage = d.usage
      /\ c.events = d.events /\ c.seen = d.seen /\ c.gone = d.gone
    BY <1>0, <1>3 DEF Chat
<1> HIDE DEF c
<1>5. HandlerInv(c)
    BY <1>0, <1>1, <1>2, <1>4, WroteIs DEF HandlerInv, TellingInv, CallsInv, Applied
<1>6. Evolves(d, c)
    BY <1>1, <1>2, <1>4 DEF Evolves, Saved, Unasked
<1>7. Moving(r)
    BY <1>1, <1>3, <1>5, <1>6 DEF Moving, c
<1>8. Response(c) = Response(d) /\ (LLMTurn(c) => Response(d).len > 0)
    BY <1>4 DEF Response, Applied, LLMTurn
<1>9. MessagesInv' /\ TurnsInv'
    <2>1. CASE UNCHANGED history /\ (Response(d).len = 0 \/ faults' # 0)
        <3>1. MessagesInv'
            BY <1>7, <2>1, ListsStay
        <3>2. CASE faults' # 0
            BY <3>1, <3>2 DEF TurnsInv
        <3>3. CASE Response(d).len = 0
            <4>1. ~LLMTurn(c)
                BY <1>8, <3>3
            <4> QED
                BY <1>7, <2>1, <3>1, <4>1, TurnsStay DEF c
        <3> QED
            BY <2>1, <3>2, <3>3
    <2>2. CASE history' = [history EXCEPT ![d.session] = Remember(@, m)]
        <3> DEFINE s0 == d.session
        <3>1. m \in Message /\ m.from = r /\ m.role = "assistant" /\ m.text = Response(d)
            BY Fields DEF Message, Response
        <3> HIDE DEF m
        <3>2. MessageInv(m, s0, c)
            BY <1>2, <1>4, <1>8, <3>1 DEF MessageInv, Unasked, Saved
        <3>3. s0 \in Sessions /\ history[s0] \in Seq(Message) /\ NoHint(history[s0])
            BY Fields DEF IInv, GlobalTypes, HistoryInv
        <3>4. ASSUME NEW i \in 1 .. Len(history[s0]), history[s0][i].from = r
              PROVE  history[s0][i].role = "user"
            <4>1. MessageInv(history[s0][i], s0, d)
                BY <3>3, <3>4 DEF OInv, MessagesInv
            <4>2. history[s0][i].role # "assistant"
                BY <1>1, <4>1 DEF MessageInv, Saved
            <4>3. history[s0][i] \in Message /\ history[s0][i].role # "system"
                BY <3>3, ElementOfSeq DEF NoHint
            <4> QED
                BY <4>2, <4>3 DEF Message
        <3>5. /\ MessagesInv'
              /\ \A s \in Sessions, q \in Requests :
                    Remembered(history[s], q) => Remembered(history'[s], q)
              /\ Remembered(history'[s0], r)
            <4>1. InTurn(history[s0], m)
                BY <3>1, <3>4 DEF InTurn
            <4> QED
                BY <1>7, <2>2, <3>1, <3>2, <4>1, ListPushed DEF c
        <3>6. TurnsInv'
            <4> SUFFICES ASSUME faults' = 0, NEW q \in Requests,
                                Finished(chat'[q]), LLMTurn(chat'[q])
                         PROVE  Remembered(history'[chat'[q].session], q)
                BY DEF TurnsInv, Remembered
            <4>1. CASE q = r
                BY <1>4, <3>5, <4>1 DEF c
            <4>2. CASE q # r
                <5>1. chat'[q] = chat[q] /\ faults = 0
                    BY <1>1, <1>3, <4>2
                <5>2. Remembered(history[chat[q].session], q) /\ chat[q].session \in Sessions
                    BY <5>1, Fields DEF OInv, TurnsInv
                <5> QED
                    BY <3>5, <5>1, <5>2
            <4> QED
                BY <4>1, <4>2
        <3> QED
            BY <3>5, <3>6
    <2>3. \/ UNCHANGED history /\ (Response(d).len = 0 \/ faults' # 0)
          \/ history' = [history EXCEPT ![d.session] = Remember(@, m)]
        <3>1. CASE Fault /\ UNCHANGED history
            BY <3>1, FaultsGrow
        <3>2. CASE history' = IF Response(d).len = 0 THEN history
                              ELSE [history EXCEPT ![d.session] = Remember(@, m)]
            BY <3>2
        <3> QED
            BY <3>1, <3>2 DEF SaveAssistantMessage
    <2> QED
        BY <2>1, <2>2, <2>3
<1> QED
    BY <1>1, <1>4, <1>7, <1>9, WindowsStay, RowsStay, OwnContextStays
    DEF OInv, detector, c

\* A window none of whose responses is of the request of a new one.
LEMMA WindowPushed ==
    ASSUME NEW S, NEW w \in Seq(S), Len(w) <= WindowSize, NEW x \in S,
           Distinct(w), \A i \in 1 .. Len(w) : w[i].from # x.from,
           NEW k, k = LastOf(Append(w, x), WindowSize)
    PROVE  Distinct(k)
<1>0. WindowSize \in Nat \ {0} /\ Len(w) \in Nat
    BY BoundsAssumption
<1>1. k \in Seq(S) /\ Pushed(k, w, x, WindowSize)
    BY <1>0, PushedFacts
<1>2. Len(k) \in 1 .. WindowSize /\ k[Len(k)] = x
    BY <1>1 DEF Pushed
<1>3. PICK d \in {0, 1} : Shifted(k, w, d)
    BY <1>1 DEF Pushed
<1>4. \A i \in 1 .. Len(k) - 1 : i + d \in 1 .. Len(w) /\ k[i] = w[i + d]
    BY <1>3 DEF Shifted
<1>5. ASSUME NEW i \in 1 .. Len(k)
      PROVE  i = Len(k) \/ i \in 1 .. Len(k) - 1
    BY <1>2
<1>6. ASSUME NEW i \in 1 .. Len(k), NEW j \in 1 .. Len(k), i # j
      PROVE  k[i].from # k[j].from
    <2>1. CASE i \in 1 .. Len(k) - 1 /\ j \in 1 .. Len(k) - 1
        <3>1. /\ i + d \in 1 .. Len(w) /\ k[i] = w[i + d]
              /\ j + d \in 1 .. Len(w) /\ k[j] = w[j + d]
            BY <1>4, <2>1
        <3>2. i + d # j + d
            BY <1>6
        <3> QED
            BY <3>1, <3>2 DEF Distinct
    <2>2. CASE i \in 1 .. Len(k) - 1 /\ j = Len(k)
        BY <1>2, <1>4, <2>2
    <2>3. CASE j \in 1 .. Len(k) - 1 /\ i = Len(k)
        BY <1>2, <1>4, <2>3
    <2> QED
        BY <1>5, <1>6, <2>1, <2>2, <2>3
<1> QED
    BY <1>6 DEF Distinct

\* The end of a list that has nothing but what is in w, and x.
LEMMA EndIsFrom ==
    ASSUME NEW S, NEW z \in Seq(S), NEW w, NEW x, NEW n \in Nat \ {0}, From(z, w, x)
    PROVE  /\ LastOf(z, n) \in Seq(S) /\ Len(LastOf(z, n)) <= n
           /\ From(LastOf(z, n), w, x)
<1>1. /\ LastOf(z, n) \in Seq(S) /\ Len(LastOf(z, n)) <= n
      /\ \A i \in 1 .. Len(LastOf(z, n)) :
            \E j \in 1 .. Len(z) : LastOf(z, n)[i] = z[j]
    BY LastOfFacts
<1> QED
    BY <1>1 DEF From

\* A window to which a response was added n times.
LEMMA WindowGrown ==
    ASSUME NEW S, NEW w \in Seq(S), NEW x \in S, NEW n \in Nat \ {0},
           NEW k, k = LastOf(w \o [i \in 1 .. n |-> x], WindowSize)
    PROVE  /\ k \in Seq(S) /\ Len(k) <= WindowSize /\ From(k, w, x)
           /\ n = 1 => k = LastOf(Append(w, x), WindowSize)
<1> DEFINE z == w \o [i \in 1 .. n |-> x]
<1>1. z \in Seq(S) /\ From(z, w, x) /\ (n = 1 => z = Append(w, x))
    BY CopiesFacts DEF From
<1>2. k = LastOf(z, WindowSize) /\ WindowSize \in Nat \ {0}
    BY BoundsAssumption
<1> HIDE DEF z
<1> QED
    BY <1>1, <1>2, EndIsFrom

\* The detector answers one check once, for a response that no longer changes.
LEMMA OutcomeDetectorServes ==
    ASSUME IInv, OInv, NEW r \in Requests, DetectorServes(r)
    PROVE  OInv'
<1> DEFINE d == chat[r]
           c == chat'[r]
           s0 == d.session
           x == [ans |-> d.reply.ans, from |-> r]
           w == window[s0]
<1>0. /\ chat \in [Requests -> Chat] /\ d \in Chat
      /\ HandlerInv(d) /\ EventInv(d) /\ ResponseInv(d)
    BY Knows
<1>1. /\ d.check = "asked" /\ UNCHANGED <<history, rows>>
      /\ faults' = 0 => faults = 0
    BY DetectorFacts
<1>2. PICK k \in {"PASS", "REMEDIATE"} : chat' = [chat EXCEPT ![r].check = k]
    BY DetectorFacts
<1>3. /\ c = [d EXCEPT !.check = k]
      /\ \A q \in Requests : q # r => chat'[q] = chat[q]
    BY <1>0, <1>2
<1>4. /\ c.pc = d.pc /\ c.context = d.context /\ c.after = d.after
      /\ c.session = d.session /\ c.tier = d.tier /\ c.reply = d.reply
      /\ c.retry = d.retry /\ c.check = k /\ c.usage = d.usage
      /\ c.events = d.events /\ c.seen = d.seen /\ c.gone = d.gone
      /\ c.model = d.model /\ c.newModel = d.newModel
    BY <1>0, <1>3 DEF Chat
<1> HIDE DEF c
<1>5. HandlerInv(c)
    BY <1>0, <1>1, <1>4, WroteIs DEF HandlerInv, TellingInv, CallsInv, Applied
<1>6. Evolves(d, c)
    BY <1>1, <1>4 DEF Evolves, Saved, Unasked
<1>7. Moving(r)
    BY <1>1, <1>3, <1>5, <1>6 DEF Moving, c
<1>8. Finished(c) /\ LLMTurn(c) => Finished(d) /\ LLMTurn(d)
    BY <1>4 DEF Finished, LLMTurn, Response, Applied
<1>9. WindowsInv'
    <2> DEFINE Item == [ans : Answers \cup {NoAnswer}, from : Requests]
    <2>1. s0 \in Sessions /\ window \in [Sessions -> Seq(Item)] /\ w \in Seq(Item)
        BY Fields DEF IInv, GlobalTypes
    <2>2. x \in Item /\ x.from = r /\ x.ans = d.reply.ans
        BY Fields DEF Text
    <2>3. /\ Len(w) <= WindowSize
          /\ faults' = 0 => Distinct(w)
          /\ \A i \in 1 .. Len(w) : ItemInv(w[i], s0, chat[w[i].from])
        BY <1>1, <2>1 DEF OInv, WindowsInv
    <2>4. \A i \in 1 .. Len(w) : w[i].from # r
        BY <1>1, <2>3 DEF ItemInv
    <2>5. \A s \in Sessions : \A i \in 1 .. Len(window[s]) :
             ItemInv(window[s][i], s, chat'[window[s][i].from])
        BY <1>7, RecordsStay
    <2>6. ItemInv(x, s0, chat'[x.from])
        BY <1>4, <2>2 DEF ItemInv, c
    <2>7. CASE UNCHANGED window
        BY <1>7, <2>7, WindowsStay
    <2>8. ASSUME NEW n \in Nat \ {0}, AddNode(r, n), faults' = 0 => n = 1
          PROVE  WindowsInv'
        <3> DEFINE v == LastOf(w \o [i \in 1 .. n |-> x], WindowSize)
        <3>1. window' = [window EXCEPT ![s0] = v]
            BY <2>8 DEF AddNode
        <3>2. /\ window'[s0] = v
              /\ \A s \in Sessions : s # s0 => window'[s] = window[s]
            BY <2>1, <3>1
        <3>3. w \in Seq(Item) /\ x \in Item
            BY <2>1, <2>2
        <3> HIDE DEF w, x, Item
        <3>4. /\ Len(v) <= WindowSize /\ From(v, w, x)
              /\ n = 1 => v = LastOf(Append(w, x), WindowSize)
            BY <3>3, WindowGrown
        <3>5. faults' = 0 => Distinct(v)
            BY <2>2, <2>3, <2>4, <2>8, <3>3, <3>4, WindowPushed
        <3> HIDE DEF v
        <3>6. ASSUME NEW i \in 1 .. Len(v) PROVE ItemInv(v[i], s0, chat'[v[i].from])
            <4>1. CASE v[i] = x
                BY <2>6, <4>1
            <4>2. CASE \E j \in 1 .. Len(w) : v[i] = w[j]
                BY <2>1, <2>5, <4>2 DEF w
            <4> QED
                BY <3>4, <4>1, <4>2 DEF From
        <3>7. ASSUME NEW s \in Sessions
              PROVE  /\ Len(window'[s]) <= WindowSize
                     /\ \A i \in 1 .. Len(window'[s]) :
                           ItemInv(window'[s][i], s, chat'[window'[s][i].from])
                     /\ faults' = 0 => Distinct(window'[s])
            <4>1. CASE s = s0
                BY <3>2, <3>4, <3>5, <3>6, <4>1
            <4>2. CASE s # s0
                <5>1. /\ Len(window[s]) <= WindowSize
                      /\ faults' = 0 => Distinct(window[s])
                    BY <1>1 DEF OInv, WindowsInv
                <5> QED
                    BY <2>5, <3>2, <4>2, <5>1
            <4> QED
                BY <4>1, <4>2
        <3> QED
            BY <3>7 DEF WindowsInv, Distinct
    <2> QED
        BY <2>7, <2>8, DetectorFacts
<1> QED
    BY <1>1, <1>4, <1>7, <1>8, <1>9, ListsStay, RowsStay, TurnsStay, OwnContextStays
    DEF OInv, c

\* The row tells what is settled by then, and the client is sent the rest.
LEMMA OutcomeLog ==
    ASSUME IInv, OInv, NEW r \in Requests, Log(r)
    PROVE  OInv'
<1> DEFINE d == chat[r]
           c == chat'[r]
           n == Len(d.events)
           m == IF d.tier = "HIT" THEN "cache" ELSE FinalModel(d)
           y == CycleSeen(d)
           u == d.usage
           g == d.tier = "HIT"
           x == [from |-> r, usage |-> u, cycle |-> y, hit |-> g, model |-> m]
<1>0. /\ chat \in [Requests -> Chat] /\ d \in Chat
      /\ HandlerInv(d) /\ EventInv(d) /\ ResponseInv(d)
    BY Knows
<1>1. /\ d.pc = "log" /\ UNCHANGED <<history, detector, faults>>
      /\ chat' = [chat EXCEPT ![r].pc = "done", ![r].seen = n]
    BY DEF Log, At
<1>2. rows' = rows \cup {x}
    BY DEF Log
<1>3. /\ x.from = r /\ x.usage = u /\ x.cycle = y /\ x.hit = g /\ x.model = m
    <2> HIDE DEF u, y, g, m
    <2> QED
        OBVIOUS
<1> HIDE DEF x, n
<1>4. /\ c = [d EXCEPT !.pc = "done", !.seen = n]
      /\ \A q \in Requests : q # r => chat'[q] = chat[q]
    BY <1>0, <1>1
<1>5. /\ c.pc = "done" /\ c.context = d.context /\ c.after = d.after
      /\ c.session = d.session /\ c.tier = d.tier /\ c.reply = d.reply
      /\ c.retry = d.retry /\ c.check = d.check /\ c.usage = d.usage
      /\ c.events = d.events /\ c.seen = n /\ c.gone = d.gone
      /\ c.model = d.model /\ c.newModel = d.newModel
    BY <1>0, <1>4 DEF Chat
<1> HIDE DEF c
<1>6. HandlerInv(c)
    BY <1>0, <1>1, <1>5, WroteIs DEF HandlerInv, TellingInv, CallsInv, Applied, n
<1>7. Evolves(d, c)
    BY <1>1, <1>5 DEF Evolves, Saved, Unasked
<1>8. Moving(r)
    BY <1>1, <1>4, <1>6, <1>7 DEF Moving, c
<1>9. Finished(d) /\ (LLMTurn(c) <=> LLMTurn(d))
    BY <1>1, <1>5 DEF Finished, LLMTurn, Response, Applied
<1>10. RowInv(x, c)
    <2>1. CycleSeen(c) = CycleSeen(d) /\ FinalModel(c) = FinalModel(d)
        BY <1>5 DEF CycleSeen, FinalModel, Applied
    <2>2. d.tier # "HIT" => d.usage > 0
        BY <1>0, <1>1 DEF ResponseInv
    <2> QED
        BY <1>3, <1>5, <2>1, <2>2 DEF RowInv
<1>11. RowsInv'
    <2>1. \A z \in rows : RowInv(z, chat'[z.from])
        BY <1>8, RecordsStay
    <2> QED
        BY <1>2, <1>3, <1>10, <2>1 DEF RowsInv, c
<1>12. HandlersInv'
    BY <1>8, RecordsStay
<1> QED
    BY <1>1, <1>5, <1>8, <1>9, <1>11, <1>12, ListsStay, WindowsStay, TurnsStay,
       OwnContextStays
    DEF OInv, detector, c

-----------------------------------------------------------------------------
(* The invariant is inductive. *)

\* Nothing has been recorded at the start.
LEMMA InitOInv == Init => OInv
<1> SUFFICES ASSUME Init PROVE OInv
    OBVIOUS
<1>1. ASSUME NEW r \in Requests
      PROVE  /\ HandlerInv(chat[r]) /\ chat[r].after = {} /\ ~Finished(chat[r])
    <2>1. PICK s \in Sessions, p \in Prompts : chat[r] =
            [pc |-> "idle", session |-> s, key |-> p, tier |-> "MISS",
             context |-> <<>>, model |-> "fast", reply |-> Empty, check |-> "none",
             newModel |-> "fast", retry |-> Empty, usage |-> 0, events |-> <<>>,
             seen |-> 0, gone |-> FALSE, after |-> {}]
        BY DEF Init
    <2>2. /\ chat[r].pc = "idle" /\ chat[r].tier = "MISS" /\ chat[r].check = "none"
          /\ chat[r].context = <<>> /\ chat[r].events = <<>> /\ chat[r].usage = 0
          /\ chat[r].retry = Empty /\ chat[r].after = {}
        BY <2>1
    <2>3. ~Applied(chat[r])
        BY <2>2, MessageFacts DEF Applied
    <2> QED
        BY <2>2, <2>3, WroteIs, NothingWritten
        DEF HandlerInv, TellingInv, CallsInv, Finished
<1>2. HandlersInv /\ ContextInv /\ TurnsInv
    BY <1>1 DEF HandlersInv, ContextInv, AfterInv, TurnsInv
<1>3. RowsInv
    BY DEF Init, RowsInv
<1>4. MessagesInv /\ WindowsInv
    BY BoundsAssumption DEF Init, MessagesInv, WindowsInv, Distinct, QuestionFirst
<1> QED
    BY <1>2, <1>3, <1>4 DEF OInv

\* Every step keeps it.
LEMMA NextOInv == IInv /\ OInv /\ [Next]_vars => OInv'
<1> SUFFICES ASSUME IInv, OInv, [Next]_vars PROVE OInv'
    OBVIOUS
<1>1. CASE UNCHANGED vars
    BY <1>1 DEF vars, OInv, HandlersInv, RowsInv, MessagesInv, WindowsInv, TurnsInv,
       ContextInv, AfterInv, InContext
<1>2. ASSUME NEW r \in Requests,
             Arrive(r) \/ DetectorServes(r) \/ BufferFull(r) \/ Disconnect(r)
      PROVE  OInv'
    BY <1>2, OutcomeArrive, OutcomeDetectorServes, OutcomeBufferFull, OutcomeDisconnect
<1>3. ASSUME NEW r \in Requests, Handler(r)
      PROVE  OInv'
    BY <1>3, OutcomeGetHistory, OutcomeAppendUser, OutcomeSessionHadCycle,
       OutcomeQueryCache, OutcomeServeHit, OutcomeCallLLM, OutcomeStreamToken,
       OutcomeStreamError, OutcomeClientGone, OutcomeStreamEnd, OutcomeCheckReturns,
       OutcomeRemediate, OutcomeRetryCall, OutcomeRetryToken, OutcomeRetryEnd,
       OutcomeFinish, OutcomeSave, OutcomeWriteAsync, OutcomeLog
    DEF Handler
<1>4. ASSUME NEW s \in Sessions, FlagExpires(s)
      PROVE  OInv'
    BY <1>4, OutcomeFlagExpires
<1>5. ASSUME NEW e \in writes, CacheWrite(e)
      PROVE  OInv'
    BY <1>5, OutcomeCacheWrite
<1> QED
    BY <1>1, <1>2, <1>3, <1>4, <1>5 DEF Next

\* And so it always holds, together with the one it rests on.
LEMMA OutcomeInvariance == Spec => [](IInv /\ OInv)
BY Invariance, InitOInv, NextOInv, PTL DEF Spec

-----------------------------------------------------------------------------
\* The analytics row of a request is written once and agrees with what happened,
\* whatever calls failed and whenever the detector answered (logger.Log at the end
\* of Chat).
THEOREM RowsAgree == Spec => []RowsTellTheTruth
<1>1. ASSUME IInv, OInv PROVE RowsTellTheTruth
    <2>1. ASSUME NEW x \in rows
          PROVE  /\ x \in Row /\ x.from \in Requests
                 /\ RowInv(x, chat[x.from]) /\ HandlerInv(chat[x.from])
                 /\ chat[x.from] \in Chat
        <3>1. x \in Row /\ x.from \in Requests
            BY <1>1 DEF IInv, GlobalTypes, Row
        <3> QED
            BY <1>1, <3>1, Knows DEF OInv, RowsInv
    <2>2. ASSUME NEW x \in rows, NEW z \in rows, x.from = z.from PROVE x = z
        <3>1. /\ x.usage = z.usage /\ x.cycle = z.cycle /\ x.hit = z.hit
              /\ x.model = z.model
            BY <2>1, <2>2 DEF RowInv
        <3> QED
            BY <2>1, <2>2, <3>1 DEF Row
    <2>3. ASSUME NEW x \in rows
          PROVE  LET c == chat[x.from] IN
                 /\ x.hit <=> x.model = "cache"
                 /\ x.hit <=> x.usage = 0
                 /\ x.cycle <=> (c.check = "REMEDIATE" /\ CycleSeen(c))
                 /\ ~x.hit => x.model = IF Corrected(c) THEN c.newModel ELSE c.model
        <3> DEFINE c == chat[x.from]
        <3>1. /\ RowInv(x, c) /\ HandlerInv(c) /\ c \in Chat
            BY <2>1
        <3>2. c.model \in Model /\ c.newModel \in Model
            BY <3>1 DEF Chat
        <3> HIDE DEF c
        <3>3. FinalModel(c) = IF Corrected(c) THEN c.newModel ELSE c.model
            BY <3>1 DEF FinalModel, HandlerInv, TellingInv
        <3>4. FinalModel(c) # "cache"
            BY <3>2, <3>3 DEF Model
        <3>5. c.tier = "HIT" <=> c.usage = 0
            BY <3>1 DEF RowInv, HandlerInv, CallsInv
        <3>6. CycleSeen(c) => c.check = "REMEDIATE"
            BY <3>1 DEF HandlerInv, TellingInv
        <3> QED
            BY <3>1, <3>3, <3>4, <3>5, <3>6 DEF RowInv, c
    <2> QED
        BY <2>2, <2>3 DEF RowsTellTheTruth
<1> QED
    BY <1>1, OutcomeInvariance, PTL

\* A client that stays is sent everything, down to one final event or error,
\* whichever calls fail: c.Stream flushes at the end of its last step.
THEOREM StayingClientAnswered == Spec => []StayingClientIsAnswered
<1>1. ASSUME IInv, OInv PROVE StayingClientIsAnswered
    <2>1. ASSUME NEW r \in Requests, chat[r].pc = "done", ~chat[r].gone
          PROVE  /\ chat[r].seen = Len(chat[r].events) /\ chat[r].events # <<>>
                 /\ chat[r].events[Len(chat[r].events)] \in {"final", "error", "reject"}
        BY <1>1, <2>1, Knows DEF HandlerInv, TellingInv, LastEvent
    <2> QED
        BY <2>1 DEF StayingClientIsAnswered
<1> QED
    BY <1>1, OutcomeInvariance, PTL

\* What a session's list says was asked and answered is what was asked in that
\* session and what its client was shown last (Store.Append, saveAssistantMessage).
THEOREM HistoryShown == Spec => []HistoryIsWhatWasShown
<1>1. ASSUME IInv, OInv PROVE HistoryIsWhatWasShown
    <2> SUFFICES ASSUME NEW s \in Sessions, NEW i \in 1 .. Len(history[s])
                 PROVE  LET m == history[s][i]
                            c == chat[m.from]
                        IN /\ c.session = s
                           /\ m.role = "assistant" =>
                                 m.text = IF Corrected(c) THEN c.retry ELSE c.reply
        BY DEF HistoryIsWhatWasShown
    <2> DEFINE m == history[s][i]
               c == chat[m.from]
    <2>1. m \in Message
        BY <1>1, ElementOfSeq DEF IInv, GlobalTypes
    <2>2. m.from \in Requests /\ MessageInv(m, s, c)
        BY <1>1, <2>1 DEF Message, OInv, MessagesInv
    <2>3. Corrected(c) <=> Applied(c)
        BY <1>1, <2>2, Knows DEF HandlerInv, TellingInv
    <2> HIDE DEF m, c
    <2>4. /\ c.session = s
          /\ m.role = "assistant" => m.text = IF Corrected(c) THEN c.retry ELSE c.reply
        BY <2>2, <2>3 DEF MessageInv, Response
    <2> QED
        BY <2>4 DEF m, c
<1> QED
    BY <1>1, OutcomeInvariance, PTL

\* A session's list is bounded and never holds an answer before its question, nor
\* either of them twice, in whatever order its requests append to it.
THEOREM HistoryInTurns == Spec => []HistoryWellFormed
<1>1. OInv => HistoryWellFormed
    BY DEF OInv, MessagesInv, QuestionFirst, HistoryWellFormed
<1> QED
    BY <1>1, OutcomeInvariance, PTL

\* The detector's windows hold responses of LLM calls made on a MISS, each in its
\* own session, whatever answers arrive late; and none twice before a call failed,
\* however the requests of a session interleave (add_node, find_cycle).
THEOREM WindowsFromLLM == Spec => []WindowFromLLM
<1>1. ASSUME IInv, OInv PROVE WindowFromLLM
    <2>1. ASSUME NEW s \in Sessions, NEW i \in 1 .. Len(window[s])
          PROVE  LET c == chat[window[s][i].from] IN
                 /\ c.session = s /\ c.tier = "MISS" /\ c.usage > 0
                 /\ c.reply.ans = window[s][i].ans
        <3> DEFINE w == window[s][i]
                   c == chat[w.from]
        <3>1. window[s] \in Seq([ans : Answers \cup {NoAnswer}, from : Requests])
            BY <1>1 DEF IInv, GlobalTypes
        <3>2. w \in [ans : Answers \cup {NoAnswer}, from : Requests]
            BY <3>1, ElementOfSeq
        <3>3. w.from \in Requests /\ ItemInv(w, s, c)
            BY <1>1, <3>2 DEF OInv, WindowsInv
        <3>4. HandlerInv(c)
            BY <1>1, <3>3, Knows
        <3> HIDE DEF c, w
        <3>5. c.session = s /\ c.tier = "MISS" /\ c.usage > 0 /\ c.reply.ans = w.ans
            BY <3>3, <3>4 DEF ItemInv, HandlerInv, CallsInv
        <3> QED
            BY <3>5 DEF c, w
    <2> QED
        BY <1>1, <2>1 DEF WindowFromLLM, OInv, WindowsInv, Distinct
<1> QED
    BY <1>1, OutcomeInvariance, PTL

\* Without failing calls, an LLM turn whose [DONE] the client had seen is in the
\* conversation of its next request, unless that list has been trimmed: the step
\* of c.Stream that writes [DONE] is flushed only after the answer was saved.
THEOREM TurnsInContext == Spec => []LLMTurnsInContext
<1>1. ASSUME OInv PROVE LLMTurnsInContext
    BY <1>1 DEF OInv, ContextInv, AfterInv, LLMTurn, Answered, LLMTurnsInContext
<1> QED
    BY <1>1, OutcomeInvariance, PTL
=============================================================================
