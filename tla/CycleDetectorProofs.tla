-------------------------- MODULE CycleDetectorProofs --------------------------
(***************************************************************************)
(* Proofs about CycleDetector, for every set of calls and sessions, every  *)
(* similarity of their responses, every pool, window and loop length, with *)
(* any number of exceptions, resends and restarts. That every call ends is *)
(* a temporal property and stays with TLC.                                 *)
(***************************************************************************)
EXTENDS CycleDetector, SequenceTheorems, WellFoundedInduction, TLAPS

\* What appending does to a list.
LEMMA AppendFacts ==
    ASSUME NEW S, NEW s \in Seq(S), NEW x \in S
    PROVE  /\ Append(s, x) \in Seq(S)
           /\ Len(s) \in Nat
           /\ Len(Append(s, x)) = Len(s) + 1
           /\ \A i \in 1 .. Len(s) : Append(s, x)[i] = s[i]
           /\ Append(s, x)[Len(s) + 1] = x
OBVIOUS

\* LTRIM keeps the newest n nodes in their order.
LEMMA LastOfFacts ==
    ASSUME NEW S, NEW s \in Seq(S), NEW n \in Nat \ {0}
    PROVE  /\ LastOf(s, n) \in Seq(S)
           /\ Len(LastOf(s, n)) \in Nat
           /\ Len(LastOf(s, n)) = IF Len(s) <= n THEN Len(s) ELSE n
           /\ \A i \in 1 .. Len(LastOf(s, n)) :
                 LastOf(s, n)[i] = s[Len(s) - Len(LastOf(s, n)) + i]
<1>1. Len(s) \in Nat
    OBVIOUS
<1>2. CASE Len(s) <= n
    BY <1>1, <1>2 DEF LastOf
<1>3. CASE Len(s) > n
    <2> DEFINE m == Len(s) - n + 1
    <2>1. m \in Int /\ m >= 1 /\ m <= Len(s) /\ Len(s) - m + 1 = n
        BY <1>1, <1>3
    <2>2. \A i \in m .. Len(s) : s[i] \in S
        BY <1>1, <2>1
    <2>3. /\ SubSeq(s, m, Len(s)) \in Seq(S)
          /\ Len(SubSeq(s, m, Len(s))) = n
          /\ \A i \in 1 .. n : SubSeq(s, m, Len(s))[i] = s[m + i - 1]
        <3> HIDE DEF m
        <3> QED
            BY <1>1, <2>1, <2>2, SubSeqProperties
    <2>4. LastOf(s, n) = SubSeq(s, m, Len(s))
        BY <1>1, <1>3 DEF LastOf
    <2>5. \A i \in 1 .. n : m + i - 1 = Len(s) - n + i
        BY <1>1
    <2> HIDE DEF m
    <2> QED
        BY <1>1, <1>3, <2>3, <2>4, <2>5
<1> QED
    BY <1>1, <1>2, <1>3

\* A non-empty set of numbers has a smallest one.
LEMMA Smallest ==
    ASSUME NEW T \in SUBSET Nat, T # {}
    PROVE  \E k \in T : \A j \in T : k <= j
<1>1. PICK k \in T : \A j \in T : ~(<<j, k>> \in OpToRel(<, Nat))
    BY NatLessThanWellFounded, WFMin
<1>2. \A j \in T : ~(j < k)
    BY <1>1 DEF OpToRel
<1> QED
    BY <1>2

\* find_cycle returns the distance of the newest similar node, 0 if there is none.
LEMMA FindCycleFacts ==
    ASSUME NEW S, NEW nodes \in Seq(S), NEW c
    PROVE  /\ FindCycle(nodes, c) \in Nat /\ FindCycle(nodes, c) <= Len(nodes)
           /\ FindCycle(nodes, c) > 0
                 => <<c, nodes[Len(nodes) + 1 - FindCycle(nodes, c)]>> \in similar
           /\ \A k \in 1 .. Len(nodes) :
                 <<c, nodes[Len(nodes) + 1 - k]>> \in similar
                     => FindCycle(nodes, c) > 0 /\ FindCycle(nodes, c) <= k
<1>1. Len(nodes) \in Nat /\ Offsets(nodes, c) \subseteq 1 .. Len(nodes)
    BY DEF Offsets
<1>2. CASE Offsets(nodes, c) = {}
    <2>1. FindCycle(nodes, c) = 0
        BY <1>2 DEF FindCycle
    <2>2. \A k \in 1 .. Len(nodes) : <<c, nodes[Len(nodes) + 1 - k]>> \notin similar
        BY <1>2 DEF Offsets
    <2> QED
        BY <1>1, <2>1, <2>2
<1>3. CASE Offsets(nodes, c) # {}
    <2>1. \E k \in Offsets(nodes, c) : \A j \in Offsets(nodes, c) : k <= j
        BY <1>1, <1>3, Smallest
    <2>2. /\ FindCycle(nodes, c) \in Offsets(nodes, c)
          /\ \A j \in Offsets(nodes, c) : FindCycle(nodes, c) <= j
        BY <1>3, <2>1 DEF FindCycle
    <2>3. /\ FindCycle(nodes, c) \in 1 .. Len(nodes)
          /\ <<c, nodes[Len(nodes) + 1 - FindCycle(nodes, c)]>> \in similar
        BY <2>2 DEF Offsets
    <2>4. \A k \in 1 .. Len(nodes) : <<c, nodes[Len(nodes) + 1 - k]>> \in similar
                                        => FindCycle(nodes, c) <= k
        BY <2>2 DEF Offsets
    <2> QED
        BY <1>1, <2>3, <2>4
<1> QED
    BY <1>2, <1>3

-----------------------------------------------------------------------------
(* The inductive invariant. *)

InLog(c) == \E i \in 1 .. Len(log[SessionOf[c]]) : log[SessionOf[c]][i] = c

\* A comparison keeps its meaning while the list changes: it found the newest
\* similar node among those that were in the window when it was made.
FoundInv(d) ==
    LET nodes == log[SessionOf[d]]
        seen  == call[d].seen
        found == call[d].found
    IN  /\ seen <= Len(nodes)
        /\ call[d].start <= seen
        /\ found <= seen
        /\ found > 0 => <<d, nodes[seen + 1 - found]>> \in similar
        /\ \A k \in 1 .. seen :
              (/\ <<d, nodes[seen + 1 - k]>> \in similar
               /\ k <= seen - call[d].start
               /\ k <= WindowSize)
                  => found > 0 /\ found <= k

\* What is known of a call at each of its program points.
ProgressInv(c) ==
    /\ call[c].pc \in {"idle", "queued", "embed", "load", "read"} => ~call[c].compared
    /\ call[c].pc \in {"add", "flag"} => call[c].compared
    /\ call[c].pc = "flag" =>
          /\ call[c].found >= MinCycleLength
          /\ \E j \in call[c].seen + 1 .. Len(log[SessionOf[c]]) :
                log[SessionOf[c]][j] = c
    /\ (call[c].pc = "reply" /\ call[c].ok) => InLog(c)
    /\ call[c].gate = "answered" => call[c].pc = "done"
    /\ call[c].gate = "none" <=> call[c].pc = "idle"
    /\ Answered(c) => InLog(c)

\* The turns before a call are of its session and over, and those that were
\* answered were in the list when the call compared.
AfterInv(d) ==
    \A c \in call[d].after :
        /\ SessionOf[c] = SessionOf[d]
        /\ call[c].gate \in {"answered", "gaveup"}
        /\ (Answered(c) /\ call[d].compared)
              => \E i \in 1 .. call[d].seen : log[SessionOf[d]][i] = c

CallInv == \A c \in Calls : FoundInv(c) /\ ProgressInv(c) /\ AfterInv(c)

\* A call waits once, and has not been served while it does.
QueueInv ==
    \A i \in 1 .. Len(queue) :
        /\ call[queue[i]].pc = "queued"
        /\ \A j \in 1 .. Len(queue) : queue[i] = queue[j] => i = j

IInv == TypeOK /\ WindowIsRecent /\ CallInv /\ QueueInv /\ FlagIsJustified
-----------------------------------------------------------------------------
(* Redis. *)

\* Nodes are added at the end and their history is never rewritten.
Grows ==
    \A s \in Sessions :
        /\ Len(log[s]) <= Len(log'[s])
        /\ \A i \in 1 .. Len(log[s]) : log'[s][i] = log[s][i]

RedisType ==
    /\ window \in [Sessions -> Seq(Calls)]
    /\ flag \in [Sessions -> BOOLEAN]
    /\ log \in [Sessions -> Seq(Calls)]
    /\ forgotten \in [Sessions -> Nat]

\* What a step can do to Redis.
RedisStep ==
    \/ UNCHANGED redis
    \/ \E c \in Calls : AddNode(c) \/ SetFlag(c)
    \/ \E s \in Sessions : WindowExpires(s) \/ FlagExpires(s)

LEMMA RedisSteps == ASSUME [Next]_vars PROVE RedisStep
<1>1. CASE UNCHANGED vars
    BY <1>1 DEF vars, redis, RedisStep
<1>2. CASE Start
    BY <1>2 DEF Start, RedisStep
<1>3. ASSUME NEW c \in Calls, Submit(c) \/ GiveUp(c) \/ Serve(c) \/ Raise(c) \/ Resend(c)
      PROVE  RedisStep
    BY <1>3 DEF Submit, GiveUp, Serve, Embed, Load, Read, Add, FlagCycle, Reply,
                Raise, Resend, RedisStep
<1>4. CASE \E s \in Sessions : WindowExpires(s) \/ FlagExpires(s)
    BY <1>4 DEF RedisStep
<1>5. CASE Restart
    BY <1>5 DEF Restart, RedisStep
<1> QED
    BY <1>1, <1>2, <1>3, <1>4, <1>5 DEF Next

\* A list w holds the newest nodes of a history l of which f are forgotten.
Recent(w, l, f) ==
    /\ f <= Len(l)
    /\ Len(w) = IF Len(l) - f < WindowSize THEN Len(l) - f ELSE WindowSize
    /\ \A i \in 1 .. Len(w) : w[i] = l[Len(l) - Len(w) + i]

LEMMA WindowIsRecentAt ==
    WindowIsRecent <=> \A s \in Sessions : Recent(window[s], log[s], forgotten[s])
BY DEF WindowIsRecent, Recent

\* Pushing and trimming keeps a list recent.
LEMMA PushKeepsRecent ==
    ASSUME NEW S, NEW w \in Seq(S), NEW l \in Seq(S), NEW f \in Nat, NEW x \in S,
           Recent(w, l, f)
    PROVE  /\ LastOf(Append(w, x), WindowSize) \in Seq(S)
           /\ Recent(LastOf(Append(w, x), WindowSize), Append(l, x), f)
<1> USE SizesAssumption
<1>1. PICK w1 \in Seq(S) : w1 = Append(w, x)
    BY AppendFacts
<1>2. PICK l1 \in Seq(S) : l1 = Append(l, x)
    BY AppendFacts
<1>3. PICK t \in Seq(S) : t = LastOf(w1, WindowSize)
    BY LastOfFacts
<1>4. PICK n \in Nat, k \in Nat, m \in Nat : n = Len(w) /\ k = Len(l) /\ m = Len(t)
    OBVIOUS
<1>5. Len(w1) = n + 1 /\ w1[n + 1] = x /\ \A i \in 1 .. n : w1[i] = w[i]
    BY <1>1, <1>4, AppendFacts
<1>6. Len(l1) = k + 1 /\ l1[k + 1] = x /\ \A i \in 1 .. k : l1[i] = l[i]
    BY <1>2, <1>4, AppendFacts
<1>7. m = IF n + 1 <= WindowSize THEN n + 1 ELSE WindowSize
    BY <1>3, <1>4, <1>5, LastOfFacts
<1>8. \A i \in 1 .. m : t[i] = w1[n + 1 - m + i]
    <2>1. \A i \in 1 .. Len(t) : t[i] = w1[Len(w1) - Len(t) + i]
        BY <1>3, LastOfFacts
    <2> QED
        BY <1>4, <1>5, <2>1
<1>9. f <= k /\ n = IF k - f < WindowSize THEN k - f ELSE WindowSize
    BY <1>4 DEF Recent
<1>10. \A i \in 1 .. n : w[i] = l[k - n + i]
    BY <1>4 DEF Recent
<1>11. /\ m = IF k + 1 - f < WindowSize THEN k + 1 - f ELSE WindowSize
       /\ f <= k + 1 /\ m <= n + 1 /\ n <= k
    BY <1>7, <1>9
<1>12. ASSUME NEW i \in 1 .. m
       PROVE  t[i] = l1[k + 1 - m + i]
    <2>1. i \in Nat /\ 1 <= i /\ i <= m
        OBVIOUS
    <2>2. CASE i = m
        <3>1. n + 1 - m + i = n + 1 /\ k + 1 - m + i = k + 1
            BY <2>2
        <3> QED
            BY <1>5, <1>6, <1>8, <3>1
    <2>3. CASE i < m
        <3>0. m <= n + 1
            BY <1>11
        <3>1. PICK j \in 1 .. n : j = n + 1 - m + i
            <4>1. n + 1 - m + i \in 1 .. n
                BY <2>1, <2>3, <3>0
            <4> QED
                BY <4>1
        <3>2. PICK h \in 1 .. k : h = k - n + j
            BY <1>11
        <3>3. h = k + 1 - m + i
            BY <3>1, <3>2
        <3>4. t[i] = w1[j] /\ w1[j] = w[j] /\ w[j] = l[h] /\ l1[h] = l[h]
            BY <1>5, <1>6, <1>8, <1>10, <3>1, <3>2
        <3> QED
            BY <3>3, <3>4
    <2> QED
        BY <2>1, <2>2, <2>3
<1>13. Recent(t, l1, f)
    <2>1. f <= Len(l1)
        BY <1>6, <1>11
    <2>2. Len(t) = IF Len(l1) - f < WindowSize THEN Len(l1) - f ELSE WindowSize
        BY <1>4, <1>6, <1>11
    <2>3. \A i \in 1 .. Len(t) : t[i] = l1[Len(l1) - Len(t) + i]
        BY <1>4, <1>6, <1>12
    <2> QED
        BY <2>1, <2>2, <2>3 DEF Recent
<1> QED
    BY <1>1, <1>2, <1>3, <1>13

\* A step that changes a flag at most leaves the lists as they are.
LEMMA OnlyFlag ==
    ASSUME RedisType, WindowIsRecent,
           window' = window, log' = log, forgotten' = forgotten,
           flag' \in [Sessions -> BOOLEAN]
    PROVE  RedisType' /\ WindowIsRecent' /\ Grows
<1>1. RedisType'
    BY DEF RedisType
<1>2. \A t \in Sessions : Recent(window'[t], log'[t], forgotten'[t])
    BY WindowIsRecentAt
<1>3. WindowIsRecent'
    BY <1>2 DEF WindowIsRecent, Recent
<1>4. \A t \in Sessions : Len(log[t]) \in Nat
    BY DEF RedisType
<1>5. Grows
    BY <1>4 DEF Grows
<1> QED
    BY <1>1, <1>3, <1>5

LEMMA RedisInv ==
    ASSUME RedisType, WindowIsRecent, RedisStep
    PROVE  RedisType' /\ WindowIsRecent' /\ Grows
<1> USE SizesAssumption, SessionsAssumption
<1>1. CASE UNCHANGED redis
    BY <1>1, OnlyFlag DEF redis, RedisType
<1>2. ASSUME NEW c \in Calls, SetFlag(c)
      PROVE  RedisType' /\ WindowIsRecent' /\ Grows
    <2>1. window' = window /\ log' = log /\ forgotten' = forgotten
        BY <1>2 DEF SetFlag
    <2>2. flag' \in [Sessions -> BOOLEAN]
        BY <1>2 DEF SetFlag, RedisType
    <2> QED
        BY <2>1, <2>2, OnlyFlag
<1>3. ASSUME NEW s \in Sessions, FlagExpires(s)
      PROVE  RedisType' /\ WindowIsRecent' /\ Grows
    <2>1. window' = window /\ log' = log /\ forgotten' = forgotten
        BY <1>3 DEF FlagExpires
    <2>2. flag' \in [Sessions -> BOOLEAN]
        BY <1>3 DEF FlagExpires, RedisType
    <2> QED
        BY <2>1, <2>2, OnlyFlag
<1>4. ASSUME NEW s \in Sessions, WindowExpires(s)
      PROVE  RedisType' /\ WindowIsRecent' /\ Grows
    <2>1. log' = log /\ flag' = flag
        BY <1>4 DEF WindowExpires
    <2>2. window' \in [Sessions -> Seq(Calls)]
        BY <1>4 DEF WindowExpires, RedisType
    <2>3. ASSUME NEW t \in Sessions, t # s
          PROVE  Recent(window'[t], log'[t], forgotten'[t])
        BY <1>4, <2>1, <2>3, WindowIsRecentAt DEF WindowExpires, RedisType
    <2>4. window'[s] = <<>> /\ forgotten'[s] = Len(log[s]) /\ Len(log[s]) \in Nat
        BY <1>4 DEF WindowExpires, RedisType
    <2>5. forgotten' \in [Sessions -> Nat]
        BY <1>4 DEF WindowExpires, RedisType
    <2>6. Recent(<<>>, log[s], Len(log[s]))
        BY <2>4 DEF Recent
    <2>7. \A t \in Sessions : Recent(window'[t], log'[t], forgotten'[t])
        BY <2>1, <2>3, <2>4, <2>6
    <2>8. WindowIsRecent'
        BY <2>7 DEF WindowIsRecent, Recent
    <2> QED
        BY <2>1, <2>2, <2>5, <2>8 DEF RedisType, Grows
<1>5. ASSUME NEW c \in Calls, AddNode(c)
      PROVE  RedisType' /\ WindowIsRecent' /\ Grows
    <2>1. PICK s \in Sessions : s = SessionOf[c]
        OBVIOUS
    <2>2. /\ window[s] \in Seq(Calls) /\ log[s] \in Seq(Calls)
          /\ forgotten[s] \in Nat
        BY <2>1 DEF RedisType
    <2>3. /\ window'[s] = LastOf(Append(window[s], c), WindowSize)
          /\ log'[s] = Append(log[s], c)
          /\ forgotten' = forgotten /\ flag' = flag
          /\ \A t \in Sessions \ {s} : window'[t] = window[t] /\ log'[t] = log[t]
        BY <1>5, <2>1 DEF AddNode, RedisType
    <2>4. window'[s] \in Seq(Calls) /\ Recent(window'[s], log'[s], forgotten'[s])
        BY <2>2, <2>3, WindowIsRecentAt, PushKeepsRecent
    <2>5. ASSUME NEW t \in Sessions, t # s
          PROVE  Recent(window'[t], log'[t], forgotten'[t])
        BY <2>3, <2>5, WindowIsRecentAt
    <2>6. \A t \in Sessions : Recent(window'[t], log'[t], forgotten'[t])
        BY <2>4, <2>5
    <2>7. WindowIsRecent'
        BY <2>6 DEF WindowIsRecent, Recent
    <2>8. log'[s] \in Seq(Calls)
        BY <2>2, <2>3, AppendFacts
    <2>9. RedisType'
        BY <1>5, <2>3, <2>4, <2>8 DEF AddNode, RedisType
    <2>10. /\ Len(log[s]) <= Len(log'[s])
           /\ \A i \in 1 .. Len(log[s]) : log'[s][i] = log[s][i]
        BY <2>2, <2>3, AppendFacts
    <2>11. \A t \in Sessions : Len(log[t]) \in Nat
        BY DEF RedisType
    <2>12. Grows
        BY <2>3, <2>10, <2>11 DEF Grows
    <2> QED
        BY <2>7, <2>9, <2>12
<1> QED
    BY <1>1, <1>2, <1>3, <1>4, <1>5 DEF RedisStep
-----------------------------------------------------------------------------
(* Types. *)

\* A call moves on; what it compared stays.
Becomes(c, p, g, o) ==
    /\ call' \in [Calls -> Call]
    /\ \A d \in Calls \ {c} : call'[d] = call[d]
    /\ call'[c].pc = p /\ call'[c].gate = g /\ call'[c].ok = o
    /\ call'[c].compared = call[c].compared
    /\ call'[c].found = call[c].found
    /\ call'[c].after = call[c].after
    /\ call'[c].seen = call[c].seen
    /\ call'[c].start = call[c].start

LEMMA SetPc ==
    ASSUME TypeOK, NEW c \in Calls, NEW p \in PC,
           call' = [call EXCEPT ![c].pc = p]
    PROVE  Becomes(c, p, call[c].gate, call[c].ok)
<1> DEFINE v == [call[c] EXCEPT !.pc = p]
<1>1. call \in [Calls -> Call] /\ call[c] \in Call
    BY DEF TypeOK
<1>2. v \in Call
    BY <1>1 DEF Call, PC
<1>3. call' = [call EXCEPT ![c] = v]
    BY <1>1
<1>4. /\ v.pc = p /\ v.gate = call[c].gate /\ v.ok = call[c].ok
      /\ v.compared = call[c].compared /\ v.found = call[c].found
      /\ v.after = call[c].after /\ v.seen = call[c].seen /\ v.start = call[c].start
    BY <1>1 DEF Call
<1> HIDE DEF v
<1> QED
    BY <1>1, <1>2, <1>3, <1>4 DEF Becomes

LEMMA SetGate ==
    ASSUME TypeOK, NEW c \in Calls, NEW g \in {"none", "waiting", "answered", "gaveup"},
           call' = [call EXCEPT ![c].gate = g]
    PROVE  Becomes(c, call[c].pc, g, call[c].ok)
<1> DEFINE v == [call[c] EXCEPT !.gate = g]
<1>1. call \in [Calls -> Call] /\ call[c] \in Call
    BY DEF TypeOK
<1>2. v \in Call
    BY <1>1 DEF Call, PC
<1>3. call' = [call EXCEPT ![c] = v]
    BY <1>1
<1>4. /\ v.pc = call[c].pc /\ v.gate = g /\ v.ok = call[c].ok
      /\ v.compared = call[c].compared /\ v.found = call[c].found
      /\ v.after = call[c].after /\ v.seen = call[c].seen /\ v.start = call[c].start
    BY <1>1 DEF Call
<1> HIDE DEF v
<1> QED
    BY <1>1, <1>2, <1>3, <1>4 DEF Becomes

LEMMA SetPcGate ==
    ASSUME TypeOK, NEW c \in Calls, NEW p \in PC,
           NEW g \in {"none", "waiting", "answered", "gaveup"},
           call' = [call EXCEPT ![c].pc = p, ![c].gate = g]
    PROVE  Becomes(c, p, g, call[c].ok)
<1> DEFINE v == [call[c] EXCEPT !.pc = p, !.gate = g]
<1>1. call \in [Calls -> Call] /\ call[c] \in Call
    BY DEF TypeOK
<1>2. v \in Call
    BY <1>1 DEF Call, PC
<1>3. call' = [call EXCEPT ![c] = v]
    BY <1>1
<1>4. /\ v.pc = p /\ v.gate = g /\ v.ok = call[c].ok
      /\ v.compared = call[c].compared /\ v.found = call[c].found
      /\ v.after = call[c].after /\ v.seen = call[c].seen /\ v.start = call[c].start
    BY <1>1 DEF Call
<1> HIDE DEF v
<1> QED
    BY <1>1, <1>2, <1>3, <1>4 DEF Becomes

LEMMA SetPcOk ==
    ASSUME TypeOK, NEW c \in Calls, NEW p \in PC,
           call' = [call EXCEPT ![c].pc = p, ![c].ok = FALSE]
    PROVE  Becomes(c, p, call[c].gate, FALSE)
<1> DEFINE v == [call[c] EXCEPT !.pc = p, !.ok = FALSE]
<1>1. call \in [Calls -> Call] /\ call[c] \in Call
    BY DEF TypeOK
<1>2. v \in Call
    BY <1>1 DEF Call, PC
<1>3. call' = [call EXCEPT ![c] = v]
    BY <1>1
<1>4. /\ v.pc = p /\ v.gate = call[c].gate /\ v.ok = FALSE
      /\ v.compared = call[c].compared /\ v.found = call[c].found
      /\ v.after = call[c].after /\ v.seen = call[c].seen /\ v.start = call[c].start
    BY <1>1 DEF Call
<1> HIDE DEF v
<1> QED
    BY <1>1, <1>2, <1>3, <1>4 DEF Becomes

LEMMA SetSubmitted ==
    ASSUME TypeOK, NEW c \in Calls, NEW A \in SUBSET Calls,
           call' = [call EXCEPT ![c].pc = "queued", ![c].gate = "waiting",
                                ![c].after = A]
    PROVE  /\ call' \in [Calls -> Call]
           /\ \A d \in Calls \ {c} : call'[d] = call[d]
           /\ call'[c].pc = "queued" /\ call'[c].gate = "waiting"
           /\ call'[c].ok = call[c].ok /\ call'[c].after = A
           /\ call'[c].compared = call[c].compared
           /\ call'[c].found = call[c].found /\ call'[c].seen = call[c].seen
           /\ call'[c].start = call[c].start
<1> DEFINE v == [call[c] EXCEPT !.pc = "queued", !.gate = "waiting", !.after = A]
<1>1. call \in [Calls -> Call] /\ call[c] \in Call
    BY DEF TypeOK
<1>2. v \in Call
    BY <1>1 DEF Call, PC
<1>3. call' = [call EXCEPT ![c] = v]
    BY <1>1
<1>4. /\ v.pc = "queued" /\ v.gate = "waiting" /\ v.ok = call[c].ok
      /\ v.after = A /\ v.compared = call[c].compared /\ v.found = call[c].found
      /\ v.seen = call[c].seen /\ v.start = call[c].start
    BY <1>1 DEF Call
<1> HIDE DEF v
<1> QED
    BY <1>1, <1>2, <1>3, <1>4 DEF Becomes

\* What each step does to the calls.
LEMMA StartStep ==
    ASSUME TypeOK, Start
    PROVE  \E c \in Calls :
              /\ c = Head(queue) /\ queue # <<>>
              /\ \/ Becomes(c, "embed", call[c].gate, call[c].ok)
                 \/ call[c].gate = "gaveup" /\ Becomes(c, "done", "gaveup", call[c].ok)
<1>1. queue # <<>> /\ queue \in Seq(Calls)
    BY DEF Start, TypeOK
<1>2. PICK c \in Calls : c = Head(queue)
    BY <1>1, HeadTailProperties
<1>3. \/ call' = [call EXCEPT ![c].pc = "embed"]
      \/ call[c].gate = "gaveup" /\ call' = [call EXCEPT ![c].pc = "done"]
    BY <1>2 DEF Start
<1>4. "embed" \in PC /\ "done" \in PC
    BY DEF PC
<1> QED
    BY <1>1, <1>2, <1>3, <1>4, SetPc

LEMMA GiveUpStep ==
    ASSUME TypeOK, NEW c \in Calls, GiveUp(c)
    PROVE  Becomes(c, call[c].pc, "gaveup", call[c].ok)
BY SetGate DEF GiveUp

LEMMA EmbedStep ==
    ASSUME TypeOK, NEW c \in Calls, Embed(c)
    PROVE  Becomes(c, IF models = 0 THEN "load" ELSE "read", call[c].gate, call[c].ok)
<1>1. (IF models = 0 THEN "load" ELSE "read") \in PC
    BY DEF PC
<1> QED
    BY <1>1, SetPc DEF Embed

LEMMA LoadStep ==
    ASSUME TypeOK, NEW c \in Calls, Load(c)
    PROVE  Becomes(c, "read", call[c].gate, call[c].ok)
<1>1. "read" \in PC
    BY DEF PC
<1> QED
    BY <1>1, SetPc DEF Load

LEMMA AddStep ==
    ASSUME TypeOK, NEW c \in Calls, Add(c)
    PROVE  Becomes(c, IF Remediate(c) THEN "flag" ELSE "reply", call[c].gate, call[c].ok)
<1>1. (IF Remediate(c) THEN "flag" ELSE "reply") \in PC
    BY DEF PC
<1> QED
    BY <1>1, SetPc DEF Add

LEMMA FlagCycleStep ==
    ASSUME TypeOK, NEW c \in Calls, FlagCycle(c)
    PROVE  Becomes(c, "reply", call[c].gate, call[c].ok)
<1>1. "reply" \in PC
    BY DEF PC
<1> QED
    BY <1>1, SetPc DEF FlagCycle

LEMMA RaiseStep ==
    ASSUME TypeOK, NEW c \in Calls, Raise(c)
    PROVE  Becomes(c, "reply", call[c].gate, FALSE)
<1>1. "reply" \in PC
    BY DEF PC
<1> QED
    BY <1>1, SetPcOk DEF Raise

LEMMA ReplyStep ==
    ASSUME TypeOK, NEW c \in Calls, Reply(c)
    PROVE  Becomes(c, "done", IF call[c].gate = "waiting" THEN "answered" ELSE call[c].gate,
                   call[c].ok)
<1> DEFINE g == IF call[c].gate = "waiting" THEN "answered" ELSE call[c].gate
<1>1. "done" \in PC /\ g \in {"none", "waiting", "answered", "gaveup"}
    BY DEF PC, TypeOK, Call
<1>2. call' = [call EXCEPT ![c].pc = "done", ![c].gate = g]
    BY DEF Reply
<1> HIDE DEF g
<1>3. Becomes(c, "done", g, call[c].ok)
    BY <1>1, <1>2, SetPcGate
<1> QED
    BY <1>3 DEF g

LEMMA SubmitStep ==
    ASSUME TypeOK, NEW c \in Calls, Submit(c)
    PROVE  /\ call' \in [Calls -> Call]
           /\ \A d \in Calls \ {c} : call'[d] = call[d]
           /\ call'[c].pc = "queued" /\ call'[c].gate = "waiting"
           /\ call'[c].ok = call[c].ok
           /\ call'[c].compared = call[c].compared
           /\ call'[c].found = call[c].found /\ call'[c].seen = call[c].seen
           /\ call'[c].start = call[c].start
           /\ call'[c].after = {d \in Calls : /\ SessionOf[d] = SessionOf[c]
                                             /\ call[d].gate \in {"answered", "gaveup"}}
<1> DEFINE A == {d \in Calls : /\ SessionOf[d] = SessionOf[c]
                               /\ call[d].gate \in {"answered", "gaveup"}}
<1>1. A \in SUBSET Calls
    OBVIOUS
<1>2. call' = [call EXCEPT ![c].pc = "queued", ![c].gate = "waiting", ![c].after = A]
    BY DEF Submit
<1> HIDE DEF A
<1>3. /\ call' \in [Calls -> Call]
      /\ \A d \in Calls \ {c} : call'[d] = call[d]
      /\ call'[c].pc = "queued" /\ call'[c].gate = "waiting"
      /\ call'[c].ok = call[c].ok /\ call'[c].after = A
      /\ call'[c].compared = call[c].compared
      /\ call'[c].found = call[c].found /\ call'[c].seen = call[c].seen
      /\ call'[c].start = call[c].start
    BY <1>1, <1>2, SetSubmitted
<1> QED
    BY <1>3 DEF A

LEMMA ReadStep ==
    ASSUME TypeOK, NEW c \in Calls, Read(c)
    PROVE  /\ call' \in [Calls -> Call]
           /\ \A d \in Calls \ {c} : call'[d] = call[d]
           /\ call'[c].pc = "add" /\ call'[c].gate = call[c].gate
           /\ call'[c].ok = call[c].ok /\ call'[c].after = call[c].after
           /\ call'[c].compared = TRUE
           /\ call'[c].found = FindCycle(window[SessionOf[c]], c)
           /\ call'[c].seen = Len(log[SessionOf[c]])
           /\ call'[c].start = forgotten[SessionOf[c]]
<1>1. PICK s \in Sessions : s = SessionOf[c]
    BY SessionsAssumption
<1>2. window[s] \in Seq(Calls) /\ log[s] \in Seq(Calls) /\ forgotten[s] \in Nat
    BY DEF TypeOK
<1>3. PICK f \in Nat : f = FindCycle(window[s], c)
    <2>1. FindCycle(window[s], c) \in Nat
        BY <1>2, FindCycleFacts
    <2> QED
        BY <2>1
<1>4. PICK n \in Nat : n = Len(log[s])
    BY <1>2
<1>5. PICK m \in Nat : m = forgotten[s]
    BY <1>2
<1>0. PICK b \in BOOLEAN : b = TRUE
    OBVIOUS
<1> DEFINE v == [call[c] EXCEPT !.pc = "add", !.compared = b, !.found = f,
                                !.seen = n, !.start = m]
<1>6. call \in [Calls -> Call] /\ call[c] \in Call
    BY DEF TypeOK
<1>7. v \in Call
    BY <1>6 DEF Call, PC
<1>8. call' = [call EXCEPT ![c] = v]
    BY <1>0, <1>1, <1>3, <1>4, <1>5, <1>6 DEF Read
<1>9. /\ v.pc = "add" /\ v.gate = call[c].gate /\ v.ok = call[c].ok
      /\ v.after = call[c].after /\ v.compared = b /\ v.found = f
      /\ v.seen = n /\ v.start = m
    BY <1>6 DEF Call
<1> HIDE DEF v
<1>10. /\ call' \in [Calls -> Call] /\ call'[c] = v
       /\ \A d \in Calls \ {c} : call'[d] = call[d]
    BY <1>6, <1>7, <1>8
<1>11. /\ call'[c].found = FindCycle(window[SessionOf[c]], c)
       /\ call'[c].seen = Len(log[SessionOf[c]])
       /\ call'[c].start = forgotten[SessionOf[c]]
    BY <1>1, <1>3, <1>4, <1>5, <1>9, <1>10
<1> QED
    BY <1>0, <1>9, <1>10, <1>11

LEMMA RestartStep ==
    ASSUME TypeOK, Restart
    PROVE  /\ call' \in [Calls -> Call]
           /\ \A c \in Calls :
                 \/ call[c].pc \in {"idle", "done"} /\ call'[c] = call[c]
                 \/ /\ call[c].pc \notin {"idle", "done"}
                    /\ call'[c].pc = "done" /\ call'[c].ok = FALSE
                    /\ call'[c].gate = IF call[c].gate = "waiting"
                                         THEN "gaveup" ELSE call[c].gate
                    /\ call'[c].compared = call[c].compared
                    /\ call'[c].found = call[c].found
                    /\ call'[c].after = call[c].after
                    /\ call'[c].seen = call[c].seen
                    /\ call'[c].start = call[c].start
<1> DEFINE g(c) == IF call[c].gate = "waiting" THEN "gaveup" ELSE call[c].gate
           v(c) == [call[c] EXCEPT !.pc = "done", !.ok = FALSE, !.gate = g(c)]
<1>1. \A c \in Calls : call[c] \in Call
    BY DEF TypeOK
<1>2. \A c \in Calls : g(c) \in {"none", "waiting", "answered", "gaveup"}
    BY <1>1 DEF Call
<1>3. call' = [c \in Calls |-> IF call[c].pc \in {"idle", "done"} THEN call[c] ELSE v(c)]
    BY DEF Restart
<1>4. ASSUME NEW c \in Calls
      PROVE  /\ v(c) \in Call
             /\ v(c).pc = "done" /\ v(c).ok = FALSE /\ v(c).gate = g(c)
             /\ v(c).compared = call[c].compared /\ v(c).found = call[c].found
             /\ v(c).after = call[c].after /\ v(c).seen = call[c].seen
             /\ v(c).start = call[c].start
    <2>1. call[c] \in Call
        BY <1>1
    <2>2. PICK h \in {"none", "waiting", "answered", "gaveup"} : h = g(c)
        BY <1>2
    <2> QED
        BY <2>1, <2>2 DEF Call, PC
<1> HIDE DEF v
<1> QED
    BY <1>1, <1>3, <1>4

LEMMA CallTypes == ASSUME TypeOK, [Next]_vars PROVE call' \in [Calls -> Call]
<1>1. CASE UNCHANGED vars
    BY <1>1 DEF vars, TypeOK
<1>2. CASE Start
    BY <1>2, StartStep DEF Becomes
<1>3. ASSUME NEW c \in Calls, Submit(c) \/ GiveUp(c) \/ Serve(c) \/ Raise(c)
      PROVE  call' \in [Calls -> Call]
    BY <1>3, SubmitStep, GiveUpStep, EmbedStep, LoadStep, ReadStep, AddStep,
       FlagCycleStep, ReplyStep, RaiseStep DEF Serve, Becomes
<1>4. ASSUME NEW c \in Calls, Resend(c)
      PROVE  call' \in [Calls -> Call]
    BY <1>4 DEF Resend, TypeOK
<1>5. CASE \E s \in Sessions : WindowExpires(s) \/ FlagExpires(s)
    BY <1>5 DEF WindowExpires, FlagExpires, TypeOK
<1>6. CASE Restart
    BY <1>6, RestartStep
<1> QED
    BY <1>1, <1>2, <1>3, <1>4, <1>5, <1>6 DEF Next

LEMMA OtherTypes ==
    ASSUME TypeOK, [Next]_vars
    PROVE  /\ similar' = similar
           /\ queue' \in Seq(Calls)
           /\ models' \in Nat
           /\ faults' \in 0 .. MaxFaults
<1> USE SizesAssumption
<1>1. CASE UNCHANGED vars
    BY <1>1 DEF vars, TypeOK
<1>2. CASE Start
    <2>1. Tail(queue) \in Seq(Calls)
        BY <1>2, HeadTailProperties DEF Start, TypeOK
    <2> QED
        BY <1>2, <2>1 DEF Start, TypeOK
<1>3. ASSUME NEW c \in Calls, Submit(c) \/ GiveUp(c) \/ Serve(c)
      PROVE  /\ similar' = similar /\ queue' \in Seq(Calls)
             /\ models' \in Nat /\ faults' \in 0 .. MaxFaults
    <2>1. Append(queue, c) \in Seq(Calls)
        BY AppendFacts DEF TypeOK
    <2>2. CASE Submit(c)
        BY <2>1, <2>2 DEF Submit, TypeOK
    <2>3. CASE Load(c)
        BY <2>3 DEF Load, TypeOK
    <2>4. CASE GiveUp(c) \/ Embed(c) \/ Read(c) \/ Add(c) \/ FlagCycle(c) \/ Reply(c)
        <3>1. UNCHANGED <<similar, queue, models, faults>>
            BY <2>4 DEF GiveUp, Embed, Read, Add, FlagCycle, Reply
        <3> QED
            BY <3>1 DEF TypeOK
    <2> QED
        BY <1>3, <2>2, <2>3, <2>4 DEF Serve
<1>4. ASSUME NEW c \in Calls, Raise(c) \/ Resend(c)
      PROVE  /\ similar' = similar /\ queue' \in Seq(Calls)
             /\ models' \in Nat /\ faults' \in 0 .. MaxFaults
    BY <1>4 DEF Raise, Resend, Fault, TypeOK
<1>5. CASE \E s \in Sessions : WindowExpires(s) \/ FlagExpires(s)
    <2>1. UNCHANGED <<similar, queue, models, faults>>
        BY <1>5 DEF WindowExpires, FlagExpires
    <2> QED
        BY <2>1 DEF TypeOK
<1>6. CASE Restart
    <2>1. similar' = similar /\ queue' = <<>> /\ models' = 0 /\ Fault
        BY <1>6 DEF Restart
    <2> QED
        BY <2>1 DEF Fault, TypeOK
<1> QED
    BY <1>1, <1>2, <1>3, <1>4, <1>5, <1>6 DEF Next

\* Types and windows are kept by every step, and no history is rewritten.
LEMMA NextTypes ==
    ASSUME TypeOK, WindowIsRecent, [Next]_vars
    PROVE  TypeOK' /\ WindowIsRecent' /\ Grows /\ similar' = similar
<1>1. RedisType
    BY DEF TypeOK, RedisType
<1>2. RedisType' /\ WindowIsRecent' /\ Grows
    BY <1>1, RedisSteps, RedisInv
<1>3. call' \in [Calls -> Call]
    BY CallTypes
<1>4. similar' = similar /\ queue' \in Seq(Calls) /\ models' \in Nat
      /\ faults' \in 0 .. MaxFaults
    BY OtherTypes
<1> QED
    BY <1>2, <1>3, <1>4 DEF TypeOK, RedisType
-----------------------------------------------------------------------------
(* The calls. *)

\* What a step leaves of the calls it does not serve, whatever it adds to Redis.
After(c) == call[c].gate \in {"answered", "gaveup"}

Settled ==
    \A c \in Calls : After(c) => /\ call'[c].gate = call[c].gate
                                 /\ call'[c].ok => call[c].ok

Kept == IInv /\ TypeOK' /\ Grows /\ similar' = similar

\* The types of what one call compares with.
LEMMA CallFacts ==
    ASSUME TypeOK, NEW c \in Calls
    PROVE  /\ SessionOf[c] \in Sessions
           /\ log[SessionOf[c]] \in Seq(Calls) /\ Len(log[SessionOf[c]]) \in Nat
           /\ call[c] \in Call
           /\ call[c].pc \in PC /\ call[c].ok \in BOOLEAN
           /\ call[c].compared \in BOOLEAN
           /\ call[c].gate \in {"none", "waiting", "answered", "gaveup"}
           /\ call[c].found \in Nat /\ call[c].seen \in Nat /\ call[c].start \in Nat
           /\ call[c].after \subseteq Calls
BY SessionsAssumption DEF TypeOK, Call

\* What a kept list's history has had stays.
LEMMA KeptFacts ==
    ASSUME Kept, NEW s \in Sessions
    PROVE  /\ log[s] \in Seq(Calls) /\ Len(log[s]) \in Nat /\ Len(log'[s]) \in Nat
           /\ Len(log[s]) <= Len(log'[s])
           /\ \A i \in 1 .. Len(log[s]) : log'[s][i] = log[s][i]
<1>1. log[s] \in Seq(Calls)
    BY DEF Kept, IInv, TypeOK
<1>2. log'[s] \in Seq(Calls)
    BY DEF Kept, TypeOK
<1> QED
    BY <1>1, <1>2 DEF Kept, Grows

LEMMA InLogKept == ASSUME Kept, NEW c \in Calls, InLog(c) PROVE InLog(c)'
<1>1. SessionOf[c] \in Sessions
    BY SessionsAssumption
<1> QED
    BY <1>1, KeptFacts DEF InLog

LEMMA FoundKept ==
    ASSUME Kept, NEW d \in Calls, call'[d].found = call[d].found,
           call'[d].seen = call[d].seen, call'[d].start = call[d].start
    PROVE  FoundInv(d)'
<1>1. PICK s \in Sessions : s = SessionOf[d]
    BY SessionsAssumption
<1>2. PICK n \in Nat, f \in Nat, b \in Nat :
         n = call[d].seen /\ f = call[d].found /\ b = call[d].start
    BY CallFacts DEF Kept, IInv
<1>3. /\ Len(log[s]) \in Nat /\ Len(log'[s]) \in Nat /\ Len(log[s]) <= Len(log'[s])
      /\ \A i \in 1 .. Len(log[s]) : log'[s][i] = log[s][i]
    BY KeptFacts
<1>4. FoundInv(d)
    BY DEF Kept, IInv, CallInv
<1>5. /\ n <= Len(log[s]) /\ b <= n /\ f <= n
      /\ f > 0 => <<d, log[s][n + 1 - f]>> \in similar
      /\ \A k \in 1 .. n :
            (<<d, log[s][n + 1 - k]>> \in similar /\ k <= n - b /\ k <= WindowSize)
               => f > 0 /\ f <= k
    BY <1>1, <1>2, <1>4 DEF FoundInv
<1>6. \A k \in 1 .. n : log'[s][n + 1 - k] = log[s][n + 1 - k]
    <2>1. \A k \in 1 .. n : n + 1 - k \in 1 .. Len(log[s])
        BY <1>3, <1>5
    <2> QED
        BY <1>3, <2>1
<1>7. n <= Len(log'[s])
    BY <1>3, <1>5
<1>8. f > 0 => f \in 1 .. n
    BY <1>5
<1>9. /\ f > 0 => <<d, log'[s][n + 1 - f]>> \in similar'
      /\ \A k \in 1 .. n :
            (<<d, log'[s][n + 1 - k]>> \in similar' /\ k <= n - b /\ k <= WindowSize)
               => f > 0 /\ f <= k
    BY <1>5, <1>6, <1>8 DEF Kept
<1> QED
    BY <1>1, <1>2, <1>5, <1>7, <1>9 DEF FoundInv

LEMMA AfterKept ==
    ASSUME Kept, Settled, NEW d \in Calls, call'[d].after = call[d].after,
           call'[d].compared = call[d].compared, call'[d].seen = call[d].seen
    PROVE  AfterInv(d)'
<1> SUFFICES ASSUME NEW c \in call[d].after
             PROVE  /\ SessionOf[c] = SessionOf[d]
                    /\ call'[c].gate \in {"answered", "gaveup"}
                    /\ (call'[c].gate = "answered" /\ call'[c].ok /\ call'[d].compared)
                         => \E i \in 1 .. call'[d].seen : log'[SessionOf[d]][i] = c
    BY DEF AfterInv, Answered
<1>1. c \in Calls /\ call[d].seen \in Nat
    BY CallFacts DEF Kept, IInv
<1>2. AfterInv(d) /\ FoundInv(d)
    BY DEF Kept, IInv, CallInv
<1>3. SessionOf[c] = SessionOf[d] /\ After(c)
    BY <1>2 DEF AfterInv, After
<1>4. call'[c].gate = call[c].gate /\ (call'[c].ok => call[c].ok)
    BY <1>1, <1>3 DEF Settled
<1>5. ASSUME call'[c].gate = "answered", call'[c].ok, call'[d].compared
      PROVE  \E i \in 1 .. call'[d].seen : log'[SessionOf[d]][i] = c
    <2>1. PICK i \in 1 .. call[d].seen : log[SessionOf[d]][i] = c
        BY <1>2, <1>4, <1>5 DEF AfterInv, Answered
    <2>2. SessionOf[d] \in Sessions /\ Len(log[SessionOf[d]]) \in Nat
        BY CallFacts DEF Kept, IInv
    <2>3. i \in 1 .. Len(log[SessionOf[d]])
        BY <1>1, <1>2, <2>1, <2>2 DEF FoundInv
    <2> QED
        BY <2>1, <2>2, <2>3 DEF Kept, Grows
<1> QED
    BY <1>3, <1>4, <1>5 DEF After

LEMMA ProgressKept ==
    ASSUME Kept, NEW d \in Calls, call'[d] = call[d]
    PROVE  ProgressInv(d)'
<1>1. ProgressInv(d)
    BY DEF Kept, IInv, CallInv
<1>2. InLog(d) => InLog(d)'
    BY InLogKept
<1>3. SessionOf[d] \in Sessions /\ call[d].seen \in Nat
    BY CallFacts DEF Kept, IInv
<1>4. ASSUME NEW j \in call[d].seen + 1 .. Len(log[SessionOf[d]]),
             log[SessionOf[d]][j] = d
      PROVE  /\ j \in call[d].seen + 1 .. Len(log'[SessionOf[d]])
             /\ log'[SessionOf[d]][j] = d
    BY <1>3, <1>4, KeptFacts
<1> QED
    BY <1>1, <1>2, <1>4 DEF ProgressInv, Answered

\* A step that moves one call keeps the invariant of all calls if it keeps that
\* one's and does not touch a call that is over for the gateway.
LEMMA BecomesKeeps ==
    ASSUME Kept, NEW c \in Calls, NEW p, NEW g, NEW o, Becomes(c, p, g, o),
           After(c) => g = call[c].gate /\ (o => call[c].ok),
           ProgressInv(c)'
    PROVE  CallInv'
<1>1. Settled
    BY DEF Becomes, Settled
<1>2. FoundInv(c)' /\ AfterInv(c)'
    BY <1>1, FoundKept, AfterKept DEF Becomes
<1>3. ASSUME NEW d \in Calls, d # c
      PROVE  FoundInv(d)' /\ ProgressInv(d)' /\ AfterInv(d)'
    <2>1. call'[d] = call[d]
        BY <1>3 DEF Becomes
    <2> QED
        BY <1>1, <2>1, FoundKept, ProgressKept, AfterKept
<1> QED
    BY <1>2, <1>3 DEF CallInv

\* The invariant of one call, with the types it needs.
LEMMA Here ==
    ASSUME Kept, NEW c \in Calls
    PROVE  /\ TypeOK /\ FoundInv(c) /\ ProgressInv(c) /\ AfterInv(c)
           /\ SessionOf[c] \in Sessions
           /\ call[c].ok \in BOOLEAN /\ call[c].compared \in BOOLEAN
           /\ call[c].gate \in {"none", "waiting", "answered", "gaveup"}
           /\ call[c].found \in Nat /\ call[c].seen \in Nat
BY CallFacts DEF Kept, IInv, CallInv

LEMMA Unmoved == ASSUME Kept, call' = call PROVE CallInv'
<1>1. Settled
    BY DEF Settled
<1> QED
    BY <1>1, FoundKept, ProgressKept, AfterKept DEF CallInv

LEMMA StartCalls == ASSUME Kept, Start PROVE CallInv'
<1>1. TypeOK /\ QueueInv
    BY DEF Kept, IInv
<1>2. PICK c \in Calls :
         /\ c = Head(queue) /\ queue # <<>>
         /\ \/ Becomes(c, "embed", call[c].gate, call[c].ok)
            \/ call[c].gate = "gaveup" /\ Becomes(c, "done", "gaveup", call[c].ok)
    BY <1>1, StartStep
<1>3. call[c].pc = "queued"
    <2>1. queue \in Seq(Calls) /\ 1 \in 1 .. Len(queue) /\ Head(queue) = queue[1]
        BY <1>1, <1>2 DEF TypeOK
    <2> QED
        BY <1>1, <1>2, <2>1 DEF QueueInv
<1>4. ProgressInv(c)
    BY Here
<1>5. CASE Becomes(c, "embed", call[c].gate, call[c].ok)
    <2>1. ProgressInv(c)'
        BY <1>3, <1>4, <1>5 DEF ProgressInv, Becomes, Answered
    <2> QED
        BY <1>5, <2>1, BecomesKeeps
<1>6. CASE call[c].gate = "gaveup" /\ Becomes(c, "done", "gaveup", call[c].ok)
    <2>1. ProgressInv(c)'
        BY <1>6 DEF ProgressInv, Becomes, Answered
    <2> QED
        BY <1>6, <2>1, BecomesKeeps
<1> QED
    BY <1>2, <1>5, <1>6

LEMMA SubmitCalls == ASSUME Kept, NEW c \in Calls, Submit(c) PROVE CallInv'
<1> DEFINE A == {d \in Calls : /\ SessionOf[d] = SessionOf[c]
                               /\ call[d].gate \in {"answered", "gaveup"}}
<1>1. /\ TypeOK /\ ProgressInv(c) /\ call[c].pc = "idle"
    BY Here DEF Submit
<1>2. call[c].gate = "none" /\ ~call[c].compared
    BY <1>1 DEF ProgressInv
<1>3. /\ \A d \in Calls \ {c} : call'[d] = call[d]
      /\ call'[c].pc = "queued" /\ call'[c].gate = "waiting"
      /\ call'[c].ok = call[c].ok
      /\ call'[c].compared = call[c].compared
      /\ call'[c].found = call[c].found /\ call'[c].seen = call[c].seen
      /\ call'[c].start = call[c].start /\ call'[c].after = A
    BY <1>1, SubmitStep
<1>4. Settled
    BY <1>2, <1>3 DEF Settled, After
<1>5. FoundInv(c)'
    BY <1>3, FoundKept
<1>6. ProgressInv(c)'
    BY <1>2, <1>3 DEF ProgressInv, Answered
<1>7. AfterInv(c)'
    <2>1. \A a \in A : a \in Calls \ {c} /\ call'[a] = call[a]
        BY <1>2, <1>3
    <2> QED
        BY <1>2, <1>3, <2>1 DEF AfterInv
<1>8. ASSUME NEW d \in Calls, d # c
      PROVE  FoundInv(d)' /\ ProgressInv(d)' /\ AfterInv(d)'
    <2>1. call'[d] = call[d]
        BY <1>3, <1>8
    <2> QED
        BY <1>4, <2>1, FoundKept, ProgressKept, AfterKept
<1> QED
    BY <1>5, <1>6, <1>7, <1>8 DEF CallInv

LEMMA GiveUpCalls == ASSUME Kept, NEW c \in Calls, GiveUp(c) PROVE CallInv'
<1>1. /\ TypeOK /\ ProgressInv(c) /\ SessionOf[c] \in Sessions /\ call[c].seen \in Nat
      /\ call[c].gate = "waiting"
    BY Here DEF GiveUp
<1>2. Becomes(c, call[c].pc, "gaveup", call[c].ok)
    BY <1>1, GiveUpStep
<1>3. InLog(c) => InLog(c)'
    BY InLogKept
<1>4. ASSUME NEW j \in call[c].seen + 1 .. Len(log[SessionOf[c]]),
             log[SessionOf[c]][j] = c
      PROVE  /\ j \in call[c].seen + 1 .. Len(log'[SessionOf[c]])
             /\ log'[SessionOf[c]][j] = c
    BY <1>1, <1>4, KeptFacts
<1>5. ProgressInv(c)'
    BY <1>1, <1>2, <1>3, <1>4 DEF ProgressInv, Becomes, Answered
<1> QED
    BY <1>1, <1>2, <1>5, BecomesKeeps DEF After

LEMMA EmbedCalls == ASSUME Kept, NEW c \in Calls, Embed(c) \/ Load(c) PROVE CallInv'
<1>1. TypeOK /\ ProgressInv(c) /\ call[c].pc \in {"embed", "load"}
    BY Here DEF Embed, Load
<1>2. PICK p \in {"load", "read"} : Becomes(c, p, call[c].gate, call[c].ok)
    BY <1>1, EmbedStep, LoadStep
<1>3. ProgressInv(c)'
    BY <1>1, <1>2 DEF ProgressInv, Becomes, Answered
<1> QED
    BY <1>2, <1>3, BecomesKeeps

LEMMA FlagCycleCalls == ASSUME Kept, NEW c \in Calls, FlagCycle(c) PROVE CallInv'
<1>1. /\ TypeOK /\ ProgressInv(c) /\ SessionOf[c] \in Sessions /\ call[c].seen \in Nat
      /\ call[c].pc = "flag"
    BY Here DEF FlagCycle
<1>2. Becomes(c, "reply", call[c].gate, call[c].ok)
    BY <1>1, FlagCycleStep
<1>3. InLog(c)
    <2>1. PICK j \in call[c].seen + 1 .. Len(log[SessionOf[c]]) :
             log[SessionOf[c]][j] = c
        BY <1>1 DEF ProgressInv
    <2>2. j \in 1 .. Len(log[SessionOf[c]])
        BY <1>1, <2>1, KeptFacts
    <2> QED
        BY <2>1, <2>2 DEF InLog
<1>4. InLog(c)'
    BY <1>3, InLogKept
<1>5. ProgressInv(c)'
    BY <1>1, <1>2, <1>4 DEF ProgressInv, Becomes, Answered
<1> QED
    BY <1>2, <1>5, BecomesKeeps

LEMMA ReplyCalls == ASSUME Kept, NEW c \in Calls, Reply(c) PROVE CallInv'
<1> DEFINE g == IF call[c].gate = "waiting" THEN "answered" ELSE call[c].gate
<1>1. TypeOK /\ ProgressInv(c) /\ call[c].pc = "reply"
    BY Here DEF Reply
<1>2. Becomes(c, "done", g, call[c].ok)
    BY <1>1, ReplyStep
<1>3. call[c].ok => InLog(c)'
    BY <1>1, InLogKept DEF ProgressInv
<1>4. ProgressInv(c)'
    BY <1>1, <1>2, <1>3 DEF ProgressInv, Becomes, Answered
<1>5. After(c) => g = call[c].gate
    BY DEF After
<1> HIDE DEF g
<1> QED
    BY <1>2, <1>4, <1>5, BecomesKeeps

LEMMA RaiseCalls == ASSUME Kept, NEW c \in Calls, Raise(c) PROVE CallInv'
<1>1. /\ TypeOK /\ ProgressInv(c)
      /\ call[c].pc \in {"embed", "load", "read", "add", "flag"}
    BY Here DEF Raise
<1>2. Becomes(c, "reply", call[c].gate, FALSE)
    BY <1>1, RaiseStep
<1>3. ProgressInv(c)'
    BY <1>1, <1>2 DEF ProgressInv, Becomes, Answered
<1> QED
    BY <1>2, <1>3, BecomesKeeps

LEMMA RestartCalls == ASSUME Kept, Restart PROVE CallInv'
<1>1. TypeOK
    BY DEF Kept, IInv
<1>2. ASSUME NEW c \in Calls
      PROVE  /\ After(c) => call'[c].gate = call[c].gate /\ (call'[c].ok => call[c].ok)
             /\ call'[c].compared = call[c].compared /\ call'[c].found = call[c].found
             /\ call'[c].after = call[c].after /\ call'[c].seen = call[c].seen
             /\ call'[c].start = call[c].start
    BY <1>1, RestartStep DEF After
<1>3. Settled
    BY <1>2 DEF Settled
<1>4. ASSUME NEW c \in Calls
      PROVE  ProgressInv(c)'
    <2>1. ProgressInv(c)
        BY Here
    <2>2. CASE call'[c] = call[c]
        BY <2>2, ProgressKept
    <2>3. CASE /\ call[c].pc \notin {"idle", "done"}
               /\ call'[c].pc = "done" /\ call'[c].ok = FALSE
               /\ call'[c].gate = IF call[c].gate = "waiting"
                                    THEN "gaveup" ELSE call[c].gate
        BY <2>1, <2>3 DEF ProgressInv, Answered
    <2> QED
        BY <1>1, <2>2, <2>3, RestartStep
<1> QED
    BY <1>2, <1>3, <1>4, FoundKept, AfterKept DEF CallInv

LEMMA AddCalls == ASSUME Kept, NEW c \in Calls, Add(c) PROVE CallInv'
<1> DEFINE p == IF Remediate(c) THEN "flag" ELSE "reply"
<1>1. /\ TypeOK /\ ProgressInv(c) /\ FoundInv(c) /\ call[c].pc = "add"
      /\ call[c].found \in Nat /\ call[c].seen \in Nat
    BY Here DEF Add
<1>2. Becomes(c, p, call[c].gate, call[c].ok)
    BY <1>1, AddStep
<1>3. PICK s \in Sessions : s = SessionOf[c]
    BY SessionsAssumption
<1>4. log'[s] = Append(log[s], c) /\ log[s] \in Seq(Calls)
    BY <1>1, <1>3 DEF Add, AddNode, TypeOK
<1>5. PICK j \in Nat : j = Len(log[s]) + 1
    BY <1>4
<1>6. j \in 1 .. Len(log'[s]) /\ log'[s][j] = c
    BY <1>4, <1>5, AppendFacts
<1>7. InLog(c)'
    BY <1>3, <1>6 DEF InLog
<1>8. j \in call[c].seen + 1 .. Len(log'[s])
    <2>1. call[c].seen <= Len(log[s]) /\ Len(log[s]) \in Nat
        BY <1>1, <1>3, <1>4 DEF FoundInv
    <2>2. Len(log'[s]) = j
        BY <1>4, <1>5, AppendFacts
    <2> QED
        BY <1>1, <1>5, <2>1, <2>2
<1>9. Remediate(c) => call[c].found >= MinCycleLength
    BY <1>1, SizesAssumption DEF Remediate, Length
<1>10. p = "flag" => Remediate(c)
    OBVIOUS
<1>11. p \in {"flag", "reply"}
    OBVIOUS
<1> HIDE DEF p
<1>12. ProgressInv(c)'
    BY <1>1, <1>2, <1>3, <1>6, <1>7, <1>8, <1>9, <1>10, <1>11
       DEF ProgressInv, Becomes, Answered
<1> QED
    BY <1>2, <1>12, BecomesKeeps

\* The comparison is with the newest nodes of the session's history.
LEMMA ReadFound ==
    ASSUME TypeOK, WindowIsRecent, NEW c \in Calls, NEW s \in Sessions,
           NEW n \in Nat, NEW b \in Nat, NEW f \in Nat,
           n = Len(log[s]), b = forgotten[s], f = FindCycle(window[s], c)
    PROVE  /\ b <= n /\ f <= n
           /\ f > 0 => <<c, log[s][n + 1 - f]>> \in similar
           /\ \A k \in 1 .. n :
                 (<<c, log[s][n + 1 - k]>> \in similar /\ k <= n - b /\ k <= WindowSize)
                     => f > 0 /\ f <= k
<1>1. window[s] \in Seq(Calls)
    BY DEF TypeOK
<1>2. PICK m \in Nat : m = Len(window[s])
    BY <1>1
<1>3. /\ f <= m
      /\ f > 0 => <<c, window[s][m + 1 - f]>> \in similar
      /\ \A k \in 1 .. m : <<c, window[s][m + 1 - k]>> \in similar => f > 0 /\ f <= k
    BY <1>1, <1>2, FindCycleFacts
<1>4. /\ b <= n
      /\ m = IF n - b < WindowSize THEN n - b ELSE WindowSize
      /\ \A i \in 1 .. m : window[s][i] = log[s][n - m + i]
    BY <1>2, WindowIsRecentAt DEF Recent
<1>5. m <= n
    BY <1>4
<1>6. ASSUME NEW k \in 1 .. m
      PROVE  window[s][m + 1 - k] = log[s][n + 1 - k]
    <2>1. PICK i \in 1 .. m : i = m + 1 - k
        OBVIOUS
    <2>2. window[s][i] = log[s][n - m + i]
        BY <1>4
    <2>3. n - m + i = n + 1 - k
        BY <2>1
    <2> QED
        BY <2>1, <2>2, <2>3
<1>7. f > 0 => <<c, log[s][n + 1 - f]>> \in similar
    <2>1. f > 0 => f \in 1 .. m
        BY <1>3
    <2> QED
        BY <1>3, <1>6, <2>1
<1>8. ASSUME NEW k \in 1 .. n, <<c, log[s][n + 1 - k]>> \in similar,
             k <= n - b, k <= WindowSize
      PROVE  f > 0 /\ f <= k
    <2>1. k \in 1 .. m
        BY <1>4, <1>8
    <2> QED
        BY <1>3, <1>6, <1>8, <2>1
<1> QED
    BY <1>3, <1>4, <1>5, <1>7, <1>8

LEMMA ReadCalls == ASSUME Kept, NEW c \in Calls, Read(c) PROVE CallInv'
<1>1. /\ TypeOK /\ WindowIsRecent /\ ProgressInv(c) /\ AfterInv(c)
      /\ call[c].pc = "read" /\ log' = log /\ similar' = similar
    BY Here DEF Kept, IInv, Read, redis
<1>2. PICK s \in Sessions : s = SessionOf[c]
    BY SessionsAssumption
<1>3. /\ \A d \in Calls \ {c} : call'[d] = call[d]
      /\ call'[c].pc = "add" /\ call'[c].gate = call[c].gate
      /\ call'[c].ok = call[c].ok /\ call'[c].after = call[c].after
      /\ call'[c].compared = TRUE
      /\ call'[c].found = FindCycle(window[s], c)
      /\ call'[c].seen = Len(log[s])
      /\ call'[c].start = forgotten[s]
    BY <1>1, <1>2, ReadStep
<1>4. Settled
    BY <1>3 DEF Settled
<1>5. PICK n \in Nat, b \in Nat, f \in Nat :
         n = Len(log[s]) /\ b = forgotten[s] /\ f = FindCycle(window[s], c)
    <2>1. window[s] \in Seq(Calls) /\ log[s] \in Seq(Calls) /\ forgotten[s] \in Nat
        BY <1>1 DEF TypeOK
    <2>2. FindCycle(window[s], c) \in Nat
        BY <2>1, FindCycleFacts
    <2> QED
        BY <2>1, <2>2
<1>6. FoundInv(c)'
    <2>1. /\ b <= n /\ f <= n
          /\ f > 0 => <<c, log[s][n + 1 - f]>> \in similar
          /\ \A k \in 1 .. n :
                (<<c, log[s][n + 1 - k]>> \in similar /\ k <= n - b /\ k <= WindowSize)
                    => f > 0 /\ f <= k
        BY <1>1, <1>5, ReadFound
    <2>2. call'[c].found = f /\ call'[c].seen = n /\ call'[c].start = b
        BY <1>3, <1>5
    <2> QED
        BY <1>1, <1>2, <1>5, <2>1, <2>2 DEF FoundInv
<1>7. ProgressInv(c)'
    BY <1>1, <1>3 DEF ProgressInv, Answered
<1>8. AfterInv(c)'
    <2>1. ASSUME NEW a \in call[c].after
          PROVE  /\ SessionOf[a] = SessionOf[c]
                 /\ call'[a].gate \in {"answered", "gaveup"}
                 /\ Answered(a)' => \E i \in 1 .. call'[c].seen : log'[s][i] = a
        <3>1. a \in Calls
            BY <1>1, CallFacts
        <3>2. SessionOf[a] = SessionOf[c] /\ call[a].gate \in {"answered", "gaveup"}
            BY <1>1 DEF AfterInv
        <3>3. call'[a].gate = call[a].gate /\ (call'[a].ok => call[a].ok)
            BY <1>4, <3>1, <3>2 DEF Settled, After
        <3>4. Answered(a)' => InLog(a)
            <4>1. Answered(a)' => Answered(a)
                BY <3>3 DEF Answered
            <4> QED
                BY <3>1, <4>1, Here DEF ProgressInv
        <3>5. InLog(a) => \E i \in 1 .. call'[c].seen : log'[s][i] = a
            BY <1>1, <1>2, <1>3, <3>2 DEF InLog
        <3> QED
            BY <3>2, <3>3, <3>4, <3>5
    <2> QED
        BY <1>2, <1>3, <2>1 DEF AfterInv
<1>9. ASSUME NEW d \in Calls, d # c
      PROVE  FoundInv(d)' /\ ProgressInv(d)' /\ AfterInv(d)'
    <2>1. call'[d] = call[d]
        BY <1>3, <1>9
    <2> QED
        BY <1>4, <2>1, FoundKept, ProgressKept, AfterKept
<1> QED
    BY <1>6, <1>7, <1>8, <1>9 DEF CallInv

LEMMA NextCalls == ASSUME Kept, [Next]_vars PROVE CallInv'
<1>1. CASE UNCHANGED vars
    BY <1>1, Unmoved DEF vars
<1>2. CASE Start
    BY <1>2, StartCalls
<1>3. ASSUME NEW c \in Calls, Submit(c) \/ GiveUp(c) \/ Serve(c) \/ Raise(c)
      PROVE  CallInv'
    BY <1>3, SubmitCalls, GiveUpCalls, EmbedCalls, ReadCalls, AddCalls,
       FlagCycleCalls, ReplyCalls, RaiseCalls DEF Serve
<1>4. ASSUME NEW c \in Calls, Resend(c)
      PROVE  CallInv'
    BY <1>4, Unmoved DEF Resend
<1>5. CASE \E s \in Sessions : WindowExpires(s) \/ FlagExpires(s)
    BY <1>5, Unmoved DEF WindowExpires, FlagExpires
<1>6. CASE Restart
    BY <1>6, RestartCalls
<1> QED
    BY <1>1, <1>2, <1>3, <1>4, <1>5, <1>6 DEF Next
-----------------------------------------------------------------------------
(* The queue and the flags. *)

\* A call that is not served does not move, or is made, or comes off the queue.
LEMMA NextQueue == ASSUME Kept, [Next]_vars PROVE QueueInv'
<1>1. TypeOK /\ QueueInv /\ queue \in Seq(Calls) /\ Len(queue) \in Nat
    BY DEF Kept, IInv, TypeOK
<1>2. \A i \in 1 .. Len(queue) : queue[i] \in Calls /\ call[queue[i]].pc = "queued"
    BY <1>1 DEF QueueInv
<1>3. CASE UNCHANGED <<queue, call>>
    BY <1>1, <1>3 DEF QueueInv
<1>4. CASE Start
    <2>1. PICK c \in Calls :
             /\ c = Head(queue) /\ queue # <<>>
             /\ \A d \in Calls \ {c} : call'[d] = call[d]
        BY <1>1, <1>4, StartStep DEF Becomes
    <2>2. /\ queue' = Tail(queue) /\ queue' \in Seq(Calls)
          /\ Len(queue') = Len(queue) - 1 /\ Len(queue') \in Nat
          /\ \A i \in 1 .. Len(queue') : queue'[i] = queue[i + 1]
          /\ c = queue[1]
        BY <1>1, <1>4, <2>1, HeadTailProperties DEF Start
    <2>3. ASSUME NEW i \in 1 .. Len(queue')
          PROVE  i + 1 \in 1 .. Len(queue) /\ 1 \in 1 .. Len(queue) /\ 1 # i + 1
        BY <1>1, <2>2
    <2>4. ASSUME NEW i \in 1 .. Len(queue')
          PROVE  call'[queue'[i]].pc = "queued"
        <3>1. queue[i + 1] # c
            BY <1>1, <2>2, <2>3 DEF QueueInv
        <3> QED
            BY <1>2, <2>1, <2>2, <2>3, <3>1
    <2>5. ASSUME NEW i \in 1 .. Len(queue'), NEW j \in 1 .. Len(queue'),
                 queue'[i] = queue'[j]
          PROVE  i = j
        <3>1. i + 1 = j + 1
            BY <1>1, <2>2, <2>3, <2>5 DEF QueueInv
        <3> QED
            BY <2>2, <3>1
    <2> QED
        BY <2>4, <2>5 DEF QueueInv
<1>5. ASSUME NEW c \in Calls, Submit(c)
      PROVE  QueueInv'
    <2>1. /\ call[c].pc = "idle" /\ call'[c].pc = "queued"
          /\ \A d \in Calls \ {c} : call'[d] = call[d]
        BY <1>1, <1>5, SubmitStep DEF Submit
    <2>2. /\ queue' = Append(queue, c) /\ Len(queue') = Len(queue) + 1
          /\ \A i \in 1 .. Len(queue) : queue'[i] = queue[i]
          /\ queue'[Len(queue) + 1] = c
        BY <1>1, <1>5, AppendFacts DEF Submit
    <2>3. ASSUME NEW i \in 1 .. Len(queue')
          PROVE  \/ i \in 1 .. Len(queue) /\ queue'[i] = queue[i] /\ queue[i] # c
                 \/ i = Len(queue) + 1 /\ queue'[i] = c
        BY <1>1, <1>2, <2>1, <2>2
    <2>4. \A i \in 1 .. Len(queue') : call'[queue'[i]].pc = "queued"
        BY <1>2, <2>1, <2>3
    <2>5. \A i, j \in 1 .. Len(queue') : queue'[i] = queue'[j] => i = j
        BY <1>1, <2>3 DEF QueueInv
    <2> QED
        BY <2>4, <2>5 DEF QueueInv
<1>6. ASSUME NEW c \in Calls, GiveUp(c) \/ Serve(c) \/ Raise(c)
      PROVE  QueueInv'
    <2>1. queue' = queue
        BY <1>6 DEF GiveUp, Serve, Embed, Load, Read, Add, FlagCycle, Reply, Raise
    <2>2. \A d \in Calls \ {c} : call'[d] = call[d]
        BY <1>1, <1>6, GiveUpStep, EmbedStep, LoadStep, ReadStep, AddStep,
           FlagCycleStep, ReplyStep, RaiseStep DEF Serve, Becomes
    <2>3. call[c].pc = "queued" => call'[c].pc = "queued"
        <3>1. CASE GiveUp(c)
            BY <1>1, <3>1, GiveUpStep DEF Becomes
        <3>2. CASE Serve(c) \/ Raise(c)
            BY <3>2 DEF Serve, Embed, Load, Read, Add, FlagCycle, Reply, Raise
        <3> QED
            BY <1>6, <3>1, <3>2
    <2>4. \A i \in 1 .. Len(queue) : call'[queue[i]].pc = "queued"
        BY <1>2, <2>2, <2>3
    <2> QED
        BY <1>1, <2>1, <2>4 DEF QueueInv
<1>7. CASE Restart
    <2>1. queue' = <<>>
        BY <1>7 DEF Restart
    <2> QED
        BY <2>1 DEF QueueInv
<1>8. CASE \E c \in Calls : Resend(c)
    BY <1>3, <1>8 DEF Resend
<1>9. CASE \E s \in Sessions : WindowExpires(s) \/ FlagExpires(s)
    BY <1>3, <1>9 DEF WindowExpires, FlagExpires
<1>10. CASE UNCHANGED vars
    BY <1>3, <1>10 DEF vars
<1> QED
    BY <1>4, <1>5, <1>6, <1>7, <1>8, <1>9, <1>10 DEF Next

\* A flag is only raised for a call that is about to raise it.
LEMMA FlagRises ==
    ASSUME TypeOK, [Next]_vars, NEW s \in Sessions, flag'[s], ~flag[s]
    PROVE  \E c \in Calls : SessionOf[c] = s /\ call[c].pc = "flag"
<1>1. CASE flag' = flag
    BY <1>1
<1>2. ASSUME NEW c \in Calls, SetFlag(c), call[c].pc = "flag"
      PROVE  \E d \in Calls : SessionOf[d] = s /\ call[d].pc = "flag"
    BY <1>2 DEF SetFlag, TypeOK
<1>3. ASSUME NEW t \in Sessions, FlagExpires(t)
      PROVE  FALSE
    BY <1>3 DEF FlagExpires, TypeOK
<1>4. flag' = flag \/ (\E c \in Calls : SetFlag(c) /\ call[c].pc = "flag")
        \/ \E t \in Sessions : FlagExpires(t)
    <2>1. CASE UNCHANGED vars
        BY <2>1 DEF vars
    <2>2. CASE Start \/ Restart
        BY <2>2 DEF Start, Restart, redis
    <2>3. ASSUME NEW c \in Calls, Submit(c) \/ GiveUp(c) \/ Serve(c)
          PROVE  flag' = flag \/ (SetFlag(c) /\ call[c].pc = "flag")
        BY <2>3 DEF Submit, GiveUp, Serve, Embed, Load, Read, Add, AddNode, FlagCycle,
                    Reply, redis
    <2>4. ASSUME NEW c \in Calls, Raise(c) \/ Resend(c)
          PROVE  flag' = flag \/ (SetFlag(c) /\ call[c].pc = "flag")
        BY <2>4 DEF Raise, Resend, AddNode, redis
    <2>5. CASE \E t \in Sessions : WindowExpires(t)
        BY <2>5 DEF WindowExpires
    <2> QED
        BY <2>1, <2>2, <2>3, <2>4, <2>5 DEF Next
<1> QED
    BY <1>1, <1>2, <1>3, <1>4

LEMMA NextFlags == ASSUME Kept, [Next]_vars PROVE FlagIsJustified'
<1> USE SizesAssumption
<1>1. TypeOK /\ FlagIsJustified /\ similar' = similar
    BY DEF Kept, IInv
<1>2. SUFFICES ASSUME NEW s \in Sessions, flag'[s]
               PROVE  \E i, j \in 1 .. Len(log'[s]) :
                          /\ i + MinCycleLength <= j
                          /\ <<log'[s][j], log'[s][i]>> \in similar
    BY <1>1 DEF FlagIsJustified
<1>3. PICK i \in 1 .. Len(log[s]), j \in 1 .. Len(log[s]) :
         i + MinCycleLength <= j /\ <<log[s][j], log[s][i]>> \in similar
    <2>1. CASE flag[s]
        BY <1>1, <2>1 DEF FlagIsJustified
    <2>2. CASE ~flag[s]
        <3>1. PICK c \in Calls : SessionOf[c] = s /\ call[c].pc = "flag"
            BY <1>1, <1>2, <2>2, FlagRises
        <3>2. ProgressInv(c) /\ FoundInv(c)
            BY Here
        <3>3. PICK n \in Nat, f \in Nat : n = call[c].seen /\ f = call[c].found
            BY Here
        <3>4. PICK j \in n + 1 .. Len(log[s]) : log[s][j] = c
            BY <3>1, <3>2, <3>3 DEF ProgressInv
        <3>5. /\ f >= MinCycleLength /\ f <= n /\ n <= Len(log[s])
              /\ f > 0 => <<c, log[s][n + 1 - f]>> \in similar
            BY <3>1, <3>2, <3>3 DEF ProgressInv, FoundInv
        <3>6. Len(log[s]) \in Nat
            BY KeptFacts
        <3>7. PICK i \in 1 .. Len(log[s]) : i = n + 1 - f
            BY <3>5, <3>6
        <3>8. j \in 1 .. Len(log[s]) /\ i + MinCycleLength <= j
            BY <3>4, <3>5, <3>6, <3>7
        <3>9. f > 0
            BY <3>5
        <3>10. log[s][i] = log[s][n + 1 - f] /\ log[s][j] = c
            BY <3>4, <3>7
        <3>11. <<log[s][j], log[s][i]>> \in similar
            BY <3>5, <3>9, <3>10, Zenon
        <3> QED
            BY <3>8, <3>11
    <2> QED
        BY <2>1, <2>2
<1>4. /\ i \in 1 .. Len(log'[s]) /\ j \in 1 .. Len(log'[s])
      /\ log'[s][i] = log[s][i] /\ log'[s][j] = log[s][j]
    BY KeptFacts
<1> QED
    BY <1>3, <1>4
-----------------------------------------------------------------------------
(* The theorems. *)

LEMMA InitIInv == Init => IInv
<1> SUFFICES ASSUME Init PROVE IInv
    OBVIOUS
<1> USE SizesAssumption, SessionsAssumption
<1>1. \A c \in Calls :
          /\ call[c] = [pc |-> "idle", gate |-> "none", ok |-> TRUE, compared |-> FALSE,
                        found |-> 0, after |-> {}, seen |-> 0, start |-> 0]
          /\ call[c] \in Call
    BY DEF Init, Call, PC
<1>2. TypeOK
    <2>1. call \in [Calls -> Call]
        BY <1>1 DEF Init
    <2> QED
        BY <2>1 DEF Init, TypeOK
<1>3. \A s \in Sessions : log[s] = <<>> /\ window[s] = <<>> /\ forgotten[s] = 0
    BY DEF Init
<1>4. WindowIsRecent
    <2>1. ASSUME NEW s \in Sessions
          PROVE  /\ Len(log[s]) = 0 /\ Len(window[s]) = 0 /\ forgotten[s] = 0
                 /\ 0 < WindowSize /\ WindowSize \in Nat
        <3>1. log[s] = <<>> /\ window[s] = <<>> /\ forgotten[s] = 0
            BY <1>3
        <3> QED
            BY <3>1
    <2>2. ASSUME NEW s \in Sessions
          PROVE  LET n == Len(window[s])
                     kept == Len(log[s]) - forgotten[s]
                 IN  /\ forgotten[s] <= Len(log[s])
                     /\ n = IF kept < WindowSize THEN kept ELSE WindowSize
                     /\ \A i \in 1 .. n : window[s][i] = log[s][Len(log[s]) - n + i]
        <3>1. Len(window[s]) = 0 /\ Len(log[s]) - forgotten[s] = 0
            BY <2>1
        <3>2. forgotten[s] <= Len(log[s])
            BY <2>1
        <3>3. Len(window[s]) = IF Len(log[s]) - forgotten[s] < WindowSize
                                 THEN Len(log[s]) - forgotten[s] ELSE WindowSize
            BY <2>1, <3>1
        <3>4. \A i \in 1 .. Len(window[s]) :
                 window[s][i] = log[s][Len(log[s]) - Len(window[s]) + i]
            BY <3>1
        <3> QED
            BY <3>2, <3>3, <3>4
    <2> QED
        BY <2>2 DEF WindowIsRecent
<1>5. CallInv
    <2>1. ASSUME NEW c \in Calls
          PROVE  FoundInv(c) /\ ProgressInv(c) /\ AfterInv(c)
        <3>1. /\ call[c].pc = "idle" /\ call[c].gate = "none" /\ ~call[c].compared
              /\ call[c].found = 0 /\ call[c].after = {} /\ call[c].seen = 0
              /\ call[c].start = 0
            BY <1>1
        <3>2. Len(log[SessionOf[c]]) = 0
            BY <1>3
        <3> QED
            BY <3>1, <3>2 DEF FoundInv, ProgressInv, AfterInv, Answered
    <2> QED
        BY <2>1 DEF CallInv
<1>6. QueueInv
    BY DEF Init, QueueInv
<1>7. FlagIsJustified
    BY DEF Init, FlagIsJustified
<1> QED
    BY <1>2, <1>4, <1>5, <1>6, <1>7 DEF IInv

LEMMA NextIInv == IInv /\ [Next]_vars => IInv'
<1> SUFFICES ASSUME IInv, [Next]_vars PROVE IInv'
    OBVIOUS
<1>1. TypeOK' /\ WindowIsRecent' /\ Kept
    BY NextTypes DEF IInv, Kept
<1> QED
    BY <1>1, NextCalls, NextQueue, NextFlags DEF IInv

LEMMA Invariance == Spec => []IInv
BY InitIInv, NextIInv, PTL DEF Spec

\* Every variable keeps its type, however many calls, exceptions and restarts.
THEOREM TypeCorrect == Spec => []TypeOK
<1>1. IInv => TypeOK
    BY DEF IInv
<1> QED
    BY <1>1, Invariance, PTL

\* A session's list in Redis is always the newest WindowSize responses that were
\* added since it last expired (graph_store.py).
THEOREM WindowCorrect == Spec => []WindowIsRecent
<1>1. IInv => WindowIsRecent
    BY DEF IInv
<1> QED
    BY <1>1, Invariance, PTL

\* A verdict the gateway got is never lost on the turns after it: CheckCycle
\* compares them with that turn while it is in the window.
THEOREM NoTurnIsMissed == Spec => []AnsweredTurnsAreCompared
<1>1. ASSUME IInv PROVE AnsweredTurnsAreCompared
    <2> SUFFICES ASSUME NEW d \in Calls, NEW c \in call[d].after,
                        Answered(c), call[d].compared, <<d, c>> \in similar
                 PROVE  \E i \in 1 .. call[d].seen :
                            /\ log[SessionOf[d]][i] = c
                            /\ \/ i <= call[d].start
                               \/ i + WindowSize <= call[d].seen
                               \/ call[d].found \in 1 .. call[d].seen + 1 - i
        BY DEF AnsweredTurnsAreCompared
    <2>1. TypeOK /\ AfterInv(d) /\ FoundInv(d)
        BY <1>1 DEF IInv, CallInv
    <2>2. PICK n \in Nat, b \in Nat, f \in Nat :
             n = call[d].seen /\ b = call[d].start /\ f = call[d].found
        BY <2>1, CallFacts
    <2>3. PICK i \in 1 .. n : log[SessionOf[d]][i] = c
        BY <2>1, <2>2 DEF AfterInv
    <2>4. CASE i > b /\ i + WindowSize > n
        <3>1. PICK k \in 1 .. n : k = n + 1 - i
            OBVIOUS
        <3>2. k <= n - b /\ k <= WindowSize /\ n + 1 - k = i
            BY <2>4, <3>1, SizesAssumption
        <3>3. f > 0 /\ f <= k
            BY <2>1, <2>2, <2>3, <3>2 DEF FoundInv
        <3> QED
            BY <2>2, <2>3, <3>1, <3>3
    <2>5. CASE i <= b \/ i + WindowSize <= n
        BY <2>2, <2>3, <2>5
    <2> QED
        BY <2>4, <2>5, SizesAssumption
<1> QED
    BY <1>1, Invariance, PTL

\* No session is kept from the cache by a flag without a loop: two similar
\* responses of that session are at least MinCycleLength nodes apart.
THEOREM FlagsAreJustified == Spec => []FlagIsJustified
<1>1. IInv => FlagIsJustified
    BY DEF IInv
<1> QED
    BY <1>1, Invariance, PTL
=============================================================================
