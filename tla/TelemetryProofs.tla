--------------------------- MODULE TelemetryProofs ---------------------------
(***************************************************************************)
(* Proofs about Telemetry, for any number of requests, every limit, every  *)
(* size of the queue and every set of panels. Each of the three components *)
(* has an invariant of its own; a step of Telemetry is a step of one of    *)
(* them, or of two for Serve and Crash. That what was served comes to be   *)
(* shown is a temporal property and stays with TLC.                        *)
(***************************************************************************)
EXTENDS Telemetry, TLAPS, FiniteSetTheorems, SequenceTheorems

----------------------------------------------------------------------------
(* The rate limiter. *)

\* The instance has its own name for the cardinality of the library.
LEMMA SameCardinality == \A S : Limiter!Cardinality(S) = Cardinality(S)
BY DEF Limiter!Cardinality, Cardinality

LetThrough == {r \in window : step[r] \in {"expiring", "admitted", "served"}}

\* The key counts each request of its window at least once: an INCR that was sent
\* again may count its request more than once. One request at most is to set the
\* expiry, and the key has none till then.
LimiterInv ==
    /\ Limiter!TypeOK
    /\ IsFiniteSet(window)
    /\ Cardinality(window) <= count
    /\ \A r \in Requests : step[r] = "expiring" => r \in window /\ ~expires
    /\ \A r, o \in Requests : step[r] = "expiring" /\ step[o] = "expiring" => r = o
    /\ LimitPerWindow
    /\ ShutOutOnlyByFault

\* A step that counts no request and lets none through keeps the limit.
LEMMA FewerLetThrough ==
    ASSUME IsFiniteSet(window), LimitPerWindow, LetThrough' \subseteq LetThrough
    PROVE  LimitPerWindow'
<1>1. IsFiniteSet(LetThrough)
    BY FS_Subset, LetThrough \in SUBSET window DEF LetThrough
<1>2. /\ Cardinality(LetThrough) \in Nat /\ Cardinality(LetThrough') \in Nat
      /\ Cardinality(LetThrough') <= Cardinality(LetThrough)
    BY <1>1, FS_Subset, FS_CardinalityType
<1> QED
    BY <1>2, SameCardinality, RequestLimitAssumption DEF LimitPerWindow, Limiter!LimitPerWindow, LetThrough

\* INCR was done for a request, which an INCR may have counted before.
LEMMA CountedKeeps ==
    ASSUME LimiterInv, NEW r \in Requests, Limiter!Counted(r)
    PROVE  /\ window' = window \cup {r} /\ window' \subseteq Requests
           /\ count \in Nat /\ count' = count + 1 /\ count' \in Nat /\ count' > 0
           /\ IsFiniteSet(window') /\ Cardinality(window') <= count'
           /\ count = 0 => window = {}
<1>1. /\ window' = window \cup {r} /\ count' = count + 1
      /\ count \in Nat /\ window \subseteq Requests
    BY DEF Limiter!Counted, LimiterInv, Limiter!TypeOK
<1>2. /\ IsFiniteSet(window) /\ Cardinality(window) \in Nat
      /\ Cardinality(window) <= count
    BY FS_CardinalityType DEF LimiterInv
<1>3. IsFiniteSet(window') /\ Cardinality(window') <= Cardinality(window) + 1
    <2>1. CASE r \in window
        <3>1. window' = window
            BY <2>1, <1>1
        <3> QED BY <3>1, <1>2
    <2>2. CASE r \notin window
        <3>1. IsFiniteSet(window') /\ Cardinality(window') = Cardinality(window) + 1
            BY <2>2, <1>1, <1>2, FS_AddElement
        <3> QED BY <3>1, <1>2
    <2> QED BY <2>1, <2>2
<1>4. Cardinality(window') \in Nat
    BY <1>3, FS_CardinalityType
<1>5. count = 0 => window = {}
    BY <1>1, <1>2, FS_EmptySet
<1> QED BY <1>1, <1>2, <1>3, <1>4, <1>5

\* A request is counted and let through, if it is, with its place in the limit.
LEMMA WithinLimit ==
    ASSUME IsFiniteSet(window'), NEW n \in Nat, n <= RequestLimit,
           Cardinality(window') <= n
    PROVE  LimitPerWindow'
<1>1. /\ LetThrough' \in SUBSET window'
      /\ LetThrough' = {o \in window' : step'[o] \in {"expiring", "admitted", "served"}}
    BY DEF LetThrough
<1>2. /\ Cardinality(LetThrough') \in Nat /\ Cardinality(window') \in Nat
      /\ Cardinality(LetThrough') <= Cardinality(window')
    BY <1>1, FS_Subset, FS_CardinalityType
<1> QED
    BY <1>1, <1>2, SameCardinality, RequestLimitAssumption DEF LimitPerWindow,
       Limiter!LimitPerWindow

\* The reply to INCR.
LEMMA IncrKeeps ==
    ASSUME LimiterInv, NEW r \in Requests, Limiter!Incr(r)
    PROVE  LimiterInv'
<1> USE RequestLimitAssumption
<1>1. /\ step[r] \in {"arriving", "resending"} /\ r \notin LetThrough
      /\ count \in Nat /\ window \subseteq Requests
    BY DEF LimiterInv, Limiter!TypeOK, Limiter!Incr, Limiter!Sending, LetThrough
<1>2. /\ window' = window \cup {r} /\ count' = count + 1
      /\ expires' = expires /\ resent' = resent /\ expireLost' = expireLost
      /\ IsFiniteSet(window') /\ Cardinality(window') <= count'
      /\ count = 0 => window = {}
    BY <1>1, CountedKeeps DEF Limiter!Incr
<1>3. PICK to \in {"expiring", "rejected", "admitted"} :
        /\ step' = [step EXCEPT ![r] = to]
        /\ to = "expiring" <=> count + 1 = 1
        /\ count + 1 > RequestLimit /\ count + 1 # 1 => to = "rejected"
    BY <1>1 DEF Limiter!Incr, Limiter!Goto
<1>4. Limiter!TypeOK'
    BY <1>1, <1>2, <1>3 DEF LimiterInv, Limiter!TypeOK
<1>5. LimitPerWindow'
    <2>1. CASE to = "rejected"
        <3>1. LetThrough' \subseteq LetThrough
            BY <2>1, <1>1, <1>2, <1>3 DEF LimiterInv, Limiter!TypeOK, LetThrough
        <3> QED BY <3>1, FewerLetThrough DEF LimiterInv
    <2>2. CASE to # "rejected"
        <3>1. count + 1 <= RequestLimit
            BY <2>2, <1>1, <1>3
        <3> QED BY <3>1, <1>1, <1>2, WithinLimit
    <2> QED BY <2>1, <2>2
<1>6. ShutOutOnlyByFault'
    <2>1. CASE count = 0
        BY <2>1, <1>2, <1>3 DEF LimiterInv, Limiter!TypeOK, ShutOutOnlyByFault,
           Limiter!ShutOutOnlyByFault
    <2>2. CASE count # 0
        <3>1. \A o \in Requests : step[o] = "expiring" => step'[o] = "expiring"
            BY <1>1, <1>3 DEF LimiterInv, Limiter!TypeOK
        <3> QED
            BY <2>2, <3>1, <1>1, <1>2 DEF LimiterInv, ShutOutOnlyByFault,
               Limiter!ShutOutOnlyByFault
    <2> QED BY <2>1, <2>2
<1>7. /\ \A o \in Requests : step'[o] = "expiring" => o \in window' /\ ~expires'
      /\ \A o, p \in Requests : step'[o] = "expiring" /\ step'[p] = "expiring" => o = p
    BY <1>1, <1>2, <1>3 DEF LimiterInv, Limiter!TypeOK
<1> QED BY <1>2, <1>4, <1>5, <1>6, <1>7 DEF LimiterInv

\* A step that ends or goes on with an INCR without a reply: done or not, it lets
\* nobody through, and one that made the key is remembered.
LEMMA NoReplyKeeps ==
    ASSUME LimiterInv, NEW r \in Requests, Limiter!Sending(r),
           NEW to \in {"resending", "failed"}, step' = [step EXCEPT ![r] = to],
           \/ UNCHANGED <<count, window, expireLost>>
           \/ Limiter!Counted(r) /\ expireLost' = (expireLost \/ count = 0),
           expires' = expires, resent' \in 0 .. MaxResent
    PROVE  LimiterInv'
<1>1. /\ step[r] \in {"arriving", "resending"}
      /\ count \in Nat /\ window \subseteq Requests
    BY DEF LimiterInv, Limiter!TypeOK, Limiter!Sending
<1>2. /\ \/ count' = count /\ window' = window
         \/ count' \in Nat /\ count' > 0 /\ window' = window \cup {r}
      /\ IsFiniteSet(window') /\ Cardinality(window') <= count'
      /\ expireLost' \in BOOLEAN
      /\ expireLost => expireLost'
      /\ count = 0 /\ count' # 0 => expireLost'
    <2>1. CASE UNCHANGED <<count, window, expireLost>>
        BY <2>1 DEF LimiterInv, Limiter!TypeOK
    <2>2. CASE Limiter!Counted(r) /\ expireLost' = (expireLost \/ count = 0)
        <3>1. /\ window' = window \cup {r} /\ count' \in Nat /\ count' > 0
              /\ IsFiniteSet(window') /\ Cardinality(window') <= count'
            BY <2>2, CountedKeeps
        <3>2. /\ expireLost' \in BOOLEAN /\ (expireLost => expireLost')
              /\ (count = 0 => expireLost')
            BY <2>2, Zenon DEF LimiterInv, Limiter!TypeOK
        <3> QED BY <3>1, <3>2
    <2> QED BY <2>1, <2>2
<1>3. Limiter!TypeOK'
    BY <1>1, <1>2 DEF LimiterInv, Limiter!TypeOK
<1>4. \A o \in Requests : step'[o] = "expiring" <=> step[o] = "expiring"
    BY <1>1 DEF LimiterInv, Limiter!TypeOK
<1>5. /\ \A o \in Requests : step'[o] = "expiring" => o \in window' /\ ~expires'
      /\ \A o, p \in Requests : step'[o] = "expiring" /\ step'[p] = "expiring" => o = p
    BY <1>2, <1>4 DEF LimiterInv
<1>6. LetThrough' \subseteq LetThrough
    BY <1>1, <1>2 DEF LimiterInv, Limiter!TypeOK, LetThrough
<1>7. ShutOutOnlyByFault'
    BY <1>1, <1>2, <1>4 DEF LimiterInv, ShutOutOnlyByFault, Limiter!ShutOutOnlyByFault
<1> QED BY <1>2, <1>3, <1>5, <1>6, <1>7, FewerLetThrough DEF LimiterInv

LEMMA IncrAgainKeeps ==
    ASSUME LimiterInv, NEW r \in Requests, Limiter!IncrAgain(r)
    PROVE  LimiterInv'
<1>1. /\ Limiter!Sending(r) /\ step' = [step EXCEPT ![r] = "resending"]
      /\ Limiter!Counted(r) /\ expireLost' = (expireLost \/ count = 0)
      /\ expires' = expires
    BY DEF Limiter!IncrAgain, Limiter!Goto
<1>2. resent' \in 0 .. MaxResent
    BY BoundsAssumption DEF LimiterInv, Limiter!TypeOK, Limiter!IncrAgain
<1> QED BY <1>1, <1>2, NoReplyKeeps

LEMMA IncrFailsKeeps ==
    ASSUME LimiterInv, NEW r \in Requests, Limiter!IncrFails(r)
    PROVE  LimiterInv'
<1>1. /\ Limiter!Sending(r) /\ step' = [step EXCEPT ![r] = "failed"]
      /\ \/ UNCHANGED <<count, window, expireLost>>
         \/ Limiter!Counted(r) /\ expireLost' = (expireLost \/ count = 0)
      /\ expires' = expires
    BY DEF Limiter!IncrFails, Limiter!Goto
<1>2. resent' \in 0 .. MaxResent
    BY DEF LimiterInv, Limiter!TypeOK, Limiter!IncrFails
<1> QED BY <1>1, <1>2, NoReplyKeeps

\* EXPIRE, done or not.
LEMMA ExpireKeeps ==
    ASSUME LimiterInv, NEW r \in Requests, Limiter!Expire(r)
    PROVE  LimiterInv'
<1>1. /\ step[r] = "expiring" /\ r \in window
      /\ count' = count /\ window' = window /\ resent' = resent
    BY DEF LimiterInv, Limiter!Expire
<1>2. PICK to \in {"rejected", "admitted"} : step' = [step EXCEPT ![r] = to]
    BY DEF Limiter!Expire, Limiter!Goto
<1>3. /\ expires' \in BOOLEAN /\ expireLost' \in BOOLEAN
      /\ expires' \/ expireLost'
    BY DEF LimiterInv, Limiter!TypeOK, Limiter!Expire
<1>4. count > 0
    BY <1>1, FS_EmptySet, FS_CardinalityType DEF LimiterInv, Limiter!TypeOK
<1>5. Limiter!TypeOK'
    BY <1>1, <1>2, <1>3, <1>4 DEF LimiterInv, Limiter!TypeOK
<1>6. LetThrough' \subseteq LetThrough
    BY <1>1, <1>2 DEF LimiterInv, Limiter!TypeOK, LetThrough
<1>7. \A o \in Requests : step'[o] # "expiring"
    BY <1>1, <1>2 DEF LimiterInv, Limiter!TypeOK
<1>8. ShutOutOnlyByFault'
    BY <1>3 DEF ShutOutOnlyByFault, Limiter!ShutOutOnlyByFault
<1> QED BY <1>1, <1>5, <1>6, <1>7, <1>8, FewerLetThrough DEF LimiterInv

\* The end of the key.
LEMMA KeyExpiresKeeps ==
    ASSUME LimiterInv, Limiter!KeyExpires
    PROVE  LimiterInv'
<1>1. /\ expires /\ count' = 0 /\ ~expires' /\ window' = {}
      /\ step' = step /\ expireLost' = expireLost
    BY DEF Limiter!KeyExpires
<1>2. Limiter!TypeOK'
    BY DEF LimiterInv, Limiter!TypeOK, Limiter!KeyExpires
<1>3. LetThrough' \subseteq LetThrough
    BY <1>1 DEF LetThrough
<1>4. ShutOutOnlyByFault'
    BY <1>1 DEF ShutOutOnlyByFault, Limiter!ShutOutOnlyByFault
<1> QED BY <1>1, <1>2, <1>3, <1>4, FewerLetThrough, FS_EmptySet DEF LimiterInv

\* The chat handler answers, or the gateway ends: no counter changes.
LEMMA ServedKeeps ==
    ASSUME LimiterInv, NEW r \in Requests, Limiter!Served(r)
    PROVE  LimiterInv'
<1>1. /\ step[r] = "admitted" /\ step' = [step EXCEPT ![r] = "served"]
      /\ count' = count /\ expires' = expires /\ window' = window
      /\ resent' = resent /\ expireLost' = expireLost
    BY DEF Limiter!Served, Limiter!Goto
<1>2. Limiter!TypeOK'
    BY <1>1 DEF LimiterInv, Limiter!TypeOK
<1>3. LetThrough' \subseteq LetThrough
    BY <1>1 DEF LimiterInv, Limiter!TypeOK, LetThrough
<1>4. \A o \in Requests : step'[o] = "expiring" <=> step[o] = "expiring"
    BY <1>1 DEF LimiterInv, Limiter!TypeOK
<1>5. ShutOutOnlyByFault'
    BY <1>1, <1>4 DEF LimiterInv, ShutOutOnlyByFault, Limiter!ShutOutOnlyByFault
<1> QED BY <1>1, <1>2, <1>3, <1>4, <1>5, FewerLetThrough DEF LimiterInv

LEMMA LimiterCrashKeeps ==
    ASSUME LimiterInv, Limiter!Crash
    PROVE  LimiterInv'
<1>1. /\ count' = count /\ expires' = expires /\ window' = window
      /\ resent' = resent
      /\ step' = [r \in Requests |->
                     IF step[r] \in {"resending", "expiring", "admitted"} THEN "failed" ELSE step[r]]
    BY DEF Limiter!Crash
<1>2. /\ expireLost' \in BOOLEAN
      /\ expireLost => expireLost'
      /\ (\E r \in Requests : step[r] = "expiring") => expireLost'
    BY DEF LimiterInv, Limiter!TypeOK, Limiter!Crash
<1>3. Limiter!TypeOK'
    BY <1>1, <1>2 DEF LimiterInv, Limiter!TypeOK
<1>4. LetThrough' \subseteq LetThrough
    BY <1>1 DEF LimiterInv, Limiter!TypeOK, LetThrough
<1>5. \A o \in Requests : step'[o] # "expiring"
    BY <1>1 DEF LimiterInv, Limiter!TypeOK
<1>6. ShutOutOnlyByFault'
    BY <1>1, <1>2 DEF LimiterInv, ShutOutOnlyByFault, Limiter!ShutOutOnlyByFault
<1> QED BY <1>1, <1>3, <1>4, <1>5, <1>6, FewerLetThrough DEF LimiterInv

LEMMA LimiterUnmoved ==
    ASSUME LimiterInv, UNCHANGED limiter
    PROVE  LimiterInv'
BY DEF LimiterInv, limiter, Limiter!TypeOK, LimitPerWindow, Limiter!LimitPerWindow,
   ShutOutOnlyByFault, Limiter!ShutOutOnlyByFault

LEMMA LimiterStarts == ASSUME Limiter!Init PROVE LimiterInv
<1>1. /\ step = [r \in Requests |-> "arriving"]
      /\ count = 0 /\ ~expires /\ window = {}
    BY DEF Limiter!Init
<1>2. Limiter!TypeOK
    <2>1. resent \in 0 .. MaxResent
        BY BoundsAssumption DEF Limiter!Init
    <2> QED BY <2>1 DEF Limiter!Init, Limiter!TypeOK
<1>3. LimitPerWindow
    <2>1. LetThrough = {}
        BY <1>1 DEF LetThrough
    <2> QED
        BY <2>1, SameCardinality, FS_EmptySet, RequestLimitAssumption DEF LimitPerWindow,
           Limiter!LimitPerWindow, LetThrough
<1>4. ShutOutOnlyByFault
    BY <1>1 DEF ShutOutOnlyByFault, Limiter!ShutOutOnlyByFault
<1> QED BY <1>1, <1>2, <1>3, <1>4, FS_EmptySet DEF LimiterInv

LEMMA LimiterSteps == ASSUME LimiterInv, [Next]_vars PROVE LimiterInv'
<1>1. CASE Limit
    BY <1>1, IncrKeeps, IncrAgainKeeps, IncrFailsKeeps, ExpireKeeps, KeyExpiresKeeps
       DEF Limit, Limiter!Internal
<1>2. ASSUME NEW r \in Requests, Serve(r) PROVE LimiterInv'
    BY <1>2, ServedKeeps DEF Serve
<1>3. CASE Crash
    BY <1>3, LimiterCrashKeeps DEF Crash
<1>4. CASE Work \/ Tick \/ Answer \/ Look \/ UNCHANGED vars
    BY <1>4, LimiterUnmoved DEF Work, Tick, Answer, Look, vars, limiter
<1> QED BY <1>1, <1>2, <1>3, <1>4 DEF Next

----------------------------------------------------------------------------
(* The logger. *)

\* What is left of s is left of t.
LEMMA SubsequenceOf ==
    ASSUME NEW S, NEW s \in Seq(S), NEW t \in Seq(S), NEW u \in Seq(S),
           Logger!IsSubsequence(s, t), Logger!IsSubsequence(t, u)
    PROVE  Logger!IsSubsequence(s, u)
<1>1. PICK f \in [DOMAIN s -> DOMAIN t] :
        /\ \A i \in DOMAIN s : t[f[i]] = s[i]
        /\ \A i, j \in DOMAIN s : i < j => f[i] < f[j]
    BY DEF Logger!IsSubsequence
<1>2. PICK g \in [DOMAIN t -> DOMAIN u] :
        /\ \A i \in DOMAIN t : u[g[i]] = t[i]
        /\ \A i, j \in DOMAIN t : i < j => g[i] < g[j]
    BY DEF Logger!IsSubsequence
<1> DEFINE at == [i \in DOMAIN s |-> g[f[i]]]
<1>3. at \in [DOMAIN s -> DOMAIN u]
    BY <1>1, <1>2
<1>4. \A i \in DOMAIN s : u[at[i]] = s[i]
    BY <1>1, <1>2
<1>5. \A i, j \in DOMAIN s : i < j => at[i] < at[j]
    BY <1>1, <1>2
<1> QED BY <1>3, <1>4, <1>5 DEF Logger!IsSubsequence

LEMMA SubsequenceOfItself ==
    ASSUME NEW S, NEW s \in Seq(S)
    PROVE  Logger!IsSubsequence(s, s)
<1> DEFINE at == [i \in DOMAIN s |-> i]
<1>1. at \in [DOMAIN s -> DOMAIN s]
    OBVIOUS
<1> QED BY <1>1 DEF Logger!IsSubsequence

\* Members in the middle are struck out.
LEMMA MiddleStruckOut ==
    ASSUME NEW S, NEW s \in Seq(S), NEW m \in Seq(S), NEW t \in Seq(S)
    PROVE  Logger!IsSubsequence(s \o t, s \o (m \o t))
<1>1. /\ s \o t \in Seq(S) /\ Len(s \o t) = Len(s) + Len(t)
      /\ \A i \in 1 .. Len(s) + Len(t) :
            (s \o t)[i] = IF i <= Len(s) THEN s[i] ELSE t[i - Len(s)]
    BY ConcatProperties
<1>2. /\ m \o t \in Seq(S) /\ Len(m \o t) = Len(m) + Len(t)
      /\ \A i \in 1 .. Len(m) + Len(t) :
            (m \o t)[i] = IF i <= Len(m) THEN m[i] ELSE t[i - Len(m)]
    BY ConcatProperties
<1>3. /\ s \o (m \o t) \in Seq(S)
      /\ Len(s \o (m \o t)) = Len(s) + Len(m) + Len(t)
      /\ \A i \in 1 .. Len(s) + Len(m) + Len(t) :
            (s \o (m \o t))[i] = IF i <= Len(s) THEN s[i] ELSE (m \o t)[i - Len(s)]
    BY <1>2, ConcatProperties
<1> DEFINE at == [i \in DOMAIN (s \o t) |-> IF i <= Len(s) THEN i ELSE i + Len(m)]
<1>4. at \in [DOMAIN (s \o t) -> DOMAIN (s \o (m \o t))]
    BY <1>1, <1>3, LenProperties
<1>5. ASSUME NEW i \in DOMAIN (s \o t) PROVE (s \o (m \o t))[at[i]] = (s \o t)[i]
    <2>1. i \in 1 .. Len(s) + Len(t) /\ Len(s) \in Nat /\ Len(m) \in Nat /\ Len(t) \in Nat
        BY <1>1, LenProperties
    <2>2. CASE i <= Len(s)
        BY <1>1, <1>3, <2>1, <2>2
    <2>3. CASE i > Len(s)
        <3>1. at[i] = i + Len(m) /\ i + Len(m) \in 1 .. Len(s) + Len(m) + Len(t)
            BY <2>1, <2>3
        <3>2. (s \o (m \o t))[at[i]] = (m \o t)[i + Len(m) - Len(s)]
            BY <1>3, <2>1, <2>3, <3>1
        <3>3. (m \o t)[i + Len(m) - Len(s)] = t[i - Len(s)]
            BY <1>2, <2>1, <2>3
        <3> QED BY <1>1, <2>1, <2>3, <3>2, <3>3
    <2> QED BY <2>1, <2>2, <2>3
<1>6. \A i, j \in DOMAIN (s \o t) : i < j => at[i] < at[j]
    BY <1>1, LenProperties
<1> QED BY <1>4, <1>5, <1>6 DEF Logger!IsSubsequence

LEMMA LongerLog ==
    ASSUME NEW S, NEW s \in Seq(S), NEW t \in Seq(S), NEW e \in S,
           Logger!IsSubsequence(s, t)
    PROVE  /\ Logger!IsSubsequence(s, Append(t, e))
           /\ Logger!IsSubsequence(Append(s, e), Append(t, e))
<1>1. PICK f \in [DOMAIN s -> DOMAIN t] :
        /\ \A i \in DOMAIN s : t[f[i]] = s[i]
        /\ \A i, j \in DOMAIN s : i < j => f[i] < f[j]
    BY DEF Logger!IsSubsequence
<1>2. /\ DOMAIN s = 1 .. Len(s) /\ DOMAIN t = 1 .. Len(t)
      /\ Len(s) \in Nat /\ Len(t) \in Nat
      /\ DOMAIN Append(s, e) = 1 .. Len(s) + 1
      /\ DOMAIN Append(t, e) = 1 .. Len(t) + 1
      /\ \A i \in 1 .. Len(s) : Append(s, e)[i] = s[i]
      /\ \A i \in 1 .. Len(t) : Append(t, e)[i] = t[i]
      /\ Append(s, e)[Len(s) + 1] = e /\ Append(t, e)[Len(t) + 1] = e
    BY AppendProperties, LenProperties
<1>3. Logger!IsSubsequence(s, Append(t, e))
    <2>1. f \in [DOMAIN s -> DOMAIN Append(t, e)]
        BY <1>2
    <2>2. \A i \in DOMAIN s : Append(t, e)[f[i]] = s[i]
        BY <1>1, <1>2
    <2> QED BY <1>1, <2>1, <2>2 DEF Logger!IsSubsequence
<1>4. Logger!IsSubsequence(Append(s, e), Append(t, e))
    <2> DEFINE at == [i \in DOMAIN Append(s, e) |->
                        IF i = Len(s) + 1 THEN Len(t) + 1 ELSE f[i]]
    <2>1. at \in [DOMAIN Append(s, e) -> DOMAIN Append(t, e)]
        BY <1>2
    <2>2. \A i \in DOMAIN Append(s, e) : Append(t, e)[at[i]] = Append(s, e)[i]
        BY <1>1, <1>2
    <2>3. \A i, j \in DOMAIN Append(s, e) : i < j => at[i] < at[j]
        BY <1>1, <1>2
    <2> QED BY <2>1, <2>2, <2>3 DEF Logger!IsSubsequence
<1> QED BY <1>3, <1>4

\* The events that are in the table or on the way there, in their order.
Working == IF worker = "inserting" THEN job ELSE <<>>
Chain == rows \o (Working \o queue)

Inserted(e) == \E i \in DOMAIN rows : rows[i] = e

\* An event has left the insert before it is handed to the topic.
LoggerInv ==
    /\ Logger!TypeOK
    /\ Logger!IsSubsequence(Chain, logged)
    /\ worker = "publishing" => Inserted(job[1]) \/ job[1] \in lost
    /\ NoneDisappears

LEMMA ChainType ==
    ASSUME Logger!TypeOK
    PROVE  /\ Working \in Seq(Requests)
           /\ Working \o queue \in Seq(Requests)
           /\ Chain \in Seq(Requests)
<1>1. Working \in Seq(Requests)
    BY DEF Logger!TypeOK, Working
<1>2. Working \o queue \in Seq(Requests)
    BY <1>1, ConcatProperties DEF Logger!TypeOK
<1> QED BY <1>1, <1>2, ConcatProperties DEF Logger!TypeOK, Chain

\* The rows are the beginning of the chain.
LEMMA LoggerOrdered == ASSUME LoggerInv PROVE InLogOrder
<1>1. /\ rows \in Seq(Requests) /\ logged \in Seq(Requests)
      /\ Working \o queue \in Seq(Requests) /\ Chain \in Seq(Requests)
    BY ChainType DEF LoggerInv, Logger!TypeOK
<1>2. /\ rows \o <<>> = rows
      /\ (Working \o queue) \o <<>> = Working \o queue
      /\ <<>> \in Seq(Requests)
    BY <1>1, ConcatEmptySeq
<1>3. Logger!IsSubsequence(rows, Chain)
    BY <1>1, <1>2, MiddleStruckOut DEF Chain
<1> QED BY <1>1, <1>3, SubsequenceOf DEF LoggerInv, InLogOrder, Logger!InLogOrder

LEMMA LogKeeps ==
    ASSUME LoggerInv, NEW r \in Requests, Logger!Log(r)
    PROVE  LoggerInv'
<1>1. /\ queue \in Seq(Requests) /\ logged \in Seq(Requests)
      /\ rows \in Seq(Requests) /\ Working \in Seq(Requests)
      /\ Working \o queue \in Seq(Requests) /\ Chain \in Seq(Requests)
      /\ Len(queue) \in Nat /\ Len(logged) \in Nat
    BY ChainType, LenProperties DEF LoggerInv, Logger!TypeOK
<1>2. /\ logged' = Append(logged, r)
      /\ worker' = worker /\ job' = job /\ rows' = rows /\ topic' = topic
      /\ Working' = Working
    BY DEF Logger!Log, Working
<1>3. /\ logged' \in Seq(Requests) /\ Len(logged') = Len(logged) + 1
      /\ DOMAIN logged' = 1 .. Len(logged) + 1
      /\ DOMAIN logged = 1 .. Len(logged)
      /\ \A i \in 1 .. Len(logged) : logged'[i] = logged[i]
      /\ logged'[Len(logged) + 1] = r
    BY <1>1, <1>2, AppendProperties, LenProperties
<1>4. \A e : Inserted(e) <=> Inserted(e)'
    BY <1>2 DEF Inserted
<1>5. CASE queue' = Append(queue, r) /\ Len(queue) < QueueCapacity /\ lost' = lost
    <2>1. /\ queue' \in Seq(Requests) /\ Len(queue') = Len(queue) + 1
          /\ DOMAIN queue = 1 .. Len(queue) /\ DOMAIN queue' = 1 .. Len(queue) + 1
          /\ \A i \in 1 .. Len(queue) : queue'[i] = queue[i]
          /\ queue'[Len(queue) + 1] = r
        BY <1>1, <1>5, AppendProperties, LenProperties
    <2>2. Logger!TypeOK'
        BY <1>2, <1>3, <1>5, <2>1, QueueCapacityAssumption DEF LoggerInv, Logger!TypeOK
    <2>3. Chain' = Append(Chain, r)
        <3>1. <<r>> \in Seq(Requests)
            OBVIOUS
        <3>2. queue' = queue \o <<r>>
            BY <1>1, <1>5, AppendIsConcat
        <3>3. Working \o queue' = (Working \o queue) \o <<r>>
            BY <1>1, <3>1, <3>2, ConcatAssociative
        <3>4. rows \o (Working \o queue') = Chain \o <<r>>
            <4> DEFINE coming == Working \o queue
            <4>1. coming \in Seq(Requests) /\ rows \in Seq(Requests)
                BY <1>1
            <4> HIDE DEF coming
            <4>2. (rows \o coming) \o <<r>> = rows \o (coming \o <<r>>)
                BY <4>1, <3>1, ConcatAssociative
            <4> QED BY <3>3, <4>2 DEF Chain, coming
        <3> QED BY <1>1, <1>2, <3>4, AppendIsConcat DEF Chain
    <2>4. Logger!IsSubsequence(Chain, logged)'
        <3>1. Logger!IsSubsequence(Append(Chain, r), Append(logged, r))
            BY <1>1, LongerLog DEF LoggerInv
        <3> QED BY <1>2, <2>3, <3>1, Zenon DEF Logger!IsSubsequence
    <2>5. NoneDisappears'
        BY <1>2, <1>3, <1>4, <1>5, <2>1 DEF LoggerInv, NoneDisappears, Logger!NoneDisappears,
           Inserted
    <2> QED BY <1>2, <1>4, <1>5, <2>2, <2>4, <2>5 DEF LoggerInv
<1>6. CASE queue' = queue /\ lost' = lost \cup {r}
    <2>1. Logger!TypeOK'
        BY <1>2, <1>3, <1>6 DEF LoggerInv, Logger!TypeOK
    <2>2. Chain' = Chain
        BY <1>2, <1>6 DEF Chain
    <2>3. Logger!IsSubsequence(Chain, logged)'
        <3>1. Logger!IsSubsequence(Chain, Append(logged, r))
            BY <1>1, LongerLog DEF LoggerInv
        <3> QED BY <1>2, <2>2, <3>1, Zenon DEF Logger!IsSubsequence
    <2>4. NoneDisappears'
        BY <1>2, <1>3, <1>4, <1>6 DEF LoggerInv, NoneDisappears, Logger!NoneDisappears,
           Inserted
    <2> QED BY <1>2, <1>4, <1>6, <2>1, <2>3, <2>4 DEF LoggerInv
<1> QED BY <1>5, <1>6 DEF Logger!Log

\* The worker takes the next event.
LEMMA TakeKeeps ==
    ASSUME LoggerInv, Logger!Take
    PROVE  LoggerInv'
<1>1. /\ queue \in Seq(Requests) /\ queue # <<>> /\ worker = "waiting"
      /\ worker' = "inserting" /\ job' = <<Head(queue)>> /\ queue' = Tail(queue)
      /\ rows' = rows /\ topic' = topic /\ logged' = logged /\ lost' = lost
    BY DEF LoggerInv, Logger!TypeOK, Logger!Take
<1>2. /\ Len(queue) \in Nat \ {0} /\ Head(queue) = queue[1] /\ Head(queue) \in Requests
      /\ DOMAIN queue = 1 .. Len(queue)
      /\ queue' \in Seq(Requests) /\ Len(queue') = Len(queue) - 1
      /\ DOMAIN queue' = 1 .. Len(queue) - 1
      /\ \A i \in 1 .. Len(queue) - 1 : queue'[i] = queue[i + 1]
    BY <1>1, HeadTailProperties, LenProperties, EmptySeq
<1>3. Logger!TypeOK'
    BY <1>1, <1>2, QueueCapacityAssumption DEF LoggerInv, Logger!TypeOK
<1>4. Chain' = Chain
    <2>1. queue = <<Head(queue)>> \o Tail(queue)
        BY <1>1
    <2>2. Working = <<>> /\ Working' = <<Head(queue)>>
        BY <1>1 DEF Working
    <2>3. <<>> \o queue = queue
        BY <1>1, ConcatEmptySeq
    <2> QED BY <1>1, <2>1, <2>2, <2>3 DEF Chain
<1>5. NoneDisappears'
    <2>1. \A e : (\E j \in DOMAIN queue : queue[j] = e) =>
                    \/ e = job'[1] 
                    \/ \E j \in DOMAIN queue' : queue'[j] = e
        <3> SUFFICES ASSUME NEW j \in DOMAIN queue
                     PROVE  \/ queue[j] = job'[1]
                            \/ \E k \in DOMAIN queue' : queue'[k] = queue[j]
            OBVIOUS
        <3>1. CASE j = 1
            BY <1>1, <1>2, <3>1
        <3>2. CASE j # 1
            <4>1. j - 1 \in DOMAIN queue' /\ queue'[j - 1] = queue[j]
                BY <1>2, <3>2
            <4> QED BY <4>1
        <3> QED BY <3>1, <3>2
    <2> QED BY <1>1, <2>1 DEF LoggerInv, NoneDisappears, Logger!NoneDisappears
<1> QED BY <1>1, <1>3, <1>4, <1>5 DEF LoggerInv, Logger!IsSubsequence

\* The insert, done or not.
LEMMA InsertKeeps ==
    ASSUME LoggerInv, Logger!Insert
    PROVE  LoggerInv'
<1>1. /\ worker = "inserting" /\ worker' = "publishing"
      /\ queue' = queue /\ job' = job /\ topic' = topic /\ logged' = logged
    BY DEF Logger!Insert
<1>2. /\ rows \in Seq(Requests) /\ queue \in Seq(Requests) /\ logged \in Seq(Requests)
      /\ job \in Seq(Requests) /\ Len(job) = 1 /\ job[1] \in Requests
      /\ job \o queue \in Seq(Requests)
    <2>1. /\ rows \in Seq(Requests) /\ queue \in Seq(Requests)
          /\ logged \in Seq(Requests) /\ job \in Seq(Requests) /\ Len(job) = 1
        BY <1>1 DEF LoggerInv, Logger!TypeOK
    <2>2. job[1] \in Requests
        BY <2>1, ElementOfSeq
    <2>3. job \o queue \in Seq(Requests)
        BY <2>1, ConcatProperties
    <2> QED BY <2>1, <2>2, <2>3
<1>3. Chain = rows \o (job \o queue) /\ Working' = <<>>
    BY <1>1 DEF Chain, Working
<1>4. <<>> \o queue = queue
    BY <1>2, ConcatEmptySeq
<1>5. CASE rows' = rows \o job /\ lost' = lost
    <2>1. /\ rows' \in Seq(Requests)
          /\ DOMAIN rows = 1 .. Len(rows) /\ DOMAIN rows' = 1 .. Len(rows) + 1
          /\ Len(rows) \in Nat
          /\ \A i \in 1 .. Len(rows) : rows'[i] = rows[i]
          /\ rows'[Len(rows) + 1] = job[1]
        <3>1. /\ rows \o job \in Seq(Requests) /\ Len(rows \o job) = Len(rows) + 1
              /\ \A i \in 1 .. Len(rows) + 1 :
                    (rows \o job)[i] = IF i <= Len(rows) THEN rows[i] ELSE job[i - Len(rows)]
            <4>1. rows \in Seq(Requests) /\ job \in Seq(Requests) /\ Len(job) = 1
                BY <1>2
            <4>2. /\ rows \o job \in Seq(Requests) /\ Len(rows \o job) = Len(rows) + Len(job)
                  /\ \A i \in 1 .. Len(rows) + Len(job) :
                        (rows \o job)[i] = IF i <= Len(rows) THEN rows[i] ELSE job[i - Len(rows)]
                BY <4>1, ConcatProperties
            <4> QED BY <4>1, <4>2
        <3>2. /\ DOMAIN rows = 1 .. Len(rows) /\ DOMAIN (rows \o job) = 1 .. Len(rows) + 1
              /\ Len(rows) \in Nat
            BY <1>2, <3>1, LenProperties
        <3> QED BY <1>5, <3>1, <3>2
    <2>2. (\A e : Inserted(e) => Inserted(e)') /\ Inserted(job[1])'
        <3>1. \A i \in DOMAIN rows : i \in DOMAIN rows' /\ rows'[i] = rows[i]
            BY <2>1
        <3>2. Len(rows) + 1 \in DOMAIN rows'
            BY <2>1
        <3>3. \A e : Inserted(e) => Inserted(e)'
            BY <3>1, Zenon DEF Inserted
        <3>4. \E i \in DOMAIN rows' : rows'[i] = job'[1]
            BY <1>1, <2>1, <3>2
        <3> QED BY <3>3, <3>4, Zenon DEF Inserted
    <2>3. Logger!TypeOK'
        BY <1>1, <1>2, <1>5, <2>1 DEF LoggerInv, Logger!TypeOK
    <2>4. Chain' = Chain
        <3>1. (rows \o job) \o queue = rows \o (job \o queue)
            <4>1. rows \in Seq(Requests) /\ job \in Seq(Requests) /\ queue \in Seq(Requests)
                BY <1>2
            <4> QED BY <4>1, ConcatAssociative
        <3> QED BY <1>1, <1>3, <1>4, <1>5, <3>1 DEF Chain
    <2>5. NoneDisappears'
        <3>1. \A e : (\E i \in DOMAIN rows : rows[i] = e)
                          => \E i \in DOMAIN rows' : rows'[i] = e
            BY <2>2 DEF Inserted
        <3>2. \E i \in DOMAIN rows' : rows'[i] = job[1]
            BY <1>1, <2>2 DEF Inserted
        <3>3. ASSUME NEW i \in DOMAIN logged
              PROVE  \/ \E j \in DOMAIN rows' : rows'[j] = logged[i]
                     \/ \E j \in DOMAIN queue : queue[j] = logged[i]
                     \/ logged[i] \in lost
            BY <1>1, <3>1, <3>2 DEF LoggerInv, NoneDisappears, Logger!NoneDisappears
        <3>4. ASSUME NEW e \in topic
              PROVE  (\E j \in DOMAIN rows' : rows'[j] = e) \/ e \in lost
            BY <3>1 DEF LoggerInv, NoneDisappears, Logger!NoneDisappears
        <3> QED
            BY <1>1, <1>5, <3>3, <3>4 DEF NoneDisappears, Logger!NoneDisappears
    <2> QED BY <1>1, <2>2, <2>3, <2>4, <2>5 DEF LoggerInv, Logger!IsSubsequence
<1>6. CASE rows' = rows /\ lost' = lost \cup {job[1]}
    <2>1. Logger!TypeOK'
        BY <1>1, <1>2, <1>6 DEF LoggerInv, Logger!TypeOK
    <2>2. Logger!IsSubsequence(rows \o queue, Chain)
        BY <1>2, <1>3, MiddleStruckOut
    <2>3. Chain \in Seq(Requests) /\ rows \o queue \in Seq(Requests)
        BY <1>2, ChainType, ConcatProperties DEF LoggerInv
    <2>4. Logger!IsSubsequence(rows \o queue, logged)
        BY <1>2, <2>2, <2>3, SubsequenceOf DEF LoggerInv
    <2>5. Chain' = rows \o queue
        BY <1>1, <1>3, <1>4, <1>6 DEF Chain
    <2>6. Logger!IsSubsequence(Chain, logged)'
        BY <1>1, <2>4, <2>5, Zenon DEF Logger!IsSubsequence
    <2>7. NoneDisappears'
        BY <1>1, <1>6 DEF LoggerInv, NoneDisappears, Logger!NoneDisappears
    <2> QED BY <1>1, <1>6, <2>1, <2>6, <2>7 DEF LoggerInv
<1> QED BY <1>5, <1>6 DEF Logger!Insert

\* The event is handed to the topic, and the worker is free.
LEMMA PublishKeeps ==
    ASSUME LoggerInv, Logger!Publish
    PROVE  LoggerInv'
<1>1. /\ worker = "publishing" /\ worker' = "waiting" /\ job' = <<>>
      /\ topic' = topic \cup {job[1]}
      /\ queue' = queue /\ rows' = rows /\ logged' = logged /\ lost' = lost
    BY DEF Logger!Publish
<1>2. job[1] \in Requests
    <2>1. job \in Seq(Requests) /\ Len(job) = 1
        BY <1>1 DEF LoggerInv, Logger!TypeOK
    <2> QED BY <2>1, ElementOfSeq
<1>3. Logger!TypeOK'
    BY <1>1, <1>2 DEF LoggerInv, Logger!TypeOK
<1>4. Chain' = Chain
    BY <1>1 DEF Chain, Working
<1>5. NoneDisappears'
    BY <1>1 DEF LoggerInv, NoneDisappears, Logger!NoneDisappears, Inserted
<1> QED BY <1>1, <1>3, <1>4, <1>5 DEF LoggerInv, Logger!IsSubsequence

\* The process ends: the chain is cut down to the rows.
LEMMA LoggerCrashKeeps ==
    ASSUME LoggerInv, Logger!Crash
    PROVE  LoggerInv'
<1>1. /\ queue' = <<>> /\ worker' = "waiting" /\ job' = <<>>
      /\ rows' = rows /\ topic' = topic /\ logged' = logged
      /\ lost' = lost \cup {queue[i] : i \in DOMAIN queue}
                      \cup (IF worker = "inserting" THEN {job[1]} ELSE {})
    BY DEF Logger!Crash
<1>2. rows \in Seq(Requests) /\ queue \in Seq(Requests)
    BY DEF LoggerInv, Logger!TypeOK
<1>3. lost' \subseteq Requests
    <2>1. \A i \in DOMAIN queue : queue[i] \in Requests
        BY <1>2, LenProperties, ElementOfSeq
    <2>2. worker = "inserting" => job[1] \in Requests
        BY DEF LoggerInv, Logger!TypeOK
    <2> QED BY <1>1, <2>1, <2>2 DEF LoggerInv, Logger!TypeOK
<1>4. Logger!TypeOK'
    BY <1>1, <1>3, QueueCapacityAssumption DEF LoggerInv, Logger!TypeOK
<1>5. Chain' = rows
    <2>1. rows \o <<>> = rows /\ <<>> \o <<>> = <<>>
        BY <1>2, ConcatEmptySeq
    <2> QED BY <1>1, <2>1 DEF Chain, Working
<1>6. Logger!IsSubsequence(Chain, logged)'
    BY <1>1, <1>5, LoggerOrdered, Zenon DEF InLogOrder, Logger!InLogOrder, Logger!IsSubsequence
<1>7. NoneDisappears'
    BY <1>1 DEF LoggerInv, NoneDisappears, Logger!NoneDisappears
<1> QED BY <1>1, <1>4, <1>6, <1>7 DEF LoggerInv

LEMMA LoggerUnmoved ==
    ASSUME LoggerInv, UNCHANGED logger
    PROVE  LoggerInv'
<1>1. Chain' = Chain
    BY DEF logger, Chain, Working
<1>2. Logger!TypeOK' /\ NoneDisappears'
    BY DEF LoggerInv, logger, Logger!TypeOK, NoneDisappears, Logger!NoneDisappears
<1> QED BY <1>1, <1>2 DEF LoggerInv, logger, Logger!IsSubsequence, Inserted

LEMMA LoggerStarts == ASSUME Logger!Init PROVE LoggerInv
<1>1. /\ queue = <<>> /\ worker = "waiting" /\ job = <<>> /\ rows = <<>>
      /\ topic = {} /\ logged = <<>> /\ lost = {}
    BY DEF Logger!Init
<1>2. Logger!TypeOK
    BY <1>1, QueueCapacityAssumption DEF Logger!TypeOK
<1>3. Chain = <<>>
    <2>1. <<>> \o <<>> = <<>>
        BY ConcatEmptySeq, EmptySeq
    <2> QED BY <1>1, <2>1 DEF Chain, Working
<1>4. Logger!IsSubsequence(Chain, logged)
    <2>1. <<>> \in Seq(Requests)
        BY EmptySeq
    <2> QED BY <1>1, <1>3, <2>1, SubsequenceOfItself
<1>5. NoneDisappears
    BY <1>1 DEF NoneDisappears, Logger!NoneDisappears
<1> QED BY <1>1, <1>2, <1>4, <1>5 DEF LoggerInv

LEMMA LoggerSteps == ASSUME LoggerInv, [Next]_vars PROVE LoggerInv'
<1>1. CASE Work
    BY <1>1, TakeKeeps, InsertKeeps, PublishKeeps DEF Work, Logger!Internal
<1>2. ASSUME NEW r \in Requests, Serve(r) PROVE LoggerInv'
    BY <1>2, LogKeeps, LoggerUnmoved DEF Serve
<1>3. CASE Crash
    BY <1>3, LoggerCrashKeeps DEF Crash
<1>4. CASE Limit \/ Tick \/ Answer \/ Look \/ UNCHANGED vars
    BY <1>4, LoggerUnmoved DEF Limit, Tick, Answer, Look, vars, logger
<1> QED BY <1>1, <1>2, <1>3, <1>4 DEF Next

----------------------------------------------------------------------------
(* The page. *)

\* What the panels show came together, and before the first answer there is
\* nothing to show.
PageInv ==
    /\ mounted \in BOOLEAN
    /\ timers = IF mounted THEN 1 ELSE 0
    /\ panels = Page!Nothing \/ \A e \in Endpoints : panels[e] # NotAsked
    /\ loading => panels = Page!Nothing
    /\ loading \/ error \/ panels # Page!Nothing

LEMMA PageStarts == ASSUME Page!Init PROVE PageInv
BY DEF Page!Init, PageInv

LEMMA PageUnmoved == ASSUME PageInv, UNCHANGED page PROVE PageInv'
BY DEF PageInv, page, Page!Nothing

LEMMA PageSteps == ASSUME PageInv, [Next]_vars PROVE PageInv'
<1> USE EndpointsAssumption
<1>1. CASE Tick
    BY <1>1 DEF Tick, Page!Tick, PageInv, Page!Nothing
<1>2. CASE Answer
    <2>1. ASSUME NEW round \in DOMAIN rounds, Page!Show(round) PROVE PageInv'
        BY <2>1 DEF Page!Show, PageInv, Page!Nothing
    <2>2. ASSUME NEW round \in DOMAIN rounds, NEW e \in Endpoints,
                 Page!Query(round, e, Len(rows))
          PROVE  PageInv'
        BY <2>2 DEF Page!Query, Page!Answered, PageInv, Page!Nothing
    <2> QED BY <1>2, <2>1, <2>2 DEF Answer
<1>3. CASE Look
    <2>1. CASE Page!Open
        <3>1. timers = 0
            BY <2>1 DEF Page!Open, PageInv
        <3>2. /\ mounted' \in BOOLEAN /\ mounted' /\ timers' = timers + 1
              /\ UNCHANGED <<panels, error, loading>>
            BY <2>1 DEF Page!Open
        <3> QED BY <3>1, <3>2 DEF PageInv, Page!Nothing
    <2>2. CASE Page!Leave
        <3>1. timers = 1
            BY <2>2 DEF Page!Leave, PageInv
        <3>2. /\ mounted' \in BOOLEAN /\ ~mounted' /\ timers' = timers - 1
              /\ panels' = Page!Nothing /\ loading'
            BY <2>2 DEF Page!Leave, Page!Forget
        <3> QED BY <3>1, <3>2 DEF PageInv, Page!Nothing
    <2>3. ASSUME NEW round \in DOMAIN rounds, Page!Fail(round) PROVE PageInv'
        BY <2>3 DEF Page!Fail, PageInv, Page!Nothing
    <2>4. ASSUME NEW round \in DOMAIN rounds, NEW e \in Endpoints,
                 Page!BreaksOff(round, e, Len(rows))
          PROVE  PageInv'
        BY <2>4 DEF Page!BreaksOff, PageInv, Page!Nothing
    <2> QED BY <1>3, <2>1, <2>2, <2>3, <2>4 DEF Look
<1>4. CASE Limit \/ Work \/ Crash \/ UNCHANGED vars \/ \E r \in Requests : Serve(r)
    BY <1>4, PageUnmoved DEF Limit, Work, Crash, Serve, vars, page
<1> QED BY <1>1, <1>2, <1>3, <1>4 DEF Next

LEMMA PageShows == ASSUME PageInv PROVE OneTimer /\ ShowsWhatItGot
BY EndpointsAssumption DEF PageInv, OneTimer, Page!OneTimer, ShowsWhatItGot,
   Page!ShowsWhatItGot, Page!Screen, Page!Nothing

\* A round less, and a round more.
LEMMA RoundEnds ==
    ASSUME Page!IsABag(rounds), DOMAIN rounds \subseteq Page!Answers, NEW round
    PROVE  /\ Page!IsABag(Page!Without(round))
           /\ DOMAIN Page!Without(round) \subseteq Page!Answers
BY DEF Page!Without, Page!IsABag, Page!SetToBag, Page!(-)

LEMMA RoundJoins ==
    ASSUME NEW bag, Page!IsABag(bag), DOMAIN bag \subseteq Page!Answers,
           NEW round \in Page!Answers
    PROVE  /\ Page!IsABag(Page!(+)(bag, Page!SetToBag({round})))
           /\ DOMAIN Page!(+)(bag, Page!SetToBag({round})) \subseteq Page!Answers
<1> DEFINE more == Page!(+)(bag, Page!SetToBag({round}))
<1>1. DOMAIN more = DOMAIN bag \cup {round}
    BY DEF Page!SetToBag, Page!(+)
<1>2. ASSUME NEW o \in DOMAIN more PROVE more[o] \in {n \in Nat : n > 0}
    BY <1>2 DEF Page!IsABag, Page!SetToBag, Page!(+)
<1>3. more = [o \in DOMAIN more |-> more[o]]
    BY DEF Page!(+)
<1> QED BY <1>1, <1>2, <1>3 DEF Page!IsABag

LEMMA NothingIsAnAnswer == Page!Nothing \in Page!Answers
BY DEF Page!Nothing, Page!Answers

LEMMA FetchTypes ==
    ASSUME Page!TypeOK, Page!FetchAll
    PROVE  Page!IsABag(rounds') /\ DOMAIN rounds' \subseteq Page!Answers
BY NothingIsAnAnswer, RoundJoins DEF Page!TypeOK, Page!FetchAll

LEMMA AnsweredTypes ==
    ASSUME Page!TypeOK, NEW round \in DOMAIN rounds, NEW e \in Endpoints,
           NEW n \in Nat, Page!Answered(round, e, n)
    PROVE  Page!IsABag(rounds') /\ DOMAIN rounds' \subseteq Page!Answers
<1>1. [round EXCEPT ![e] = n] \in Page!Answers
    BY DEF Page!TypeOK, Page!Answers
<1>2. /\ Page!IsABag(Page!Without(round))
      /\ DOMAIN Page!Without(round) \subseteq Page!Answers
    BY RoundEnds DEF Page!TypeOK
<1> QED BY <1>1, <1>2, RoundJoins DEF Page!Answered

LEMMA PageTypes ==
    ASSUME Page!TypeOK, PageInv, PageInv', LoggerInv, [Next]_vars
    PROVE  Page!TypeOK'
<1>1. timers' \in Nat /\ mounted' \in BOOLEAN
    BY DEF PageInv
<1>2. Len(rows) \in Nat
    BY LenProperties DEF LoggerInv, Logger!TypeOK
<1>3. CASE Tick
    BY <1>1, <1>3, FetchTypes DEF Tick, Page!Tick, Page!TypeOK
<1>4. CASE Answer
    <2>1. ASSUME NEW round \in DOMAIN rounds, Page!Show(round) PROVE Page!TypeOK'
        BY <1>1, <2>1, RoundEnds DEF Page!Show, Page!TypeOK
    <2>2. ASSUME NEW round \in DOMAIN rounds, NEW e \in Endpoints,
                 Page!Query(round, e, Len(rows))
          PROVE  Page!TypeOK'
        <3>1. Page!Found(e, Len(rows)) \in Nat
            BY <1>2 DEF Page!Found
        <3>2. /\ Page!Answered(round, e, Page!Found(e, Len(rows)))
              /\ UNCHANGED <<panels, error, loading, broken>>
            BY <2>2 DEF Page!Query
        <3>3. Page!IsABag(rounds') /\ DOMAIN rounds' \subseteq Page!Answers
            BY <2>2, <3>1, <3>2, AnsweredTypes
        <3> QED BY <1>1, <3>2, <3>3 DEF Page!TypeOK
    <2> QED BY <1>4, <2>1, <2>2 DEF Answer
<1>5. CASE Look
    <2>1. CASE Page!Open
        BY <1>1, <2>1, FetchTypes DEF Page!Open, Page!TypeOK
    <2>2. CASE Page!Leave
        <3>1. Page!IsABag(Page!EmptyBag) /\ DOMAIN Page!EmptyBag = {}
            BY DEF Page!EmptyBag, Page!SetToBag, Page!IsABag
        <3>2. /\ rounds' = Page!EmptyBag /\ panels' = Page!Nothing
              /\ error' \in BOOLEAN /\ loading' \in BOOLEAN
            BY <2>2 DEF Page!Leave, Page!Forget
        <3>3. broken' = broken
            BY <2>2 DEF Page!Leave
        <3> QED BY <1>1, <3>1, <3>2, <3>3, NothingIsAnAnswer DEF Page!TypeOK
    <2>3. ASSUME NEW round \in DOMAIN rounds, Page!Fail(round) PROVE Page!TypeOK'
        BY <1>1, <2>3, RoundEnds DEF Page!Fail, Page!TypeOK
    <2>4. ASSUME NEW round \in DOMAIN rounds, NEW e \in Endpoints,
                 Page!BreaksOff(round, e, Len(rows))
          PROVE  Page!TypeOK'
        <3>1. PICK n \in 0 .. Page!Found(e, Len(rows)) : Page!Answered(round, e, n)
            BY <2>4 DEF Page!BreaksOff
        <3>2. n \in Nat
            BY <3>1, <1>2 DEF Page!Found
        <3>3. Page!IsABag(rounds') /\ DOMAIN rounds' \subseteq Page!Answers
            BY <2>4, <3>1, <3>2, AnsweredTypes
        <3>4. UNCHANGED <<panels, error, loading>> /\ broken' \in 0 .. MaxBroken
            BY <2>4, BoundsAssumption DEF Page!BreaksOff, Page!TypeOK
        <3> QED BY <1>1, <3>3, <3>4 DEF Page!TypeOK
    <2> QED BY <1>5, <2>1, <2>2, <2>3, <2>4 DEF Look
<1>6. CASE Limit \/ Work \/ Crash \/ UNCHANGED vars \/ \E r \in Requests : Serve(r)
    BY <1>6 DEF Limit, Work, Crash, Serve, vars, page, Page!TypeOK, Page!IsABag
<1> QED BY <1>3, <1>4, <1>5, <1>6 DEF Next

LEMMA PageStartTypes == ASSUME Page!Init PROVE Page!TypeOK
<1>1. Page!IsABag(Page!EmptyBag) /\ DOMAIN Page!EmptyBag = {}
    BY DEF Page!EmptyBag, Page!SetToBag, Page!IsABag
<1>2. /\ mounted = FALSE /\ timers = 0 /\ panels = Page!Nothing
      /\ error = FALSE /\ loading = TRUE /\ rounds = Page!EmptyBag
    BY DEF Page!Init
<1>3. broken \in 0 .. MaxBroken
    BY BoundsAssumption DEF Page!Init
<1> QED BY <1>1, <1>2, <1>3, NothingIsAnAnswer DEF Page!TypeOK

LEMMA CrashesBounded ==
    ASSUME crashes \in 0 .. MaxCrashes, [Next]_vars
    PROVE  crashes' \in 0 .. MaxCrashes
BY BoundsAssumption DEF Next, Limit, Serve, Work, Crash, Tick, Answer, Look, vars

----------------------------------------------------------------------------
(* The theorems. *)

IInv ==
    /\ LimiterInv /\ LoggerInv /\ PageInv
    /\ Page!TypeOK
    /\ crashes \in 0 .. MaxCrashes

LEMMA Inductive == Spec => []IInv
<1>1. Init => IInv
    BY LimiterStarts, LoggerStarts, PageStarts, PageStartTypes, BoundsAssumption
       DEF Init, IInv
<1>2. IInv /\ [Next]_vars => IInv'
    BY LimiterSteps, LoggerSteps, PageSteps, PageTypes, CrashesBounded DEF IInv
<1> QED BY <1>1, <1>2, PTL DEF Spec

\* The types of the variables of the three components.
THEOREM TypeCorrect == Spec => []TypeOK
<1>1. IInv => TypeOK
    BY DEF IInv, LimiterInv, LoggerInv, TypeOK
<1> QED BY <1>1, Inductive, PTL

\* However the requests of a second interleave with each other, with failures of
\* Redis and with crashes, no more than the limit are let through.
THEOREM LimitKept == Spec => []LimitPerWindow
<1>1. IInv => LimitPerWindow
    BY DEF IInv, LimiterInv
<1> QED BY <1>1, Inductive, PTL

\* A counter without an expiry is always on the way to get one, unless a call to
\* Redis or the gateway failed at the wrong moment.
THEOREM ShutOutByFaultOnly == Spec => []ShutOutOnlyByFault
<1>1. IInv => ShutOutOnlyByFault
    BY DEF IInv, LimiterInv
<1> QED BY <1>1, Inductive, PTL

\* request_logs has logged events only, each at most as often as it was logged, in
\* the order of Log, whatever was dropped, failed or lost in a crash.
THEOREM RowsInLogOrder == Spec => []InLogOrder
<1>1. IInv => InLogOrder
    BY LoggerOrdered DEF IInv
<1> QED BY <1>1, Inductive, PTL

\* Every logged event is in the table, on its way there or lost in one of the
\* ways the code has, and an event of the topic is on no way any more.
THEOREM EventsAccountedFor == Spec => []NoneDisappears
<1>1. IInv => NoneDisappears
    BY DEF IInv, LoggerInv
<1> QED BY <1>1, Inductive, PTL

\* An open page has one timer and a closed one none.
THEOREM TimersCorrect == Spec => []OneTimer
<1>1. IInv => OneTimer
    BY PageShows DEF IInv
<1> QED BY <1>1, Inductive, PTL

\* A page shows the spinner, the error or panels that came from the gateway, and
\* names an update only with all its panels there.
THEOREM ScreenCorrect == Spec => []ShowsWhatItGot
<1>1. IInv => ShowsWhatItGot
    BY PageShows DEF IInv
<1> QED BY <1>1, Inductive, PTL

\* The panels change together, to what one round found, or to nothing when the
\* page is left.
THEOREM PanelsTogether == Spec => PanelsOfOneRound
<1>1. [Next]_vars =>
        [panels' # panels =>
            \/ panels' = Page!Nothing
            \/ /\ panels' \in Page!BagToSet(rounds)
               /\ \A e \in Endpoints : panels'[e] # NotAsked]_panels
    <2> SUFFICES ASSUME [Next]_vars, panels' # panels
                 PROVE  \/ panels' = Page!Nothing
                        \/ /\ panels' \in DOMAIN rounds
                           /\ \A e \in Endpoints : panels'[e] # NotAsked
        BY DEF Page!BagToSet
    <2>1. CASE Answer
        BY <2>1 DEF Answer, Page!Query, Page!Show
    <2>2. CASE Look
        BY <2>2 DEF Look, Page!Open, Page!Leave, Page!Forget, Page!Fail, Page!BreaksOff
    <2>3. CASE \/ Limit \/ Work \/ Crash \/ Tick \/ UNCHANGED vars
               \/ \E r \in Requests : Serve(r)
        BY <2>3 DEF Limit, Work, Crash, Tick, Page!Tick, Serve, vars, page
    <2> QED BY <2>1, <2>2, <2>3 DEF Next
<1> QED BY <1>1, PTL DEF Spec, PanelsOfOneRound, Page!PanelsOfOneRound
=============================================================================
