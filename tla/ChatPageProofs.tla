---------------------------- MODULE ChatPageProofs ----------------------------
(***************************************************************************)
(* Proofs about the chat page: what a page shows and stores is what its    *)
(* streams told, for any number of pages, conversations, prompts and       *)
(* events, and whether or not localStorage can fail.                       *)
(***************************************************************************)
EXTENDS ChatPage, FilterProofs

-----------------------------------------------------------------------------
(* The inductive invariant. *)

\* The values of the state, by type.
Role   == {"user", "assistant"}
Texts  == [Events -> Seq(Nat \X Nat)]
Said   == [role : Role, send : Nat, text : Texts]
Title  == {NewChatTitle} \cup (Role \X Nat)
Convo  == [id : Nat, title : Title, messages : Seq(Said)]
Shown  == [role : Role, send : Nat, id : Nat, text : Texts, meta : BOOLEAN,
           error : BOOLEAN, loading : BOOLEAN, streaming : BOOLEAN]
Stream == [page : Pages, session : Nat, log : Seq(Events),
           state : {"open", "refused", "finished", "stopped"}]

\* All that stream s has told.
TextOf(s) == [kind \in Events |-> Streamed(s, kind)]

\* Stream s told its final event.
Finished(s) == streams[s].state = "finished"

\* The types.
PageTypes ==
    /\ ids \in 0 .. MaxIds
    /\ streams \in Seq(Stream) /\ Len(streams) <= MaxSends
    /\ store \in Seq(Convo) /\ Len(store) <= MaxConvos
    /\ mount \in [Pages -> {"unborn", "mounted", "gone"}]
    /\ list \in [Pages -> Seq(Nat)]
    /\ active \in [Pages -> Nat]
    /\ view \in [Pages -> Seq(Shown)]
    /\ sending \in [Pages -> BOOLEAN]
    /\ session \in [Pages -> Nat]
    /\ current \in [Pages -> Nat]
    /\ acc \in [Pages -> Texts]

\* A live stream is the latest one of its page, and fills its session.
StreamsInv ==
    /\ Told <= MaxEvents
    /\ \A s \in 1 .. Len(streams) :
          /\ streams[s].session \in 1 .. ids
          /\ Live(s) => /\ current[streams[s].page] = s
                        /\ session[streams[s].page] = streams[s].session

\* A message of conversation c is of a stream of that session.
SaidInv(m, id) ==
    /\ m.send \in 1 .. Len(streams)
    /\ streams[m.send].session = id
    /\ m.role = "assistant" => Finished(m.send) /\ m.text = TextOf(m.send)

\* A conversation holds its answers once and, unless setItem may fail, each after
\* its prompt.
ConvoInv(c) ==
    /\ c.id \in 1 .. ids
    /\ \A j \in 1 .. Len(c.messages) : SaidInv(c.messages[j], c.id)
    /\ \A j, k \in 1 .. Len(c.messages) :
          /\ c.messages[j].role = "assistant" /\ c.messages[k].role = "assistant"
          /\ c.messages[j].send = c.messages[k].send
          => j = k
    /\ ~QuotaFails =>
          \A j \in 1 .. Len(c.messages) :
             c.messages[j].role = "user" /\ Finished(c.messages[j].send) =>
                \E k \in 1 .. Len(c.messages) :
                   /\ k > j /\ c.messages[k].role = "assistant"
                   /\ c.messages[k].send = c.messages[j].send

\* The store holds such conversations, with different ids.
StoreInv ==
    /\ \A i \in 1 .. Len(store) : ConvoInv(store[i])
    /\ \A i, j \in 1 .. Len(store) : store[i].id = store[j].id => i = j

\* The bubble shows its dots.
Thinks(m) == m.loading /\ m.text["content"] = <<>>

\* A bubble of page p is either one that a send of the page has put there, or
\* the answer of a finished stream.
BubbleInv(m, p) ==
    /\ m.text = TextOf(m.send)
    /\ m.id \in {0, m.send}
    /\ m.id = 0 => Finished(m.send)
    /\ m.id # 0 => streams[m.send].page = p
    /\ m.meta => Finished(m.send)
    /\ m.error => ~m.loading /\ ~m.streaming /\ ~Live(m.send)
    /\ Thinks(m) \/ m.streaming \/ m.error \/ m.meta
    /\ Live(m.send) => Thinks(m) \/ m.streaming

\* A message on page p is of a stream of the page's session.
ShownInv(m, p) ==
    /\ m.send \in 1 .. Len(streams)
    /\ streams[m.send].session = session[p]
    /\ m.role = "user" => m.id = 0
    /\ m.role = "assistant" => BubbleInv(m, p)

\* The refs of page p are of one stream of the page, and hold all it has told.
RefsInv(p) ==
    /\ current[p] \in 0 .. Len(streams) /\ session[p] \in 0 .. ids
    /\ IF current[p] = 0 THEN acc[p] = NoText
       ELSE streams[current[p]].page = p /\ acc[p] = TextOf(current[p])

\* A mounted page says it is sending exactly while its latest stream is live.
MountedInv(p) ==
    /\ session[p] # 0
    /\ \A i \in 1 .. Len(view[p]) : ShownInv(view[p][i], p)
    /\ sending[p] <=> current[p] # 0 /\ Live(current[p])
    /\ sending[p] => view[p] # <<>> /\ view[p][Len(view[p])].id = current[p]

\* The sidebar lists different conversations, and marks the session's.
ListInv(p) ==
    /\ \A i \in 1 .. Len(list[p]) : list[p][i] \in 1 .. ids
    /\ \A i, j \in 1 .. Len(list[p]) : list[p][i] = list[p][j] => i = j
    /\ active[p] = 0 => view[p] = <<>>
    /\ active[p] # 0 => /\ active[p] = session[p]
                        /\ ~QuotaFails =>
                              \E i \in 1 .. Len(list[p]) : list[p][i] = active[p]

\* Page p is as it should be.
PageInv(p) ==
    /\ RefsInv(p)
    /\ Mounted(p) => MountedInv(p) /\ ListInv(p)
    /\ ~Mounted(p) => view[p] = <<>> /\ ~sending[p] /\ active[p] = 0

PagesInv == \A p \in Pages : PageInv(p)

\* The inductive invariant.
CInv == PageTypes /\ StreamsInv /\ StoreInv /\ PagesInv

-----------------------------------------------------------------------------
(* What a stream has told. *)

\* The events of one kind of stream s, all of them numbered below its end.
LEMMA StreamedFacts ==
    ASSUME NEW s \in Nat, NEW kind, streams[s].log \in Seq(Events)
    PROVE  Streamed(s, kind) \in Seq({s} \X (1 .. Len(streams[s].log)))
<1> DEFINE log == streams[s].log
           q == [i \in DOMAIN log |-> <<s, i>>]
           K == {i \in DOMAIN log : log[i] = kind}
           S == {s} \X (1 .. Len(log))
<1>1. Len(log) \in Nat /\ DOMAIN log = 1 .. Len(log)
    BY LenProperties
<1>2. q \in Seq(S)
    <2> HIDE DEF log
    <2>1. \A i \in 1 .. Len(log) : <<s, i>> \in S
        OBVIOUS
    <2>2. q \in [1 .. Len(log) -> S]
        BY <1>1, <2>1
    <2> HIDE DEF q, S
    <2> QED
        BY <1>1, <2>2, SeqDef
<1> HIDE DEF S, K, q
<1>3. Kept(q, K) \in Seq(S)
    BY <1>2, KeptSublist
<1> QED
    BY <1>3 DEF Streamed, q, K, S

\* All that a stream has told is a text.
LEMMA TextFacts ==
    ASSUME NEW s \in Nat, streams[s].log \in Seq(Events)
    PROVE  TextOf(s) \in Texts
<1>1. ASSUME NEW kind \in Events PROVE Streamed(s, kind) \in Seq(Nat \X Nat)
    <2>1. Streamed(s, kind) \in Seq({s} \X (1 .. Len(streams[s].log)))
        BY StreamedFacts
    <2>2. {s} \X (1 .. Len(streams[s].log)) \subseteq Nat \X Nat
        BY LenProperties
    <2> QED
        BY <2>1, <2>2, SeqMonotonic
<1> QED
    BY <1>1 DEF TextOf, Texts

\* A stream that has told nothing yet.
LEMMA NothingTold ==
    ASSUME NEW s, streams'[s].log = <<>>
    PROVE  TextOf(s)' = NoText
<1> DEFINE q == [i \in DOMAIN streams'[s].log |-> <<s, i>>]
<1>1. q = <<>>
    <2>1. DOMAIN <<>> = {} /\ <<>> = [i \in {} |-> <<s, i>>]
        BY Z3
    <2> QED
        BY <2>1
<1>2. ASSUME NEW K PROVE Kept(q, K) = <<>>
    <2>1. <<>> \in Seq(Nat) /\ \A n \in 1 .. Len(<<>>) : n \in K
        OBVIOUS
    <2>2. Kept(<<>>, K) = <<>>
        BY <2>1, KeptAll
    <2> QED
        BY <1>1, <2>2
<1> HIDE DEF q
<1>3. \A kind \in Events : Streamed(s, kind)' = <<>>
    BY <1>2 DEF Streamed, q
<1> QED
    BY <1>3 DEF TextOf, NoText

\* A stream that tells nothing more keeps its text.
LEMMA SameText ==
    ASSUME NEW s, streams'[s].log = streams[s].log
    PROVE  TextOf(s)' = TextOf(s)
BY DEF TextOf, Streamed

\* One more event is told.
LEMMA OneMoreTold ==
    ASSUME NEW s \in Nat, streams[s].log \in Seq(Events), NEW kind \in Events,
           streams'[s].log = Append(streams[s].log, kind)
    PROVE  TextOf(s)' = [TextOf(s) EXCEPT ![kind] =
                            Append(@, <<s, Len(streams[s].log) + 1>>)]
<1> DEFINE log == streams[s].log
           n   == Len(log)
           new == Append(log, kind)
           x   == <<s, n + 1>>
           q   == [i \in DOMAIN log |-> <<s, i>>]
           r   == [i \in DOMAIN new |-> <<s, i>>]
           S   == {s} \X Nat
<1>1. /\ n \in Nat /\ DOMAIN log = 1 .. n /\ new \in Seq(Events)
      /\ Len(new) = n + 1 /\ DOMAIN new = 1 .. n + 1
      /\ new[n + 1] = kind /\ \A i \in 1 .. n : new[i] = log[i]
    BY LenProperties, AppendProperties
<1> HIDE DEF log, n, new
<1>2. q \in Seq(S) /\ Len(q) = n /\ \A i \in 1 .. n : q[i] = <<s, i>>
    <2>1. q = [i \in 1 .. n |-> <<s, i>>] /\ \A i \in 1 .. n : <<s, i>> \in S
        BY <1>1
    <2>2. q \in [1 .. n -> S]
        BY <2>1
    <2> HIDE DEF S
    <2>3. q \in Seq(S)
        BY <1>1, <2>2, SeqDef
    <2>4. Len(q) = n
        BY <1>1, <2>1, <2>3, LenProperties
    <2> QED
        BY <2>1, <2>3, <2>4
<1>3. r = Append(q, x)
    <2>1. r = [i \in 1 .. n + 1 |-> <<s, i>>] /\ \A i \in 1 .. n + 1 : <<s, i>> \in S
        BY <1>1
    <2>2. r \in [1 .. n + 1 -> S] /\ x \in S
        BY <1>1, <2>1
    <2> HIDE DEF S, q, x
    <2>3. n + 1 \in Nat
        BY <1>1
    <2>4. r \in Seq(S)
        BY <2>2, <2>3, SeqDef
    <2>5. Len(r) = n + 1
        BY <2>1, <2>3, <2>4, LenProperties
    <2>6. /\ Append(q, x) \in Seq(S) /\ Len(Append(q, x)) = n + 1
          /\ Append(q, x)[n + 1] = x /\ \A i \in 1 .. n : Append(q, x)[i] = q[i]
        BY <1>2, <2>2, AppendProperties
    <2>7. ASSUME NEW i \in 1 .. n + 1 PROVE r[i] = Append(q, x)[i]
        <3>1. i = n + 1 \/ i \in 1 .. n
            BY <1>1
        <3>2. r[i] = <<s, i>>
            BY <2>1
        <3> QED
            BY <1>2, <2>6, <3>1, <3>2 DEF x
    <2> QED
        BY <2>4, <2>5, <2>6, <2>7, SeqEqual
<1>4. x \in S
    BY <1>1
<1>5. ASSUME NEW other
      PROVE  Streamed(s, other)' =
                 IF other = kind THEN Append(Streamed(s, other), x) ELSE Streamed(s, other)
    <2> DEFINE K == {i \in DOMAIN log : log[i] = other}
               L == {i \in DOMAIN new : new[i] = other}
    <2>1. \A i \in 1 .. n : i \in K <=> i \in L
        BY <1>1
    <2>2. n + 1 \in L <=> other = kind
        BY <1>1
    <2>3. Streamed(s, other) = Kept(q, K)
        BY DEF Streamed, log
    <2>4. Streamed(s, other)' = Kept(r, L)
        BY DEF Streamed, new, log
    <2> HIDE DEF K, L, q, r, x, S
    <2>5. Kept(Append(q, x), L) =
             IF Len(q) + 1 \in L THEN Append(Kept(q, K), x) ELSE Kept(q, K)
        BY <1>2, <1>4, <2>1, KeptAppend
    <2> QED
        BY <1>2, <1>3, <2>2, <2>3, <2>4, <2>5
<1> HIDE DEF x
<1> QED
    BY <1>5 DEF TextOf, x, n, log

-----------------------------------------------------------------------------
(* How much has been told. *)

\* Told, for any sequence of streams.
ToldBy(q) ==
    LET told[n \in 0 .. Len(q)] == IF n = 0 THEN 0 ELSE told[n - 1] + Len(q[n].log)
    IN  told[Len(q)]

\* t[n] is what the first n streams have told.
Sums(t, q, N) ==
    /\ t[0] = 0
    /\ \A n \in 1 .. N : t[n] = t[n - 1] + Len(q[n].log)

\* How much a stream has told is a number.
LEMMA LogLengths ==
    ASSUME NEW q \in Seq(Stream)
    PROVE  Len(q) \in Nat /\ \A n \in 1 .. Len(q) : Len(q[n].log) \in Nat
<1> SUFFICES ASSUME NEW n \in 1 .. Len(q) PROVE Len(q[n].log) \in Nat
    BY LenProperties
<1>1. q[n] \in Stream
    BY ElementOfSeq
<1> QED
    BY <1>1, LenProperties DEF Stream

\* The sums exist, and are numbers.
LEMMA SumsExist ==
    ASSUME NEW q \in Seq(Stream)
    PROVE  \E t \in [0 .. Len(q) -> Nat] : Sums(t, q, Len(q))
<1> DEFINE N == Len(q)
           T == {n \in 0 .. N : \E t \in [0 .. n -> Nat] : Sums(t, q, n)}
<1>0. N \in Nat /\ \A n \in 1 .. N : Len(q[n].log) \in Nat
    BY LogLengths
<1> HIDE DEF N
<1>1. 0 \in T
    <2> DEFINE t == [n \in 0 .. 0 |-> 0]
    <2>1. t \in [0 .. 0 -> Nat] /\ Sums(t, q, 0)
        BY DEF Sums
    <2> QED
        BY <1>0, <2>1
<1>2. ASSUME NEW n \in 0 .. N, n # N, n \in T PROVE n + 1 \in T
    <2>1. PICK t \in [0 .. n -> Nat] : Sums(t, q, n)
        BY <1>2
    <2>2. n \in Nat /\ n + 1 \in 1 .. N /\ n + 1 \in 0 .. N
        BY <1>0, <1>2
    <2> DEFINE z == t[n] + Len(q[n + 1].log)
               u == [m \in 0 .. n + 1 |-> IF m = n + 1 THEN z ELSE t[m]]
    <2>3. z \in Nat
        BY <1>0, <2>2
    <2> HIDE DEF z
    <2>4. u \in [0 .. n + 1 -> Nat]
        <3>1. ASSUME NEW m \in 0 .. n + 1, m # n + 1 PROVE t[m] \in Nat
            BY <2>2, <3>1
        <3> QED
            BY <2>3, <3>1
    <2>5. u[n + 1] = z /\ \A m \in 0 .. n : u[m] = t[m]
        BY <2>2
    <2> HIDE DEF u
    <2>6. u[0] = 0
        BY <2>1, <2>2, <2>5 DEF Sums
    <2>7. ASSUME NEW m \in 1 .. n + 1 PROVE u[m] = u[m - 1] + Len(q[m].log)
        <3>1. CASE m = n + 1
            <4>1. m - 1 = n /\ u[n] = t[n]
                BY <2>2, <2>5, <3>1
            <4> QED
                BY <2>5, <3>1, <4>1 DEF z
        <3>2. CASE m # n + 1
            <4>1. m \in 1 .. n /\ m \in 0 .. n /\ m - 1 \in 0 .. n
                BY <2>2, <3>2
            <4>2. u[m] = t[m] /\ u[m - 1] = t[m - 1]
                BY <2>5, <4>1
            <4>3. t[m] = t[m - 1] + Len(q[m].log)
                BY <2>1, <4>1 DEF Sums
            <4> QED
                BY <4>2, <4>3
        <3> QED
            BY <3>1, <3>2
    <2>8. Sums(u, q, n + 1)
        BY <2>6, <2>7 DEF Sums
    <2> QED
        BY <2>2, <2>4, <2>8
<1> HIDE DEF T
<1>3. \A n \in 0 .. N : n \in T
    BY <1>0, <1>1, <1>2, UpTo
<1> QED
    BY <1>0, <1>3 DEF N, T

\* Told is the last of the sums.
LEMMA ToldSums ==
    ASSUME NEW q \in Seq(Stream)
    PROVE  \E t : Sums(t, q, Len(q)) /\ ToldBy(q) = t[Len(q)]
<1> DEFINE Body(t) == [n \in 0 .. Len(q) |->
                         IF n = 0 THEN 0 ELSE t[n - 1] + Len(q[n].log)]
           k == CHOOSE t : t = Body(t)
<1>0. Len(q) \in Nat
    BY LogLengths
<1>1. PICK t \in [0 .. Len(q) -> Nat] : Sums(t, q, Len(q))
    BY SumsExist
<1>2. ASSUME NEW n \in 0 .. Len(q)
      PROVE  t[n] = IF n = 0 THEN 0 ELSE t[n - 1] + Len(q[n].log)
    <2>1. CASE n = 0
        BY <1>1, <2>1 DEF Sums
    <2>2. CASE n # 0
        <3>1. n \in 1 .. Len(q)
            BY <1>0, <2>2
        <3> QED
            BY <1>1, <2>2, <3>1 DEF Sums
    <2> QED
        BY <2>1, <2>2
<1>3. t = Body(t)
    BY <1>2
<1>4. k = Body(k)
    BY <1>3
<1>5. ToldBy(q) = k[Len(q)]
    BY DEF ToldBy
<1> HIDE DEF k
<1>6. ASSUME NEW n \in 0 .. Len(q)
      PROVE  k[n] = IF n = 0 THEN 0 ELSE k[n - 1] + Len(q[n].log)
    BY <1>4
<1>7. k[0] = 0
    BY <1>0, <1>6
<1>8. ASSUME NEW n \in 1 .. Len(q) PROVE k[n] = k[n - 1] + Len(q[n].log)
    <2>1. n \in 0 .. Len(q) /\ n # 0
        BY <1>0
    <2> QED
        BY <1>6, <2>1
<1> QED
    BY <1>5, <1>7, <1>8 DEF Sums

\* Of the first N streams, s has told d more in r than in q.
MoreTold(q, r, N, s, d) ==
    \A n \in 1 .. N :
        Len(r[n].log) = IF n = s THEN Len(q[n].log) + d ELSE Len(q[n].log)

SumDiffers(t, u, n, q, s, d) ==
    /\ t[n] \in Nat
    /\ u[n] = IF s \in 1 .. n THEN t[n] + d ELSE t[n]
    /\ s \in 1 .. n => Len(q[s].log) <= t[n]

\* The sums of two sequences that differ at most at s, where the second one has
\* told d more.
LEMMA SumsMore ==
    ASSUME NEW q \in Seq(Stream), NEW r \in Seq(Stream), NEW N \in 0 .. Len(q),
           N <= Len(r), NEW t, Sums(t, q, N), NEW u, Sums(u, r, N),
           NEW s \in Nat, NEW d \in Nat, MoreTold(q, r, N, s, d)
    PROVE  \A n \in 0 .. N : SumDiffers(t, u, n, q, s, d)
<1> DEFINE T == {n \in 0 .. N : /\ t[n] \in Nat
                                /\ u[n] = IF s \in 1 .. n THEN t[n] + d ELSE t[n]
                                /\ s \in 1 .. n => Len(q[s].log) <= t[n]}
<1>0. N \in Nat /\ \A n \in 1 .. N : Len(q[n].log) \in Nat /\ n \in 1 .. Len(q)
    BY LogLengths
<1>1. 0 \in T
    BY <1>0 DEF Sums
<1>2. ASSUME NEW n \in 0 .. N, n # N, n \in T PROVE n + 1 \in T
    <2>1. /\ n \in Nat /\ n + 1 \in 1 .. N /\ n + 1 \in 0 .. N /\ (n + 1) - 1 = n
          /\ t[n] \in Nat /\ u[n] = IF s \in 1 .. n THEN t[n] + d ELSE t[n]
          /\ s \in 1 .. n => Len(q[s].log) <= t[n]
        BY <1>0, <1>2
    <2> DEFINE a == Len(q[n + 1].log)
               b == Len(r[n + 1].log)
    <2>2. t[n + 1] = t[n] + a /\ u[n + 1] = u[n] + b
        BY <2>1 DEF Sums
    <2>3. a \in Nat /\ b = IF n + 1 = s THEN a + d ELSE a
        BY <1>0, <2>1 DEF MoreTold
    <2>4. s = n + 1 => Len(q[s].log) = a
        OBVIOUS
    <2> HIDE DEF a, b
    <2>5. s \in 1 .. n + 1 <=> s \in 1 .. n \/ s = n + 1
        BY <2>1
    <2>6. t[n + 1] \in Nat
        BY <2>1, <2>2, <2>3
    <2>7. s \in 1 .. n + 1 => Len(q[s].log) <= t[n + 1]
        <3>1. CASE s \in 1 .. n
            <4>1. Len(q[s].log) \in Nat /\ Len(q[s].log) <= t[n]
                BY <1>0, <2>1, <3>1
            <4>2. a \in Nat /\ t[n + 1] = t[n] + a
                BY <2>2, <2>3
            <4>3. \A l \in Nat : l <= t[n] => l <= t[n] + a
                BY <2>1, <4>2
            <4> QED
                BY <4>1, <4>2, <4>3
        <3>2. CASE s = n + 1
            BY <2>1, <2>2, <2>3, <2>4, <3>2
        <3> QED
            BY <2>5, <3>1, <3>2
    <2>8. u[n + 1] = IF s \in 1 .. n + 1 THEN t[n + 1] + d ELSE t[n + 1]
        <3>1. CASE s = n + 1
            BY <2>1, <2>2, <2>3, <3>1
        <3>2. CASE s # n + 1
            BY <2>1, <2>2, <2>3, <2>5, <3>2
        <3> QED
            BY <3>1, <3>2
    <2> QED
        BY <2>1, <2>6, <2>7, <2>8
<1> HIDE DEF T
<1>3. \A n \in 0 .. N : n \in T
    BY <1>0, <1>1, <1>2, UpTo
<1> QED
    BY <1>3 DEF T, SumDiffers

\* Stream s has told d events more.
LEMMA ToldMore ==
    ASSUME NEW q \in Seq(Stream), NEW r \in Seq(Stream), Len(r) = Len(q),
           NEW s \in Nat, NEW d \in Nat,
           MoreTold(q, r, Len(q), s, d)
    PROVE  /\ ToldBy(q) \in Nat
           /\ ToldBy(r) = IF s \in 1 .. Len(q) THEN ToldBy(q) + d ELSE ToldBy(q)
           /\ s \in 1 .. Len(q) => Len(q[s].log) <= ToldBy(q)
<1>1. PICK t : Sums(t, q, Len(q)) /\ ToldBy(q) = t[Len(q)]
    BY ToldSums
<1>2. PICK u : Sums(u, r, Len(q)) /\ ToldBy(r) = u[Len(q)]
    BY ToldSums
<1> DEFINE N == Len(q)
<1>3. N \in 0 .. Len(q) /\ N <= Len(r) /\ N \in 0 .. N
    BY LogLengths
<1>4. MoreTold(q, r, N, s, d)
    OBVIOUS
<1> HIDE DEF N
<1>5. Sums(t, q, N) /\ Sums(u, r, N)
    BY <1>1, <1>2 DEF N
<1>6. SumDiffers(t, u, N, q, s, d)
    BY <1>3, <1>4, <1>5, SumsMore
<1> QED
    BY <1>1, <1>2, <1>6 DEF N, SumDiffers

\* A stream is opened.
LEMMA ToldOfNew ==
    ASSUME NEW q \in Seq(Stream), NEW x \in Stream, x.log = <<>>
    PROVE  ToldBy(Append(q, x)) = ToldBy(q)
<1> DEFINE r == Append(q, x)
           N == Len(q)
<1>1. PICK t : Sums(t, q, N) /\ ToldBy(q) = t[N]
    BY ToldSums
<1>2. /\ r \in Seq(Stream) /\ N \in Nat /\ Len(r) = N + 1 /\ r[N + 1] = x
      /\ \A n \in 1 .. N : r[n] = q[n]
    BY AppendProperties, LogLengths
<1> HIDE DEF r
<1>3. PICK u : Sums(u, r, N + 1) /\ ToldBy(r) = u[N + 1]
    BY <1>2, ToldSums
<1>4. Sums(u, r, N)
    BY <1>2, <1>3 DEF Sums
<1>5. MoreTold(q, r, N, 0, 0)
    BY <1>2 DEF MoreTold
<1>6. N \in 0 .. Len(q) /\ N <= Len(r) /\ N \in 0 .. N
    BY <1>2
<1> HIDE DEF N
<1>7. SumDiffers(t, u, N, q, 0, 0)
    BY <1>1, <1>2, <1>4, <1>5, <1>6, SumsMore
<1>8. u[N + 1] = u[N] + Len(x.log)
    BY <1>2, <1>3 DEF Sums
<1>9. Len(x.log) = 0
    BY EmptySeq
<1> QED
    BY <1>1, <1>2, <1>3, <1>7, <1>8, <1>9 DEF N, r, SumDiffers

\* Told, before and after a step, in these terms.
LEMMA ToldIs == Told = ToldBy(streams) /\ Told' = ToldBy(streams')
BY DEF Told, ToldBy

-----------------------------------------------------------------------------
(* The store. *)

\* The conversation loaded is one of the store, with the id asked for.
LEMMA LoadFacts ==
    ASSUME PageTypes, NEW id, Found(id) # {}
    PROVE  \E i \in 1 .. Len(store) : store[i].id = id /\ LoadConversation(id) = store[i]
<1>1. Len(store) \in Nat /\ DOMAIN store = 1 .. Len(store)
    BY LenProperties DEF PageTypes
<1>2. Found(id) \subseteq Nat
    BY <1>1 DEF Found
<1>3. \E i \in Found(id) : \A j \in Found(id) : i <= j
    BY <1>2, Least
<1> DEFINE k == CHOOSE i \in Found(id) : \A j \in Found(id) : i <= j
<1>4. k \in Found(id) /\ LoadConversation(id) = store[k]
    BY <1>3 DEF LoadConversation
<1> HIDE DEF k
<1> QED
    BY <1>1, <1>4 DEF Found

\* No two conversations of k have one id, nor has any of them the id given.
Distinct(k, id) ==
    /\ \A i \in 1 .. Len(k) : k[i].id # id
    /\ \A i, j \in 1 .. Len(k) : k[i].id = k[j].id => i = j

\* The conversations of k are in the store.
InStore(k) == \A i \in 1 .. Len(k) : \E n \in 1 .. Len(store) : k[i] = store[n]

\* What is left of the store without conversation id.
LEMMA WithoutFacts ==
    ASSUME PageTypes, StoreInv, NEW id
    PROVE  /\ Without(id) \in Seq(Convo)
           /\ Distinct(Without(id), id) /\ InStore(Without(id))
<1> DEFINE K == (DOMAIN store) \ Found(id)
           k == Without(id)
<1>1. /\ store \in Seq(Convo) /\ Len(store) \in Nat
      /\ DOMAIN store = 1 .. Len(store)
    BY LenProperties DEF PageTypes
<1>2. k \in Seq(Convo) /\ Sublist(k, store, K)
    <2>1. k = Kept(store, K)
        BY DEF Without
    <2> HIDE DEF k, K
    <2> QED
        BY <1>1, <2>1, KeptSublist
<1>3. PICK e :
        /\ \A i \in 1 .. Len(k) : e[i] \in (1 .. Len(store)) \cap K /\ k[i] = store[e[i]]
        /\ \A i, j \in 1 .. Len(k) : i < j => e[i] < e[j]
    BY <1>2 DEF Sublist
<1>4. \A n \in K : n \in 1 .. Len(store) /\ store[n].id # id
    BY <1>1 DEF Found
<1> HIDE DEF k, K
<1>5. InStore(k) /\ \A i \in 1 .. Len(k) : k[i].id # id
    BY <1>3, <1>4 DEF InStore
<1>6. ASSUME NEW i \in 1 .. Len(k), NEW j \in 1 .. Len(k), k[i].id = k[j].id
      PROVE  i = j
    <2>1. e[i] \in 1 .. Len(store) /\ e[j] \in 1 .. Len(store)
          /\ store[e[i]].id = store[e[j]].id
        BY <1>3, <1>6
    <2>2. e[i] = e[j]
        BY <2>1 DEF StoreInv
    <2>3. e[i] \in Nat /\ ~(i < j) /\ ~(j < i)
        BY <1>1, <1>3, <2>1, <2>2
    <2>4. i \in Nat /\ j \in Nat
        BY <1>2, LenProperties
    <2> QED
        BY <2>3, <2>4
<1> QED
    BY <1>2, <1>5, <1>6 DEF Distinct, k

\* An id no conversation has.
LEMMA NotFound ==
    ASSUME PageTypes, StoreInv, NEW id, Found(id) = {}
    PROVE  /\ store \in Seq(Convo) /\ Distinct(store, id) /\ InStore(store)
           /\ Without(id) = store
<1>1. /\ store \in Seq(Convo) /\ Len(store) \in Nat
      /\ DOMAIN store = 1 .. Len(store)
    BY LenProperties DEF PageTypes
<1>2. \A i \in 1 .. Len(store) : store[i].id # id
    BY <1>1 DEF Found
<1>3. Distinct(store, id) /\ InStore(store)
    BY <1>2 DEF Distinct, StoreInv, InStore
<1>4. Kept(store, DOMAIN store) = store
    BY <1>1, KeptAll
<1>5. (DOMAIN store) \ Found(id) = DOMAIN store
    OBVIOUS
<1>6. Without(id) = store
    BY <1>4, <1>5 DEF Without
<1> QED
    BY <1>1, <1>3, <1>6

\* The store is c and as many conversations of rest as there is room for.
TopSaved(c, rest) ==
    /\ store' \in Seq(Convo) /\ Len(store') \in 1 .. MaxConvos
    /\ store'[1] = c
    /\ Len(store') <= Len(rest) + 1
    /\ \A i \in 1 .. Len(store') : i # 1 => store'[i] = rest[i - 1]
    /\ Len(store') # Len(rest) + 1 => Len(store') = MaxConvos

\* Save puts c on top and drops what there is no room for, or fails.
LEMMA SaveFacts ==
    ASSUME NEW c \in Convo, NEW rest \in Seq(Convo), Save(<<c>> \o rest)
    PROVE  TopSaved(c, rest) \/ (QuotaFails /\ UNCHANGED store)
<1> DEFINE new == <<c>> \o rest
           n == IF Len(new) < MaxConvos THEN Len(new) ELSE MaxConvos
<1>1. CASE QuotaFails /\ store' = store
    BY <1>1
<1>2. CASE store' = SubSeq(new, 1, n)
    <2>1. <<c>> \in Seq(Convo) /\ Len(<<c>>) = 1 /\ <<c>>[1] = c
        OBVIOUS
    <2>2. /\ Len(rest) \in Nat /\ new \in Seq(Convo) /\ Len(new) = 1 + Len(rest)
          /\ \A i \in 1 .. 1 + Len(rest) :
                new[i] = IF i <= 1 THEN <<c>>[i] ELSE rest[i - 1]
        BY <2>1, ConcatProperties
    <2>3. /\ MaxConvos \in Nat \ {0} /\ n \in 1 .. MaxConvos /\ n <= Len(rest) + 1
          /\ n # Len(rest) + 1 => n = MaxConvos
        BY <2>2, MaxConvosAssumption
    <2> HIDE DEF new, n
    <2>4. \A i \in 1 .. n : new[i] \in Convo
        <3>1. \A i \in 1 .. n : i \in 1 .. Len(new)
            BY <2>2, <2>3
        <3> QED
            BY <2>2, <3>1, ElementOfSeq
    <2>5. /\ store' \in Seq(Convo) /\ Len(store') = n
          /\ \A i \in 1 .. n : store'[i] = new[i]
        <3>1. n \in Int /\ 1 <= n /\ n - 1 + 1 = n /\ \A i \in 1 .. n : 1 + i - 1 = i
            BY <2>3
        <3> QED
            BY <1>2, <2>4, <3>1, SubSeqProperties
    <2>6. ASSUME NEW i \in 1 .. n PROVE new[i] = IF i = 1 THEN c ELSE rest[i - 1]
        BY <2>1, <2>2, <2>3
    <2>7. 1 \in 1 .. n
        BY <2>3
    <2> QED
        BY <2>3, <2>5, <2>6, <2>7 DEF TopSaved
<1> QED
    BY <1>1, <1>2 DEF Save

\* What AppendMessage makes of the store.
Appended(id, m, c, rest) ==
    /\ c \in Convo /\ c.id = id
    /\ rest = Without(id) /\ rest \in Seq(Convo)
    /\ Distinct(rest, id) /\ InStore(rest)
    /\ \/ Found(id) = {} /\ c.messages = <<m>>
       \/ \E i \in 1 .. Len(store) :
             /\ store[i].id = id /\ LoadConversation(id) = store[i]
             /\ c.messages = Append(store[i].messages, m)
             /\ store[i].title # NewChatTitle => c.title = store[i].title

\* AppendMessage makes this of the store.
LEMMA AppendSaves ==
    ASSUME PageTypes, StoreInv, NEW id \in Nat, NEW m \in Said, AppendMessage(id, m)
    PROVE  \E c, rest : /\ Appended(id, m, c, rest)
                        /\ TopSaved(c, rest) \/ (QuotaFails /\ UNCHANGED store)
<1>0. MkTitle(m) \in Title
    BY DEF MkTitle, Title, Said, Role
<1>1. CASE Found(id) = {}
    <2> DEFINE u == <<m>>
               y == MkTitle(m)
               c == [id |-> id, title |-> y, messages |-> u]
    <2>1. u \in Seq(Said)
        OBVIOUS
    <2>2. Save(<<c>> \o store)
        BY <1>1 DEF AppendMessage
    <2> HIDE DEF u, y
    <2>3. c \in Convo /\ c.id = id /\ c.messages = u
        BY <1>0, <2>1 DEF Convo, y
    <2> HIDE DEF c
    <2>4. /\ store \in Seq(Convo) /\ Distinct(store, id) /\ InStore(store)
          /\ Without(id) = store
        BY <1>1, NotFound
    <2>5. TopSaved(c, store) \/ (QuotaFails /\ UNCHANGED store)
        BY <2>2, <2>3, <2>4, SaveFacts
    <2>6. Appended(id, m, c, store)
        BY <1>1, <2>3, <2>4 DEF Appended, u
    <2> QED
        BY <2>5, <2>6
<1>2. CASE Found(id) # {}
    <2>1. PICK i \in 1 .. Len(store) : store[i].id = id /\ LoadConversation(id) = store[i]
        BY <1>2, LoadFacts
    <2> DEFINE d == store[i]
               u == Append(d.messages, m)
               y == IF d.title = NewChatTitle /\ m.role = "user" THEN MkTitle(m) ELSE d.title
               c == [d EXCEPT !.messages = u, !.title = y]
    <2>2. d \in Convo
        BY ElementOfSeq DEF PageTypes
    <2>3. u \in Seq(Said) /\ y \in Title /\ (d.title # NewChatTitle => y = d.title)
        BY <1>0, <2>2 DEF Convo
    <2>4. Save(<<c>> \o Without(id))
        BY <1>2, <2>1 DEF AppendMessage
    <2> HIDE DEF u, y, d
    <2>5. c \in Convo /\ c.id = d.id /\ c.messages = u /\ c.title = y
        BY <2>2, <2>3 DEF Convo
    <2> HIDE DEF c
    <2>6. /\ Without(id) \in Seq(Convo) /\ Distinct(Without(id), id)
          /\ InStore(Without(id))
        BY WithoutFacts
    <2>7. TopSaved(c, Without(id)) \/ (QuotaFails /\ UNCHANGED store)
        BY <2>4, <2>5, <2>6, SaveFacts
    <2>8. Appended(id, m, c, Without(id))
        BY <2>1, <2>3, <2>5, <2>6 DEF Appended, u, d
    <2> QED
        BY <2>7, <2>8
<1> QED
    BY <1>1, <1>2

\* What CreateConversation makes of it.
LEMMA CreateSaves ==
    ASSUME PageTypes, StoreInv, NEW id \in Nat, Found(id) = {}, CreateConversation(id)
    PROVE  \E c \in Convo : /\ c.id = id /\ c.messages = <<>>
                            /\ TopSaved(c, store) \/ (QuotaFails /\ UNCHANGED store)
<1> DEFINE u == <<>>
           y == NewChatTitle
           c == [id |-> id, title |-> y, messages |-> u]
<1>1. u \in Seq(Said) /\ y \in Title
    BY EmptySeq DEF Title
<1>2. Save(<<c>> \o store)
    BY DEF CreateConversation
<1> HIDE DEF u, y
<1>3. c \in Convo /\ c.id = id /\ c.messages = u
    BY <1>1 DEF Convo
<1> HIDE DEF c
<1>4. store \in Seq(Convo)
    BY DEF PageTypes
<1>5. TopSaved(c, store) \/ (QuotaFails /\ UNCHANGED store)
    BY <1>2, <1>3, <1>4, SaveFacts
<1> QED
    BY <1>3, <1>5 DEF u

-----------------------------------------------------------------------------
(* What a step leaves as it was. *)

\* Streams only go on: what a finished one has told is settled.
Onward ==
    /\ ids <= ids'
    /\ \A t \in 1 .. Len(streams) :
          /\ t \in 1 .. Len(streams')
          /\ streams'[t].page = streams[t].page
          /\ streams'[t].session = streams[t].session
          /\ Finished(t) => Finished(t)' /\ streams'[t].log = streams[t].log
          /\ Live(t)' => Live(t)

\* A stored message stays as it should be.
LEMMA SaidStays ==
    ASSUME Onward, NEW m, NEW id, SaidInv(m, id)
    PROVE  SaidInv(m, id)'
<1>1. /\ m.send \in 1 .. Len(streams) /\ streams[m.send].session = id
      /\ m.role = "assistant" => Finished(m.send) /\ m.text = TextOf(m.send)
    BY DEF SaidInv
<1>2. m.role = "assistant" => TextOf(m.send)' = TextOf(m.send)
    BY <1>1, SameText DEF Onward
<1> QED
    BY <1>1, <1>2 DEF Onward, SaidInv

\* A conversation stays as it should be unless a stream of its session finishes.
LEMMA ConvoStays ==
    ASSUME PageTypes, Onward, ids' \in Nat, NEW x, ConvoInv(x),
           \A t \in 1 .. Len(streams) :
              streams[t].session = x.id /\ Finished(t)' => Finished(t)
    PROVE  ConvoInv(x)'
<1>1. ids \in Nat /\ ids <= ids'
    BY BoundsAssumption DEF PageTypes, Onward
<1>2. x.id \in 1 .. ids'
    BY <1>1 DEF ConvoInv
<1>3. ASSUME NEW j \in 1 .. Len(x.messages) PROVE SaidInv(x.messages[j], x.id)'
    BY SaidStays DEF ConvoInv
<1>4. ASSUME ~QuotaFails, NEW j \in 1 .. Len(x.messages),
             x.messages[j].role = "user", Finished(x.messages[j].send)'
      PROVE  Finished(x.messages[j].send)
    <2>1. /\ x.messages[j].send \in 1 .. Len(streams)
          /\ streams[x.messages[j].send].session = x.id
        BY DEF ConvoInv, SaidInv
    <2> QED
        BY <1>4, <2>1
<1>5. ASSUME ~QuotaFails, NEW j \in 1 .. Len(x.messages),
             x.messages[j].role = "user", Finished(x.messages[j].send)'
      PROVE  \E k \in 1 .. Len(x.messages) :
                /\ k > j /\ x.messages[k].role = "assistant"
                /\ x.messages[k].send = x.messages[j].send
    BY <1>4, <1>5 DEF ConvoInv
<1>6. \A j, k \in 1 .. Len(x.messages) :
          /\ x.messages[j].role = "assistant" /\ x.messages[k].role = "assistant"
          /\ x.messages[j].send = x.messages[k].send
          => j = k
    BY DEF ConvoInv
<1> QED
    BY <1>2, <1>3, <1>5, <1>6 DEF ConvoInv

\* The other conversations stay as they should be, and the top one is.
Settled(id) == \A x : ConvoInv(x) /\ x.id # id => ConvoInv(x)'

\* The store is as it should be once such a conversation is put on top.
LEMMA StoreKept ==
    ASSUME PageTypes, StoreInv, NEW c, NEW rest, TopSaved(c, rest), InStore(rest),
           Distinct(rest, c.id), ConvoInv(c)', Settled(c.id), Len(rest) \in Nat
    PROVE  StoreInv'
<1> DEFINE n == Len(store')
<1>1. /\ n \in Nat /\ store'[1] = c /\ n <= Len(rest) + 1
      /\ \A i \in 1 .. n : i # 1 => store'[i] = rest[i - 1]
    BY MaxConvosAssumption DEF TopSaved
<1> HIDE DEF n
<1>2. ASSUME NEW i \in 1 .. n, i # 1
      PROVE  i - 1 \in 1 .. Len(rest) /\ store'[i] = rest[i - 1]
    BY <1>1, <1>2
<1>3. ASSUME NEW i \in 1 .. Len(rest) PROVE ConvoInv(rest[i])'
    <2>1. PICK j \in 1 .. Len(store) : rest[i] = store[j]
        BY DEF InStore
    <2>2. ConvoInv(rest[i])
        BY <2>1 DEF StoreInv
    <2>3. rest[i].id # c.id
        BY DEF Distinct
    <2> QED
        BY <2>2, <2>3 DEF Settled
<1>4. ASSUME NEW i \in 1 .. n PROVE ConvoInv(store[i])'
    <2> DEFINE y == IF i = 1 THEN c ELSE rest[i - 1]
    <2>1. store'[i] = y
        BY <1>1, <1>2
    <2>2. ConvoInv(y)'
        BY <1>2, <1>3
    <2> HIDE DEF y
    <2> QED
        BY <2>1, <2>2 DEF ConvoInv, SaidInv
<1>5. ASSUME NEW i \in 1 .. n, NEW j \in 1 .. n, store'[i].id = store'[j].id
      PROVE  i = j
    <2>1. CASE i = 1 /\ j = 1
        BY <2>1
    <2>2. CASE i = 1 /\ j # 1
        BY <1>1, <1>2, <1>5, <2>2 DEF Distinct
    <2>3. CASE i # 1 /\ j = 1
        BY <1>1, <1>2, <1>5, <2>3 DEF Distinct
    <2>4. CASE i # 1 /\ j # 1
        <3>1. i - 1 = j - 1
            BY <1>2, <1>5, <2>4 DEF Distinct
        <3> QED
            BY <1>1, <3>1
    <2> QED
        BY <2>1, <2>2, <2>3, <2>4
<1> QED
    BY <1>4, <1>5 DEF StoreInv, n

\* A store that is left alone stays as it should be.
LEMMA StoreSame ==
    ASSUME StoreInv, UNCHANGED store, \A x : ConvoInv(x) => ConvoInv(x)'
    PROVE  StoreInv'
<1> SUFFICES ASSUME NEW i \in 1 .. Len(store) PROVE ConvoInv(store[i])'
    BY DEF StoreInv
<1> DEFINE y == store[i]
<1>1. ConvoInv(y)
    BY DEF StoreInv
<1>2. PICK z : z = y
    OBVIOUS
<1>3. ConvoInv(z)'
    BY <1>1, <1>2
<1>4. store'[i] = z
    BY <1>2
<1> QED
    BY <1>3, <1>4 DEF ConvoInv, SaidInv

\* What the sidebar lists once the page has read the store again.
LEMMA EntriesFacts ==
    ASSUME StoreInv', store' \in Seq(Convo)
    PROVE  /\ Entries(store') \in Seq(Nat) /\ Len(Entries(store')) = Len(store')
           /\ \A i \in 1 .. Len(store') : /\ Entries(store')[i] = store'[i].id
                                          /\ Entries(store')[i] \in 1 .. ids'
           /\ \A i, j \in 1 .. Len(store') :
                 Entries(store')[i] = Entries(store')[j] => i = j
<1> DEFINE n == Len(store')
           k == Entries(store')
<1>1. n \in Nat /\ DOMAIN store' = 1 .. n
    BY LenProperties
<1>2. \A i \in 1 .. n : store'[i] \in Convo
    BY ElementOfSeq
<1>3. k = [i \in 1 .. n |-> store'[i].id]
    BY <1>1 DEF Entries
<1>4. k \in [1 .. n -> Nat]
    BY <1>2, <1>3 DEF Convo
<1> HIDE DEF n
<1>5. k \in Seq(Nat)
    BY <1>1, <1>4, SeqDef
<1>6. Len(k) = n
    <2> HIDE DEF k
    <2> QED
        BY <1>1, <1>3, <1>5, LenProperties
<1>7. \A i \in 1 .. n : k[i] = store'[i].id
    BY <1>3
<1> HIDE DEF k
<1>8. \A i \in 1 .. n : store'[i].id \in 1 .. ids'
    BY DEF StoreInv, ConvoInv, n
<1>9. \A i, j \in 1 .. n : store'[i].id = store'[j].id => i = j
    BY DEF StoreInv, n
<1> QED
    BY <1>5, <1>6, <1>7, <1>8, <1>9 DEF n, k

\* A message on a page stays as it should be while its stream tells nothing.
LEMMA ShownStays ==
    ASSUME Onward, NEW p, session'[p] = session[p], NEW m, ShownInv(m, p),
           m.role = "assistant" => streams'[m.send].log = streams[m.send].log
    PROVE  ShownInv(m, p)'
<1>1. m.send \in 1 .. Len(streams) /\ streams[m.send].session = session[p]
    BY DEF ShownInv
<1>2. CASE m.role = "assistant"
    <2>1. TextOf(m.send)' = TextOf(m.send)
        BY <1>2, SameText
    <2>2. BubbleInv(m, p)'
        BY <1>1, <1>2, <2>1 DEF ShownInv, BubbleInv, Onward
    <2> QED
        BY <1>1, <1>2, <2>2 DEF ShownInv, Onward
<1>3. CASE m.role # "assistant"
    BY <1>1, <1>3 DEF ShownInv, Onward
<1> QED
    BY <1>2, <1>3

\* A step of page p: of the streams it moves its own only.
Moves(p) ==
    /\ \A t \in 1 .. Len(streams) : streams[t].page # p => streams'[t] = streams[t]
    /\ \A q \in Pages : q # p =>
          /\ mount'[q] = mount[q] /\ list'[q] = list[q] /\ active'[q] = active[q]
          /\ view'[q] = view[q] /\ sending'[q] = sending[q]
          /\ session'[q] = session[q] /\ current'[q] = current[q] /\ acc'[q] = acc[q]

\* The pages a step is not of stay as they should be.
LEMMA OtherPages ==
    ASSUME CInv, Onward, ids' \in Nat, streams' \in Seq(Stream), NEW p \in Pages, Moves(p),
           NEW q \in Pages, q # p
    PROVE  PageInv(q)'
<1>0. /\ mount'[q] = mount[q] /\ list'[q] = list[q] /\ active'[q] = active[q]
      /\ view'[q] = view[q] /\ sending'[q] = sending[q]
      /\ session'[q] = session[q] /\ current'[q] = current[q] /\ acc'[q] = acc[q]
    BY DEF Moves
<1>1. PageInv(q) /\ ids \in Nat /\ ids <= ids' /\ Len(streams) \in Nat
    BY BoundsAssumption, LenProperties DEF CInv, PagesInv, PageTypes, Onward
<1>2. /\ Len(streams') \in Nat
      /\ \A t \in 1 .. Len(streams) : t \in 1 .. Len(streams')
    BY LenProperties DEF Onward
<1>3. /\ current[q] \in 0 .. Len(streams) /\ session[q] \in 0 .. ids
      /\ current[q] = 0 => acc[q] = NoText
      /\ current[q] # 0 => streams[current[q]].page = q /\ acc[q] = TextOf(current[q])
    BY <1>1 DEF PageInv, RefsInv
<1>4. ASSUME current[q] # 0
      PROVE  /\ current[q] \in 1 .. Len(streams)
             /\ streams'[current[q]] = streams[current[q]]
             /\ TextOf(current[q])' = TextOf(current[q])
    <2>1. current[q] \in 1 .. Len(streams) /\ streams[current[q]].page # p
        BY <1>1, <1>3, <1>4
    <2>2. streams'[current[q]] = streams[current[q]]
        BY <2>1 DEF Moves
    <2>3. TextOf(current[q])' = TextOf(current[q])
        BY <1>0, <2>2 DEF TextOf, Streamed
    <2> QED
        BY <2>1, <2>2, <2>3
<1>5. RefsInv(q)'
    <2>1. current[q] \in 0 .. Len(streams') /\ session[q] \in 0 .. ids'
        BY <1>1, <1>2, <1>3
    <2> QED
        BY <1>0, <1>3, <1>4, <2>1 DEF RefsInv
<1>6. ASSUME Mounted(q) PROVE MountedInv(q)'
    <2>1. MountedInv(q)
        BY <1>1, <1>6 DEF PageInv
    <2>2. ASSUME NEW i \in 1 .. Len(view[q]) PROVE ShownInv(view[q][i], q)'
        <3>1. PICK m : m = view[q][i]
            OBVIOUS
        <3>2. ShownInv(m, q)
            BY <2>1, <3>1 DEF MountedInv
        <3>3. ASSUME m.role = "assistant"
              PROVE  streams'[m.send].log = streams[m.send].log
            <4>1. /\ m.send \in 1 .. Len(streams)
                  /\ m.id = 0 => Finished(m.send)
                  /\ m.id # 0 => streams[m.send].page = q
                BY <3>2, <3>3 DEF ShownInv, BubbleInv
            <4> QED
                BY <4>1 DEF Onward, Moves
        <3>4. ShownInv(m, q)'
            BY <1>0, <3>2, <3>3, ShownStays
        <3> QED
            BY <1>0, <3>1, <3>4 DEF ShownInv, BubbleInv
    <2>3. current[q] # 0 => (Live(current[q])' <=> Live(current[q]))
        BY <1>0, <1>4 DEF Live
    <2> QED
        BY <1>0, <2>1, <2>2, <2>3 DEF MountedInv
<1>7. ASSUME Mounted(q) PROVE ListInv(q)'
    <2>1. ListInv(q)
        BY <1>1, <1>7 DEF PageInv
    <2>2. \A i \in 1 .. Len(list[q]) : list[q][i] \in 1 .. ids'
        BY <1>1, <2>1 DEF ListInv
    <2> QED
        BY <1>0, <2>1, <2>2 DEF ListInv
<1> QED
    BY <1>0, <1>1, <1>5, <1>6, <1>7 DEF PageInv, Mounted

-----------------------------------------------------------------------------
(* What a step starts from, and what it comes to. *)

\* What the invariant says of one page.
LEMMA PageHere ==
    ASSUME CInv, NEW p \in Pages
    PROVE  /\ PageTypes /\ PageInv(p) /\ StreamsInv /\ StoreInv
           /\ ids \in Nat /\ Len(streams) \in Nat /\ DOMAIN streams = 1 .. Len(streams)
           /\ list[p] \in Seq(Nat) /\ active[p] \in Nat /\ view[p] \in Seq(Shown)
           /\ session[p] \in Nat /\ current[p] \in Nat /\ acc[p] \in Texts
           /\ Len(view[p]) \in Nat /\ DOMAIN (view[p]) = 1 .. Len(view[p])
           /\ Len(list[p]) \in Nat /\ DOMAIN (list[p]) = 1 .. Len(list[p])
BY BoundsAssumption, LenProperties DEF CInv, PagesInv, PageTypes

\* What the invariant says of one stream.
LEMMA StreamHere ==
    ASSUME CInv, NEW s \in 1 .. Len(streams)
    PROVE  /\ streams[s] \in Stream /\ streams[s].page \in Pages /\ s \in Nat \ {0}
           /\ streams[s].log \in Seq(Events) /\ streams[s].session \in 1 .. ids
           /\ Live(s) => /\ current[streams[s].page] = s
                         /\ session[streams[s].page] = streams[s].session
<1>1. streams[s] \in Stream
    BY ElementOfSeq DEF CInv, PageTypes
<1>2. Len(streams) \in Nat
    BY LenProperties DEF CInv, PageTypes
<1> QED
    BY <1>1, <1>2 DEF Stream, CInv, StreamsInv

\* A step of page p that only moves states of its live streams.
StatesMove(p) ==
    /\ streams' \in Seq(Stream) /\ Len(streams') = Len(streams)
    /\ \A t \in 1 .. Len(streams) :
          \/ streams'[t] = streams[t]
          \/ /\ Live(t) /\ streams[t].page = p /\ streams'[t].page = p
             /\ streams'[t].session = streams[t].session
             /\ streams'[t].log = streams[t].log

\* Such a step tells nothing and brings no stream back to life.
LEMMA StatesMoveFacts ==
    ASSUME CInv, NEW p \in Pages, StatesMove(p), ids <= ids'
    PROVE  /\ Onward /\ Told' <= MaxEvents
           /\ \A t \in 1 .. Len(streams) :
                 /\ streams'[t].log = streams[t].log
                 /\ streams[t].page # p => streams'[t] = streams[t]
<1>1. \A t \in 1 .. Len(streams) :
          /\ streams'[t].log = streams[t].log
          /\ streams[t].page # p => streams'[t] = streams[t]
    BY DEF StatesMove
<1>2. Onward
    <2> SUFFICES ASSUME NEW t \in 1 .. Len(streams)
                 PROVE  /\ t \in 1 .. Len(streams')
                        /\ streams'[t].page = streams[t].page
                        /\ streams'[t].session = streams[t].session
                        /\ Finished(t) => Finished(t)' /\ streams'[t].log = streams[t].log
                        /\ Live(t)' => Live(t)
        BY DEF Onward
    <2>1. t \in 1 .. Len(streams')
        BY DEF StatesMove
    <2>2. CASE streams'[t] = streams[t]
        BY <2>1, <2>2 DEF Live, Finished
    <2>3. CASE /\ Live(t) /\ streams[t].page = p /\ streams'[t].page = p
               /\ streams'[t].session = streams[t].session
               /\ streams'[t].log = streams[t].log
        BY <2>1, <2>3 DEF Live, Finished
    <2> QED
        BY <2>2, <2>3 DEF StatesMove
<1>3. Told' = Told
    <2>1. streams \in Seq(Stream) /\ streams' \in Seq(Stream)
          /\ Len(streams') = Len(streams)
        BY DEF CInv, PageTypes, StatesMove
    <2>2. MoreTold(streams, streams', Len(streams), 0, 0)
        BY <1>1 DEF MoreTold
    <2>3. ToldBy(streams') = ToldBy(streams)
        BY <2>1, <2>2, ToldMore
    <2> QED
        BY <2>3, ToldIs
<1>4. Told' <= MaxEvents
    BY <1>3 DEF CInv, StreamsInv
<1> QED
    BY <1>1, <1>2, <1>4

\* The streams in A come to state h.
ComeTo(A, h) ==
    /\ streams' = [t \in 1 .. Len(streams) |-> streams'[t]]
    /\ \A t \in 1 .. Len(streams) :
          streams'[t] = IF t \in A THEN [streams[t] EXCEPT !.state = h] ELSE streams[t]

\* Live streams of one page come to another state.
LEMMA SomeStreamsMove ==
    ASSUME CInv, NEW p \in Pages, NEW h \in {"open", "refused", "finished", "stopped"},
           NEW A, \A t \in 1 .. Len(streams) : t \in A => Live(t) /\ streams[t].page = p,
           ComeTo(A, h)
    PROVE  /\ StatesMove(p)
           /\ \A t \in 1 .. Len(streams) :
                 streams'[t].state = IF t \in A THEN h ELSE streams[t].state
<1> DEFINE n == Len(streams)
<1>1. n \in Nat /\ \A t \in 1 .. n : streams[t] \in Stream
    BY LenProperties, StreamHere DEF CInv, PageTypes
<1> HIDE DEF n
<1>2. /\ streams' = [t \in 1 .. n |-> streams'[t]]
      /\ \A t \in 1 .. n : streams'[t] =
            IF t \in A THEN [streams[t] EXCEPT !.state = h] ELSE streams[t]
    BY DEF n, ComeTo
<1>3. ASSUME NEW t \in 1 .. n
      PROVE  /\ streams'[t] \in Stream /\ streams'[t].page = streams[t].page
             /\ streams'[t].session = streams[t].session
             /\ streams'[t].log = streams[t].log
             /\ streams'[t].state = IF t \in A THEN h ELSE streams[t].state
             /\ t \notin A => streams'[t] = streams[t]
    <2>1. streams'[t] = IF t \in A THEN [streams[t] EXCEPT !.state = h] ELSE streams[t]
        BY <1>2
    <2> QED
        BY <1>1, <2>1 DEF Stream
<1>4. streams' \in [1 .. n -> Stream]
    BY <1>2, <1>3
<1>5. streams' \in Seq(Stream)
    BY <1>1, <1>4, SeqDef
<1>6. Len(streams') = n
    BY <1>1, <1>2, <1>5, LenProperties
<1>7. \A t \in 1 .. n : t \in A => Live(t) /\ streams[t].page = p
    BY DEF n
<1> QED
    BY <1>3, <1>5, <1>6, <1>7 DEF n, StatesMove

\* The page's only live stream is cancelled.
LEMMA AbortMoves ==
    ASSUME CInv, NEW p \in Pages, Abort(p)
    PROVE  /\ StatesMove(p)
           /\ \A t \in 1 .. Len(streams) :
                 /\ streams[t].page = p => ~Live(t)'
                 /\ Finished(t)' => Finished(t)
<1> DEFINE A == {t \in 1 .. Len(streams) : t = current[p] /\ Live(t)}
<1>1. /\ DOMAIN streams = 1 .. Len(streams)
      /\ current[p] # 0 => streams[current[p]].page = p
    BY PageHere DEF PageInv, RefsInv
<1>2. \A t \in 1 .. Len(streams) :
          /\ t # 0 /\ streams[t] \in Stream
          /\ Live(t) /\ streams[t].page = p => t = current[p]
    BY StreamHere
<1>3. \A t \in 1 .. Len(streams) : t \in A => Live(t) /\ streams[t].page = p
    BY <1>1, <1>2
<1>4. ComeTo(A, "stopped")
    <2>1. streams' = [t \in DOMAIN streams |->
              IF t # current[p] \/ ~Live(t) THEN streams[t]
              ELSE [streams[t] EXCEPT !.state = "stopped"]]
        BY DEF Abort
    <2>2. \A t \in 1 .. Len(streams) : t \in A <=> ~(t # current[p] \/ ~Live(t))
        OBVIOUS
    <2> HIDE DEF A
    <2> QED
        BY <1>1, <2>1, <2>2 DEF ComeTo
<1>5. /\ StatesMove(p)
      /\ \A t \in 1 .. Len(streams) :
            streams'[t].state = IF t \in A THEN "stopped" ELSE streams[t].state
    <2> HIDE DEF A
    <2> QED
        BY <1>3, <1>4, SomeStreamsMove
<1>6. ASSUME NEW t \in 1 .. Len(streams)
      PROVE  /\ streams[t].page = p => ~Live(t)'
             /\ Finished(t)' => Finished(t)
    BY <1>2, <1>5 DEF Live, Finished
<1> QED
    BY <1>5, <1>6

\* One live stream comes to another state.
LEMMA EndMoves ==
    ASSUME CInv, NEW s \in 1 .. Len(streams), Live(s), NEW p, p = streams[s].page,
           NEW h \in {"open", "refused", "finished", "stopped"}, EndStream(s, h)
    PROVE  /\ StatesMove(p)
           /\ streams'[s].state = h
           /\ \A t \in 1 .. Len(streams) : t # s => streams'[t] = streams[t]
<1> DEFINE A == {s}
<1>1. DOMAIN streams = 1 .. Len(streams) /\ p \in Pages
    BY StreamHere, PageHere
<1>2. \A t \in 1 .. Len(streams) : t \in A => Live(t) /\ streams[t].page = p
    OBVIOUS
<1>3. ComeTo(A, h)
    BY <1>1 DEF EndStream, ComeTo
<1>4. \A t \in 1 .. Len(streams) : t # s => streams'[t] = streams[t]
    BY <1>3 DEF ComeTo
<1>5. /\ StatesMove(p)
      /\ \A t \in 1 .. Len(streams) :
            streams'[t].state = IF t \in A THEN h ELSE streams[t].state
    <2> HIDE DEF A
    <2> QED
        BY <1>1, <1>2, <1>3, SomeStreamsMove
<1> QED
    BY <1>4, <1>5

\* The streams are as they should be if those still live are the page's latest.
LEMMA StreamsKept ==
    ASSUME CInv, NEW p \in Pages, StatesMove(p), Moves(p), ids <= ids', ids' \in Nat,
           \A t \in 1 .. Len(streams) : streams[t].page = p /\ Live(t)' =>
              current'[p] = t /\ session'[p] = streams[t].session
    PROVE  StreamsInv'
<1>1. /\ Onward /\ Told' <= MaxEvents /\ Len(streams') = Len(streams)
      /\ \A t \in 1 .. Len(streams) : streams[t].page # p => streams'[t] = streams[t]
    BY StatesMoveFacts DEF StatesMove
<1>2. ASSUME NEW s \in 1 .. Len(streams)
      PROVE  /\ streams'[s].session \in 1 .. ids'
             /\ Live(s)' => /\ current'[streams'[s].page] = s
                            /\ session'[streams'[s].page] = streams'[s].session
    <2>1. /\ streams[s].page \in Pages /\ streams[s].session \in 1 .. ids
          /\ Live(s) => /\ current[streams[s].page] = s
                        /\ session[streams[s].page] = streams[s].session
          /\ streams'[s].page = streams[s].page
          /\ streams'[s].session = streams[s].session
          /\ Live(s)' => Live(s)
        BY <1>1, StreamHere DEF Onward
    <2>2. streams'[s].session \in 1 .. ids'
        BY <2>1, PageHere
    <2>3. CASE streams[s].page = p
        BY <2>1, <2>2, <2>3
    <2>4. CASE streams[s].page # p
        BY <2>1, <2>2, <2>4 DEF Moves
    <2> QED
        BY <2>3, <2>4
<1> QED
    BY <1>1, <1>2 DEF StreamsInv

\* The invariant, from what a step of page p has to show.
LEMMA Joined ==
    ASSUME CInv, Onward, ids' \in Nat, NEW p \in Pages, Moves(p),
           PageTypes', StreamsInv', StoreInv', PageInv(p)'
    PROVE  CInv'
<1>1. ASSUME NEW q \in Pages, q # p PROVE PageInv(q)'
    <2>1. streams' \in Seq(Stream)
        BY DEF PageTypes
    <2> QED
        BY <1>1, <2>1, OtherPages
<1> QED
    BY <1>1 DEF CInv, PagesInv

\* The refs of a page whose streams tell nothing.
LEMMA RefsStay ==
    ASSUME CInv, NEW p \in Pages, StatesMove(p), ids <= ids', session'[p] \in 0 .. ids',
           current'[p] = current[p], acc'[p] = acc[p]
    PROVE  RefsInv(p)'
<1>1. RefsInv(p) /\ Len(streams) \in Nat
    BY PageHere DEF PageInv
<1>2. Len(streams') = Len(streams)
      /\ \A t \in 1 .. Len(streams) : /\ streams'[t].log = streams[t].log
                                      /\ streams'[t].page = streams[t].page
    BY StatesMoveFacts DEF StatesMove, Onward
<1>3. ASSUME current[p] # 0
      PROVE  /\ streams'[current[p]].page = p
             /\ TextOf(current[p])' = acc[p]
    <2>1. /\ current[p] \in 1 .. Len(streams) /\ streams[current[p]].page = p
          /\ acc[p] = TextOf(current[p])
        BY <1>1, <1>3 DEF RefsInv
    <2>2. TextOf(current[p])' = TextOf(current[p])
        <3>1. /\ streams'[current[p]].log = streams[current[p]].log
              /\ current'[p] = current[p]
            BY <1>2, <2>1
        <3> QED
            BY <3>1 DEF TextOf, Streamed
    <2> QED
        BY <1>2, <2>1, <2>2
<1> QED
    BY <1>1, <1>2, <1>3 DEF RefsInv

\* The messages of a page whose streams tell nothing.
LEMMA MessageStays ==
    ASSUME CInv, NEW p \in Pages, StatesMove(p), ids <= ids', session'[p] = session[p],
           NEW m, ShownInv(m, p)
    PROVE  ShownInv(m, p)'
<1>1. m.send \in 1 .. Len(streams)
    BY DEF ShownInv
<1> QED
    BY <1>1, StatesMoveFacts, ShownStays

\* The conversations, where no stream finishes.
LEMMA AllSettled ==
    ASSUME CInv, Onward, ids' \in Nat,
           \A t \in 1 .. Len(streams) : Finished(t)' => Finished(t)
    PROVE  \A x : ConvoInv(x) => ConvoInv(x)'
BY ConvoStays DEF CInv

\* A step of page p that leaves the store alone and finishes no stream.
LEMMA QuietStep ==
    ASSUME CInv, NEW p \in Pages, StatesMove(p), Moves(p), UNCHANGED <<store, ids>>,
           \A t \in 1 .. Len(streams) :
              /\ Finished(t)' => Finished(t)
              /\ streams[t].page = p /\ Live(t)' =>
                    current'[p] = t /\ session'[p] = streams[t].session,
           PageTypes', PageInv(p)'
    PROVE  CInv'
<1>1. ids <= ids' /\ ids' \in Nat
    BY PageHere
<1>2. Onward
    BY <1>1, StatesMoveFacts
<1>3. StoreInv'
    BY <1>1, <1>2, AllSettled, StoreSame DEF CInv
<1>4. StreamsInv'
    BY <1>1, StreamsKept
<1> QED
    BY <1>1, <1>2, <1>3, <1>4, Joined

-----------------------------------------------------------------------------
(* One lemma per action. *)

\* A new conversation is made and shown.
LEMMA PageStartNewChat ==
    ASSUME CInv, NEW p \in Pages, StartNewChat(p),
           mount' = [mount EXCEPT ![p] = "mounted"]
    PROVE  CInv'
<1>0. /\ PageTypes /\ PageInv(p) /\ StoreInv /\ StreamsInv /\ ids \in Nat
      /\ Len(streams) \in Nat
    BY PageHere
<1>1. PICK id : id = ids + 1
    OBVIOUS
<1>2. /\ ids < MaxIds /\ ids' = id /\ id \in Nat \ {0} /\ id \in 1 .. ids' /\ ids <= ids'
      /\ ids' \in 0 .. MaxIds
    BY <1>0, <1>1, BoundsAssumption DEF StartNewChat, NewSessionId
<1>3. /\ StatesMove(p)
      /\ \A t \in 1 .. Len(streams) : /\ streams[t].page = p => ~Live(t)'
                                      /\ Finished(t)' => Finished(t)
    BY AbortMoves DEF StartNewChat
<1>4. Onward
    BY <1>2, <1>3, StatesMoveFacts
<1>5. \A x : ConvoInv(x) => ConvoInv(x)'
    BY <1>2, <1>3, <1>4, AllSettled
<1>6. Found(id) = {}
    <2>1. DOMAIN store = 1 .. Len(store)
        BY <1>0, LenProperties DEF PageTypes
    <2>2. \A i \in 1 .. Len(store) : store[i].id \in 1 .. ids
        BY <1>0 DEF StoreInv, ConvoInv
    <2>3. \A i \in 1 .. Len(store) : store[i].id # id
        BY <1>0, <1>1, <2>2
    <2> QED
        BY <2>1, <2>3 DEF Found
<1>7. PICK c \in Convo : /\ c.id = id /\ c.messages = <<>>
                         /\ TopSaved(c, store) \/ (QuotaFails /\ UNCHANGED store)
    BY <1>0, <1>1, <1>2, <1>6, CreateSaves DEF StartNewChat, NewSessionId
<1>8. /\ StoreInv' /\ store' \in Seq(Convo) /\ Len(store') <= MaxConvos
    <2>1. CASE TopSaved(c, store)
        <3>1. /\ store \in Seq(Convo) /\ Distinct(store, c.id) /\ InStore(store)
              /\ Len(store) \in Nat
            BY <1>0, <1>6, <1>7, NotFound, LenProperties
        <3>2. ConvoInv(c)'
            <4>1. Len(c.messages) = 0
                BY <1>7
            <4> QED
                BY <1>2, <1>7, <4>1 DEF ConvoInv
        <3>3. Settled(c.id)
            BY <1>5 DEF Settled
        <3>4. StoreInv'
            BY <1>0, <2>1, <3>1, <3>2, <3>3, StoreKept
        <3>5. store' \in Seq(Convo) /\ Len(store') <= MaxConvos
            BY <2>1, MaxConvosAssumption DEF TopSaved
        <3> QED
            BY <3>4, <3>5
    <2>2. CASE QuotaFails /\ UNCHANGED store
        BY <1>0, <1>5, <2>2, StoreSame DEF PageTypes
    <2> QED
        BY <1>7, <2>1, <2>2
<1> DEFINE k == Entries(store')
           n == Len(store')
<1>9. /\ k \in Seq(Nat) /\ Len(k) = n
      /\ \A i \in 1 .. n : k[i] \in 1 .. ids'
      /\ \A i, j \in 1 .. n : k[i] = k[j] => i = j
    BY <1>8, EntriesFacts
<1>10. list' = [list EXCEPT ![p] = k]
    BY DEF StartNewChat
<1> HIDE DEF k, n
<1>11. /\ session' = [session EXCEPT ![p] = id] /\ active' = [active EXCEPT ![p] = 0]
       /\ view' = [view EXCEPT ![p] = <<>>] /\ sending' = [sending EXCEPT ![p] = FALSE]
       /\ current' = current /\ acc' = acc
    BY <1>1 DEF StartNewChat, NotSending, NewSessionId
<1>12. PageTypes'
    <2>1. <<>> \in Seq(Shown)
        BY EmptySeq
    <2>2. streams' \in Seq(Stream) /\ Len(streams') <= MaxSends
        BY <1>0, <1>3 DEF StatesMove, PageTypes
    <2> QED
        BY <1>0, <1>2, <1>8, <1>9, <1>10, <1>11, <2>1, <2>2 DEF PageTypes
<1>13. /\ mount'[p] = "mounted" /\ list'[p] = k /\ active'[p] = 0 /\ view'[p] = <<>>
       /\ sending'[p] = FALSE /\ session'[p] = id
       /\ current'[p] = current[p] /\ acc'[p] = acc[p]
    BY <1>0, <1>10, <1>11 DEF PageTypes
<1>14. Moves(p)
    BY <1>0, <1>2, <1>3, <1>10, <1>11, StatesMoveFacts DEF Moves, PageTypes
<1>15. PageInv(p)'
    <2>1. RefsInv(p)'
        <3>1. session'[p] \in 0 .. ids'
            BY <1>2, <1>13
        <3> QED
            BY <1>2, <1>3, <1>13, <3>1, RefsStay
    <2>2. MountedInv(p)'
        <3>1. current'[p] # 0 => ~Live(current[p])'
            <4>1. PICK s : s = current[p]
                OBVIOUS
            <4>2. s # 0 => s \in 1 .. Len(streams) /\ streams[s].page = p
                BY <1>0, <4>1 DEF PageInv, RefsInv
            <4>3. s # 0 => ~Live(s)'
                BY <1>3, <4>2
            <4> QED
                BY <1>13, <4>1, <4>3 DEF Live
        <3>2. Len(view'[p]) = 0
            BY <1>13
        <3> QED
            BY <1>2, <1>13, <3>1, <3>2 DEF MountedInv
    <2>3. ListInv(p)'
        BY <1>9, <1>13 DEF ListInv
    <2> QED
        BY <1>13, <2>1, <2>2, <2>3 DEF PageInv, Mounted
<1>16. StreamsInv'
    BY <1>2, <1>3, <1>14, StreamsKept
<1> QED
    BY <1>2, <1>4, <1>8, <1>12, <1>14, <1>15, <1>16, Joined

\* The page is mounted.
LEMMA PageMount ==
    ASSUME CInv, NEW p \in Pages, Mount(p)
    PROVE  CInv'
BY PageStartNewChat DEF Mount

\* The user asks for a new chat.
LEMMA PageNewChat ==
    ASSUME CInv, NEW p \in Pages, NewChat(p)
    PROVE  CInv'
<1>1. mount' = [mount EXCEPT ![p] = "mounted"]
    BY DEF NewChat, Mounted, CInv, PageTypes
<1> QED
    BY <1>1, PageStartNewChat DEF NewChat

\* The page is left, or its tab closed: what a Forget does.
LEMMA Forgotten ==
    ASSUME CInv, NEW p \in Pages, Forget(p), StatesMove(p), UNCHANGED <<store, ids, refs>>,
           \A t \in 1 .. Len(streams) : Finished(t)' => Finished(t)
    PROVE  CInv'
<1>0. PageTypes /\ PageInv(p) /\ ids \in Nat
    BY PageHere
<1>1. /\ mount' = [mount EXCEPT ![p] = "gone"] /\ list' = [list EXCEPT ![p] = <<>>]
      /\ active' = [active EXCEPT ![p] = 0] /\ view' = [view EXCEPT ![p] = <<>>]
      /\ sending' = [sending EXCEPT ![p] = FALSE]
      /\ UNCHANGED <<session, current, acc, store, ids>>
    BY DEF Forget, NotSending, refs
<1>2. PageTypes'
    <2>1. <<>> \in Seq(Shown) /\ <<>> \in Seq(Nat)
        BY EmptySeq
    <2>2. streams' \in Seq(Stream) /\ Len(streams') <= MaxSends
        BY <1>0 DEF StatesMove, PageTypes
    <2> QED
        BY <1>0, <1>1, <2>1, <2>2 DEF PageTypes
<1>3. /\ mount'[p] = "gone" /\ active'[p] = 0 /\ view'[p] = <<>> /\ sending'[p] = FALSE
    BY <1>0, <1>1 DEF PageTypes
<1>4. Moves(p)
    BY <1>0, <1>1, StatesMoveFacts DEF Moves, PageTypes
<1>5. PageInv(p)'
    <2>1. session'[p] \in 0 .. ids' /\ current'[p] = current[p] /\ acc'[p] = acc[p]
          /\ ids <= ids'
        BY <1>0, <1>1 DEF PageInv, RefsInv
    <2>2. RefsInv(p)'
        BY <2>1, RefsStay
    <2> QED
        BY <1>3, <2>2 DEF PageInv, Mounted
<1>6. ASSUME NEW t \in 1 .. Len(streams), streams[t].page = p, Live(t)'
      PROVE  current'[p] = t /\ session'[p] = streams[t].session
    <2>1. Live(t)
        BY <1>0, <1>1, <1>6, StatesMoveFacts DEF Onward
    <2> QED
        BY <1>1, <1>6, <2>1, StreamHere
<1> QED
    BY <1>1, <1>2, <1>4, <1>5, <1>6, QuietStep

\* The user goes to another page of the dashboard.
LEMMA PageLeave ==
    ASSUME CInv, NEW p \in Pages, Leave(p)
    PROVE  CInv'
<1>1. StatesMove(p) /\ \A t \in 1 .. Len(streams) : Finished(t)' => Finished(t)
    BY DEF StatesMove, Leave, Finished, CInv, PageTypes
<1> QED
    BY <1>1, Forgotten DEF Leave

\* The tab is closed.
LEMMA PageCloseTab ==
    ASSUME CInv, NEW p \in Pages, CloseTab(p)
    PROVE  CInv'
<1> DEFINE A == {t \in 1 .. Len(streams) : streams[t].page = p /\ Live(t)}
<1>1. DOMAIN streams = 1 .. Len(streams)
    BY PageHere
<1>2. \A t \in 1 .. Len(streams) : t \in A <=> streams[t].page = p /\ Live(t)
    OBVIOUS
<1> HIDE DEF A
<1>3. ComeTo(A, "stopped")
    BY <1>1, <1>2 DEF CloseTab, ComeTo
<1>4. /\ StatesMove(p)
      /\ \A t \in 1 .. Len(streams) :
            streams'[t].state = IF t \in A THEN "stopped" ELSE streams[t].state
    BY <1>2, <1>3, SomeStreamsMove
<1>5. \A t \in 1 .. Len(streams) : Finished(t)' => Finished(t)
    BY <1>4 DEF Finished
<1> QED
    BY <1>4, <1>5, Forgotten DEF CloseTab

-----------------------------------------------------------------------------
(* The messages of a page, patched. *)

\* What the list and the marked entry must be, where neither changes.
LEMMA ListStays ==
    ASSUME CInv, NEW p \in Pages, Mounted(p), UNCHANGED ids, list'[p] = list[p],
           active'[p] = active[p], session'[p] = session[p],
           view[p] = <<>> => view'[p] = <<>>
    PROVE  ListInv(p)'
<1>1. ListInv(p)
    BY PageHere DEF PageInv
<1> QED
    BY <1>1 DEF ListInv

\* The message the page's refs name is the bubble of the page's latest send.
LEMMA Here ==
    ASSUME CInv, NEW p \in Pages, Mounted(p), NEW i \in 1 .. Len(view[p])
    PROVE  /\ ShownInv(view[p][i], p)
           /\ current[p] # 0 /\ view[p][i].id = current[p] =>
                 /\ view[p][i].role = "assistant" /\ view[p][i].send = current[p]
                 /\ BubbleInv(view[p][i], p)
<1>1. ShownInv(view[p][i], p) /\ view[p][i] \in Shown
    BY PageHere, ElementOfSeq DEF PageInv, MountedInv
<1>2. view[p][i].role \in Role
    BY <1>1 DEF Shown
<1> QED
    BY <1>1, <1>2 DEF ShownInv, BubbleInv, Role

\* Such a patch changes no id and no number of messages.
LEMMA PatchedFacts ==
    ASSUME CInv, NEW p \in Pages, NEW n,
           \A i \in 1 .. Len(view[p]) : n[i] \in Shown /\ n[i].id = view[p][i].id
    PROVE  /\ Patched(p, n) \in Seq(Shown) /\ Len(Patched(p, n)) = Len(view[p])
           /\ \A i \in 1 .. Len(view[p]) :
                 /\ Patched(p, n)[i] =
                       IF current[p] # 0 /\ view[p][i].id = current[p] THEN n[i]
                                                                       ELSE view[p][i]
                 /\ Patched(p, n)[i].id = view[p][i].id
<1> DEFINE N == Len(view[p])
           v == Patched(p, n)
<1>1. /\ N \in Nat /\ DOMAIN (view[p]) = 1 .. N
      /\ \A i \in 1 .. N : view[p][i] \in Shown
    BY PageHere, ElementOfSeq
<1>2. v = [i \in 1 .. N |->
              IF current[p] # 0 /\ view[p][i].id = current[p] THEN n[i] ELSE view[p][i]]
    BY <1>1 DEF Patched
<1> HIDE DEF N, v
<1>3. \A i \in 1 .. N :
          /\ v[i] = IF current[p] # 0 /\ view[p][i].id = current[p] THEN n[i] ELSE view[p][i]
          /\ v[i].id = view[p][i].id /\ v[i] \in Shown
    BY <1>1, <1>2 DEF N
<1>4. v \in [1 .. N -> Shown]
    BY <1>2, <1>3
<1>5. v \in Seq(Shown)
    BY <1>1, <1>4, SeqDef
<1>6. Len(v) = N
    BY <1>1, <1>2, <1>5, LenProperties
<1> QED
    BY <1>3, <1>5, <1>6 DEF N, v

\* A step after which page p shows v in the place of its messages, says it is
\* sending or not, and lists k, while it stays where it was.
LEMMA PagePatched ==
    ASSUME CInv, NEW p \in Pages, StatesMove(p), UNCHANGED <<ids, mount, active, refs>>,
           store' \in Seq(Convo), Len(store') <= MaxConvos,
           NEW v \in Seq(Shown), view' = [view EXCEPT ![p] = v], Len(v) = Len(view[p]),
           \A i \in 1 .. Len(v) :
              v[i].id = view[p][i].id /\ (Mounted(p) => ShownInv(v[i], p)'),
           NEW b \in BOOLEAN, sending' = [sending EXCEPT ![p] = b],
           b <=> Mounted(p) /\ \E t \in 1 .. Len(streams) : t = current[p] /\ Live(t)',
           NEW k \in Seq(Nat), list' = [list EXCEPT ![p] = k], Mounted(p) => ListInv(p)'
    PROVE  PageTypes' /\ Moves(p) /\ PageInv(p)'
<1>0. /\ PageTypes /\ PageInv(p) /\ ids \in Nat /\ Len(streams) \in Nat
      /\ Len(view[p]) \in Nat
    BY PageHere
<1>1. /\ session' = session /\ current' = current /\ acc' = acc /\ mount' = mount
      /\ active' = active /\ ids' = ids
    BY DEF refs
<1>2. /\ view'[p] = v /\ sending'[p] = b /\ list'[p] = k
      /\ session'[p] = session[p] /\ current'[p] = current[p] /\ acc'[p] = acc[p]
    BY <1>0, <1>1 DEF PageTypes
<1>3. PageTypes'
    <2>1. streams' \in Seq(Stream) /\ Len(streams') <= MaxSends
        BY <1>0 DEF StatesMove, PageTypes
    <2> QED
        BY <1>0, <1>1, <2>1 DEF PageTypes
<1>4. Moves(p)
    BY <1>0, <1>1, StatesMoveFacts DEF Moves, PageTypes
<1>5. RefsInv(p)'
    <2>1. ids <= ids' /\ session'[p] \in 0 .. ids'
        BY <1>0, <1>1, <1>2 DEF PageInv, RefsInv
    <2> QED
        BY <1>2, <2>1, RefsStay
<1>6. PICK s : s = current[p]
    OBVIOUS
<1>7. s \in 0 .. Len(streams)
    BY <1>0, <1>6 DEF PageInv, RefsInv
<1>8. ASSUME Mounted(p) PROVE MountedInv(p)'
    <2>1. MountedInv(p)
        BY <1>0, <1>8 DEF PageInv
    <2>2. b <=> s # 0 /\ Live(s)'
        BY <1>0, <1>6, <1>7, <1>8
    <2>3. ASSUME b PROVE v # <<>> /\ v[Len(v)].id = current[p]
        <3>1. s # 0 /\ Live(s)' /\ s \in 1 .. Len(streams) /\ Onward
            BY <1>0, <1>1, <1>7, <2>2, <2>3, StatesMoveFacts
        <3>2. s # 0 /\ Live(s)
            BY <3>1 DEF Onward
        <3>3. view[p] # <<>> /\ view[p][Len(view[p])].id = current[p]
            BY <1>6, <2>1, <3>2 DEF MountedInv
        <3>4. Len(view[p]) # 0
            BY <3>3, PageHere, EmptySeq
        <3>5. Len(v) # 0 /\ Len(v) \in 1 .. Len(v)
            BY <1>0, <3>4
        <3>6. v[Len(v)].id = view[p][Len(v)].id
            BY <3>5
        <3>7. v # <<>>
            BY <3>5, EmptySeq
        <3> QED
            BY <3>3, <3>6, <3>7
    <2>4. sending'[p] <=> current'[p] # 0 /\ Live(current[p])'
        BY <1>2, <1>6, <2>2 DEF Live
    <2>5. ASSUME NEW i \in 1 .. Len(v) PROVE ShownInv(view[p][i], p)'
        <3>1. ShownInv(v[i], p)' /\ view'[p][i] = v[i]
            BY <1>2, <1>8
        <3> QED
            BY <3>1 DEF ShownInv, BubbleInv
    <2> QED
        BY <1>2, <2>1, <2>3, <2>4, <2>5 DEF MountedInv
<1>9. ASSUME ~Mounted(p) PROVE view'[p] = <<>> /\ ~sending'[p] /\ active'[p] = 0
    <2>1. view[p] = <<>> /\ active[p] = 0
        BY <1>0, <1>9 DEF PageInv
    <2>2. Len(v) = 0
        BY <2>1
    <2> QED
        BY <1>1, <1>2, <1>9, <2>1, <2>2, EmptySeq
<1>10. Mounted(p)' <=> Mounted(p)
    BY <1>1 DEF Mounted
<1> QED
    BY <1>3, <1>4, <1>5, <1>8, <1>9, <1>10 DEF PageInv

\* The patch of an error, once the stream has stopped.
LEMMA ErrorShown ==
    ASSUME CInv, NEW p \in Pages, StatesMove(p), UNCHANGED <<ids, session>>,
           \A t \in 1 .. Len(streams) : t = current[p] => ~Live(t)', PatchError(p)
    PROVE  \E v \in Seq(Shown) :
              /\ view' = [view EXCEPT ![p] = v] /\ Len(v) = Len(view[p])
              /\ \A i \in 1 .. Len(v) :
                    v[i].id = view[p][i].id /\ (Mounted(p) => ShownInv(v[i], p)')
<1> DEFINE Failed(m) == [Ended(m) EXCEPT !.error = TRUE]
           n == [i \in DOMAIN view[p] |-> Failed(view[p][i])]
<1>0. /\ Len(view[p]) \in Nat /\ DOMAIN (view[p]) = 1 .. Len(view[p])
      /\ ids <= ids' /\ session'[p] = session[p] /\ Onward
    BY PageHere, StatesMoveFacts
<1>1. ASSUME NEW m \in Shown
      PROVE  /\ Failed(m) \in Shown /\ Failed(m).role = m.role /\ Failed(m).send = m.send
             /\ Failed(m).id = m.id /\ Failed(m).text = m.text /\ Failed(m).meta = m.meta
             /\ Failed(m).error /\ ~Failed(m).loading /\ ~Failed(m).streaming
    BY DEF Shown, Ended
<1>2. \A i \in 1 .. Len(view[p]) :
          /\ view[p][i] \in Shown /\ n[i] = Failed(view[p][i])
    BY <1>0, PageHere, ElementOfSeq
<1>3. PICK v : v = Patched(p, n)
    OBVIOUS
<1>6. view' = [view EXCEPT ![p] = v]
    BY <1>0, <1>3 DEF PatchError, Patch
<1> HIDE DEF Failed, n
<1>4. /\ v \in Seq(Shown) /\ Len(v) = Len(view[p])
      /\ \A i \in 1 .. Len(view[p]) :
            /\ v[i] = IF current[p] # 0 /\ view[p][i].id = current[p] THEN n[i]
                                                                     ELSE view[p][i]
            /\ v[i].id = view[p][i].id
    BY <1>1, <1>2, <1>3, PatchedFacts
<1>5. ASSUME Mounted(p), NEW i \in 1 .. Len(view[p]) PROVE ShownInv(v[i], p)'
    <2>1. PICK m : m = view[p][i]
        OBVIOUS
    <2>2. ShownInv(m, p) /\ m \in Shown
        BY <1>2, <1>5, <2>1, Here
    <2>3. CASE current[p] # 0 /\ m.id = current[p]
        <3>1. v[i] = Failed(m)
            BY <1>2, <1>4, <2>1, <2>3
        <3>2. m.role = "assistant" /\ m.send = current[p] /\ BubbleInv(m, p)
            BY <1>5, <2>1, <2>3, Here
        <3>3. ShownInv(m, p)' /\ m.send \in 1 .. Len(streams)
            BY <1>0, <2>2, MessageStays DEF ShownInv
        <3>4. ~Live(m.send)' /\ BubbleInv(m, p)'
            BY <3>2, <3>3 DEF ShownInv
        <3>5. PICK z : z = Failed(m)
            OBVIOUS
        <3>6. BubbleInv(z, p)'
            BY <1>1, <2>2, <3>4, <3>5 DEF BubbleInv
        <3>7. ShownInv(z, p)'
            BY <1>1, <2>2, <3>2, <3>3, <3>5, <3>6 DEF ShownInv
        <3> QED
            BY <3>1, <3>5, <3>7
    <2>4. CASE ~(current[p] # 0 /\ m.id = current[p])
        <3>1. v[i] = m
            BY <1>4, <2>1, <2>4
        <3>2. ShownInv(m, p)'
            BY <1>0, <2>2, MessageStays
        <3> QED
            BY <3>1, <3>2
    <2> QED
        BY <2>3, <2>4
<1> QED
    BY <1>4, <1>5, <1>6

\* A step that leaves the store alone and stops what was live on page p, or
\* leaves it live.
LEMMA Halts ==
    ASSUME CInv, NEW p \in Pages, StatesMove(p),
           UNCHANGED <<store, ids, mount, list, active, refs>>,
           \A t \in 1 .. Len(streams) : Finished(t)' => Finished(t),
           NEW v \in Seq(Shown), view' = [view EXCEPT ![p] = v], Len(v) = Len(view[p]),
           \A i \in 1 .. Len(v) :
              v[i].id = view[p][i].id /\ (Mounted(p) => ShownInv(v[i], p)'),
           NEW b \in BOOLEAN, sending' = [sending EXCEPT ![p] = b],
           b <=> Mounted(p) /\ \E t \in 1 .. Len(streams) : t = current[p] /\ Live(t)'
    PROVE  CInv'
<1>0. /\ PageTypes /\ ids \in Nat /\ ids <= ids' /\ Len(view[p]) \in Nat
    BY PageHere
<1>1. session' = session /\ current' = current /\ acc' = acc /\ mount' = mount
    BY DEF refs
<1>2. PICK k : k = list[p]
    OBVIOUS
<1>3. k \in Seq(Nat) /\ list' = [list EXCEPT ![p] = k]
    BY <1>0, <1>2 DEF PageTypes
<1>4. ASSUME Mounted(p) PROVE ListInv(p)'
    <2>1. view[p] = <<>> => view'[p] = <<>>
        <3>1. view'[p] = v
            BY <1>0 DEF PageTypes
        <3>2. view[p] = <<>> => Len(v) = 0
            OBVIOUS
        <3> QED
            BY <3>1, <3>2, EmptySeq
    <2> QED
        BY <1>1, <1>4, <2>1, ListStays
<1>5. store' \in Seq(Convo) /\ Len(store') <= MaxConvos
    BY <1>0 DEF PageTypes
<1>6. PageTypes' /\ Moves(p) /\ PageInv(p)'
    BY <1>3, <1>4, <1>5, PagePatched
<1>7. ASSUME NEW t \in 1 .. Len(streams), streams[t].page = p, Live(t)'
      PROVE  current'[p] = t /\ session'[p] = streams[t].session
    <2>1. Live(t)
        BY <1>0, <1>7, StatesMoveFacts DEF Onward
    <2> QED
        BY <1>1, <1>7, <2>1, StreamHere
<1> QED
    BY <1>6, <1>7, QuietStep

\* The messages as they are, where no stream tells anything.
LEMMA ViewStays ==
    ASSUME CInv, NEW p \in Pages, StatesMove(p), UNCHANGED <<ids, session, view>>
    PROVE  \E v \in Seq(Shown) :
              /\ view' = [view EXCEPT ![p] = v] /\ Len(v) = Len(view[p])
              /\ \A i \in 1 .. Len(v) :
                    v[i].id = view[p][i].id /\ (Mounted(p) => ShownInv(v[i], p)')
<1>0. view[p] \in Seq(Shown) /\ ids <= ids' /\ session'[p] = session[p] /\ PageTypes
    BY PageHere
<1>1. PICK v : v = view[p]
    OBVIOUS
<1>2. view' = [view EXCEPT ![p] = v]
    BY <1>0, <1>1 DEF PageTypes
<1>3. ASSUME Mounted(p), NEW i \in 1 .. Len(v) PROVE ShownInv(v[i], p)'
    <2>1. ShownInv(v[i], p)
        BY <1>1, <1>3, Here
    <2> QED
        BY <1>0, <2>1, MessageStays
<1> QED
    BY <1>0, <1>1, <1>2, <1>3

\* The response has an error status, and its body is being read.
LEMMA PageRefuse ==
    ASSUME CInv, NEW s \in 1 .. Len(streams), Refuse(s)
    PROVE  CInv'
<1>1. PICK p : p = streams[s].page
    OBVIOUS
<1>2. /\ Live(s) /\ EndStream(s, "refused")
      /\ UNCHANGED <<store, ids, mount, list, active, view, sending, session>>
      /\ UNCHANGED <<store, ids, mount, list, active, refs>>
      /\ UNCHANGED <<ids, session, view>>
    BY DEF Refuse, Live, state, refs
<1>3. /\ p \in Pages /\ current[p] = s /\ PageTypes
    BY <1>1, <1>2, StreamHere, PageHere
<1>4. /\ StatesMove(p) /\ streams'[s].state = "refused"
      /\ \A t \in 1 .. Len(streams) : t # s => streams'[t] = streams[t]
    BY <1>1, <1>2, EndMoves
<1>5. \A t \in 1 .. Len(streams) : Finished(t)' => Finished(t)
    BY <1>4 DEF Finished
<1>6. PICK v \in Seq(Shown) :
          /\ view' = [view EXCEPT ![p] = v] /\ Len(v) = Len(view[p])
          /\ \A i \in 1 .. Len(v) :
                v[i].id = view[p][i].id /\ (Mounted(p) => ShownInv(v[i], p)')
    BY <1>2, <1>3, <1>4, ViewStays
<1>7. PICK b : b = sending[p]
    OBVIOUS
<1>8. b \in BOOLEAN /\ sending' = [sending EXCEPT ![p] = b]
    BY <1>2, <1>3, <1>7 DEF PageTypes
<1>9. b <=> Mounted(p) /\ \E t \in 1 .. Len(streams) : t = current[p] /\ Live(t)'
    <2>1. Live(s)'
        BY <1>4 DEF Live
    <2>2. b <=> Mounted(p)
        <3>1. PageInv(p) /\ s # 0
            BY <1>3, PageHere, StreamHere
        <3> QED
            BY <1>2, <1>3, <1>7, <3>1 DEF PageInv, MountedInv
    <2> QED
        BY <1>3, <2>1, <2>2
<1> QED
    BY <1>2, <1>3, <1>4, <1>5, <1>6, <1>8, <1>9, Halts

\* A page none of whose streams is live after the step says it sends nothing.
LEMMA NoneLive ==
    ASSUME CInv, NEW p \in Pages,
           \A t \in 1 .. Len(streams) : t = current[p] => ~Live(t)'
    PROVE  FALSE <=> Mounted(p) /\ \E t \in 1 .. Len(streams) : t = current[p] /\ Live(t)'
OBVIOUS

\* The stream ends without saying so.
LEMMA PageEndsSilently ==
    ASSUME CInv, NEW s \in 1 .. Len(streams), EndsSilently(s)
    PROVE  CInv'
<1>1. PICK p : p = streams[s].page
    OBVIOUS
<1>2. /\ Live(s) /\ EndStream(s, "stopped")
      /\ UNCHANGED <<store, ids, mount, list, active, refs>>
      /\ UNCHANGED <<ids, session, view>>
      /\ sending' = [sending EXCEPT ![p] = FALSE]
    BY <1>1 DEF EndsSilently, Live, NotSending, refs
<1>3. /\ p \in Pages /\ current[p] = s
    BY <1>1, <1>2, StreamHere, PageHere
<1>4. /\ StatesMove(p) /\ streams'[s].state = "stopped"
      /\ \A t \in 1 .. Len(streams) : t # s => streams'[t] = streams[t]
    BY <1>1, <1>2, EndMoves
<1>5. \A t \in 1 .. Len(streams) : Finished(t)' => Finished(t)
    BY <1>4 DEF Finished
<1>6. PICK v \in Seq(Shown) :
          /\ view' = [view EXCEPT ![p] = v] /\ Len(v) = Len(view[p])
          /\ \A i \in 1 .. Len(v) :
                v[i].id = view[p][i].id /\ (Mounted(p) => ShownInv(v[i], p)')
    BY <1>2, <1>3, <1>4, ViewStays
<1>7. \A t \in 1 .. Len(streams) : t = current[p] => ~Live(t)'
    BY <1>3, <1>4 DEF Live
<1> QED
    BY <1>2, <1>3, <1>4, <1>5, <1>6, <1>7, NoneLive, Halts

\* The stream ends with an error.
LEMMA PageOnError ==
    ASSUME CInv, NEW s \in 1 .. Len(streams), OnError(s)
    PROVE  CInv'
<1>1. PICK p : p = streams[s].page
    OBVIOUS
<1>2. /\ Live(s) /\ EndStream(s, "stopped") /\ PatchError(p)
      /\ UNCHANGED <<store, ids, mount, list, active, refs>>
      /\ UNCHANGED <<ids, session>>
      /\ sending' = [sending EXCEPT ![p] = FALSE]
    BY <1>1 DEF OnError, NotSending, refs
<1>3. /\ p \in Pages /\ current[p] = s
    BY <1>1, <1>2, StreamHere, PageHere
<1>4. /\ StatesMove(p) /\ streams'[s].state = "stopped"
      /\ \A t \in 1 .. Len(streams) : t # s => streams'[t] = streams[t]
    BY <1>1, <1>2, EndMoves
<1>5. \A t \in 1 .. Len(streams) : Finished(t)' => Finished(t)
    BY <1>4 DEF Finished
<1>6. \A t \in 1 .. Len(streams) : t = current[p] => ~Live(t)'
    BY <1>3, <1>4 DEF Live
<1>7. PICK v \in Seq(Shown) :
          /\ view' = [view EXCEPT ![p] = v] /\ Len(v) = Len(view[p])
          /\ \A i \in 1 .. Len(v) :
                v[i].id = view[p][i].id /\ (Mounted(p) => ShownInv(v[i], p)')
    BY <1>2, <1>3, <1>4, <1>6, ErrorShown
<1> QED
    BY <1>2, <1>3, <1>4, <1>5, <1>6, <1>7, NoneLive, Halts

\* A click on an entry of the sidebar whose conversation is gone.
LEMMA PageSelectMissing ==
    ASSUME CInv, NEW p \in Pages, Mounted(p), NEW id, SelectMissing(p, id)
    PROVE  CInv'
<1>0. PageTypes /\ PageInv(p)
    BY PageHere
<1>1. /\ UNCHANGED <<store, ids, mount, list, active, refs>>
      /\ UNCHANGED <<ids, session>>
    BY DEF SelectMissing, refs
<1>2. /\ StatesMove(p)
      /\ \A t \in 1 .. Len(streams) : /\ streams[t].page = p => ~Live(t)'
                                      /\ Finished(t)' => Finished(t)
    BY AbortMoves DEF SelectMissing
<1>3. \A t \in 1 .. Len(streams) : t = current[p] => ~Live(t)'
    <2>1. \A t \in 1 .. Len(streams) : t = current[p] => streams[t].page = p
        BY <1>0, StreamHere DEF PageInv, RefsInv
    <2> QED
        BY <1>2, <2>1
<1>4. PICK v \in Seq(Shown) :
          /\ view' = [view EXCEPT ![p] = v] /\ Len(v) = Len(view[p])
          /\ \A i \in 1 .. Len(v) :
                v[i].id = view[p][i].id /\ (Mounted(p) => ShownInv(v[i], p)')
    <2>1. CASE PatchError(p)
        BY <1>1, <1>2, <1>3, <2>1, ErrorShown
    <2>2. CASE UNCHANGED view
        <3>1. UNCHANGED <<ids, session, view>>
            BY <1>1, <2>2
        <3> QED
            BY <1>2, <3>1, ViewStays
    <2> QED
        BY <2>1, <2>2 DEF SelectMissing
<1>5. sending' = [sending EXCEPT ![p] = FALSE]
    <2>1. CASE current[p] # 0 /\ Live(current[p])
        BY <2>1 DEF SelectMissing, NotSending
    <2>2. CASE ~(current[p] # 0 /\ Live(current[p]))
        <3>1. sending' = sending
            BY <2>2 DEF SelectMissing
        <3>2. ~sending[p]
            BY <1>0, <2>2 DEF PageInv, MountedInv
        <3>3. sending \in [Pages -> BOOLEAN]
            BY <1>0 DEF PageTypes
        <3>4. sending[p] = FALSE
            BY <3>2, <3>3
        <3> QED
            BY <3>1, <3>3, <3>4
    <2> QED
        BY <2>1, <2>2
<1> QED
    BY <1>1, <1>2, <1>3, <1>4, <1>5, NoneLive, Halts

\* A click on one whose conversation is in the store: the page shows it.
LEMMA PageSelectFound ==
    ASSUME CInv, NEW p \in Pages, Mounted(p), NEW i \in 1 .. Len(list[p]),
           NEW id, id = list[p][i], SelectFound(p, id)
    PROVE  CInv'
<1>0. /\ PageTypes /\ PageInv(p) /\ StoreInv /\ ids \in Nat /\ Len(streams) \in Nat
    BY PageHere
<1>1. /\ view' = [view EXCEPT ![p] = Loaded(LoadConversation(id).messages)]
      /\ session' = [session EXCEPT ![p] = id] /\ active' = [active EXCEPT ![p] = id]
      /\ sending' = [sending EXCEPT ![p] = FALSE]
      /\ UNCHANGED <<store, ids, mount, list, current, acc>>
    BY DEF SelectFound, NotSending
<1>2. /\ StatesMove(p)
      /\ \A t \in 1 .. Len(streams) : /\ streams[t].page = p => ~Live(t)'
                                      /\ Finished(t)' => Finished(t)
    BY AbortMoves DEF SelectFound
<1>3. ids <= ids' /\ ids' \in Nat /\ Onward
    BY <1>0, <1>1, <1>2, StatesMoveFacts
<1>4. id \in 1 .. ids /\ id \in Nat /\ id # 0
    BY <1>0 DEF PageInv, ListInv
<1>5. PICK c : \E n \in 1 .. Len(store) :
                  store[n].id = id /\ c = store[n] /\ LoadConversation(id) = c
    BY <1>0, LoadFacts DEF SelectFound
<1>6. c.id = id /\ ConvoInv(c) /\ c \in Convo /\ LoadConversation(id) = c
    BY <1>0, <1>5, ElementOfSeq DEF StoreInv, PageTypes
<1> DEFINE N == Len(c.messages)
           w == Loaded(c.messages)
<1>7. /\ N \in Nat /\ DOMAIN (c.messages) = 1 .. N
      /\ \A j \in 1 .. N : c.messages[j] \in Said /\ SaidInv(c.messages[j], id)
    BY <1>6, LenProperties, ElementOfSeq DEF Convo, ConvoInv
<1> HIDE DEF N
<1>8. ASSUME NEW j \in 1 .. N
      PROVE  /\ w[j] \in Shown /\ w[j].role = c.messages[j].role
             /\ w[j].send = c.messages[j].send /\ w[j].text = c.messages[j].text
             /\ w[j].id = 0 /\ (w[j].meta <=> c.messages[j].role = "assistant")
             /\ ~w[j].error
    BY <1>7 DEF Loaded, Message, Said, Shown
<1>9. w = [j \in 1 .. N |-> w[j]]
    BY <1>7 DEF Loaded
<1> HIDE DEF w
<1>10. w \in Seq(Shown) /\ Len(w) = N
    <2>1. w \in [1 .. N -> Shown]
        BY <1>8, <1>9
    <2>2. w \in Seq(Shown)
        BY <1>7, <2>1, SeqDef
    <2> QED
        BY <1>7, <1>9, <2>2, LenProperties
<1>11. /\ view'[p] = w /\ session'[p] = id /\ active'[p] = id /\ sending'[p] = FALSE
       /\ current'[p] = current[p] /\ acc'[p] = acc[p] /\ list'[p] = list[p]
       /\ mount'[p] = mount[p]
    BY <1>0, <1>1, <1>6 DEF w, PageTypes
<1>12. PageTypes'
    <2>1. streams' \in Seq(Stream) /\ Len(streams') <= MaxSends
        BY <1>0, <1>2 DEF StatesMove, PageTypes
    <2>2. view' = [view EXCEPT ![p] = w]
        BY <1>1, <1>6 DEF w
    <2> QED
        BY <1>0, <1>1, <1>4, <1>10, <2>1, <2>2 DEF PageTypes
<1>13. Moves(p)
    BY <1>0, <1>1, <1>2, <1>3, StatesMoveFacts DEF Moves, PageTypes
<1>14. ASSUME NEW j \in 1 .. N PROVE ShownInv(w[j], p)'
    <2>1. PICK m : m = c.messages[j]
        OBVIOUS
    <2>2. m \in Said /\ SaidInv(m, id)
        BY <1>7, <2>1
    <2>3. SaidInv(m, id)'
        BY <1>3, <2>2, SaidStays
    <2>4. PICK z : z = w[j]
        OBVIOUS
    <2>5. /\ z.role = m.role /\ z.send = m.send /\ z.text = m.text /\ z.id = 0
          /\ (z.meta <=> m.role = "assistant") /\ ~z.error
        BY <1>8, <2>1, <2>4
    <2>6. ASSUME m.role = "assistant" PROVE BubbleInv(z, p)'
        BY <2>3, <2>5, <2>6 DEF SaidInv, BubbleInv, Finished, Live
    <2>7. ShownInv(z, p)'
        BY <1>11, <2>3, <2>5, <2>6 DEF SaidInv, ShownInv
    <2>8. w[j] = z
        BY <2>4
    <2> QED
        BY <2>7, <2>8
<1>15. PageInv(p)'
    <2>1. RefsInv(p)'
        <3>1. session'[p] \in 0 .. ids'
            BY <1>0, <1>1, <1>4, <1>11
        <3> QED
            BY <1>2, <1>3, <1>11, <3>1, RefsStay
    <2>2. MountedInv(p)'
        <3>1. current'[p] # 0 => ~Live(current[p])'
            <4>1. PICK s : s = current[p]
                OBVIOUS
            <4>2. s # 0 => s \in 1 .. Len(streams) /\ streams[s].page = p
                BY <1>0, <4>1 DEF PageInv, RefsInv
            <4>3. s # 0 => ~Live(s)'
                BY <1>2, <4>2
            <4> QED
                BY <1>11, <4>1, <4>3 DEF Live
        <3>2. ASSUME NEW j \in 1 .. N PROVE ShownInv(view[p][j], p)'
            <4>1. view'[p][j] = w[j] /\ ShownInv(w[j], p)'
                BY <1>11, <1>14
            <4> QED
                BY <4>1 DEF ShownInv, BubbleInv
        <3> QED
            BY <1>4, <1>10, <1>11, <3>1, <3>2 DEF MountedInv
    <2>3. ListInv(p)'
        <3>1. ListInv(p)
            BY <1>0 DEF PageInv
        <3> QED
            BY <1>1, <1>4, <1>11, <3>1 DEF ListInv
    <2> QED
        BY <1>11, <2>1, <2>2, <2>3 DEF PageInv, Mounted
<1>16. UNCHANGED <<store, ids>>
    BY <1>1
<1> QED
    BY <1>2, <1>12, <1>13, <1>15, <1>16, QuietStep

\* A click on an entry of the sidebar.
LEMMA PageSelect ==
    ASSUME CInv, NEW p \in Pages, Select(p)
    PROVE  CInv'
<1>1. Mounted(p) /\ DOMAIN (list[p]) = 1 .. Len(list[p])
    BY PageHere DEF Select
<1>2. PICK i \in 1 .. Len(list[p]) : \/ SelectFound(p, list[p][i])
                                     \/ SelectMissing(p, list[p][i])
    BY <1>1 DEF Select, Sidebar
<1>3. PICK id : id = list[p][i]
    OBVIOUS
<1> QED
    BY <1>1, <1>2, <1>3, PageSelectFound, PageSelectMissing
-----------------------------------------------------------------------------
(* A message is stored. *)

\* Where setItem may fail, a conversation may lack answers.
LEMMA ConvoStaysWhereWritesFail ==
    ASSUME PageTypes, Onward, ids' \in Nat, QuotaFails, NEW x, ConvoInv(x)
    PROVE  ConvoInv(x)'
<1>1. ids \in Nat /\ ids <= ids'
    BY BoundsAssumption DEF PageTypes, Onward
<1>2. x.id \in 1 .. ids'
    BY <1>1 DEF ConvoInv
<1>3. ASSUME NEW j \in 1 .. Len(x.messages) PROVE SaidInv(x.messages[j], x.id)'
    BY SaidStays DEF ConvoInv
<1>4. \A j, k \in 1 .. Len(x.messages) :
          /\ x.messages[j].role = "assistant" /\ x.messages[k].role = "assistant"
          /\ x.messages[j].send = x.messages[k].send
          => j = k
    BY DEF ConvoInv
<1> QED
    BY <1>2, <1>3, <1>4 DEF ConvoInv

\* Two numbers of every state.
LEMMA AnyTime == ASSUME CInv PROVE ids \in Nat /\ Len(streams) \in Nat
BY BoundsAssumption, LenProperties DEF CInv, PageTypes

\* Message m of conversation id is stored as the step says it should: it is a
\* prompt whose stream is still to come, or the answer the step finishes.
Says(id, m) ==
    /\ id \in 1 .. ids /\ m \in Said
    /\ SaidInv(m, id)'
    /\ m.role = "user" => ~Finished(m.send)'
    /\ m.role = "assistant" => ~Finished(m.send)
    /\ \A t \in 1 .. Len(streams) : Finished(t)' =>
          \/ Finished(t)
          \/ m.role = "assistant" /\ m.send = t /\ streams[t].session = id

\* A conversation of the store with that message more is as it should be.
LEMMA OneMoreSaid ==
    ASSUME CInv, Onward, ids' \in Nat, NEW id, NEW m, Says(id, m),
           NEW c \in Convo, c.id = id, NEW x \in Convo, ConvoInv(x), x.id = id,
           c.messages = Append(x.messages, m)
    PROVE  ConvoInv(c)'
<1> DEFINE M == Len(x.messages)
           N == Len(c.messages)
<1>1. /\ M \in Nat /\ N = M + 1 /\ c.messages[N] = m
      /\ \A j \in 1 .. M : c.messages[j] = x.messages[j]
    BY LenProperties, AppendProperties DEF Convo, Says
<1>2. c.id \in 1 .. ids'
    BY AnyTime DEF Says, Onward
<1>3. /\ \A j \in 1 .. M : SaidInv(x.messages[j], id)
      /\ \A j, k \in 1 .. M :
            /\ x.messages[j].role = "assistant" /\ x.messages[k].role = "assistant"
            /\ x.messages[j].send = x.messages[k].send
            => j = k
      /\ ~QuotaFails =>
            \A j \in 1 .. M :
               x.messages[j].role = "user" /\ Finished(x.messages[j].send) =>
                  \E k \in 1 .. M :
                     /\ k > j /\ x.messages[k].role = "assistant"
                     /\ x.messages[k].send = x.messages[j].send
    BY DEF ConvoInv
<1> HIDE DEF M, N
<1>4. ASSUME NEW j \in 1 .. N
      PROVE  \/ j \in 1 .. M /\ c.messages[j] = x.messages[j]
             \/ j = N /\ c.messages[j] = m
    <2>1. M \in Nat /\ N = M + 1
        BY <1>1
    <2>2. j \in 1 .. M \/ j = N
        BY <2>1
    <2> QED
        BY <1>1, <2>2
<1>5. m.role \in Role /\ SaidInv(m, id)'
    BY DEF Says, Said
<1>6. ASSUME NEW j \in 1 .. N PROVE SaidInv(c.messages[j], c.id)'
    <2>1. CASE j \in 1 .. M /\ c.messages[j] = x.messages[j]
        BY <1>3, <2>1, SaidStays
    <2>2. CASE j = N /\ c.messages[j] = m
        BY <1>5, <2>2
    <2> QED
        BY <1>4, <2>1, <2>2
<1>7. ASSUME NEW j \in 1 .. M, x.messages[j].role = "assistant", m.role = "assistant"
      PROVE  x.messages[j].send # m.send
    BY <1>3, <1>7 DEF SaidInv, Says
<1>8. ASSUME NEW j \in 1 .. N, NEW k \in 1 .. N,
             c.messages[j].role = "assistant", c.messages[k].role = "assistant",
             c.messages[j].send = c.messages[k].send
      PROVE  j = k
    <2>1. CASE j \in 1 .. M /\ k \in 1 .. M
        BY <1>1, <1>3, <1>8, <2>1
    <2>2. CASE ~(j \in 1 .. M /\ k \in 1 .. M)
        BY <1>1, <1>4, <1>7, <1>8, <2>2
    <2> QED
        BY <2>1, <2>2
<1>9. ASSUME ~QuotaFails, NEW j \in 1 .. N,
             c.messages[j].role = "user", Finished(c.messages[j].send)'
      PROVE  \E k \in 1 .. N :
                /\ k > j /\ c.messages[k].role = "assistant"
                /\ c.messages[k].send = c.messages[j].send
    <2>1. j \in 1 .. M /\ c.messages[j] = x.messages[j]
        BY <1>4, <1>9 DEF Says
    <2>2. PICK t : t = x.messages[j].send
        OBVIOUS
    <2>3. t \in 1 .. Len(streams) /\ Finished(t)'
        BY <1>3, <1>9, <2>1, <2>2 DEF SaidInv
    <2>4. CASE Finished(t)
        <3>1. PICK k \in 1 .. M : /\ k > j /\ x.messages[k].role = "assistant"
                                  /\ x.messages[k].send = x.messages[j].send
            BY <1>3, <1>9, <2>1, <2>2, <2>4
        <3>2. M \in Nat /\ N = M + 1 /\ c.messages[k] = x.messages[k]
            BY <1>1
        <3>3. k \in 1 .. N
            BY <3>2
        <3> QED
            BY <2>1, <3>1, <3>2, <3>3
    <2>5. CASE m.role = "assistant" /\ m.send = t
        <3>1. N \in 1 .. N /\ N > j
            BY <1>1, <2>1
        <3> QED
            BY <1>1, <2>1, <2>2, <2>5, <3>1
    <2> QED
        BY <2>3, <2>4, <2>5 DEF Says
<1> QED
    BY <1>2, <1>6, <1>8, <1>9 DEF ConvoInv, N

\* The first message of a conversation that is not in the store.
LEMMA FirstSaid ==
    ASSUME CInv, Onward, ids' \in Nat, NEW id, NEW m, Says(id, m),
           NEW c, c.id = id, c.messages = <<m>>
    PROVE  ConvoInv(c)'
<1>1. Len(c.messages) = 1 /\ c.messages[1] = m
    OBVIOUS
<1>2. c.id \in 1 .. ids'
    BY AnyTime DEF Says, Onward
<1>3. \A j \in 1 .. Len(c.messages) : j = 1 /\ c.messages[j] = m
    BY <1>1
<1>4. \A j \in 1 .. Len(c.messages) : SaidInv(c.messages[j], c.id)'
    BY <1>3 DEF Says
<1>5. \A j \in 1 .. Len(c.messages) :
          ~(c.messages[j].role = "user" /\ Finished(c.messages[j].send)')
    BY <1>3 DEF Says
<1> QED
    BY <1>2, <1>3, <1>4, <1>5 DEF ConvoInv

\* The store is as it should be after such a message, which is on top of it.
LEMMA MessageSaved ==
    ASSUME CInv, Onward, ids' \in Nat, NEW id, NEW m, Says(id, m), AppendMessage(id, m)
    PROVE  /\ StoreInv' /\ store' \in Seq(Convo) /\ Len(store') <= MaxConvos
           /\ ~QuotaFails => Len(store') \in Nat /\ 1 <= Len(store') /\ store'[1].id = id
<1>1. /\ PageTypes /\ StoreInv /\ id \in Nat /\ m \in Said
    BY AnyTime DEF Says, CInv
<1>2. PICK c, rest : /\ Appended(id, m, c, rest)
                     /\ TopSaved(c, rest) \/ (QuotaFails /\ UNCHANGED store)
    BY <1>1, AppendSaves
<1>3. CASE TopSaved(c, rest)
    <2>1. /\ c \in Convo /\ c.id = id /\ rest \in Seq(Convo)
          /\ Distinct(rest, id) /\ InStore(rest) /\ Len(rest) \in Nat
        BY <1>2, LenProperties DEF Appended
    <2>2. ConvoInv(c)'
        <3>1. CASE c.messages = <<m>>
            BY <2>1, <3>1, FirstSaid
        <3>2. CASE \E i \in 1 .. Len(store) :
                      store[i].id = id /\ c.messages = Append(store[i].messages, m)
            <4>1. PICK i \in 1 .. Len(store) :
                      store[i].id = id /\ c.messages = Append(store[i].messages, m)
                BY <3>2
            <4>2. PICK x : x = store[i]
                OBVIOUS
            <4>3. x \in Convo /\ ConvoInv(x)
                BY <1>1, <4>2, ElementOfSeq DEF StoreInv, PageTypes
            <4> QED
                BY <2>1, <4>1, <4>2, <4>3, OneMoreSaid
        <3> QED
            BY <1>2, <3>1, <3>2 DEF Appended
    <2>3. Settled(c.id)
        <3> SUFFICES ASSUME NEW x, ConvoInv(x), x.id # id PROVE ConvoInv(x)'
            BY <2>1 DEF Settled
        <3>1. \A t \in 1 .. Len(streams) :
                  streams[t].session = x.id /\ Finished(t)' => Finished(t)
            BY DEF Says
        <3> QED
            BY <1>1, <3>1, ConvoStays
    <2>4. StoreInv'
        BY <1>1, <1>3, <2>1, <2>2, <2>3, StoreKept
    <2>5. /\ store' \in Seq(Convo) /\ Len(store') <= MaxConvos
          /\ Len(store') \in Nat /\ 1 <= Len(store') /\ store'[1].id = id
        BY <1>3, <2>1, MaxConvosAssumption DEF TopSaved
    <2> QED
        BY <2>4, <2>5
<1>4. CASE QuotaFails /\ UNCHANGED store
    <2>1. \A x : ConvoInv(x) => ConvoInv(x)'
        BY <1>1, <1>4, ConvoStaysWhereWritesFail
    <2> QED
        BY <1>1, <1>4, <2>1, StoreSame DEF PageTypes
<1> QED
    BY <1>2, <1>3, <1>4
-----------------------------------------------------------------------------
(* The steps that store a message or tell an event. *)

\* A prompt is sent.
LEMMA PageSend ==
    ASSUME CInv, NEW p \in Pages, Send(p)
    PROVE  CInv'
<1>0. /\ PageTypes /\ PageInv(p) /\ StreamsInv /\ ids \in Nat /\ Len(streams) \in Nat
      /\ Len(view[p]) \in Nat /\ view[p] \in Seq(Shown)
    BY PageHere
<1>1. PICK s : s = Len(streams) + 1
    OBVIOUS
<1>2. PICK id : id = session[p]
    OBVIOUS
<1> DEFINE x == [page |-> p, session |-> id, log |-> <<>>, state |-> "open"]
           m == Stored("user", s, NoText)
           new == <<UserMessage(s), Placeholder(s)>>
<1>3. /\ Mounted(p) /\ ~sending[p] /\ s <= MaxSends
      /\ view' = [view EXCEPT ![p] = @ \o new]
      /\ AppendMessage(id, m)
      /\ active' = [active EXCEPT ![p] = id]
      /\ list' = [list EXCEPT ![p] = Entries(store')]
      /\ current' = [current EXCEPT ![p] = s]
      /\ acc' = [acc EXCEPT ![p] = NoText]
      /\ sending' = [sending EXCEPT ![p] = TRUE]
      /\ streams' = Append(streams, x)
      /\ UNCHANGED <<ids, mount, session>>
    BY <1>1, <1>2 DEF Send, Screen
<1>4. id \in 1 .. ids /\ id \in Nat /\ MountedInv(p)
    BY <1>0, <1>2, <1>3 DEF PageInv, RefsInv, MountedInv
<1>5. x \in Stream /\ x.page = p /\ x.session = id /\ x.log = <<>> /\ x.state = "open"
    <2>1. <<>> \in Seq(Events)
        BY EmptySeq
    <2> QED
        BY <1>4, <2>1 DEF Stream
<1> HIDE DEF x
<1>6. /\ streams' \in Seq(Stream) /\ Len(streams') = s /\ streams'[s] = x
      /\ \A t \in 1 .. Len(streams) : streams'[t] = streams[t]
      /\ s \in Nat /\ s # 0 /\ s \in 1 .. Len(streams')
      /\ \A t \in 1 .. Len(streams') : t \in 1 .. Len(streams) \/ t = s
      /\ s \notin 1 .. Len(streams)
    <2>1. streams \in Seq(Stream)
        BY <1>0 DEF PageTypes
    <2>2. /\ streams' \in Seq(Stream) /\ Len(streams') = Len(streams) + 1
          /\ streams'[Len(streams) + 1] = x
          /\ \A t \in 1 .. Len(streams) : streams'[t] = streams[t]
        BY <1>3, <1>5, <2>1, AppendProperties
    <2> QED
        BY <1>0, <1>1, <2>2
<1>7. Onward /\ ids' \in Nat /\ ids <= ids'
    BY <1>0, <1>1, <1>3, <1>6 DEF Onward, Live, Finished
<1>8. TextOf(s)' = NoText
    BY <1>5, <1>6, NothingTold
<1>9. NoText \in Texts
    BY EmptySeq DEF NoText, Texts
<1>10. m \in Said /\ m.role = "user" /\ m.send = s
    BY <1>6, <1>9 DEF Stored, Said, Role
<1> HIDE DEF m
<1>11. Says(id, m)
    <2>1. SaidInv(m, id)'
        BY <1>5, <1>6, <1>10 DEF SaidInv
    <2>2. ~Finished(m.send)'
        BY <1>5, <1>6, <1>10 DEF Finished
    <2>3. \A t \in 1 .. Len(streams) : Finished(t)' => Finished(t)
        BY <1>6 DEF Finished
    <2> QED
        BY <1>4, <1>10, <2>1, <2>2, <2>3 DEF Says
<1>12. /\ StoreInv' /\ store' \in Seq(Convo) /\ Len(store') <= MaxConvos
       /\ ~QuotaFails => Len(store') \in Nat /\ 1 <= Len(store') /\ store'[1].id = id
    BY <1>3, <1>7, <1>11, MessageSaved
<1> DEFINE k == Entries(store')
           n == Len(store')
<1>13. /\ k \in Seq(Nat) /\ Len(k) = n /\ n \in Nat
       /\ \A i \in 1 .. n : k[i] = store'[i].id /\ k[i] \in 1 .. ids'
       /\ \A i, j \in 1 .. n : k[i] = k[j] => i = j
    BY <1>12, EntriesFacts, LenProperties
<1>14. list' = [list EXCEPT ![p] = k]
    BY <1>3
<1>15. ~QuotaFails => \E i \in 1 .. n : k[i] = id
    <2>1. ~QuotaFails => 1 \in 1 .. n /\ store'[1].id = id
        BY <1>12, <1>13
    <2> QED
        BY <1>13, <2>1
<1> HIDE DEF k, n
<1> DEFINE u == UserMessage(s)
           b == Placeholder(s)
           M == Len(view[p])
<1>29. PICK w : w = view[p] \o new
    OBVIOUS
<1>16. /\ u \in Shown /\ u.role = "user" /\ u.send = s /\ u.id = 0
       /\ b \in Shown /\ b.role = "assistant" /\ b.send = s /\ b.id = s /\ b.text = NoText
       /\ b.meta = FALSE /\ b.error = FALSE /\ b.loading = TRUE
    BY <1>6, <1>9 DEF UserMessage, Placeholder, Message, Shown, Role
<1> HIDE DEF u, b
<1>17. /\ w \in Seq(Shown) /\ Len(w) = M + 2 /\ w[M + 1] = u /\ w[M + 2] = b
       /\ \A i \in 1 .. M : w[i] = view[p][i]
    <2>1. new = <<u, b>> /\ new \in Seq(Shown) /\ Len(new) = 2 /\ new[1] = u /\ new[2] = b
        BY <1>16 DEF u, b
    <2> HIDE DEF new
    <2>2. /\ w \in Seq(Shown) /\ Len(w) = M + 2
          /\ \A i \in 1 .. M + 2 : w[i] = IF i <= M THEN view[p][i] ELSE new[i - M]
        BY <1>0, <1>29, <2>1, ConcatProperties
    <2>3. /\ \A i \in 1 .. M : w[i] = view[p][i]
          /\ w[M + 1] = new[(M + 1) - M] /\ w[M + 2] = new[(M + 2) - M]
        BY <1>0, <2>2
    <2>4. (M + 1) - M = 1 /\ (M + 2) - M = 2
        BY <1>0
    <2> QED
        BY <2>1, <2>2, <2>3, <2>4
<1>18. view' = [view EXCEPT ![p] = w]
    BY <1>3, <1>29
<1> HIDE DEF M, new
<1>19. M \in Nat /\ M = Len(view[p])
    BY <1>0 DEF M
<1>20. PageTypes'
    <2>1. /\ list' \in [Pages -> Seq(Nat)] /\ view' \in [Pages -> Seq(Shown)]
          /\ acc' \in [Pages -> Texts]
        <3>1. list' \in [Pages -> Seq(Nat)]
            BY <1>0, <1>13, <1>14 DEF PageTypes
        <3>2. view' \in [Pages -> Seq(Shown)]
            BY <1>0, <1>17, <1>18 DEF PageTypes
        <3>3. acc' \in [Pages -> Texts]
            BY <1>0, <1>3, <1>9 DEF PageTypes
        <3> QED
            BY <3>1, <3>2, <3>3
    <2>2. /\ active' \in [Pages -> Nat] /\ current' \in [Pages -> Nat]
          /\ sending' \in [Pages -> BOOLEAN] /\ session' \in [Pages -> Nat]
          /\ mount' \in [Pages -> {"unborn", "mounted", "gone"}] /\ ids' \in 0 .. MaxIds
        BY <1>0, <1>3, <1>4, <1>6 DEF PageTypes
    <2> QED
        BY <1>3, <1>6, <1>12, <2>1, <2>2 DEF PageTypes
<1>21. /\ view'[p] = w /\ list'[p] = k /\ active'[p] = id /\ current'[p] = s
       /\ acc'[p] = NoText /\ sending'[p] = TRUE /\ session'[p] = id /\ mount'[p] = mount[p]
    BY <1>0, <1>2, <1>3, <1>14, <1>18 DEF PageTypes
<1>22. Moves(p)
    BY <1>0, <1>3, <1>6, <1>14, <1>18 DEF Moves, PageTypes
<1>23. Live(s)'
    BY <1>5, <1>6 DEF Live
<1>24. StreamsInv'
    <2>1. Told' <= MaxEvents
        <3>1. ToldBy(streams') = ToldBy(streams)
            <4>1. streams \in Seq(Stream)
                BY <1>0 DEF PageTypes
            <4> QED
                BY <1>3, <1>5, <4>1, ToldOfNew
        <3> QED
            BY <1>0, <3>1, ToldIs DEF StreamsInv
    <2>2. ASSUME NEW t \in 1 .. Len(streams)
          PROVE  /\ streams'[t].session \in 1 .. ids'
                 /\ Live(t)' => /\ current'[streams'[t].page] = t
                                /\ session'[streams'[t].page] = streams'[t].session
        <3>1. /\ streams[t].page \in Pages /\ streams[t].session \in 1 .. ids
              /\ Live(t) => /\ current[streams[t].page] = t
                            /\ session[streams[t].page] = streams[t].session
              /\ t # 0
            BY StreamHere
        <3>2. streams'[t] = streams[t] /\ (Live(t)' => Live(t)) /\ ids' = ids
            BY <1>3, <1>6 DEF Live
        <3>3. CASE streams[t].page = p
            BY <1>3, <1>4, <3>1, <3>2, <3>3 DEF MountedInv
        <3>4. CASE streams[t].page # p
            BY <1>22, <3>1, <3>2, <3>4 DEF Moves
        <3> QED
            BY <3>3, <3>4
    <2>3. /\ streams'[s].session \in 1 .. ids'
          /\ current'[streams'[s].page] = s
          /\ session'[streams'[s].page] = streams'[s].session
        BY <1>3, <1>4, <1>5, <1>6, <1>21
    <2> QED
        BY <1>6, <2>1, <2>2, <2>3 DEF StreamsInv
<1>25. RefsInv(p)'
    <2>1. current'[p] \in 0 .. Len(streams') /\ session'[p] \in 0 .. ids'
        BY <1>3, <1>4, <1>6, <1>21
    <2>2. streams'[current'[p]].page = p
        BY <1>5, <1>6, <1>21
    <2>3. TextOf(current[p])' = acc'[p]
        <3>1. TextOf(current[p])' = TextOf(s)'
            BY <1>21 DEF TextOf, Streamed
        <3> QED
            BY <1>8, <1>21, <3>1
    <2>4. current'[p] # 0
        BY <1>6, <1>21
    <2> QED
        BY <2>1, <2>2, <2>3, <2>4 DEF RefsInv
<1>26. MountedInv(p)'
    <2>1. ASSUME NEW i \in 1 .. M PROVE ShownInv(w[i], p)'
        <3>1. PICK z : z = view[p][i]
            OBVIOUS
        <3>2. ShownInv(z, p)
            BY <1>3, <1>19, <3>1, Here
        <3>3. streams'[z.send].log = streams[z.send].log
            BY <1>6, <3>2 DEF ShownInv
        <3>4. session'[p] = session[p]
            BY <1>3
        <3>5. ShownInv(z, p)'
            BY <1>7, <3>2, <3>3, <3>4, ShownStays
        <3>6. view'[p][i] = z
            BY <1>17, <1>21, <3>1
        <3> QED
            BY <1>21, <3>5, <3>6
    <2>2. ShownInv(u, p)'
        BY <1>5, <1>6, <1>16, <1>21 DEF ShownInv
    <2>3. ShownInv(b, p)'
        <3>1. BubbleInv(b, p)'
            BY <1>5, <1>6, <1>8, <1>16, <1>23 DEF BubbleInv, Thinks, NoText, Events
        <3> QED
            BY <1>5, <1>6, <1>16, <1>21, <3>1 DEF ShownInv
    <2>4. ASSUME NEW i \in 1 .. M + 2 PROVE ShownInv(view[p][i], p)'
        <3>1. i \in 1 .. M \/ i = M + 1 \/ i = M + 2
            BY <1>19
        <3>2. PICK z : z = w[i]
            OBVIOUS
        <3>3. ShownInv(z, p)'
            BY <1>17, <2>1, <2>2, <2>3, <3>1, <3>2
        <3>4. view'[p][i] = z
            BY <1>21, <3>2
        <3> QED
            BY <3>3, <3>4 DEF ShownInv, BubbleInv
    <2>5. sending'[p] <=> current'[p] # 0 /\ Live(current[p])'
        BY <1>6, <1>21, <1>23 DEF Live
    <2>6. w # <<>> /\ w[Len(w)].id = s
        BY <1>16, <1>17, <1>19, EmptySeq
    <2> QED
        BY <1>4, <1>17, <1>21, <2>4, <2>5, <2>6 DEF MountedInv
<1>27. ListInv(p)'
    BY <1>4, <1>13, <1>15, <1>21 DEF ListInv
<1>28. PageInv(p)'
    BY <1>3, <1>25, <1>26, <1>27 DEF PageInv, Mounted
<1> QED
    BY <1>7, <1>12, <1>20, <1>22, <1>24, <1>28, Joined

\* The answer of stream s is finished: it is stored, and shown if the page is.
LEMMA PageOnFinal ==
    ASSUME CInv, NEW s \in 1 .. Len(streams), OnFinal(s)
    PROVE  CInv'
<1>1. PICK p : p = streams[s].page
    OBVIOUS
<1>2. PICK text : text = acc[p]
    OBVIOUS
<1>3. PICK id : id = session[p]
    OBVIOUS
<1> DEFINE m == Stored("assistant", s, text)
           Ans(z) == Answered(z, text)
           n == [i \in DOMAIN view[p] |-> Ans(view[p][i])]
<1>4. /\ Live(s) /\ streams[s].state = "open" /\ EndStream(s, "finished")
      /\ Patch(p, [i \in DOMAIN view[p] |-> Answered(view[p][i], acc[p])])
      /\ AppendMessage(id, m) /\ Refresh(p)
      /\ sending' = [sending EXCEPT ![p] = FALSE]
      /\ UNCHANGED <<ids, mount, active, refs>>
      /\ UNCHANGED <<ids, mount, active, session, current, acc>>
    BY <1>1, <1>2, <1>3 DEF OnFinal, NotSending, refs, Live
<1>5. /\ p \in Pages /\ current[p] = s /\ id = streams[s].session /\ id \in 1 .. ids
      /\ s \in Nat /\ s # 0
    BY <1>1, <1>3, <1>4, StreamHere
<1>6. /\ PageTypes /\ PageInv(p) /\ ids \in Nat /\ ids <= ids' /\ ids' \in Nat
      /\ Len(streams) \in Nat /\ Len(view[p]) \in Nat
      /\ DOMAIN (view[p]) = 1 .. Len(view[p]) /\ text \in Texts
    BY <1>2, <1>4, <1>5, PageHere
<1>7. text = TextOf(s)
    BY <1>2, <1>5, <1>6 DEF PageInv, RefsInv
<1>8. /\ StatesMove(p) /\ streams'[s].state = "finished"
      /\ \A t \in 1 .. Len(streams) : t # s => streams'[t] = streams[t]
    BY <1>1, <1>4, EndMoves
<1>9. /\ Onward
      /\ \A t \in 1 .. Len(streams) : streams'[t].log = streams[t].log
    BY <1>5, <1>6, <1>8, StatesMoveFacts
<1>10. /\ TextOf(s)' = text /\ Finished(s)' /\ ~Live(s)' /\ ~Finished(s)
       /\ s \in 1 .. Len(streams') /\ streams'[s].session = id /\ streams'[s].page = p
    <2>1. TextOf(s)' = TextOf(s)
        BY <1>9, SameText
    <2> QED
        BY <1>1, <1>4, <1>5, <1>7, <1>8, <1>9, <2>1 DEF Onward, Finished, Live
<1>11. m \in Said /\ m.role = "assistant" /\ m.send = s /\ m.text = text
    BY <1>5, <1>6 DEF Stored, Said, Role
<1> HIDE DEF m
<1>12. Says(id, m)
    <2>1. SaidInv(m, id)'
        BY <1>10, <1>11 DEF SaidInv
    <2>2. \A t \in 1 .. Len(streams) : Finished(t)' =>
             Finished(t) \/ (m.role = "assistant" /\ m.send = t /\ streams[t].session = id)
        BY <1>5, <1>8, <1>11 DEF Finished
    <2> QED
        BY <1>5, <1>10, <1>11, <2>1, <2>2 DEF Says
<1>13. /\ StoreInv' /\ store' \in Seq(Convo) /\ Len(store') <= MaxConvos
       /\ ~QuotaFails => Len(store') \in Nat /\ 1 <= Len(store') /\ store'[1].id = id
    BY <1>4, <1>6, <1>9, <1>12, MessageSaved
<1>14. PICK k : k = IF Mounted(p) THEN Entries(store') ELSE list[p]
    OBVIOUS
<1>15. k \in Seq(Nat) /\ list' = [list EXCEPT ![p] = k]
    <2>1. k \in Seq(Nat)
        BY <1>5, <1>13, <1>14, EntriesFacts, PageHere
    <2>2. list' = [list EXCEPT ![p] = IF Mounted(p) THEN Entries(store') ELSE @]
        BY <1>4 DEF Refresh
    <2> QED
        BY <1>5, <1>6, <1>14, <2>1, <2>2 DEF PageTypes
<1>16. ASSUME NEW z \in Shown
       PROVE  /\ Ans(z) \in Shown /\ Ans(z).role = z.role /\ Ans(z).send = z.send
              /\ Ans(z).id = z.id /\ Ans(z).text = text /\ Ans(z).meta = TRUE
              /\ ~Ans(z).error /\ ~Ans(z).loading /\ ~Ans(z).streaming
    BY <1>6 DEF Shown, Answered, Ended
<1>17. \A i \in 1 .. Len(view[p]) : view[p][i] \in Shown /\ n[i] = Ans(view[p][i])
    BY <1>5, <1>6, PageHere, ElementOfSeq
<1>18. PICK v : v = Patched(p, n)
    OBVIOUS
<1>19. view' = [view EXCEPT ![p] = v]
    BY <1>2, <1>4, <1>6, <1>18 DEF Patch
<1> HIDE DEF Ans, n
<1>20. /\ v \in Seq(Shown) /\ Len(v) = Len(view[p])
       /\ \A i \in 1 .. Len(view[p]) :
             /\ v[i] = IF current[p] # 0 /\ view[p][i].id = current[p] THEN n[i]
                                                                      ELSE view[p][i]
             /\ v[i].id = view[p][i].id
    <2>1. \A i \in 1 .. Len(view[p]) : n[i] \in Shown /\ n[i].id = view[p][i].id
        BY <1>16, <1>17
    <2> QED
        BY <1>5, <1>18, <2>1, PatchedFacts
<1>21. ASSUME Mounted(p), NEW i \in 1 .. Len(v) PROVE ShownInv(v[i], p)'
    <2>1. PICK z : z = view[p][i]
        OBVIOUS
    <2>2. ShownInv(z, p) /\ z \in Shown /\ i \in 1 .. Len(view[p])
        BY <1>5, <1>17, <1>20, <1>21, <2>1, Here
    <2>3. ShownInv(z, p)'
        <3>1. session'[p] = session[p]
            BY <1>4
        <3> QED
            BY <1>5, <1>6, <1>8, <2>2, <3>1, MessageStays
    <2>4. CASE z.id = current[p]
        <3>1. z.role = "assistant" /\ z.send = s /\ BubbleInv(z, p)'
            BY <1>5, <1>20, <1>21, <2>1, <2>3, <2>4, Here DEF ShownInv
        <3>2. PICK y : y = Ans(z)
            OBVIOUS
        <3>3. v[i] = y
            BY <1>5, <1>17, <1>20, <2>1, <2>2, <2>4, <3>2
        <3>4. BubbleInv(y, p)'
            BY <1>10, <1>16, <2>2, <3>1, <3>2 DEF BubbleInv
        <3>5. ShownInv(y, p)'
            BY <1>16, <2>2, <2>3, <3>1, <3>2, <3>4 DEF ShownInv
        <3> QED
            BY <3>3, <3>5
    <2>5. CASE z.id # current[p]
        <3>1. v[i] = z
            BY <1>20, <2>1, <2>2, <2>5
        <3> QED
            BY <2>3, <3>1
    <2> QED
        BY <2>4, <2>5
<1>22. \A t \in 1 .. Len(streams) : t = current[p] => ~Live(t)'
    BY <1>5, <1>10
<1>23. ASSUME Mounted(p) PROVE ListInv(p)'
    <2>1. ListInv(p) /\ session[p] # 0
        BY <1>6, <1>23 DEF PageInv, MountedInv
    <2>2. /\ list'[p] = Entries(store') /\ active'[p] = active[p]
          /\ session'[p] = session[p] /\ view'[p] = v
        BY <1>4, <1>5, <1>6, <1>14, <1>15, <1>19, <1>23 DEF PageTypes
    <2> DEFINE e == Entries(store')
               N == Len(store')
    <2>3. /\ Len(e) = N /\ N \in Nat
          /\ \A i \in 1 .. N : e[i] = store'[i].id /\ e[i] \in 1 .. ids'
          /\ \A i, j \in 1 .. N : e[i] = e[j] => i = j
        BY <1>13, EntriesFacts, LenProperties
    <2>4. ~QuotaFails => \E i \in 1 .. N : e[i] = id
        <3>1. ~QuotaFails => 1 \in 1 .. N /\ store'[1].id = id
            BY <1>13, <2>3
        <3> QED
            BY <2>3, <3>1
    <2>5. view[p] = <<>> => v = <<>>
        <3>1. view[p] = <<>> => Len(v) = 0
            BY <1>20
        <3> QED
            BY <1>20, <3>1, EmptySeq
    <2>6. list'[p] = e
        BY <2>2
    <2> HIDE DEF e, N
    <2> QED
        BY <1>3, <2>1, <2>2, <2>3, <2>4, <2>5, <2>6 DEF ListInv
<1>24. PageTypes' /\ Moves(p) /\ PageInv(p)'
    <2>1. \A i \in 1 .. Len(v) :
              v[i].id = view[p][i].id /\ (Mounted(p) => ShownInv(v[i], p)')
        BY <1>20, <1>21
    <2> QED
        BY <1>4, <1>5, <1>8, <1>13, <1>15, <1>19, <1>20, <1>22, <1>23, <2>1,
           NoneLive, PagePatched
<1>25. StreamsInv'
    <2>1. ASSUME NEW t \in 1 .. Len(streams), streams[t].page = p, Live(t)'
          PROVE  current'[p] = t /\ session'[p] = streams[t].session
        <3>1. Live(t)
            BY <1>9, <2>1 DEF Onward
        <3> QED
            BY <1>4, <2>1, <3>1, StreamHere
    <2> QED
        BY <1>5, <1>6, <1>8, <1>24, <2>1, StreamsKept
<1> QED
    BY <1>5, <1>6, <1>9, <1>13, <1>24, <1>25, Joined

\* Stream s tells an event, and the page takes it in.
LEMMA PageHear ==
    ASSUME CInv, NEW s \in 1 .. Len(streams), NEW kind \in Events, Hear(s, kind)
    PROVE  CInv'
<1>1. PICK p : p = streams[s].page
    OBVIOUS
<1>2. PICK text : text = Append(acc[p][kind], <<s, Len(streams[s].log) + 1>>)
    OBVIOUS
<1> DEFINE Hd(z) == Heard(z, kind, text)
           n == [i \in DOMAIN view[p] |-> Hd(view[p][i])]
<1>3. /\ Live(s) /\ streams[s].state = "open" /\ Told < MaxEvents
      /\ streams' = [streams EXCEPT ![s].log = Append(@, kind)]
      /\ acc' = [acc EXCEPT ![p][kind] = text]
      /\ Patch(p, [i \in DOMAIN view[p] |-> Heard(view[p][i], kind, text)])
      /\ UNCHANGED <<store, ids, mount, list, active, sending, session, current>>
    BY <1>1, <1>2 DEF Hear, Live
<1>4. /\ p \in Pages /\ current[p] = s /\ streams[s].log \in Seq(Events)
      /\ s \in Nat /\ s # 0 /\ streams[s] \in Stream
    BY <1>1, <1>3, StreamHere
<1>5. /\ PageTypes /\ PageInv(p) /\ StreamsInv /\ StoreInv /\ ids \in Nat
      /\ Len(streams) \in Nat /\ DOMAIN streams = 1 .. Len(streams)
      /\ Len(view[p]) \in Nat /\ DOMAIN (view[p]) = 1 .. Len(view[p])
    BY <1>4, PageHere
<1>6. acc[p] = TextOf(s) /\ acc[p] \in Texts
    BY <1>4, <1>5, PageHere DEF PageInv, RefsInv
<1> DEFINE l == Append(streams[s].log, kind)
           x == [streams[s] EXCEPT !.log = l]
<1>7. l \in Seq(Events) /\ Len(l) = Len(streams[s].log) + 1
    BY <1>4, AppendProperties
<1>8. /\ x \in Stream /\ x.page = p /\ x.session = streams[s].session /\ x.log = l
      /\ x.state = "open"
    <2> HIDE DEF l
    <2> QED
        BY <1>1, <1>3, <1>4, <1>7 DEF Stream
<1>9. streams' = [streams EXCEPT ![s] = x]
    BY <1>3, <1>5
<1> HIDE DEF l, x
<1>10. /\ streams' \in Seq(Stream) /\ Len(streams') = Len(streams)
       /\ streams'[s] = x
       /\ \A t \in 1 .. Len(streams) : t # s => streams'[t] = streams[t]
    <2>1. streams \in Seq(Stream)
        BY <1>5 DEF PageTypes
    <2> QED
        BY <1>5, <1>8, <1>9, <2>1, ExceptSeq
<1>11. /\ TextOf(s)' = [acc[p] EXCEPT ![kind] = text]
       /\ streams'[s].log = Append(streams[s].log, kind)
    <2>1. streams'[s].log = Append(streams[s].log, kind)
        BY <1>8, <1>10 DEF l
    <2> QED
        BY <1>2, <1>4, <1>6, <2>1, OneMoreTold
<1>12. text \in Seq(Nat \X Nat)
    <2>1. /\ acc[p][kind] \in Seq(Nat \X Nat)
          /\ <<s, Len(streams[s].log) + 1>> \in Nat \X Nat
        BY <1>4, <1>6, LenProperties DEF Texts
    <2> QED
        BY <1>2, <2>1, AppendProperties
<1>13. PICK a : a = [acc[p] EXCEPT ![kind] = text]
    OBVIOUS
<1>14. a \in Texts /\ acc' = [acc EXCEPT ![p] = a] /\ TextOf(s)' = a
    BY <1>3, <1>4, <1>5, <1>6, <1>11, <1>12, <1>13 DEF Texts, PageTypes
<1>15. Onward /\ ids' \in Nat
    <2>1. \A t \in 1 .. Len(streams) :
              /\ t \in 1 .. Len(streams')
              /\ streams'[t].page = streams[t].page
              /\ streams'[t].session = streams[t].session
              /\ Finished(t) => Finished(t)' /\ streams'[t].log = streams[t].log
              /\ Live(t)' => Live(t)
        BY <1>1, <1>3, <1>8, <1>10 DEF Finished, Live
    <2> QED
        BY <1>3, <1>5, <2>1 DEF Onward
<1>16. Live(s)' /\ ~Finished(s) /\ ~Finished(s)'
    BY <1>3, <1>8, <1>10 DEF Live, Finished
<1>17. StoreInv'
    <2>1. \A t \in 1 .. Len(streams) : Finished(t)' => Finished(t)
        BY <1>10, <1>16 DEF Finished
    <2> QED
        BY <1>3, <1>5, <1>15, <2>1, AllSettled, StoreSame
<1>18. ASSUME NEW z \in Shown
       PROVE  /\ Hd(z) \in Shown /\ Hd(z).role = z.role /\ Hd(z).send = z.send
              /\ Hd(z).id = z.id /\ Hd(z).text = [z.text EXCEPT ![kind] = text]
              /\ Hd(z).meta = z.meta /\ Hd(z).error = z.error
              /\ Hd(z).loading = (z.loading /\ kind = "events")
              /\ Hd(z).streaming = (z.streaming \/ kind # "events")
    <2>1. z.text \in Texts /\ z.loading \in BOOLEAN /\ z.streaming \in BOOLEAN
        BY DEF Shown
    <2>2. [z.text EXCEPT ![kind] = text] \in Texts
        BY <1>12, <2>1 DEF Texts
    <2> DEFINE w == [z.text EXCEPT ![kind] = text]
               f == z.loading /\ kind = "events"
               g == z.streaming \/ kind # "events"
    <2>3. Hd(z) = [z EXCEPT !.text = w, !.loading = f, !.streaming = g]
        BY DEF Heard, Shown
    <2>4. w \in Texts /\ f \in BOOLEAN /\ g \in BOOLEAN
        BY <2>2
    <2> HIDE DEF w, f, g, Hd
    <2>5. /\ Hd(z) \in Shown /\ Hd(z).role = z.role /\ Hd(z).send = z.send
          /\ Hd(z).id = z.id /\ Hd(z).text = w /\ Hd(z).meta = z.meta
          /\ Hd(z).error = z.error /\ Hd(z).loading = f /\ Hd(z).streaming = g
        BY <2>3, <2>4 DEF Shown
    <2> QED
        BY <2>5 DEF w, f, g
<1>19. \A i \in 1 .. Len(view[p]) : view[p][i] \in Shown /\ n[i] = Hd(view[p][i])
    BY <1>4, <1>5, PageHere, ElementOfSeq
<1>20. PICK v : v = Patched(p, n)
    OBVIOUS
<1>21. view' = [view EXCEPT ![p] = v]
    BY <1>3, <1>5, <1>20 DEF Patch
<1> HIDE DEF Hd, n
<1>22. /\ v \in Seq(Shown) /\ Len(v) = Len(view[p])
       /\ \A i \in 1 .. Len(view[p]) :
             /\ v[i] = IF current[p] # 0 /\ view[p][i].id = current[p] THEN n[i]
                                                                      ELSE view[p][i]
             /\ v[i].id = view[p][i].id
    <2>1. \A i \in 1 .. Len(view[p]) : n[i] \in Shown /\ n[i].id = view[p][i].id
        BY <1>18, <1>19
    <2> QED
        BY <1>4, <1>20, <2>1, PatchedFacts
<1>23. ASSUME Mounted(p), NEW i \in 1 .. Len(v) PROVE ShownInv(v[i], p)'
    <2>1. PICK z : z = view[p][i]
        OBVIOUS
    <2>2. ShownInv(z, p) /\ z \in Shown /\ i \in 1 .. Len(view[p])
        BY <1>4, <1>19, <1>22, <1>23, <2>1, Here
    <2>3. session'[p] = session[p]
        BY <1>3
    <2>4. CASE z.id = current[p]
        <3>1. z.role = "assistant" /\ z.send = s /\ BubbleInv(z, p)
            BY <1>4, <1>22, <1>23, <2>1, <2>4, Here
        <3>2. PICK y : y = Hd(z)
            OBVIOUS
        <3>3. v[i] = y
            BY <1>4, <1>19, <1>22, <2>1, <2>2, <2>4, <3>2
        <3>4. /\ y.role = "assistant" /\ y.send = s /\ y.id = s
              /\ y.text = [z.text EXCEPT ![kind] = text]
            BY <1>4, <1>18, <2>2, <2>4, <3>1, <3>2
        <3>12. /\ y.meta <=> z.meta
               /\ y.error <=> z.error
               /\ y.loading <=> z.loading /\ kind = "events"
               /\ y.streaming <=> z.streaming \/ kind # "events"
            BY <1>18, <2>2, <3>2
        <3>5. /\ z.text = TextOf(s) /\ ~z.meta /\ ~z.error /\ (Thinks(z) \/ z.streaming)
            BY <1>3, <1>16, <3>1 DEF BubbleInv
        <3>6. y.text = TextOf(s)'
            <4>1. y.text = a
                BY <1>6, <1>13, <3>4, <3>5
            <4> QED
                BY <1>14, <4>1
        <3>7. Thinks(y) \/ y.streaming
            <4>1. CASE kind = "events"
                <5>1. z.text \in Texts /\ "content" \in Events /\ "content" # kind
                    BY <2>2, <4>1 DEF Shown, Events
                <5>2. y.text["content"] = z.text["content"]
                    BY <3>4, <5>1 DEF Texts
                <5> QED
                    BY <3>5, <3>12, <4>1, <5>2 DEF Thinks
            <4>2. CASE kind # "events"
                BY <3>12, <4>2
            <4> QED
                BY <4>1, <4>2
        <3>8. streams'[s].page = p
            BY <1>8, <1>10
        <3>9. BubbleInv(y, p)'
            <4>1. ~y.meta /\ ~y.error
                BY <3>5, <3>12
            <4> QED
                BY <1>4, <3>4, <3>6, <3>7, <3>8, <4>1 DEF BubbleInv, Thinks
        <3>10. /\ s \in 1 .. Len(streams') /\ streams'[s].session = session'[p]
            BY <1>8, <1>10, <2>2, <2>3, <3>1 DEF ShownInv
        <3>11. ShownInv(y, p)'
            BY <3>4, <3>9, <3>10 DEF ShownInv
        <3> QED
            BY <3>3, <3>11
    <2>5. CASE z.id # current[p]
        <3>1. v[i] = z
            BY <1>22, <2>1, <2>2, <2>5
        <3>2. ASSUME z.role = "assistant" PROVE streams'[z.send].log = streams[z.send].log
            <4>1. z.send # s /\ z.send \in 1 .. Len(streams)
                BY <1>4, <1>16, <2>2, <2>5, <3>2 DEF ShownInv, BubbleInv
            <4> QED
                BY <1>10, <4>1
        <3>3. ShownInv(z, p)'
            BY <1>15, <2>2, <2>3, <3>2, ShownStays
        <3> QED
            BY <3>1, <3>3
    <2> QED
        BY <2>4, <2>5
<1>24. PageTypes'
    <2>1. view' \in [Pages -> Seq(Shown)] /\ acc' \in [Pages -> Texts]
        BY <1>5, <1>14, <1>21, <1>22 DEF PageTypes
    <2> QED
        BY <1>3, <1>5, <1>10, <2>1 DEF PageTypes
<1>25. /\ view'[p] = v /\ acc'[p] = a /\ current'[p] = s /\ sending'[p] = sending[p]
       /\ session'[p] = session[p] /\ active'[p] = active[p] /\ list'[p] = list[p]
    BY <1>3, <1>4, <1>5, <1>14, <1>21 DEF PageTypes
<1>26. Moves(p)
    BY <1>1, <1>3, <1>5, <1>10, <1>14, <1>21 DEF Moves, PageTypes
<1>27. StreamsInv'
    <2>1. Told' <= MaxEvents
        <3>1. streams \in Seq(Stream)
            BY <1>5 DEF PageTypes
        <3>2. MoreTold(streams, streams', Len(streams), s, 1)
            BY <1>7, <1>8, <1>10 DEF MoreTold
        <3>3. ToldBy(streams) \in Nat /\ ToldBy(streams') = ToldBy(streams) + 1
            BY <1>4, <1>10, <3>1, <3>2, ToldMore
        <3> QED
            BY <1>3, <3>3, ToldIs, BoundsAssumption
    <2>2. ASSUME NEW t \in 1 .. Len(streams)
          PROVE  /\ streams'[t].session \in 1 .. ids'
                 /\ Live(t)' => /\ current'[streams'[t].page] = t
                                /\ session'[streams'[t].page] = streams'[t].session
        BY <1>3, <1>15, StreamHere DEF Onward
    <2> QED
        BY <1>10, <2>1, <2>2 DEF StreamsInv
<1>28. RefsInv(p)'
    <2>1. current'[p] \in 0 .. Len(streams') /\ session'[p] \in 0 .. ids'
        BY <1>3, <1>5, <1>10, <1>25 DEF PageInv, RefsInv
    <2>2. TextOf(current[p])' = acc'[p]
        <3>1. TextOf(current[p])' = TextOf(s)'
            BY <1>25 DEF TextOf, Streamed
        <3> QED
            BY <1>14, <1>25, <3>1
    <2>3. streams'[current'[p]].page = p /\ current'[p] # 0
        BY <1>4, <1>8, <1>10, <1>25
    <2> QED
        BY <2>1, <2>2, <2>3 DEF RefsInv
<1>29. ASSUME Mounted(p) PROVE MountedInv(p)' /\ ListInv(p)'
    <2>1. MountedInv(p) /\ ListInv(p)
        BY <1>5, <1>29 DEF PageInv
    <2>2. ASSUME NEW i \in 1 .. Len(v) PROVE ShownInv(view[p][i], p)'
        <3>1. PICK z : z = v[i]
            OBVIOUS
        <3>2. ShownInv(z, p)' /\ view'[p][i] = z
            BY <1>23, <1>25, <1>29, <3>1
        <3> QED
            BY <3>2 DEF ShownInv, BubbleInv
    <2>3. sending[p] /\ Live(s)'
        BY <1>3, <1>4, <1>16, <2>1 DEF MountedInv
    <2>4. v # <<>> /\ v[Len(v)].id = s
        <3>1. view[p] # <<>> /\ view[p][Len(view[p])].id = s
            BY <1>4, <2>1, <2>3 DEF MountedInv
        <3>2. Len(view[p]) # 0
            BY <1>4, <3>1, PageHere, EmptySeq
        <3>3. Len(v) # 0 /\ Len(v) \in 1 .. Len(view[p])
            BY <1>5, <1>22, <3>2
        <3>4. v[Len(v)].id = view[p][Len(v)].id
            BY <1>22, <3>3
        <3>5. v # <<>>
            BY <3>3, EmptySeq
        <3> QED
            BY <1>22, <3>1, <3>4, <3>5
    <2>5. sending'[p] <=> current'[p] # 0 /\ Live(current[p])'
        BY <1>4, <1>25, <2>3 DEF Live
    <2>6. MountedInv(p)'
        BY <1>25, <2>1, <2>2, <2>4, <2>5 DEF MountedInv
    <2>7. ListInv(p)'
        <3>1. UNCHANGED ids
            BY <1>3
        <3>2. view[p] = <<>> => view'[p] = <<>>
            <4>1. view[p] # <<>>
                BY <2>1, <2>3 DEF MountedInv
            <4> QED
                BY <4>1
        <3> QED
            BY <1>4, <1>25, <1>29, <3>1, <3>2, ListStays
    <2> QED
        BY <2>6, <2>7
<1>30. ASSUME ~Mounted(p) PROVE view'[p] = <<>> /\ ~sending'[p] /\ active'[p] = 0
    <2>1. view[p] = <<>> /\ active[p] = 0 /\ ~sending[p]
        BY <1>5, <1>30 DEF PageInv
    <2>2. Len(v) = 0
        BY <1>22, <2>1
    <2> QED
        BY <1>22, <1>25, <2>1, <2>2, EmptySeq
<1>31. PageInv(p)'
    <2>1. Mounted(p)' <=> Mounted(p)
        BY <1>3 DEF Mounted
    <2> QED
        BY <1>28, <1>29, <1>30, <2>1 DEF PageInv
<1> QED
    BY <1>4, <1>15, <1>17, <1>24, <1>26, <1>27, <1>31, Joined
-----------------------------------------------------------------------------
(* The invariant. *)

\* The invariant holds at the start.
LEMMA PageInit == Init => CInv
<1> SUFFICES ASSUME Init PROVE CInv
    OBVIOUS
<1>1. /\ store = <<>> /\ ids = 0 /\ streams = <<>>
      /\ mount = [p \in Pages |-> "unborn"] /\ list = [p \in Pages |-> <<>>]
      /\ active = [p \in Pages |-> 0] /\ view = [p \in Pages |-> <<>>]
      /\ sending = [p \in Pages |-> FALSE] /\ session = [p \in Pages |-> 0]
      /\ current = [p \in Pages |-> 0] /\ acc = [p \in Pages |-> NoText]
    BY DEF Init
<1>2. /\ Len(streams) = 0 /\ Len(store) = 0
      /\ streams \in Seq(Stream) /\ store \in Seq(Convo)
      /\ \A S : <<>> \in Seq(S)
    BY <1>1, EmptySeq
<1>3. PageTypes
    <2>1. NoText \in Texts
        BY <1>2 DEF NoText, Texts
    <2>2. ids \in 0 .. MaxIds /\ Len(streams) <= MaxSends /\ Len(store) <= MaxConvos
        BY <1>1, <1>2, BoundsAssumption, MaxConvosAssumption
    <2>3. list \in [Pages -> Seq(Nat)] /\ view \in [Pages -> Seq(Shown)]
        BY <1>1, <1>2
    <2>4. /\ mount \in [Pages -> {"unborn", "mounted", "gone"}]
          /\ active \in [Pages -> Nat] /\ sending \in [Pages -> BOOLEAN]
          /\ session \in [Pages -> Nat] /\ current \in [Pages -> Nat]
          /\ acc \in [Pages -> Texts]
        BY <1>1, <2>1
    <2> QED
        BY <1>2, <2>2, <2>3, <2>4 DEF PageTypes
<1>4. StreamsInv
    <2>1. Told = 0
        <3>1. PICK t : Sums(t, streams, Len(streams)) /\ ToldBy(streams) = t[Len(streams)]
            BY <1>2, ToldSums
        <3> QED
            BY <1>2, <3>1, ToldIs DEF Sums
    <2>2. \A s \in 1 .. Len(streams) : FALSE
        BY <1>2
    <2> QED
        BY <2>1, <2>2, BoundsAssumption DEF StreamsInv
<1>5. StoreInv
    BY <1>2 DEF StoreInv
<1>6. PagesInv
    <2> SUFFICES ASSUME NEW p \in Pages PROVE PageInv(p)
        BY DEF PagesInv
    <2>1. ~Mounted(p)
        BY <1>1 DEF Mounted
    <2>2. RefsInv(p)
        BY <1>1, <1>2 DEF RefsInv
    <2> QED
        BY <1>1, <2>1, <2>2 DEF PageInv
<1> QED
    BY <1>3, <1>4, <1>5, <1>6 DEF CInv

\* Nothing changes.
LEMMA PageStutters ==
    ASSUME CInv, UNCHANGED vars
    PROVE  CInv'
<1>1. /\ store' = store /\ ids' = ids /\ streams' = streams /\ mount' = mount
      /\ list' = list /\ active' = active /\ view' = view /\ sending' = sending
      /\ session' = session /\ current' = current /\ acc' = acc
    BY DEF vars
<1>2. PageTypes'
    BY <1>1 DEF CInv, PageTypes
<1>3. StreamsInv'
    BY <1>1 DEF CInv, StreamsInv, Told, Live
<1>4. StoreInv'
    <2>1. ids \in Nat
        BY AnyTime
    <2>2. Onward
        BY <1>1, <2>1 DEF Onward, Finished, Live
    <2>3. \A t \in 1 .. Len(streams) : Finished(t)' => Finished(t)
        BY <1>1 DEF Finished
    <2> QED
        BY <1>1, <2>1, <2>2, <2>3, AllSettled, StoreSame DEF CInv
<1>5. ASSUME NEW p \in Pages PROVE PageInv(p)'
    <2>1. PageInv(p)
        BY DEF CInv, PagesInv
    <2>2. RefsInv(p)'
        BY <1>1, <2>1 DEF PageInv, RefsInv, TextOf, Streamed
    <2>3. MountedInv(p) => MountedInv(p)'
        BY <1>1 DEF MountedInv, ShownInv, BubbleInv, Live, Finished, TextOf, Streamed
    <2>4. ListInv(p) => ListInv(p)'
        BY <1>1 DEF ListInv
    <2> QED
        BY <1>1, <2>1, <2>2, <2>3, <2>4 DEF PageInv, Mounted
<1> QED
    BY <1>2, <1>3, <1>4, <1>5 DEF CInv, PagesInv

\* Every step keeps the invariant.
LEMMA PageNext ==
    ASSUME CInv, [Next]_vars
    PROVE  CInv'
<1>1. ASSUME NEW p \in Pages, Mount(p) PROVE CInv'
    BY <1>1, PageMount
<1>2. ASSUME NEW p \in Pages, NewChat(p) PROVE CInv'
    BY <1>2, PageNewChat
<1>3. ASSUME NEW p \in Pages, Select(p) PROVE CInv'
    BY <1>3, PageSelect
<1>4. ASSUME NEW p \in Pages, Send(p) PROVE CInv'
    BY <1>4, PageSend
<1>5. ASSUME NEW p \in Pages, Leave(p) PROVE CInv'
    BY <1>5, PageLeave
<1>6. ASSUME NEW p \in Pages, CloseTab(p) PROVE CInv'
    BY <1>6, PageCloseTab
<1>7. ASSUME NEW s \in DOMAIN streams
      PROVE  s \in 1 .. Len(streams)
    BY LenProperties DEF CInv, PageTypes
<1>8. ASSUME NEW s \in 1 .. Len(streams), NEW kind \in Kinds, Hear(s, kind) PROVE CInv'
    <2>1. kind \in Events
        BY BoundsAssumption DEF Events
    <2> QED
        BY <1>8, <2>1, PageHear
<1>9. ASSUME NEW s \in 1 .. Len(streams), Refuse(s) PROVE CInv'
    BY <1>9, PageRefuse
<1>10. ASSUME NEW s \in 1 .. Len(streams), OnFinal(s) PROVE CInv'
    BY <1>10, PageOnFinal
<1>11. ASSUME NEW s \in 1 .. Len(streams), OnError(s) PROVE CInv'
    BY <1>11, PageOnError
<1>12. ASSUME NEW s \in 1 .. Len(streams), EndsSilently(s) PROVE CInv'
    BY <1>12, PageEndsSilently
<1>13. CASE UNCHANGED vars
    BY <1>13, PageStutters
<1> QED
    BY <1>1, <1>2, <1>3, <1>4, <1>5, <1>6, <1>7, <1>8, <1>9, <1>10, <1>11, <1>12, <1>13
       DEF Next

\* The invariant holds always.
LEMMA PageInvariant == Spec => []CInv
<1>1. CInv /\ [Next]_vars => CInv'
    BY PageNext
<1> QED
    BY PageInit, <1>1, PTL DEF Spec

-----------------------------------------------------------------------------
(* What follows from it. *)

\* Chat.jsx:84-98. Every state has the types TypeOK says: among others, what a
\* page has heard are events of streams that were opened, and no two stored
\* conversations share an id.
THEOREM TypeCorrect == Spec => []TypeOK
<1>1. CInv => TypeOK
    <2> SUFFICES ASSUME CInv PROVE TypeOK
        OBVIOUS
    <2>1. /\ PageTypes /\ StreamsInv /\ StoreInv
          /\ Len(streams) \in Nat /\ DOMAIN streams = 1 .. Len(streams)
          /\ Len(store) \in Nat /\ DOMAIN store = 1 .. Len(store) /\ ids \in Nat
        BY AnyTime, LenProperties DEF CInv, PageTypes
    <2>2. ASSUME NEW s \in 1 .. Len(streams)
          PROVE  /\ streams[s].page \in Pages /\ streams[s].session \in 1 .. ids
                 /\ streams[s].log \in Seq(Events)
                 /\ streams[s].state \in {"open", "refused", "finished", "stopped"}
        BY StreamHere DEF Stream
    <2>3. \A i \in 1 .. Len(store) : store[i].id \in 1 .. ids
        BY <2>1 DEF StoreInv, ConvoInv
    <2>4. ASSUME NEW s \in 1 .. Len(streams)
          PROVE  Len(streams[s].log) \in Nat /\ Len(streams[s].log) <= MaxEvents
        <3>1. streams \in Seq(Stream) /\ s \in Nat
            BY <2>1 DEF PageTypes
        <3>2. MoreTold(streams, streams, Len(streams), s, 0)
            <4>1. \A n \in 1 .. Len(streams) : Len(streams[n].log) \in Nat
                BY <3>1, LogLengths
            <4> QED
                BY <4>1 DEF MoreTold
        <3>3. ToldBy(streams) \in Nat /\ Len(streams[s].log) <= ToldBy(streams)
              /\ Len(streams[s].log) \in Nat
            BY <3>1, <3>2, ToldMore, LogLengths
        <3> QED
            BY <2>1, <3>3, ToldIs, BoundsAssumption DEF StreamsInv
    <2>5. ASSUME NEW p \in Pages
          PROVE  acc[p] \in [Events -> Seq((DOMAIN streams) \X (1 .. MaxEvents))]
        <3>1. RefsInv(p)
            BY PageHere DEF PageInv
        <3>2. CASE current[p] = 0
            BY <3>1, <3>2, EmptySeq DEF RefsInv, NoText
        <3>3. CASE current[p] # 0
            <4>1. PICK s : s = current[p]
                OBVIOUS
            <4>2. s \in 1 .. Len(streams) /\ acc[p] = TextOf(s) /\ s \in Nat
                BY <2>1, <3>1, <3>3, <4>1 DEF RefsInv
            <4>3. ASSUME NEW kind \in Events
                  PROVE  Streamed(s, kind) \in Seq((DOMAIN streams) \X (1 .. MaxEvents))
                <5>1. Streamed(s, kind) \in Seq({s} \X (1 .. Len(streams[s].log)))
                    BY <2>2, <4>2, StreamedFacts
                <5>2. {s} \X (1 .. Len(streams[s].log))
                         \subseteq (DOMAIN streams) \X (1 .. MaxEvents)
                    BY <2>1, <2>4, <4>2, BoundsAssumption
                <5> QED
                    BY <5>1, <5>2, SeqMonotonic
            <4> QED
                BY <4>2, <4>3 DEF TextOf
        <3> QED
            BY <3>2, <3>3
    <2>6. ASSUME NEW p \in Pages
          PROVE  /\ session[p] \in 0 .. ids /\ current[p] \in 0 .. Len(streams)
                 /\ active[p] \in 0 .. ids
                 /\ ~Mounted(p) => view[p] = <<>> /\ ~sending[p]
        <3>1. PageInv(p)
            BY PageHere
        <3>2. active[p] = 0 \/ active[p] = session[p]
            BY <3>1 DEF PageInv, ListInv
        <3> QED
            BY <2>1, <3>1, <3>2 DEF PageInv, RefsInv
    <2>7. /\ active \in [Pages -> 0 .. ids] /\ session \in [Pages -> 0 .. ids]
          /\ current \in [Pages -> 0 .. Len(streams)]
        BY <2>1, <2>6 DEF PageTypes
    <2>8. acc \in [Pages -> [Events -> Seq((DOMAIN streams) \X (1 .. MaxEvents))]]
        BY <2>1, <2>5 DEF PageTypes
    <2>9. /\ ids \in 0 .. MaxIds /\ Len(streams) \in 0 .. MaxSends
          /\ Len(store) <= MaxConvos /\ sending \in [Pages -> BOOLEAN]
          /\ mount \in [Pages -> {"unborn", "mounted", "gone"}]
        BY <2>1, BoundsAssumption DEF PageTypes
    <2>10. \A i, j \in DOMAIN store : store[i].id = store[j].id => i = j
        BY <2>1 DEF StoreInv
    <2> QED
        BY <2>1, <2>2, <2>3, <2>6, <2>7, <2>8, <2>9, <2>10 DEF TypeOK
<1> QED
    BY <1>1, PageInvariant, PTL

\* What holds of the stored messages.
LEMMA StoredFacts ==
    ASSUME CInv, NEW i \in DOMAIN store
    PROVE  /\ ConvoInv(store[i]) /\ DOMAIN (store[i].messages) = 1 .. Len(store[i].messages)
           /\ \A j \in DOMAIN (store[i].messages) : store[i].messages[j].role \in Role
<1>1. i \in 1 .. Len(store) /\ store[i] \in Convo
    BY LenProperties, ElementOfSeq DEF CInv, PageTypes
<1>2. /\ store[i].messages \in Seq(Said)
      /\ DOMAIN (store[i].messages) = 1 .. Len(store[i].messages)
    BY <1>1, LenProperties DEF Convo
<1>3. \A j \in DOMAIN (store[i].messages) : store[i].messages[j] \in Said
    BY <1>2, ElementOfSeq
<1> QED
    BY <1>1, <1>2, <1>3 DEF CInv, StoreInv, Said

\* Chat.jsx:243. Every stored answer is in the conversation its prompt was sent
\* in, complete and stored once, although onFinal stores it in the session of
\* that moment: a page that changes its session cancels its stream first.
THEOREM AnswersStored == Spec => []AnswersGoHome
<1>1. CInv => AnswersGoHome
    <2> SUFFICES ASSUME CInv, NEW i \in DOMAIN store, NEW j \in Answers(store[i])
                 PROVE  LET m == store[i].messages[j]
                        IN  /\ streams[m.send].session = store[i].id
                            /\ streams[m.send].state = "finished"
                            /\ \A kind \in Events : m.text[kind] = Streamed(m.send, kind)
                            /\ \A k \in Answers(store[i]) \ {j} :
                                  store[i].messages[k].send # m.send
        BY DEF AnswersGoHome
    <2> DEFINE c == store[i]
               m == c.messages[j]
    <2>1. /\ ConvoInv(c) /\ DOMAIN (c.messages) = 1 .. Len(c.messages)
        BY StoredFacts
    <2>2. j \in 1 .. Len(c.messages) /\ m.role = "assistant"
        BY <2>1 DEF Answers
    <2>3. \A k \in Answers(c) : k \in 1 .. Len(c.messages) /\ c.messages[k].role = "assistant"
        BY <2>1 DEF Answers
    <2> HIDE DEF c
    <2>4. SaidInv(m, c.id)
        BY <2>1, <2>2 DEF ConvoInv
    <2>5. /\ streams[m.send].session = c.id /\ streams[m.send].state = "finished"
          /\ \A kind \in Events : m.text[kind] = Streamed(m.send, kind)
        BY <2>2, <2>4 DEF SaidInv, Finished, TextOf
    <2>6. \A k \in Answers(c) \ {j} : c.messages[k].send # m.send
        BY <2>1, <2>2, <2>3 DEF ConvoInv
    <2> QED
        BY <2>5, <2>6 DEF c
<1> QED
    BY <1>1, PageInvariant, PTL

\* Chat.jsx:243, storage.js:88-93. The answer of a finished stream is stored
\* after its prompt wherever the prompt is in the store, unless setItem fails.
THEOREM PromptsAnswered == Spec => []AnswerFollowsPrompt
<1>1. CInv => AnswerFollowsPrompt
    <2> SUFFICES ASSUME CInv, ~QuotaFails, NEW i \in DOMAIN store,
                        NEW j \in (DOMAIN store[i].messages) \ Answers(store[i]),
                        streams[store[i].messages[j].send].state = "finished"
                 PROVE  \E k \in Answers(store[i]) :
                           /\ k > j
                           /\ store[i].messages[k].send = store[i].messages[j].send
        BY DEF AnswerFollowsPrompt
    <2> DEFINE c == store[i]
    <2>1. /\ ConvoInv(c) /\ DOMAIN (c.messages) = 1 .. Len(c.messages)
          /\ \A k \in DOMAIN (c.messages) : c.messages[k].role \in Role
        BY StoredFacts
    <2>2. j \in 1 .. Len(c.messages) /\ c.messages[j].role = "user"
        BY <2>1 DEF Answers, Role
    <2>3. Finished(c.messages[j].send)
        BY DEF Finished
    <2> HIDE DEF c
    <2>4. PICK k \in 1 .. Len(c.messages) : /\ k > j /\ c.messages[k].role = "assistant"
                                            /\ c.messages[k].send = c.messages[j].send
        BY <2>1, <2>2, <2>3 DEF ConvoInv
    <2>5. k \in Answers(c)
        BY <2>1, <2>4 DEF Answers
    <2> QED
        BY <2>4, <2>5 DEF c
<1> QED
    BY <1>1, PageInvariant, PTL

\* What holds of the messages on a page.
LEMMA ViewFacts ==
    ASSUME CInv, NEW p \in Pages, NEW i \in DOMAIN view[p]
    PROVE  /\ i \in 1 .. Len(view[p]) /\ Mounted(p) /\ ShownInv(view[p][i], p)
           /\ Screen(p).bubbles[i] = Bubble(view[p][i])
           /\ view[p][i].loading \in BOOLEAN /\ view[p][i].streaming \in BOOLEAN
           /\ view[p][i].error \in BOOLEAN /\ view[p][i].meta \in BOOLEAN
<1>1. i \in 1 .. Len(view[p]) /\ PageInv(p) /\ view[p][i] \in Shown
    BY PageHere, ElementOfSeq
<1>2. Mounted(p)
    <2>1. ~Mounted(p) => Len(view[p]) = 0
        BY <1>1, EmptySeq DEF PageInv
    <2> QED
        BY <1>1, <2>1
<1> QED
    BY <1>1, <1>2 DEF PageInv, MountedInv, Screen, Shown

\* Chat.jsx:96-98, ChatMessage.jsx:69-123. A bubble holds all that its own stream
\* has told and nothing of another's, and shows it in one way.
THEOREM BubblesOfTheirStreams == Spec => []BubblesTellTheirStream
<1>1. CInv => BubblesTellTheirStream
    <2> SUFFICES ASSUME CInv, NEW p \in Pages, NEW i \in Bubbles(p)
                 PROVE  LET m == view[p][i]
                            b == Screen(p).bubbles[i]
                        IN  /\ \A kind \in Events : m.text[kind] = Streamed(m.send, kind)
                            /\ \/ b.dots \/ b.cursor \/ b.error \/ b.tags
                               \/ b.text # <<>> \/ b.correction # <<>>
                            /\ b.error => ~b.dots /\ ~b.cursor
                            /\ b.tags => streams[m.send].state = "finished"
        BY DEF BubblesTellTheirStream
    <2>1. PICK m : m = view[p][i]
        OBVIOUS
    <2>2. i \in DOMAIN (view[p]) /\ m.role = "assistant"
        BY <2>1 DEF Bubbles
    <2>3. /\ ShownInv(m, p) /\ Screen(p).bubbles[i] = Bubble(m)
          /\ m.loading \in BOOLEAN /\ m.streaming \in BOOLEAN
          /\ m.error \in BOOLEAN /\ m.meta \in BOOLEAN
        BY <2>1, <2>2, ViewFacts
    <2>4. /\ m.text = TextOf(m.send)
          /\ m.meta => Finished(m.send)
          /\ m.error => ~m.loading /\ ~m.streaming
          /\ Thinks(m) \/ m.streaming \/ m.error \/ m.meta
        BY <2>2, <2>3 DEF ShownInv, BubbleInv
    <2>5. \A kind \in Events : m.text[kind] = Streamed(m.send, kind)
        BY <2>4 DEF TextOf
    <2> DEFINE b == Bubble(m)
    <2>6. /\ b.dots <=> Thinks(m)
          /\ b.cursor <=> m.streaming /\ ~Thinks(m)
          /\ b.error <=> m.error
          /\ b.tags <=> ~m.streaming /\ m.meta
        BY <2>3 DEF Bubble, Thinks
    <2> HIDE DEF b
    <2>7. b.dots \/ b.cursor \/ b.error \/ b.tags
        BY <2>4, <2>6
    <2>8. b.error => ~b.dots /\ ~b.cursor
        BY <2>4, <2>6 DEF Thinks
    <2>9. b.tags => streams[m.send].state = "finished"
        BY <2>4, <2>6 DEF Finished
    <2> QED
        BY <2>1, <2>3, <2>5, <2>7, <2>8, <2>9 DEF b
<1> QED
    BY <1>1, PageInvariant, PTL

\* Chat.jsx:136-138, :172. A page shows one conversation: the one its next prompt
\* goes to, and the one entry its sidebar marks.
THEOREM OneConversationShown == Spec => []ViewIsOneConversation
<1>1. CInv => ViewIsOneConversation
    <2> SUFFICES ASSUME CInv, NEW p \in Pages, Mounted(p)
                 PROVE  /\ \A i \in DOMAIN view[p] :
                              streams[view[p][i].send].session = session[p]
                        /\ active[p] # 0 => active[p] = session[p]
                        /\ active[p] # 0 /\ ~QuotaFails =>
                              \E i \in DOMAIN list[p] : Sidebar(p).marked = {i}
                        /\ active[p] = 0 => Screen(p).empty
        BY DEF ViewIsOneConversation
    <2>1. ListInv(p) /\ DOMAIN (list[p]) = 1 .. Len(list[p])
        BY PageHere DEF PageInv
    <2>2. \A i \in DOMAIN view[p] : streams[view[p][i].send].session = session[p]
        BY ViewFacts DEF ShownInv
    <2>3. ASSUME active[p] # 0, ~QuotaFails
          PROVE  \E i \in DOMAIN list[p] : Sidebar(p).marked = {i}
        <3>1. PICK i \in 1 .. Len(list[p]) : list[p][i] = active[p]
            BY <2>1, <2>3 DEF ListInv
        <3>2. \A j \in 1 .. Len(list[p]) : list[p][j] = active[p] => j = i
            BY <2>1, <3>1 DEF ListInv
        <3>3. Sidebar(p).marked = {j \in DOMAIN list[p] : list[p][j] = active[p]}
            BY DEF Sidebar
        <3>4. Sidebar(p).marked = {i}
            BY <2>1, <3>1, <3>2, <3>3
        <3> QED
            BY <2>1, <3>4
    <2>4. active[p] = 0 => Screen(p).empty
        BY <2>1 DEF ListInv, Screen, EmptyState
    <2> QED
        BY <2>1, <2>2, <2>3, <2>4 DEF ListInv
<1> QED
    BY <1>1, PageInvariant, PTL

\* Chat.jsx:153, :190, :265. A mounted page says it is streaming exactly while its
\* latest stream is live, and no other stream of it is; the last bubble shows it.
THEOREM PillOfLiveStream == Spec => []SendingMeansLive
<1>1. CInv => SendingMeansLive
    <2> SUFFICES ASSUME CInv, NEW p \in Pages, Mounted(p)
                 PROVE  LET live == {s \in DOMAIN streams : streams[s].page = p /\ Live(s)}
                            last == Len(view[p])
                        IN  /\ Screen(p).pill <=> live # {}
                            /\ live \subseteq {current[p]}
                            /\ Screen(p).pill =>
                                  /\ view[p][last].id = current[p]
                                  /\ \/ Screen(p).bubbles[last].dots
                                     \/ Screen(p).bubbles[last].cursor
        BY DEF SendingMeansLive
    <2> DEFINE live == {s \in DOMAIN streams : streams[s].page = p /\ Live(s)}
               last == Len(view[p])
    <2>1. /\ PageInv(p) /\ MountedInv(p) /\ RefsInv(p)
          /\ DOMAIN streams = 1 .. Len(streams) /\ Len(streams) \in Nat
          /\ Len(view[p]) \in Nat /\ DOMAIN (view[p]) = 1 .. Len(view[p])
          /\ sending[p] \in BOOLEAN
        BY PageHere DEF PageInv, PageTypes
    <2>2. Screen(p).pill <=> sending[p]
        BY DEF Screen
    <2>3. live \subseteq {current[p]}
        BY <2>1, StreamHere
    <2>4. sending[p] <=> live # {}
        <3>1. ASSUME sending[p] PROVE current[p] \in live
            <4>1. PICK s : s = current[p]
                OBVIOUS
            <4>2. s # 0 /\ Live(s) /\ s \in 1 .. Len(streams) /\ streams[s].page = p
                BY <2>1, <3>1, <4>1 DEF MountedInv, RefsInv
            <4> QED
                BY <2>1, <4>1, <4>2
        <3>2. ASSUME NEW s \in live PROVE sending[p]
            <4>1. s = current[p] /\ s \in 1 .. Len(streams) /\ Live(s)
                BY <2>1, <2>3
            <4>2. s # 0
                BY <4>1, StreamHere
            <4> QED
                BY <2>1, <4>1, <4>2 DEF MountedInv
        <3> QED
            BY <3>1, <3>2
    <2>5. ASSUME sending[p]
          PROVE  /\ view[p][last].id = current[p]
                 /\ Screen(p).bubbles[last].dots \/ Screen(p).bubbles[last].cursor
        <3>1. /\ view[p] # <<>> /\ view[p][last].id = current[p]
              /\ current[p] # 0 /\ Live(current[p])
            BY <2>1, <2>5 DEF MountedInv
        <3>2. last \in 1 .. Len(view[p])
            <4>1. last # 0
                BY <3>1, PageHere, EmptySeq
            <4> QED
                BY <2>1, <4>1
        <3>3. PICK m : m = view[p][last]
            OBVIOUS
        <3>4. /\ Screen(p).bubbles[last] = Bubble(m)
              /\ m.loading \in BOOLEAN /\ m.streaming \in BOOLEAN
            BY <2>1, <3>2, <3>3, ViewFacts
        <3>5. m.send = current[p] /\ BubbleInv(m, p)
            BY <3>1, <3>2, <3>3, Here
        <3>6. Thinks(m) \/ m.streaming
            BY <3>1, <3>5 DEF BubbleInv
        <3>7. Bubble(m).dots \/ Bubble(m).cursor
            BY <3>4, <3>6 DEF Bubble, Thinks
        <3> QED
            BY <3>1, <3>4, <3>7
    <2> HIDE DEF live, last
    <2>6. /\ Screen(p).pill <=> live # {}
          /\ live \subseteq {current[p]}
          /\ Screen(p).pill =>
                /\ view[p][last].id = current[p]
                /\ Screen(p).bubbles[last].dots \/ Screen(p).bubbles[last].cursor
        BY <2>2, <2>3, <2>4, <2>5
    <2> QED
        BY <2>6 DEF live, last
<1> QED
    BY <1>1, PageInvariant, PTL

-----------------------------------------------------------------------------
(* What a step does to the store. *)

\* OnlyTopChanges, of one step.
TopChanges ==
    /\ Len(store') <= MaxConvos
    /\ store' # store =>
          LET top    == store'[1]
              others == Without(top.id)
          IN  /\ Tail(store') = SubSeq(others, 1, Len(store') - 1)
              /\ Len(store') - 1 < Len(others) => Len(store') = MaxConvos
              /\ Found(top.id) # {} =>
                    LET old == LoadConversation(top.id) IN
                    /\ Len(top.messages) = Len(old.messages) + 1
                    /\ SubSeq(top.messages, 1, Len(old.messages)) = old.messages
                    /\ old.title # NewChatTitle => top.title = old.title

\* What is behind the top of the store is the beginning of what was left.
LEMMA BehindTheTop ==
    ASSUME NEW c, NEW rest \in Seq(Convo), TopSaved(c, rest)
    PROVE  /\ Len(store') <= MaxConvos
           /\ Tail(store') = SubSeq(rest, 1, Len(store') - 1)
           /\ Len(store') - 1 < Len(rest) => Len(store') = MaxConvos
<1> DEFINE n == Len(store')
           N == Len(rest)
<1>1. /\ store' \in Seq(Convo) /\ n \in 1 .. MaxConvos /\ n <= N + 1
      /\ \A i \in 1 .. n : i # 1 => store'[i] = rest[i - 1]
      /\ n # N + 1 => n = MaxConvos
    BY DEF TopSaved
<1>2. n \in Nat /\ N \in Nat /\ store' # <<>> /\ n - 1 \in 0 .. N
    <2>1. n \in Nat /\ N \in Nat /\ n # 0
        BY <1>1, LenProperties
    <2> QED
        BY <1>1, <2>1, EmptySeq
<1>3. /\ Tail(store') \in Seq(Convo) /\ Len(Tail(store')) = n - 1
      /\ \A i \in 1 .. n - 1 : Tail(store')[i] = store'[i + 1]
    BY <1>1, <1>2, HeadTailProperties
<1> HIDE DEF n, N
<1>4. /\ SubSeq(rest, 1, n - 1) \in Seq(Convo) /\ Len(SubSeq(rest, 1, n - 1)) = n - 1
      /\ \A i \in 1 .. n - 1 : SubSeq(rest, 1, n - 1)[i] = rest[i]
    <2>1. \A i \in 1 .. n - 1 : rest[i] \in Convo
        <3>1. \A i \in 1 .. n - 1 : i \in 1 .. N
            BY <1>2
        <3> QED
            BY <3>1, ElementOfSeq DEF N
    <2>2. n - 1 \in Nat
        BY <1>1
    <2>3. PICK l \in Nat : l = n - 1
        BY <2>2
    <2>4. 1 - 1 <= l /\ l - 1 + 1 = l /\ \A i \in 1 .. l : 1 + i - 1 = i
        OBVIOUS
    <2> QED
        BY <2>1, <2>3, <2>4, SubSeqProperties
<1>5. \A i \in 1 .. n - 1 : store'[i + 1] = rest[i]
    <2> SUFFICES ASSUME NEW i \in 1 .. n - 1 PROVE store'[i + 1] = rest[i]
        OBVIOUS
    <2>1. i + 1 \in 1 .. n /\ i + 1 # 1 /\ (i + 1) - 1 = i
        BY <1>2
    <2> QED
        BY <1>1, <2>1
<1>6. Tail(store') = SubSeq(rest, 1, n - 1)
    BY <1>3, <1>4, <1>5, SeqEqual
<1>7. n <= MaxConvos /\ (n - 1 < N => n = MaxConvos)
    BY <1>1, <1>2, MaxConvosAssumption
<1> QED
    BY <1>6, <1>7 DEF n, N

\* A message is stored on top.
LEMMA AppendOnTop ==
    ASSUME PageTypes, StoreInv, NEW id \in Nat, NEW m \in Said, AppendMessage(id, m)
    PROVE  TopChanges
<1>1. PICK c, rest : /\ Appended(id, m, c, rest)
                     /\ TopSaved(c, rest) \/ (QuotaFails /\ UNCHANGED store)
    BY AppendSaves
<1>2. CASE TopSaved(c, rest)
    <2>1. /\ rest \in Seq(Convo) /\ rest = Without(id) /\ c.id = id /\ store'[1] = c
        BY <1>1, <1>2 DEF Appended, TopSaved
    <2>2. /\ Len(store') <= MaxConvos
          /\ Tail(store') = SubSeq(rest, 1, Len(store') - 1)
          /\ Len(store') - 1 < Len(rest) => Len(store') = MaxConvos
        BY <1>2, <2>1, BehindTheTop
    <2>3. ASSUME Found(id) # {}
          PROVE  LET old == LoadConversation(id)
                 IN  /\ Len(c.messages) = Len(old.messages) + 1
                     /\ SubSeq(c.messages, 1, Len(old.messages)) = old.messages
                     /\ old.title # NewChatTitle => c.title = old.title
        <3>1. PICK old : /\ \E i \in 1 .. Len(store) : old = store[i]
                         /\ LoadConversation(id) = old
                         /\ c.messages = Append(old.messages, m)
                         /\ old.title # NewChatTitle => c.title = old.title
            BY <1>1, <2>3 DEF Appended
        <3>2. old.messages \in Seq(Said)
            <4>1. store \in Seq(Convo)
                BY DEF PageTypes
            <4>2. old \in Convo
                BY <3>1, <4>1, ElementOfSeq
            <4> QED
                BY <4>2 DEF Convo
        <3>3. /\ Len(c.messages) = Len(old.messages) + 1
              /\ SubSeq(c.messages, 1, Len(old.messages)) = old.messages
            <4> DEFINE k == old.messages
                       l == c.messages
                       N == Len(k)
            <4>1. /\ l \in Seq(Said) /\ N \in Nat /\ Len(l) = N + 1
                  /\ \A i \in 1 .. N : l[i] = k[i]
                BY <3>1, <3>2, AppendProperties, LenProperties
            <4> HIDE DEF k, l, N
            <4>2. k \in Seq(Said) /\ \A i \in 1 .. N : l[i] \in Said
                BY <3>2, <4>1, ElementOfSeq DEF k, N
            <4>3. 1 - 1 <= N /\ N - 1 + 1 = N /\ \A i \in 1 .. N : 1 + i - 1 = i
                BY <4>1
            <4>4. /\ SubSeq(l, 1, N) \in Seq(Said) /\ Len(SubSeq(l, 1, N)) = N
                  /\ \A i \in 1 .. N : SubSeq(l, 1, N)[i] = l[i]
                BY <4>1, <4>2, <4>3, SubSeqProperties
            <4>5. SubSeq(l, 1, N) = k
                BY <4>1, <4>2, <4>4, SeqEqual DEF N
            <4> QED
                BY <4>1, <4>5 DEF k, l, N
        <3> QED
            BY <3>1, <3>3
    <2> QED
        BY <2>1, <2>2, <2>3 DEF TopChanges
<1>3. CASE UNCHANGED store
    BY <1>3 DEF TopChanges, PageTypes
<1> QED
    BY <1>1, <1>2, <1>3

\* A new conversation is put on top.
LEMMA CreateOnTop ==
    ASSUME CInv, CreateConversation(NewSessionId)
    PROVE  TopChanges
<1>0. PageTypes /\ StoreInv /\ ids \in Nat
    BY AnyTime DEF CInv
<1>1. PICK id : id = ids + 1
    OBVIOUS
<1>2. Found(id) = {}
    <2>1. DOMAIN store = 1 .. Len(store)
        BY <1>0, LenProperties DEF PageTypes
    <2>2. \A i \in 1 .. Len(store) : store[i].id \in 1 .. ids
        BY <1>0 DEF StoreInv, ConvoInv
    <2>3. \A i \in 1 .. Len(store) : store[i].id # id
        BY <1>0, <1>1, <2>2
    <2> QED
        BY <2>1, <2>3 DEF Found
<1>3. PICK c \in Convo : /\ c.id = id
                         /\ TopSaved(c, store) \/ (QuotaFails /\ UNCHANGED store)
    BY <1>0, <1>1, <1>2, CreateSaves DEF NewSessionId
<1>4. CASE TopSaved(c, store)
    <2>1. store \in Seq(Convo) /\ Without(id) = store /\ store'[1] = c
        BY <1>0, <1>2, <1>4, NotFound DEF TopSaved
    <2>2. /\ Len(store') <= MaxConvos
          /\ Tail(store') = SubSeq(store, 1, Len(store') - 1)
          /\ Len(store') - 1 < Len(store) => Len(store') = MaxConvos
        BY <1>4, <2>1, BehindTheTop
    <2> QED
        BY <1>2, <1>3, <2>1, <2>2 DEF TopChanges
<1>5. CASE UNCHANGED store
    BY <1>0, <1>5 DEF TopChanges, PageTypes
<1> QED
    BY <1>3, <1>4, <1>5

\* storage.js:46-97. Whatever a step does to the store it does to the top of it,
\* to one conversation by one message, and only a full store loses any.
THEOREM StoreGrowsOnTop == Spec => OnlyTopChanges
<1>1. ASSUME CInv, [Next]_vars PROVE [TopChanges]_store
    <2>1. ASSUME NEW p \in Pages, StartNewChat(p) PROVE TopChanges
        BY <1>1, <2>1, CreateOnTop DEF StartNewChat
    <2>2. ASSUME NEW p \in Pages, Send(p) PROVE TopChanges
        <3>1. PICK s : s = Len(streams) + 1
            OBVIOUS
        <3>2. PICK id : id = session[p]
            OBVIOUS
        <3> DEFINE m == Stored("user", s, NoText)
        <3>3. AppendMessage(id, m)
            BY <2>2, <3>1, <3>2 DEF Send
        <3>4. /\ PageTypes /\ StoreInv /\ id \in Nat /\ Len(streams) \in Nat
            BY <1>1, <3>2, PageHere
        <3>5. m \in Said
            BY <3>1, <3>4, EmptySeq DEF Stored, Said, Role, NoText, Texts
        <3> HIDE DEF m
        <3> QED
            BY <3>3, <3>4, <3>5, AppendOnTop
    <2>3. ASSUME NEW s \in 1 .. Len(streams), OnFinal(s) PROVE TopChanges
        <3>1. PICK p : p = streams[s].page
            OBVIOUS
        <3>2. PICK id : id = session[p]
            OBVIOUS
        <3>3. PICK text : text = acc[p]
            OBVIOUS
        <3> DEFINE m == Stored("assistant", s, text)
        <3>4. AppendMessage(id, m)
            BY <2>3, <3>1, <3>2, <3>3 DEF OnFinal
        <3>5. p \in Pages /\ s \in Nat
            BY <1>1, <3>1, StreamHere
        <3>6. /\ PageTypes /\ StoreInv /\ id \in Nat /\ text \in Texts
            BY <1>1, <3>2, <3>3, <3>5, PageHere
        <3>7. m \in Said
            BY <3>5, <3>6 DEF Stored, Said, Role
        <3> HIDE DEF m
        <3> QED
            BY <3>4, <3>6, <3>7, AppendOnTop
    <2>4. ASSUME NEW p \in Pages, Mount(p) \/ NewChat(p) PROVE TopChanges
        BY <2>1, <2>4 DEF Mount, NewChat
    <2>5. ASSUME NEW p \in Pages, Select(p) \/ Leave(p) \/ CloseTab(p)
          PROVE  store' = store
        BY <2>5 DEF Select, SelectFound, SelectMissing, Leave, CloseTab
    <2>6. ASSUME NEW s \in 1 .. Len(streams),
                 \/ \E kind \in Kinds : Hear(s, kind)
                 \/ Refuse(s) \/ OnError(s) \/ EndsSilently(s)
          PROVE  store' = store
        BY <2>6 DEF Hear, Refuse, OnError, EndsSilently
    <2>7. CASE UNCHANGED vars
        BY <2>7 DEF vars
    <2>8. DOMAIN streams = 1 .. Len(streams)
        BY <1>1, LenProperties DEF CInv, PageTypes
    <2>9. CASE \E p \in Pages :
                  Mount(p) \/ NewChat(p) \/ Select(p) \/ Send(p) \/ Leave(p) \/ CloseTab(p)
        BY <2>2, <2>4, <2>5, <2>9
    <2>10. CASE \E s \in DOMAIN streams :
                  \/ \E kind \in Kinds : Hear(s, kind)
                  \/ Refuse(s) \/ OnFinal(s) \/ OnError(s) \/ EndsSilently(s)
        BY <2>3, <2>6, <2>8, <2>10
    <2> QED
        BY <1>1, <2>7, <2>9, <2>10 DEF Next
<1>2. Spec => [][TopChanges]_store
    BY <1>1, PageInvariant, PTL DEF Spec
<1>3. [][TopChanges]_store => OnlyTopChanges
    <2>1. [TopChanges]_store =>
             [ /\ Len(store') <= MaxConvos
               /\ store' # store =>
                     LET top    == store'[1]
                         others == Without(top.id)
                     IN  /\ Tail(store') = SubSeq(others, 1, Len(store') - 1)
                         /\ Len(store') - 1 < Len(others) => Len(store') = MaxConvos
                         /\ Found(top.id) # {} =>
                               LET old == LoadConversation(top.id) IN
                               /\ Len(top.messages) = Len(old.messages) + 1
                               /\ SubSeq(top.messages, 1, Len(old.messages)) = old.messages
                               /\ old.title # NewChatTitle => top.title = old.title
             ]_store
        BY DEF TopChanges
    <2> QED
        BY <2>1, PTL DEF OnlyTopChanges
<1> QED
    BY <1>2, <1>3
=============================================================================
