-------------------------- MODULE TokenStreamProofs --------------------------
(***************************************************************************)
(* Proofs about TokenStream, for every channel capacity, every length of   *)
(* Groq's stream and every reader. The temporal properties of that module  *)
(* stay with TLC.                                                          *)
(***************************************************************************)
EXTENDS TokenStream, TLAPS

\* What the goroutine has made at each of its program points. In the loop the
\* channel holds exactly the texts of the chunks received; a send in progress
\* holds the next text or a final token; a closed channel ends in one.
ProducerInv ==
    /\ usage = reported
    /\ \A i \in 1 .. Len(sent) : ~sent[i].final => sent[i].text = i
    /\ pc # "closed" => \A i \in 1 .. Len(sent) : ~sent[i].final
    /\ pc \in {"check", "recv"} => texts = Len(sent)
    /\ pc = "send" =>
          IF pending.final
            THEN texts = Len(sent) /\ (~pending.err => pending.usage = reported)
            ELSE texts = Len(sent) + 1 /\ pending.text = texts
    /\ pc = "closed" =>
          /\ Len(sent) = texts + 1
          /\ sent[texts + 1].final
          /\ ~sent[texts + 1].err => sent[texts + 1].usage = reported
          /\ \A i \in 1 .. texts : ~sent[i].final

\* A reader that is still reading has not taken the final token.
ReaderInv == reading => \A i \in 1 .. read : ~sent[i].final

IInv == TypeOK /\ ProducerInv /\ ReaderInv

\* Numbers and tokens the goroutine makes are tokens.
LEMMA TokenTypes ==
    /\ \A i \in Nat : Text(i) \in Token /\ CleanEnd(i) \in Token
    /\ ErrorEnd \in Token
BY DEF Text, CleanEnd, ErrorEnd, Token

\* The inductive invariant holds initially.
LEMMA InitIInv == Init => IInv
<1> SUFFICES ASSUME Init PROVE IInv
    OBVIOUS
<1> USE ReadersAssumption, MaxChunksAssumption
<1>1. sent = <<>> /\ <<>> \in Seq(Token) /\ Len(<<>>) = 0
    BY DEF Init
<1>2. TypeOK
    <2>1. sent \in Seq(Token) /\ read \in 0 .. Len(sent)
        BY <1>1 DEF Init
    <2>2. pending \in Token /\ reader \in {"stream", "range"}
        BY TokenTypes DEF Init
    <2>3. clientGone \in BOOLEAN /\ reading \in BOOLEAN
        BY DEF Init
    <2> QED
        BY <2>1, <2>2, <2>3 DEF Init, TypeOK
<1>3. ProducerInv /\ ReaderInv
    BY <1>1 DEF Init, ProducerInv, ReaderInv
<1> QED
    BY <1>2, <1>3 DEF IInv

\* Every step keeps the inductive invariant.
LEMMA NextIInv == IInv /\ [Next]_vars => IInv'
<1> SUFFICES ASSUME IInv, [Next]_vars PROVE IInv'
    OBVIOUS
<1> USE DEF IInv
<1> USE CapacityAssumption, MaxChunksAssumption
<1>1. CASE CheckContext
    <2>1. TypeOK'
        BY <1>1, TokenTypes DEF CheckContext, Hold, client, groq, TypeOK
    <2>2. ProducerInv'
        BY <1>1 DEF CheckContext, Hold, client, groq, TypeOK, ProducerInv, ErrorEnd
    <2>3. ReaderInv'
        BY <1>1 DEF CheckContext, client, ReaderInv
    <2> QED
        BY <2>1, <2>2, <2>3
<1>2. CASE RecvChunk
    <2>1. PICK u \in {0, chunks + 1}, hasText \in BOOLEAN :
            /\ usage' = IF u > 0 THEN u ELSE usage
            /\ reported' = IF u > 0 THEN u ELSE reported
            /\ IF hasText
                 THEN texts' = texts + 1 /\ Hold(Text(texts + 1))
                 ELSE texts' = texts /\ pc' = "check" /\ UNCHANGED pending
        BY <1>2 DEF RecvChunk
    <2>2. /\ pc = "recv" /\ chunks < MaxChunks /\ chunks' = chunks + 1
          /\ UNCHANGED <<sent, read, ctx, clientGone, reader, reading>>
        BY <1>2 DEF RecvChunk, client
    <2>3. /\ u \in Nat
          /\ Text(texts + 1) \in Token
        BY TokenTypes DEF TypeOK
    <2>4. TypeOK'
        BY <2>1, <2>2, <2>3 DEF Hold, TypeOK
    <2>5. ProducerInv'
        BY <2>1, <2>2, <2>3 DEF Hold, Text, TypeOK, ProducerInv
    <2>6. ReaderInv'
        BY <2>2 DEF ReaderInv
    <2> QED
        BY <2>4, <2>5, <2>6
<1>3. CASE RecvEOF
    <2>1. TypeOK'
        BY <1>3, TokenTypes DEF RecvEOF, Hold, client, groq, TypeOK
    <2>2. ProducerInv'
        BY <1>3 DEF RecvEOF, Hold, client, groq, TypeOK, ProducerInv, CleanEnd
    <2>3. ReaderInv'
        BY <1>3 DEF RecvEOF, client, ReaderInv
    <2> QED
        BY <2>1, <2>2, <2>3
<1>4. CASE RecvError
    <2>1. TypeOK'
        BY <1>4, TokenTypes DEF RecvError, Hold, client, groq, TypeOK
    <2>2. ProducerInv'
        BY <1>4 DEF RecvError, Hold, client, groq, TypeOK, ProducerInv, ErrorEnd
    <2>3. ReaderInv'
        BY <1>4 DEF RecvError, client, ReaderInv
    <2> QED
        BY <2>1, <2>2, <2>3
<1>5. CASE Send
    <2>1. /\ sent' \in Seq(Token)
          /\ Len(sent') = Len(sent) + 1
          /\ \A i \in 1 .. Len(sent) : sent'[i] = sent[i]
          /\ sent'[Len(sent) + 1] = pending
        BY <1>5 DEF Send, TypeOK
    <2>2. /\ pc = "send"
          /\ pc' = IF pending.final THEN "closed" ELSE "check"
          /\ UNCHANGED <<pending, usage, read, ctx, clientGone, reader, reading,
                         chunks, texts, reported>>
        BY <1>5 DEF Send, client, groq
    <2>3. TypeOK'
        BY <2>1, <2>2 DEF TypeOK
    <2>4. ProducerInv'
        BY <2>1, <2>2 DEF TypeOK, ProducerInv
    <2>5. ReaderInv'
        BY <2>1, <2>2 DEF TypeOK, ReaderInv
    <2> QED
        BY <2>3, <2>4, <2>5
<1>6. CASE Take
    <2>0. Len(sent) \in Nat /\ read \in 0 .. Len(sent)
        BY DEF TypeOK
    <2>1. /\ read' \in 0 .. Len(sent)
          /\ reading' => \A i \in 1 .. read' : ~sent[i].final
        <3>1. CASE InChannel > 0
            <4>1. read' = read + 1 /\ read' \in 0 .. Len(sent)
                BY <1>6, <2>0, <3>1 DEF Take, InChannel
            <4>2. reading /\ (reading' => ~sent[read + 1].final)
                BY <1>6 DEF Take, Return
            <4>3. ASSUME reading', NEW i \in 1 .. read' PROVE ~sent[i].final
                <5>1. i \in 1 .. read \/ i = read + 1
                    BY <2>0, <4>1
                <5> QED
                    BY <4>2, <4>3, <5>1 DEF ReaderInv
            <4> QED
                BY <4>1, <4>3
        <3>2. CASE ~(InChannel > 0)
            <4>1. InChannel = 0
                BY <2>0, <3>2 DEF InChannel
            <4>2. read' = read /\ ~reading'
                BY <1>6, <3>2, <4>1 DEF Take, Return
            <4> QED
                BY <2>0, <4>2
        <3> QED
            BY <3>1, <3>2
    <2>2. TypeOK'
        BY <1>6, <2>1 DEF Take, Return, client, groq, TypeOK
    <2>3. ProducerInv'
        BY <1>6 DEF Take, groq, ProducerInv
    <2>4. ReaderInv'
        BY <1>6, <2>1 DEF Take, ReaderInv
    <2> QED
        BY <2>2, <2>3, <2>4
<1>7. CASE Abandon
    BY <1>7 DEF Abandon, Return, groq, TypeOK, ProducerInv, ReaderInv
<1>8. CASE Client
    <2>1. clientGone' \in BOOLEAN /\ ctx' \in {"live", "cancelled"}
        BY <1>8 DEF Client, Disconnect, NotifyClose, TypeOK
    <2> QED
        BY <1>8, <2>1 DEF Client, Disconnect, NotifyClose, groq, TypeOK,
                          ProducerInv, ReaderInv
<1>9. CASE UNCHANGED vars
    BY <1>9 DEF vars, TypeOK, ProducerInv, ReaderInv
<1> QED
    BY <1>1, <1>2, <1>3, <1>4, <1>5, <1>6, <1>7, <1>8, <1>9
    DEF Next, Producer, Consumer

\* The inductive invariant holds in every reachable state.
LEMMA Invariance == Spec => []IInv
    BY InitIInv, NextIInv, PTL DEF Spec

-----------------------------------------------------------------------------
\* Type correctness of the goroutine, the channel and its reader.
THEOREM TypeCorrect == Spec => []TypeOK
<1>1. IInv => TypeOK
    BY DEF IInv
<1> QED
    BY <1>1, Invariance, PTL

\* The channel carries Groq's text in order and nothing after a final token,
\* whatever the channel's capacity and whoever leaves when.
THEOREM TokensInOrder == Spec => []InOrder
<1>1. IInv => InOrder
    BY DEF IInv, TypeOK, ProducerInv, InOrder
<1> QED
    BY <1>1, Invariance, PTL

\* The guard of Handler.Chat for a channel closed without a final token is
\* dead code.
THEOREM BareCloseUnreachable == Spec => []NoBareClose
<1>1. IInv => NoBareClose
    BY DEF IInv, TypeOK, ProducerInv, ReaderInv, NoBareClose, InChannel
<1> QED
    BY <1>1, Invariance, PTL

\* A clean final token comes after all of Groq's text and with its last usage.
THEOREM CleanEndComplete == Spec => []CleanEndIsComplete
<1>1. IInv => CleanEndIsComplete
    BY DEF IInv, TypeOK, ProducerInv, CleanEndIsComplete
<1> QED
    BY <1>1, Invariance, PTL
=============================================================================
