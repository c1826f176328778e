---------------------------- MODULE SSEReaderProofs ----------------------------
(***************************************************************************)
(* Proofs about SSEReader: however the network cuts what a server writes,  *)
(* streamChat implements EventFeed, keeps back no frame that is whole, and *)
(* ends silently only if the server said so or stopped without an ending.  *)
(* For any kinds of frames, any length of a body and any number of frames. *)
(***************************************************************************)
EXTENDS SSEReader, FilterProofs

-----------------------------------------------------------------------------
(* Arithmetic. *)

\* Division by b undoes multiplication.
LEMMA DivMod ==
    ASSUME NEW b \in Nat \ {0}, NEW q \in Nat, NEW r \in 0 .. b - 1
    PROVE  (b * q + r) \div b = q /\ (b * q + r) % b = r
BY SMTT(60)

\* Every number is some b's and a remainder.
LEMMA Quotient ==
    ASSUME NEW b \in Nat \ {0}, NEW n \in Nat
    PROVE  \E q \in Nat, r \in 0 .. b - 1 : n = b * q + r
<1> DEFINE T == {m \in 0 .. n : \E q \in Nat, r \in 0 .. b - 1 : m = b * q + r}
<1>1. 0 \in T
    <2>1. 0 = b * 0 + 0 /\ 0 \in 0 .. b - 1 /\ 0 \in Nat /\ 0 \in 0 .. n
        OBVIOUS
    <2> QED
        BY <2>1
<1>2. ASSUME NEW m \in 0 .. n, m # n, m \in T PROVE m + 1 \in T
    <2>1. PICK q \in Nat, r \in 0 .. b - 1 : m = b * q + r
        BY <1>2
    <2>2. m + 1 \in 0 .. n
        BY <1>2
    <2>3. CASE r # b - 1
        <3>1. r + 1 \in 0 .. b - 1 /\ m + 1 = b * q + (r + 1)
            BY <2>1, <2>3
        <3> QED
            BY <2>2, <3>1
    <2>4. CASE r = b - 1
        <3>1. q + 1 \in Nat /\ 0 \in 0 .. b - 1 /\ m + 1 = b * (q + 1) + 0
            BY <2>1, <2>4
        <3> QED
            BY <2>2, <3>1
    <2> QED
        BY <2>3, <2>4
<1> HIDE DEF T
<1>3. n \in T
    <2>1. \A m \in 0 .. n : m \in T
        BY <1>1, <1>2, UpTo
    <2> QED
        BY <2>1
<1> QED
    BY <1>3 DEF T

\* Multiplication keeps order.
LEMMA Times ==
    ASSUME NEW b \in Nat, NEW p \in Nat, NEW q \in Nat, p <= q
    PROVE  b * p \in Nat /\ b * p <= b * q
<1>1. PICK d \in Nat : q = p + d
    <2>1. q - p \in Nat /\ q = p + (q - p)
        OBVIOUS
    <2> QED
        BY <2>1
<1>2. b * q = b * p + b * d /\ b * d >= 0 /\ b * p \in Nat
    BY <1>1
<1> QED
    BY <1>2

\* A frame is at least three characters long.
LEMMA FrameLengthFacts ==
    /\ FrameLength \in Nat \ {0} /\ FrameLength = BodyPieces + 2 /\ BodyPieces >= 1
    /\ BodyPieces \in Nat
BY BodyPiecesAssumption DEF FrameLength

-----------------------------------------------------------------------------
(* Characters. *)

Char == Nat \X Nat

\* n characters of what the server writes, after the first m.
Stretch(m, n) == [i \in 1 .. n |-> CharAt(m + i)]

\* The i-th character after k whole frames.
LEMMA CharFacts ==
    ASSUME NEW k \in Nat, NEW i \in 1 .. FrameLength
    PROVE  CharAt(FrameLength * k + i) = IF i > BodyPieces THEN LF ELSE <<k + 1, i>>
<1>1. i - 1 \in 0 .. FrameLength - 1
    BY FrameLengthFacts
<1>2. PICK b \in Nat \ {0} : b = FrameLength
    BY FrameLengthFacts
<1>3. /\ (b * k + (i - 1)) \div b = k
      /\ (b * k + (i - 1)) % b = i - 1
    BY <1>1, <1>2, DivMod
<1>4. (b * k + i) - 1 = b * k + (i - 1)
    BY <1>2, FrameLengthFacts
<1>5. (i - 1) + 1 = i
    BY FrameLengthFacts
<1> QED
    BY <1>2, <1>3, <1>4, <1>5 DEF CharAt

\* A stretch is a sequence of characters.
LEMMA StretchFacts ==
    ASSUME NEW m \in Nat, NEW n \in Nat
    PROVE  /\ Stretch(m, n) \in Seq(Char) /\ Len(Stretch(m, n)) = n
           /\ \A i \in 1 .. n : Stretch(m, n)[i] = CharAt(m + i)
<1>1. ASSUME NEW i \in 1 .. n PROVE CharAt(m + i) \in Char
    <2>0. PICK h \in Nat : h = m + i - 1
        OBVIOUS
    <2>1. PICK q \in Nat, r \in 0 .. FrameLength - 1 : h = FrameLength * q + r
        BY FrameLengthFacts, Quotient
    <2>2. m + i = FrameLength * q + (r + 1) /\ r + 1 \in 1 .. FrameLength
        BY <2>0, <2>1, FrameLengthFacts
    <2>3. CharAt(m + i) \in {LF, <<q + 1, r + 1>>}
        BY <2>2, CharFacts
    <2> QED
        BY <2>2, <2>3, FrameLengthFacts DEF LF, Char
<1>2. Stretch(m, n) \in [1 .. n -> Char]
    BY <1>1 DEF Stretch
<1>3. Stretch(m, n) \in Seq(Char)
    BY <1>2, SeqDef
<1>4. Len(Stretch(m, n)) = n
    BY <1>3, LenProperties DEF Stretch
<1> QED
    BY <1>3, <1>4 DEF Stretch

\* Two stretches, one after the other.
LEMMA StretchConcat ==
    ASSUME NEW m \in Nat, NEW n \in Nat, NEW d \in Nat
    PROVE  Stretch(m, n) \o Stretch(m + n, d) = Stretch(m, n + d)
<1> DEFINE a == Stretch(m, n)
           b == Stretch(m + n, d)
           c == Stretch(m, n + d)
<1>1. /\ a \in Seq(Char) /\ Len(a) = n /\ \A i \in 1 .. n : a[i] = CharAt(m + i)
      /\ b \in Seq(Char) /\ Len(b) = d /\ \A i \in 1 .. d : b[i] = CharAt(m + n + i)
      /\ c \in Seq(Char) /\ Len(c) = n + d /\ \A i \in 1 .. n + d : c[i] = CharAt(m + i)
    <2>1. m + n \in Nat /\ n + d \in Nat
        OBVIOUS
    <2> QED
        BY <2>1, StretchFacts
<1> HIDE DEF a, b, c
<1>2. /\ a \o b \in Seq(Char) /\ Len(a \o b) = n + d
      /\ \A i \in 1 .. n + d : (a \o b)[i] = IF i <= n THEN a[i] ELSE b[i - n]
    BY <1>1, ConcatProperties
<1>3. ASSUME NEW i \in 1 .. n + d PROVE (a \o b)[i] = c[i]
    <2>1. CASE i <= n
        BY <1>1, <1>2, <2>1
    <2>2. CASE i > n
        <3>1. i - n \in 1 .. d /\ m + n + (i - n) = m + i
            BY <2>2
        <3> QED
            BY <1>1, <1>2, <2>2, <3>1
    <2>3. i <= n \/ i > n
        OBVIOUS
    <2> QED
        BY <2>1, <2>2, <2>3, Zenon
<1>4. a \o b = c
    BY <1>1, <1>2, <1>3, SeqEqual
<1> QED
    BY <1>4 DEF a, b, c

\* The i-th character of the frame after j whole ones of a stretch.
LEMMA StretchAt ==
    ASSUME NEW k \in Nat, NEW n \in Nat, NEW j \in Nat, NEW i \in 1 .. FrameLength,
           FrameLength * j + i <= n
    PROVE  /\ FrameLength * j + i \in 1 .. n
           /\ Stretch(FrameLength * k, n)[FrameLength * j + i] =
                 IF i > BodyPieces THEN LF ELSE <<k + j + 1, i>>
<1>1. PICK b \in Nat \ {0} : b = FrameLength
    BY FrameLengthFacts
<1>2. /\ b * j \in Nat /\ b * k \in Nat /\ b * (k + j) = b * k + b * j /\ i \in Nat
      /\ i >= 1
    BY <1>1
<1>3. b * j + i \in 1 .. n /\ b * k + (b * j + i) = b * (k + j) + i
    BY <1>1, <1>2
<1>4. Stretch(b * k, n)[b * j + i] = CharAt(b * (k + j) + i)
    BY <1>2, <1>3, StretchFacts
<1>5. k + j \in Nat
    OBVIOUS
<1> QED
    BY <1>1, <1>3, <1>4, <1>5, CharFacts

\* No piece of a body is a line feed.
LEMMA PieceIsText == \A f \in Nat, i \in Nat : i # 0 => <<f, i>> # LF
BY DEF LF

\* Every position is that of some character of some frame.
LEMMA Position ==
    ASSUME NEW n \in Nat \ {0}
    PROVE  \E j \in Nat, i \in 1 .. FrameLength : n = FrameLength * j + i
<1>1. PICK m \in Nat : m = n - 1
    OBVIOUS
<1>2. PICK j \in Nat, r \in 0 .. FrameLength - 1 : m = FrameLength * j + r
    BY FrameLengthFacts, Quotient
<1>3. r + 1 \in 1 .. FrameLength /\ n = FrameLength * j + (r + 1)
    BY <1>1, <1>2, FrameLengthFacts
<1> QED
    BY <1>3

-----------------------------------------------------------------------------
(* Splitting. *)

\* Where the i-th character of a stretch's frame after j others is.
At(j, i) == FrameLength * j + i

\* q frames and r characters of the next one, after k frames.
Frames(k, q, r) == Stretch(FrameLength * k, FrameLength * q + r)

\* How many characters they are.
LEMMA FramesFacts ==
    ASSUME NEW k \in Nat, NEW q \in Nat, NEW r \in 0 .. FrameLength - 1
    PROVE  /\ FrameLength * k \in Nat /\ FrameLength * q + r \in Nat
           /\ Frames(k, q, r) \in Seq(Char)
           /\ Len(Frames(k, q, r)) = FrameLength * q + r
<1>1. PICK b \in Nat \ {0} : b = FrameLength
    BY FrameLengthFacts
<1>2. b * k \in Nat /\ b * q \in Nat /\ b * q + r \in Nat
    BY <1>1
<1>3. /\ Stretch(b * k, b * q + r) \in Seq(Char)
      /\ Len(Stretch(b * k, b * q + r)) = b * q + r
    BY <1>2, StretchFacts
<1> QED
    BY <1>1, <1>2, <1>3 DEF Frames

\* And which.
LEMMA FramesAt ==
    ASSUME NEW k \in Nat, NEW q \in Nat, NEW r \in 0 .. FrameLength - 1,
           NEW j \in Nat, NEW i \in 1 .. FrameLength, At(j, i) <= FrameLength * q + r
    PROVE  /\ At(j, i) \in 1 .. FrameLength * q + r
           /\ Frames(k, q, r)[At(j, i)] = IF i > BodyPieces THEN LF ELSE <<k + j + 1, i>>
<1>1. PICK n \in Nat : n = FrameLength * q + r
    BY FramesFacts
<1>2. FrameLength * j + i <= n
    BY <1>1 DEF At
<1>3. /\ FrameLength * j + i \in 1 .. n
      /\ Stretch(FrameLength * k, n)[FrameLength * j + i] =
             IF i > BodyPieces THEN LF ELSE <<k + j + 1, i>>
    BY <1>2, StretchAt
<1> QED
    BY <1>1, <1>3 DEF Frames, At

\* The last but one character of the j-th frame.
CutOf(j) == FrameLength * j - 1

\* Delimiters are where whole frames end.
LEMMA CutsFacts ==
    ASSUME NEW k \in Nat, NEW q \in Nat, NEW r \in 0 .. FrameLength - 1
    PROVE  Cuts(Frames(k, q, r)) = [j \in 1 .. q |-> CutOf(j)]
<1>1. PICK b \in Nat \ {0} : b = FrameLength
    BY FrameLengthFacts
<1>2. PICK s : s = Frames(k, q, r)
    OBVIOUS
<1>3. PICK N \in Nat : N = b * q + r
    BY <1>1
<1>4. /\ s \in Seq(Char) /\ Len(s) = N
      /\ \A j \in Nat, i \in 1 .. b :
            At(j, i) <= N => s[At(j, i)] = IF i > BodyPieces THEN LF ELSE <<k + j + 1, i>>
      /\ b = BodyPieces + 2 /\ BodyPieces >= 1 /\ BodyPieces \in Nat
    <2>1. /\ s \in Seq(Char) /\ Len(s) = FrameLength * q + r
          /\ \A j \in Nat, i \in 1 .. FrameLength :
                At(j, i) <= FrameLength * q + r =>
                   s[At(j, i)] = IF i > BodyPieces THEN LF ELSE <<k + j + 1, i>>
        <3>1. s \in Seq(Char) /\ Len(s) = FrameLength * q + r
            BY <1>2, FramesFacts
        <3>2. ASSUME NEW j \in Nat, NEW i \in 1 .. FrameLength,
                     At(j, i) <= FrameLength * q + r
              PROVE  s[At(j, i)] = IF i > BodyPieces THEN LF ELSE <<k + j + 1, i>>
            <4>1. Frames(k, q, r)[At(j, i)] = IF i > BodyPieces THEN LF ELSE <<k + j + 1, i>>
                BY <3>2, FramesAt
            <4> QED
                BY <1>2, <4>1
        <3> QED
            BY <3>1, <3>2
    <2>2. FrameLength * q + r = N
        BY <1>1, <1>3
    <2>3. /\ Len(s) = N
          /\ \A j \in Nat, i \in 1 .. b :
                At(j, i) <= N =>
                   s[At(j, i)] = IF i > BodyPieces THEN LF ELSE <<k + j + 1, i>>
        BY <1>1, <2>1, <2>2
    <2> QED
        BY <1>1, <2>1, <2>3, FrameLengthFacts
<1> DEFINE starts == {i \in 1 .. N - 1 : s[i] = LF /\ s[i + 1] = LF}
           c == [j \in 1 .. q |-> CutOf(j)]
<1>5. ASSUME NEW n \in 1 .. N - 1
      PROVE  n \in starts <=> \E j \in 1 .. q : n = CutOf(j)
    <2>1. PICK j \in Nat, i \in 1 .. b : n = b * j + i
        BY <1>1, Position
    <2>0. n = At(j, i) /\ n <= N
        BY <1>1, <2>1 DEF At
    <2>2. s[n] = IF i > BodyPieces THEN LF ELSE <<k + j + 1, i>>
        BY <1>4, <2>0
    <2>3. CASE i <= BodyPieces
        <3>1. s[n] # LF
            <4>1. s[n] = <<k + j + 1, i>>
                BY <1>4, <2>2, <2>3
            <4>2. k + j + 1 \in Nat /\ i \in Nat /\ i # 0
                BY <1>1
            <4> QED
                BY <4>1, <4>2, PieceIsText
        <3>2. ASSUME NEW h \in 1 .. q, n = CutOf(h) PROVE FALSE
            <4>1. b * h = b * j + (i + 1) /\ h \in Nat /\ i + 1 \in 0 .. b - 1
                BY <1>1, <1>4, <2>1, <2>3, <3>2 DEF CutOf
            <4>2. (b * h + 0) % b = 0 /\ 0 \in 0 .. b - 1
                BY <1>1, <4>1, DivMod
            <4>3. (b * j + (i + 1)) % b = i + 1
                BY <4>1, DivMod
            <4>4. b * h + 0 = b * j + (i + 1)
                BY <4>1
            <4> QED
                BY <4>2, <4>3, <4>4
        <3> QED
            BY <3>1, <3>2
    <2>4. CASE i = b - 1
        <3>1. b * j + b <= N /\ b \in 1 .. b /\ n + 1 = b * j + b
            BY <1>4, <2>1, <2>4
        <3>2. s[n] = LF /\ s[n + 1] = LF
            <4>1. n + 1 = At(j, b) /\ At(j, b) <= N
                BY <1>1, <3>1 DEF At
            <4>2. s[At(j, b)] = IF b > BodyPieces THEN LF ELSE <<k + j + 1, b>>
                BY <1>4, <3>1, <4>1
            <4>3. b > BodyPieces /\ i > BodyPieces
                BY <1>4, <2>4
            <4> QED
                BY <2>2, <4>1, <4>2, <4>3
        <3>3. j + 1 \in 1 .. q
            <4>1. ASSUME q <= j PROVE FALSE
                <5>1. b * q <= b * j
                    BY <4>1, Times
                <5>2. b * q \in Nat /\ b * j \in Nat /\ r < b
                    BY <1>1
                <5> QED
                    BY <1>1, <1>3, <3>1, <5>1, <5>2
            <4> QED
                BY <4>1
        <3>4. n = CutOf(j + 1)
            BY <1>1, <2>1, <2>4 DEF CutOf
        <3> QED
            BY <3>2, <3>3, <3>4
    <2>5. CASE i = b
        <3>1. 1 \in 1 .. b /\ j + 1 \in Nat /\ n + 1 = b * (j + 1) + 1 /\ b * (j + 1) + 1 <= N
            BY <1>4, <2>1, <2>5
        <3>2. s[n + 1] = <<k + (j + 1) + 1, 1>>
            <4>1. n + 1 = At(j + 1, 1) /\ At(j + 1, 1) <= N
                BY <1>1, <3>1 DEF At
            <4>2. s[At(j + 1, 1)] = IF 1 > BodyPieces THEN LF ELSE <<k + (j + 1) + 1, 1>>
                BY <1>4, <3>1, <4>1
            <4>3. ~(1 > BodyPieces)
                BY <1>4
            <4> QED
                BY <4>1, <4>2, <4>3
        <3>3. s[n + 1] # LF
            <4>1. k + (j + 1) + 1 \in Nat
                OBVIOUS
            <4> QED
                BY <3>2, <4>1, PieceIsText
        <3>4. ASSUME NEW h \in 1 .. q, n = CutOf(h) PROVE FALSE
            <4>1. b * h + 0 = b * (j + 1) + 1 /\ h \in Nat /\ 1 \in 0 .. b - 1 /\ j + 1 \in Nat
                BY <1>1, <1>4, <2>1, <2>5, <3>4 DEF CutOf
            <4>2. (b * h + 0) % b = 0 /\ 0 \in 0 .. b - 1
                BY <1>1, <4>1, DivMod
            <4>3. (b * (j + 1) + 1) % b = 1
                BY <4>1, DivMod
            <4> QED
                BY <4>1, <4>2, <4>3
        <3> QED
            BY <3>3, <3>4
    <2> QED
        BY <1>4, <2>3, <2>4, <2>5
<1>6. ASSUME NEW j \in 1 .. q PROVE CutOf(j) \in 1 .. N - 1
    <2>1. b * 1 <= b * j /\ b * j <= b * q /\ b * j \in Nat /\ b * q \in Nat
        BY Times
    <2> QED
        BY <1>1, <1>3, <1>4, <2>1 DEF CutOf
<1>7. ASSUME NEW i \in 1 .. q, NEW j \in 1 .. q, i < j PROVE CutOf(i) < CutOf(j)
    <2>1. b * (i + 1) <= b * j /\ b * (i + 1) = b * i + b /\ b * i \in Nat /\ b * j \in Nat
        BY <1>7, Times
    <2> QED
        BY <1>1, <2>1 DEF CutOf
<1>8. /\ c \in Seq(Nat) /\ Len(c) = q /\ \A j \in 1 .. q : c[j] = CutOf(j)
    <2>1. c \in [1 .. q -> Nat]
        BY <1>6
    <2>2. c \in Seq(Nat)
        BY <2>1, SeqDef
    <2> QED
        BY <2>2, LenProperties
<1> HIDE DEF c
<1>9. N - 1 \in Nat \/ (N = 0 /\ q = 0)
    BY <1>1, <1>3
<1>10. Cuts(s) = Kept([i \in 1 .. N - 1 |-> i], starts)
    BY <1>4 DEF Cuts
<1>11. CASE N - 1 \in Nat
    <2>1. \A j \in 1 .. Len(c) : c[j] \in (1 .. N - 1) \cap starts
        BY <1>5, <1>6, <1>8
    <2>2. \A i, j \in 1 .. Len(c) : i < j => c[i] < c[j]
        BY <1>7, <1>8
    <2>3. \A n \in (1 .. N - 1) \cap starts : \E j \in 1 .. Len(c) : c[j] = n
        BY <1>5, <1>8
    <2> HIDE DEF starts
    <2>4. Kept([i \in 1 .. N - 1 |-> i], starts) = c
        BY <1>8, <1>11, <2>1, <2>2, <2>3, KeptPositions
    <2> QED
        BY <1>2, <1>10, <2>4 DEF c
<1>12. CASE N = 0 /\ q = 0
    <2>1. 1 .. N - 1 = {} /\ 1 .. 0 = {}
        BY <1>12
    <2>2. [i \in 1 .. N - 1 |-> i] = [i \in 1 .. 0 |-> i]
        BY <2>1
    <2> HIDE DEF starts
    <2>3. /\ \A j \in 1 .. Len(c) : c[j] \in (1 .. 0) \cap starts
          /\ \A i, j \in 1 .. Len(c) : i < j => c[i] < c[j]
          /\ \A n \in (1 .. 0) \cap starts : \E j \in 1 .. Len(c) : c[j] = n
        BY <1>8, <1>12
    <2>4. Kept([i \in 1 .. 0 |-> i], starts) = c
        BY <1>8, <2>3, KeptPositions
    <2> QED
        BY <1>2, <1>10, <2>2, <2>4 DEF c
<1> QED
    BY <1>9, <1>11, <1>12

\* A body is a sequence of characters that are no line feeds.
LEMMA BodyFacts ==
    ASSUME NEW f \in Nat
    PROVE  /\ Body(f) \in Seq(Char) /\ Len(Body(f)) = BodyPieces
           /\ DOMAIN Body(f) = 1 .. BodyPieces
           /\ \A i \in 1 .. BodyPieces : Body(f)[i] = <<f, i>> /\ Body(f)[i] # LF
<1>1. Body(f) \in [1 .. BodyPieces -> Char]
    BY FrameLengthFacts DEF Body, Char
<1>2. Body(f) \in Seq(Char)
    BY <1>1, FrameLengthFacts, SeqDef
<1>3. Len(Body(f)) = BodyPieces /\ DOMAIN Body(f) = 1 .. BodyPieces
    BY <1>2, LenProperties, FrameLengthFacts DEF Body
<1>4. ASSUME NEW i \in 1 .. BodyPieces PROVE Body(f)[i] = <<f, i>> /\ Body(f)[i] # LF
    <2>1. Body(f)[i] = <<f, i>> /\ i \in Nat /\ i # 0
        BY FrameLengthFacts DEF Body
    <2> QED
        BY <2>1, PieceIsText
<1> QED
    BY <1>2, <1>3, <1>4

\* A part of the characters between two frame ends is the body between them.
LEMMA PartFacts ==
    ASSUME NEW k \in Nat, NEW q \in Nat, NEW r \in 0 .. FrameLength - 1, NEW j \in 1 .. q
    PROVE  SubSeq(Frames(k, q, r), FrameLength * (j - 1) + 1, CutOf(j) - 1) = Body(k + j)
<1>1. PICK b \in Nat \ {0} : b = FrameLength
    BY FrameLengthFacts
<1>2. PICK h \in Nat : h = j - 1 /\ j = h + 1 /\ h + 1 <= q
    <2>1. j - 1 \in Nat /\ j = (j - 1) + 1 /\ (j - 1) + 1 <= q
        OBVIOUS
    <2> QED
        BY <2>1
<1>3. PICK m \in Nat : m = b * h + 1
    BY <1>1
<1>4. PICK n \in Nat : n = FrameLength * q + r
    BY FramesFacts
<1>5. /\ CutOf(j) - 1 = m + BodyPieces - 1 /\ m + BodyPieces - 1 \in Nat
      /\ BodyPieces \in Nat /\ b = BodyPieces + 2 /\ BodyPieces >= 1
    BY <1>1, <1>2, <1>3, FrameLengthFacts DEF CutOf
<1>6. PICK s : s = Frames(k, q, r)
    OBVIOUS
<1>7. ASSUME NEW i \in 1 .. BodyPieces PROVE s[m + i - 1] = <<k + j, i>>
    <2>1. b * (h + 1) <= b * q /\ b * (h + 1) = b * h + b /\ b * h \in Nat /\ b * q \in Nat
        BY <1>2, Times
    <2>2. i \in 1 .. FrameLength /\ At(h, i) = m + i - 1 /\ At(h, i) <= FrameLength * q + r
        BY <1>1, <1>3, <1>5, <2>1 DEF At
    <2>3. s[At(h, i)] = IF i > BodyPieces THEN LF ELSE <<k + h + 1, i>>
        BY <1>6, <2>2, FramesAt
    <2>4. ~(i > BodyPieces) /\ k + h + 1 = k + j
        BY <1>2, <1>5
    <2> QED
        BY <2>2, <2>3, <2>4
<1>8. ASSUME NEW x \in m .. m + BodyPieces - 1 PROVE s[x] \in Char
    <2>1. x - m + 1 \in 1 .. BodyPieces /\ m + (x - m + 1) - 1 = x
        BY <1>5
    <2>2. s[x] = <<k + j, x - m + 1>>
        BY <1>7, <2>1
    <2> QED
        BY <2>1, <2>2 DEF Char
<1>9. PICK t : t = SubSeq(s, m, m + BodyPieces - 1)
    OBVIOUS
<1>10. /\ t \in Seq(Char) /\ Len(t) = BodyPieces
       /\ \A i \in 1 .. BodyPieces : t[i] = s[m + i - 1]
    <2>1. m \in Int /\ m + BodyPieces - 1 \in Int
        BY <1>5
    <2>2. /\ t \in Seq(Char)
          /\ Len(t) = IF m <= m + BodyPieces - 1 THEN (m + BodyPieces - 1) - m + 1 ELSE 0
          /\ \A i \in 1 .. (m + BodyPieces - 1) - m + 1 : t[i] = s[m + i - 1]
        BY <1>8, <1>9, <2>1, SubSeqProperties
    <2>3. (m + BodyPieces - 1) - m + 1 = BodyPieces /\ m <= m + BodyPieces - 1
        BY <1>5
    <2> QED
        BY <2>2, <2>3
<1>11. t = Body(k + j)
    <2>1. /\ Body(k + j) \in Seq(Char) /\ Len(Body(k + j)) = BodyPieces
          /\ \A i \in 1 .. BodyPieces : Body(k + j)[i] = <<k + j, i>>
        BY BodyFacts
    <2>2. \A i \in 1 .. Len(t) : t[i] = Body(k + j)[i]
        BY <1>7, <1>10, <2>1
    <2> QED
        BY <1>10, <2>1, <2>2, SeqEqual
<1>12. m = FrameLength * (j - 1) + 1
    BY <1>1, <1>2, <1>3
<1> QED
    BY <1>5, <1>6, <1>9, <1>11, <1>12

\* What is behind the last frame end is the beginning of the next frame.
LEMMA RestFacts ==
    ASSUME NEW k \in Nat, NEW q \in Nat, NEW r \in 0 .. FrameLength - 1
    PROVE  SubSeq(Frames(k, q, r), FrameLength * q + 1, Len(Frames(k, q, r)))
               = Stretch(FrameLength * (k + q), r)
<1>1. PICK b \in Nat \ {0} : b = FrameLength
    BY FrameLengthFacts
<1>2. PICK m \in Nat : m = b * q
    BY <1>1
<1>3. PICK s : s = Frames(k, q, r)
    OBVIOUS
<1>4. /\ s \in Seq(Char) /\ Len(s) = m + r /\ r \in Nat
      /\ \A i \in 1 .. m + r : s[i] \in Char
    <2>1. s \in Seq(Char) /\ Len(s) = m + r
        BY <1>1, <1>2, <1>3, FramesFacts
    <2> QED
        BY <1>1, <2>1, ElementOfSeq
<1>5. PICK t : t = SubSeq(s, m + 1, m + r)
    OBVIOUS
<1>6. /\ t \in Seq(Char) /\ Len(t) = r
      /\ \A i \in 1 .. r : t[i] = s[m + i]
    <2>1. m + 1 \in Int /\ m + r \in Int /\ \A i \in m + 1 .. m + r : s[i] \in Char
        BY <1>4
    <2>2. /\ t \in Seq(Char)
          /\ Len(t) = IF m + 1 <= m + r THEN (m + r) - (m + 1) + 1 ELSE 0
          /\ \A i \in 1 .. (m + r) - (m + 1) + 1 : t[i] = s[(m + 1) + i - 1]
        BY <1>5, <2>1, SubSeqProperties
    <2>3. (m + r) - (m + 1) + 1 = r /\ \A i \in 1 .. r : (m + 1) + i - 1 = m + i
        BY <1>4
    <2> QED
        BY <1>4, <2>2, <2>3
<1>7. PICK g \in Nat : g = FrameLength * (k + q) /\ g = FrameLength * k + m
    <2>1. b * (k + q) \in Nat /\ b * (k + q) = b * k + m
        BY <1>2
    <2> QED
        BY <1>1, <2>1
<1>8. /\ Stretch(g, r) \in Seq(Char) /\ Len(Stretch(g, r)) = r
      /\ \A i \in 1 .. r : Stretch(g, r)[i] = CharAt(g + i)
    BY <1>4, StretchFacts
<1>9. ASSUME NEW i \in 1 .. r PROVE t[i] = Stretch(g, r)[i]
    <2>1. PICK e \in Nat : e = FrameLength * k
        BY FramesFacts
    <2>2. s = Stretch(e, m + r)
        BY <1>1, <1>2, <1>3, <2>1 DEF Frames
    <2>3. m + r \in Nat /\ m + i \in 1 .. m + r
        BY <1>4
    <2>4. s[m + i] = CharAt(e + (m + i))
        BY <2>2, <2>3, StretchFacts
    <2>5. e + (m + i) = g + i
        BY <1>7, <2>1
    <2> QED
        BY <1>6, <1>8, <2>4, <2>5
<1>10. t = Stretch(g, r)
    BY <1>6, <1>8, <1>9, SeqEqual
<1> QED
    BY <1>1, <1>2, <1>3, <1>4, <1>5, <1>7, <1>10

\* Splitting finds the bodies of the whole frames, and keeps the rest.
LEMMA SplitFacts ==
    ASSUME NEW k \in Nat, NEW q \in Nat, NEW r \in 0 .. FrameLength - 1
    PROVE  /\ Split(Frames(k, q, r)).parts = [j \in 1 .. q |-> Body(k + j)]
           /\ Split(Frames(k, q, r)).rest = Stretch(FrameLength * (k + q), r)
<1>1. PICK s : s = Frames(k, q, r)
    OBVIOUS
<1>2. PICK c : c = Cuts(s)
    OBVIOUS
<1>3. /\ c = [j \in 1 .. q |-> CutOf(j)]
      /\ Len(c) = q /\ \A j \in 1 .. q : c[j] = CutOf(j)
    <2>1. c = [j \in 1 .. q |-> CutOf(j)]
        BY <1>1, <1>2, CutsFacts
    <2>2. ASSUME NEW j \in 1 .. q PROVE CutOf(j) \in Int
        BY FrameLengthFacts DEF CutOf
    <2>3. c \in [1 .. q -> Int]
        BY <2>1, <2>2
    <2>4. c \in Seq(Int)
        BY <2>3, SeqDef
    <2> QED
        BY <2>1, <2>4, LenProperties
<1> DEFINE from(j) == IF j = 1 THEN 1 ELSE c[j - 1] + 2
<1>4. ASSUME NEW j \in 1 .. q + 1 PROVE from(j) = FrameLength * (j - 1) + 1
    <2>1. CASE j = 1
        BY <2>1, FrameLengthFacts
    <2>2. CASE j # 1
        <3>1. j - 1 \in 1 .. q
            BY <2>2
        <3>2. c[j - 1] = FrameLength * (j - 1) - 1
            BY <1>3, <3>1 DEF CutOf
        <3> QED
            BY <2>2, <3>1, <3>2, FrameLengthFacts
    <2> QED
        BY <2>1, <2>2
<1>5. Split(s) = [parts |-> [j \in 1 .. Len(c) |-> SubSeq(s, from(j), c[j] - 1)],
                  rest  |-> SubSeq(s, from(Len(c) + 1), Len(s))]
    BY <1>2 DEF Split
<1>6. ASSUME NEW j \in 1 .. q PROVE SubSeq(s, from(j), c[j] - 1) = Body(k + j)
    <2>1. from(j) = FrameLength * (j - 1) + 1 /\ c[j] = CutOf(j)
        BY <1>3, <1>4
    <2> HIDE DEF from
    <2> QED
        BY <1>1, <2>1, PartFacts
<1>7. SubSeq(s, from(Len(c) + 1), Len(s)) = Stretch(FrameLength * (k + q), r)
    <2>1. from(q + 1) = FrameLength * q + 1
        <3>1. q + 1 \in 1 .. q + 1 /\ (q + 1) - 1 = q
            OBVIOUS
        <3> HIDE DEF from
        <3> QED
            BY <1>4, <3>1
    <2>2. from(Len(c) + 1) = FrameLength * q + 1
        BY <1>3, <2>1
    <2>3. SubSeq(s, FrameLength * q + 1, Len(s)) = Stretch(FrameLength * (k + q), r)
        BY <1>1, RestFacts
    <2> HIDE DEF from
    <2> QED
        BY <2>2, <2>3
<1> HIDE DEF from
<1> QED
    BY <1>1, <1>3, <1>5, <1>6, <1>7

\* A body needs no trimming.
LEMMA TrimFacts ==
    ASSUME NEW f \in Nat
    PROVE  Trim(Body(f)) = Body(f)
<1> DEFINE B == BodyPieces
<1>1. PICK s : s = Body(f)
    OBVIOUS
<1>2. /\ s \in Seq(Char) /\ Len(s) = B /\ DOMAIN s = 1 .. B /\ B \in Nat /\ B >= 1
      /\ \A i \in 1 .. B : s[i] # LF /\ s[i] \in Char
    <2>1. s \in Seq(Char) /\ Len(s) = B /\ DOMAIN s = 1 .. B /\ \A i \in 1 .. B : s[i] # LF
        BY <1>1, BodyFacts
    <2> QED
        BY <2>1, FrameLengthFacts, ElementOfSeq
<1> DEFINE text == {i \in DOMAIN s : s[i] # LF}
           lo == CHOOSE i \in text : \A j \in text : i <= j
           hi == CHOOSE i \in text : \A j \in text : i >= j
<1>3. text = 1 .. B /\ text # {}
    BY <1>2
<1>4. lo = 1
    <2>1. lo = CHOOSE i \in 1 .. B : \A j \in 1 .. B : i <= j
        BY <1>3
    <2>2. 1 \in 1 .. B /\ \A j \in 1 .. B : 1 <= j
        BY <1>2
    <2> HIDE DEF lo
    <2>3. lo \in 1 .. B /\ \A j \in 1 .. B : lo <= j
        BY <2>1, <2>2
    <2> QED
        BY <2>2, <2>3
<1>5. hi = B
    <2>1. hi = CHOOSE i \in 1 .. B : \A j \in 1 .. B : i >= j
        BY <1>3
    <2>2. B \in 1 .. B /\ \A j \in 1 .. B : B >= j
        BY <1>2
    <2> HIDE DEF hi
    <2>3. hi \in 1 .. B /\ \A j \in 1 .. B : hi >= j
        BY <2>1, <2>2
    <2> QED
        BY <1>2, <2>2, <2>3
<1>6. Trim(s) = SubSeq(s, lo, hi)
    BY <1>3 DEF Trim
<1> HIDE DEF lo, hi, text
<1>7. PICK t : t = SubSeq(s, 1, B)
    OBVIOUS
<1>8. /\ t \in Seq(Char) /\ Len(t) = B /\ \A i \in 1 .. B : t[i] = s[i]
    <2>1. /\ t \in Seq(Char) /\ Len(t) = IF 1 <= B THEN B - 1 + 1 ELSE 0
          /\ \A i \in 1 .. B - 1 + 1 : t[i] = s[1 + i - 1]
        BY <1>2, <1>7, SubSeqProperties
    <2> QED
        BY <1>2, <2>1
<1>9. t = s
    BY <1>2, <1>8, SeqEqual
<1> QED
    BY <1>1, <1>4, <1>5, <1>6, <1>7, <1>9

\* The loop recognizes a body.
LEMMA FrameOfFacts ==
    ASSUME NEW f \in 1 .. Len(written), Len(written) \in Nat
    PROVE  FrameOf(Body(f)) = f
<1>1. f \in Nat /\ 1 \in 1 .. BodyPieces
    BY FrameLengthFacts
<1>2. Trim(Body(f)) = Body(f) /\ Body(f)[1] = <<f, 1>>
    BY <1>1, TrimFacts, BodyFacts
<1>3. Body(f)[1][1] = f
    BY <1>2
<1> QED
    BY <1>2, <1>3 DEF FrameOf

-----------------------------------------------------------------------------
(* What the loop makes of the frames. *)

\* The numbers of the v frames after the first k.
Following(k, v) == [j \in 1 .. v |-> k + j]

\* They are numbers.
LEMMA FollowingFacts ==
    ASSUME NEW k \in Nat, NEW v \in Nat
    PROVE  /\ Following(k, v) \in Seq(Nat) /\ Len(Following(k, v)) = v
           /\ DOMAIN Following(k, v) = 1 .. v
           /\ \A j \in 1 .. v : Following(k, v)[j] = k + j
           /\ Following(k, v + 1) = Append(Following(k, v), k + v + 1)
<1>1. ASSUME NEW n \in Nat
      PROVE  /\ Following(k, n) \in Seq(Nat) /\ Len(Following(k, n)) = n
             /\ \A j \in 1 .. n : Following(k, n)[j] = k + j
    <2>1. Following(k, n) \in [1 .. n -> Nat]
        BY DEF Following
    <2>2. Following(k, n) \in Seq(Nat)
        BY <2>1, SeqDef
    <2> QED
        BY <2>2, LenProperties DEF Following
<1>2. Following(k, v + 1) = Append(Following(k, v), k + v + 1)
    <2>1. PICK s : s = Following(k, v)
        OBVIOUS
    <2>2. PICK t : t = Following(k, v + 1)
        OBVIOUS
    <2>3. PICK x \in Nat : x = k + v + 1
        OBVIOUS
    <2>4. /\ s \in Seq(Nat) /\ Len(s) = v /\ \A j \in 1 .. v : s[j] = k + j
          /\ t \in Seq(Nat) /\ Len(t) = v + 1 /\ \A j \in 1 .. v + 1 : t[j] = k + j
        <3>1. s \in Seq(Nat) /\ Len(s) = v /\ \A j \in 1 .. v : s[j] = k + j
            BY <1>1, <2>1
        <3>2. v + 1 \in Nat
            OBVIOUS
        <3>3. t \in Seq(Nat) /\ Len(t) = v + 1 /\ \A j \in 1 .. v + 1 : t[j] = k + j
            BY <1>1, <2>2, <3>2
        <3> QED
            BY <3>1, <3>3
    <2>5. PICK u : u = Append(s, x)
        OBVIOUS
    <2>6. /\ u \in Seq(Nat) /\ Len(u) = v + 1 /\ u[v + 1] = x
          /\ \A j \in 1 .. v : u[j] = s[j]
        BY <2>4, <2>5, AppendProperties
    <2>7. ASSUME NEW j \in 1 .. v + 1 PROVE t[j] = u[j]
        <3>1. j \in 1 .. v \/ j = v + 1
            OBVIOUS
        <3> QED
            BY <2>3, <2>4, <2>6, <3>1
    <2>8. t = u
        BY <2>4, <2>6, <2>7, SeqEqual
    <2> QED
        BY <2>1, <2>2, <2>3, <2>5, <2>8
<1> QED
    BY <1>1, <1>2 DEF Following

\* The loop comes to the frames up to the first that makes it return.
LEMMA VisitedFacts ==
    ASSUME NEW k \in Nat, NEW q \in Nat
    PROVE  \E v \in 0 .. q :
              /\ Visited(Following(k, q)) = Following(k, v)
              /\ \A j \in 1 .. v - 1 : ~Returns(k + j)
              /\ v # q => v >= 1 /\ Returns(k + v)
<1>1. PICK s : s = Following(k, q)
    OBVIOUS
<1>2. /\ s \in Seq(Nat) /\ Len(s) = q /\ DOMAIN s = 1 .. q
      /\ \A j \in 1 .. q : s[j] = k + j
    BY <1>1, FollowingFacts
<1> DEFINE R == {i \in DOMAIN s : Returns(s[i])}
           first == CHOOSE i \in R : \A j \in R : i <= j
<1>3. Visited(s) = IF R = {} THEN s ELSE SubSeq(s, 1, first)
    BY DEF Visited
<1>4. \A j \in 1 .. q : j \in R <=> Returns(k + j)
    BY <1>2
<1>5. R \subseteq 1 .. q
    BY <1>2
<1> HIDE DEF R
<1>6. CASE R = {}
    <2>1. \A j \in 1 .. q - 1 : ~Returns(k + j)
        BY <1>4, <1>6
    <2>2. q \in 0 .. q
        OBVIOUS
    <2> QED
        BY <1>1, <1>3, <1>6, <2>1, <2>2
<1>7. CASE R # {}
    <2>1. \E i \in R : \A j \in R : i <= j
        <3>1. R \subseteq Nat
            BY <1>5
        <3> QED
            BY <1>7, <3>1, Least
    <2>2. PICK v : v = first
        OBVIOUS
    <2>3. v \in R /\ \A j \in R : v <= j
        BY <2>1, <2>2
    <2>4. v \in 1 .. q /\ Returns(k + v)
        BY <1>4, <1>5, <2>3
    <2>5. \A j \in 1 .. v - 1 : ~Returns(k + j)
        <3>1. ASSUME NEW j \in 1 .. v - 1, Returns(k + j) PROVE FALSE
            <4>1. j \in 1 .. q /\ ~(v <= j)
                BY <2>4
            <4> QED
                BY <1>4, <2>3, <3>1, <4>1
        <3> QED
            BY <3>1
    <2>6. Visited(s) = SubSeq(s, 1, v)
        BY <1>3, <1>7, <2>2
    <2>7. PICK t : t = SubSeq(s, 1, v)
        OBVIOUS
    <2>8. /\ t \in Seq(Nat) /\ Len(t) = v /\ \A i \in 1 .. v : t[i] = s[i]
        <3>1. \A i \in 1 .. v : s[i] \in Nat
            BY <1>2, <2>4
        <3>2. /\ t \in Seq(Nat) /\ Len(t) = IF 1 <= v THEN v - 1 + 1 ELSE 0
              /\ \A i \in 1 .. v - 1 + 1 : t[i] = s[1 + i - 1]
            BY <2>4, <2>7, <3>1, SubSeqProperties
        <3> QED
            BY <2>4, <3>2
    <2>9. t = Following(k, v)
        <3>1. PICK u : u = Following(k, v)
            OBVIOUS
        <3>2. u \in Seq(Nat) /\ Len(u) = v /\ \A j \in 1 .. v : u[j] = k + j
            <4>1. v \in Nat
                BY <2>4
            <4> QED
                BY <3>1, <4>1, FollowingFacts
        <3>3. \A j \in 1 .. v : t[j] = u[j]
            BY <1>2, <2>4, <2>8, <3>2
        <3> QED
            BY <2>8, <3>1, <3>2, <3>3, SeqEqual
    <2>10. v \in 0 .. q /\ v >= 1
        BY <2>4
    <2>11. Visited(Following(k, q)) = Following(k, v)
        BY <1>1, <2>6, <2>7, <2>9
    <2> HIDE DEF first
    <2> QED
        BY <2>4, <2>5, <2>10, <2>11
<1> QED
    BY <1>6, <1>7

\* The frames the loop comes to among the bodies of the q frames after k.
LEMMA FramesOfFacts ==
    ASSUME NEW k \in Nat, NEW q \in Nat, NEW r \in 0 .. FrameLength - 1,
           Len(written) \in Nat, k + q <= Len(written)
    PROVE  FramesOf(Split(Frames(k, q, r)).parts) = Visited(Following(k, q))
<1>1. PICK p : p = Split(Frames(k, q, r)).parts
    OBVIOUS
<1>2. p = [j \in 1 .. q |-> Body(k + j)]
    BY <1>1, SplitFacts
<1>3. ASSUME NEW j \in 1 .. q PROVE FrameOf(Body(k + j)) = k + j
    <2>1. k + j \in 1 .. Len(written)
        OBVIOUS
    <2> QED
        BY <2>1, FrameOfFacts
<1>4. [j \in DOMAIN p |-> FrameOf(p[j])] = Following(k, q)
    BY <1>2, <1>3 DEF Following
<1> QED
    BY <1>1, <1>4 DEF FramesOf

-----------------------------------------------------------------------------
(* What the page is told. *)

\* Those of the v frames after the first k that the page is to hear of.
Loud(k, v) == Kept(Following(k, v), {i \in 1 .. v : written[k + i] \in Feed!Audible})

\* One frame more.
LEMMA OneMore ==
    ASSUME NEW k \in Nat, NEW v \in Nat
    PROVE  /\ Loud(k, v) \in Seq(Nat)
           /\ Loud(k, v + 1) = IF written[k + v + 1] \in Feed!Audible
                               THEN Append(Loud(k, v), k + v + 1) ELSE Loud(k, v)
           /\ Loud(k, 0) = <<>>
<1> DEFINE K(n) == {i \in 1 .. n : written[k + i] \in Feed!Audible}
<1>1. /\ Following(k, v) \in Seq(Nat) /\ Len(Following(k, v)) = v
      /\ Following(k, v + 1) = Append(Following(k, v), k + v + 1)
    BY FollowingFacts
<1>2. Loud(k, v) \in Seq(Nat)
    <2>1. Kept(Following(k, v), K(v)) \in Seq(Nat)
        BY <1>1, KeptSublist
    <2> QED
        BY <2>1 DEF Loud
<1>3. \A n \in 1 .. v : n \in K(v) <=> n \in K(v + 1)
    OBVIOUS
<1>4. v + 1 \in K(v + 1) <=> written[k + v + 1] \in Feed!Audible
    <2>1. k + (v + 1) = k + v + 1 /\ v + 1 \in 1 .. v + 1
        OBVIOUS
    <2> QED
        BY <2>1
<1>5. Kept(Following(k, v + 1), K(v + 1)) =
          IF v + 1 \in K(v + 1) THEN Append(Kept(Following(k, v), K(v)), k + v + 1)
                                ELSE Kept(Following(k, v), K(v))
    <2> HIDE DEF K
    <2>1. PICK x \in Nat : x = k + v + 1
        OBVIOUS
    <2>2. PICK s : s = Following(k, v)
        OBVIOUS
    <2>3. s \in Seq(Nat) /\ Len(s) = v /\ Following(k, v + 1) = Append(s, x)
        BY <1>1, <2>1, <2>2
    <2>4. Kept(Append(s, x), K(v + 1)) =
              IF Len(s) + 1 \in K(v + 1) THEN Append(Kept(s, K(v)), x) ELSE Kept(s, K(v))
        <3>1. PICK A : A = K(v)
            OBVIOUS
        <3>2. PICK B : B = K(v + 1)
            OBVIOUS
        <3>3. \A n \in 1 .. Len(s) : n \in A <=> n \in B
            BY <1>3, <2>3, <3>1, <3>2
        <3>4. Kept(Append(s, x), B) =
                  IF Len(s) + 1 \in B THEN Append(Kept(s, A), x) ELSE Kept(s, A)
            BY <2>3, <3>3, KeptAppend
        <3> QED
            BY <3>1, <3>2, <3>4
    <2> QED
        BY <2>1, <2>2, <2>3, <2>4
<1>6. Loud(k, 0) = <<>>
    <2>1. /\ Following(k, 0) \in Seq(Nat) /\ Len(Following(k, 0)) = 0
        BY FollowingFacts
    <2>2. Following(k, 0) = <<>>
        BY <2>1, EmptySeq
    <2>3. Kept(Following(k, 0), K(0)) = Following(k, 0)
        <3>1. \A n \in 1 .. Len(Following(k, 0)) : n \in K(0)
            BY <2>1
        <3> HIDE DEF K
        <3> QED
            BY <2>1, <3>1, KeptAll
    <2> QED
        BY <2>2, <2>3 DEF Loud
<1> QED
    BY <1>2, <1>4, <1>5, <1>6 DEF Loud

\* What the feed says the page hears of the first n events.
LEMMA HeardIsLoud ==
    ASSUME NEW n \in Nat
    PROVE  Feed!Heard(n) = Loud(0, n)
<1>1. [i \in 1 .. n |-> i] = Following(0, n)
    <2>1. \A i \in 1 .. n : 0 + i = i
        OBVIOUS
    <2> QED
        BY <2>1 DEF Following
<1>2. {i \in 1 .. n : written[0 + i] \in Feed!Audible}
          = {i \in 1 .. n : written[i] \in Feed!Audible}
    OBVIOUS
<1>3. ASSUME NEW s, NEW K PROVE Feed!Kept(s, K) = Kept(s, K)
    BY DEF Feed!Kept, Kept
<1>4. Feed!Heard(n) =
          Feed!Kept([i \in 1 .. n |-> i], {i \in 1 .. n : written[i] \in Feed!Audible})
    BY DEF Feed!Heard
<1> QED
    BY <1>1, <1>2, <1>3, <1>4 DEF Loud

\* Hearing of k frames and then of v more is hearing of k + v.
LEMMA HeardMore ==
    ASSUME NEW k \in Nat, NEW v \in Nat
    PROVE  Loud(0, k) \o Loud(k, v) = Loud(0, k + v)
<1> DEFINE T == {n \in 0 .. v : Loud(0, k) \o Loud(k, n) = Loud(0, k + n)}
<1>1. Loud(0, k) \in Seq(Nat)
    BY OneMore
<1>2. 0 \in T
    <2>1. Loud(0, k) \o <<>> = Loud(0, k) /\ k + 0 = k /\ 0 \in 0 .. v
        BY <1>1, ConcatEmptySeq
    <2>2. Loud(k, 0) = <<>>
        BY OneMore
    <2> QED
        BY <2>1, <2>2
<1>3. ASSUME NEW n \in 0 .. v, n # v, n \in T PROVE n + 1 \in T
    <2>1. n \in Nat /\ n + 1 \in 0 .. v /\ k + n \in Nat /\ 0 + (k + n) + 1 = k + n + 1
          /\ (k + n) + 1 = k + (n + 1)
        BY <1>3
    <2>2. PICK a : a = Loud(0, k)
        OBVIOUS
    <2>3. PICK b : b = Loud(k, n)
        OBVIOUS
    <2>4. PICK x \in Nat : x = k + n + 1
        BY <2>1
    <2>5. /\ a \in Seq(Nat) /\ b \in Seq(Nat)
          /\ Loud(k, n + 1) = IF written[x] \in Feed!Audible THEN Append(b, x) ELSE b
        BY <1>1, <2>1, <2>2, <2>3, <2>4, OneMore
    <2>6. Loud(0, k + (n + 1)) = IF written[x] \in Feed!Audible
                                 THEN Append(Loud(0, k + n), x) ELSE Loud(0, k + n)
        <3>1. PICK y \in Nat : y = k + n
            BY <2>1
        <3>2. Loud(0, y + 1) = IF written[0 + y + 1] \in Feed!Audible
                               THEN Append(Loud(0, y), 0 + y + 1) ELSE Loud(0, y)
            BY OneMore
        <3>3. 0 + y + 1 = x /\ y + 1 = k + (n + 1)
            BY <2>1, <2>4, <3>1
        <3> QED
            BY <3>1, <3>2, <3>3
    <2>7. Loud(0, k + n) = a \o b
        BY <1>3, <2>2, <2>3
    <2>8. a \o Append(b, x) = Append(a \o b, x)
        BY <2>5
    <2>9. Loud(0, k) \o Loud(k, n + 1) = Loud(0, k + (n + 1))
        BY <2>2, <2>5, <2>6, <2>7, <2>8
    <2> QED
        BY <2>1, <2>9
<1> HIDE DEF T
<1>4. \A n \in 0 .. v : n \in T
    BY <1>2, <1>3, UpTo
<1> QED
    BY <1>4 DEF T

-----------------------------------------------------------------------------
(* The inductive invariant. *)

\* The types.
ReaderTypes ==
    /\ phase \in {"start", "opening", "refused", "reading", "ended"}
    /\ outcome \in {"open", "failed", "cancelled", "finished", "silent"}
    /\ written \in Seq(Kinds) /\ serverDone \in BOOLEAN
    /\ received \in Nat /\ errors \in Nat

\* Before the response nothing has come.
FreshInv ==
    phase \in {"start", "opening", "refused"} =>
        /\ written = <<>> /\ ~serverDone
        /\ received = 0 /\ buffer = <<>> /\ told = <<>>

\* k whole frames have come and r characters of the next one; the page has been
\* told of the frames, none of which made the reader return, and the buffer holds
\* the rest.
Between(k, r) ==
    /\ received = FrameLength * k + r
    /\ buffer = Stretch(FrameLength * k, r)
    /\ told = Loud(0, k)
    /\ \A i \in 1 .. k : ~Returns(i)

\* So it is wherever the last chunk ended.
ReadingInv ==
    phase = "reading" =>
        \E k \in 0 .. Len(written), r \in 0 .. FrameLength - 1 : Between(k, r)

\* streamChat reports an error once, and only if it failed.
ErrorsInv == errors = IF outcome = "failed" THEN 1 ELSE 0

RInv ==
    /\ ReaderTypes
    /\ FreshInv
    /\ phase = "ended" <=> outcome # "open"
    /\ ReadingInv
    /\ ErrorsInv
    /\ SilentOnlyWithoutEnding

\* An event the loop does not return on is not terminal, and it tells the page
\* of those that are audible.
LEMMA KindFacts ==
    ASSUME written \in Seq(Kinds), NEW f \in 1 .. Len(written)
    PROVE  /\ KindOf(f) = written[f] /\ written[f] \in Kinds
           /\ Returns(f) <=> written[f] \in Feed!Terminal
           /\ KindOf(f) \notin {"junk", "DONE"} <=> written[f] \in Feed!Audible
<1>1. written[f] \in Kinds /\ f # 0
    BY ElementOfSeq, LenProperties
<1>2. KindOf(f) = written[f]
    BY <1>1 DEF KindOf
<1> QED
    BY <1>1, <1>2, KindsAssumption DEF Returns, Feed!Terminal, Feed!Audible

\* How the loop ends.
LEMMA EndFacts ==
    ASSUME written \in Seq(Kinds), NEW f \in 1 .. Len(written), Returns(f)
    PROVE  Feed!Ending(written[f]) = CASE KindOf(f) = "error" -> "failed"
                                       [] KindOf(f) = "final" -> "finished"
                                       [] OTHER               -> "silent"
BY KindFacts DEF Feed!Ending

\* What a chunk does: it completes q frames, of which the loop comes to v.
Chunked(k, q, v, r) ==
    /\ k + q <= Len(written) /\ v <= q
    /\ told = Loud(0, k) /\ told' = Loud(0, k + v)
    /\ received' = FrameLength * (k + q) + r
    /\ buffer' = Stretch(FrameLength * (k + q), r)
    /\ \A i \in 1 .. k : ~Returns(i)
    /\ \A i \in 1 .. k + v - 1 : ~Returns(i)
    /\ UNCHANGED server
    /\ \/ /\ v >= 1 /\ Returns(k + v)
          /\ phase' = "ended" /\ outcome' = Feed!Ending(written[k + v])
          /\ errors' = IF written[k + v] = "error" THEN errors + 1 ELSE errors
       \/ /\ v = q /\ (v >= 1 => ~Returns(k + v))
          /\ UNCHANGED <<errors, phase, outcome>>

\* Wherever it is cut.
LEMMA ReceiveFacts ==
    ASSUME RInv, Chunk
    PROVE  /\ phase = "reading"
           /\ \E k \in Nat, q \in Nat, v \in Nat, r \in 0 .. FrameLength - 1 :
                 Chunked(k, q, v, r)
<1>1. PICK n \in 1 .. FrameLength * Len(written) - received : Receive(n)
    BY DEF Chunk
<1>2. /\ phase = "reading" /\ received' = received + n /\ UNCHANGED server
      /\ written \in Seq(Kinds) /\ Len(written) \in Nat /\ received \in Nat
    BY <1>1, LenProperties DEF Receive, Read, RInv, ReaderTypes
<1>3. PICK k \in 0 .. Len(written), d \in 0 .. FrameLength - 1 : Between(k, d)
    BY <1>2 DEF RInv, ReadingInv
<1>4. PICK b \in Nat \ {0} : b = FrameLength
    BY FrameLengthFacts
<1>5. /\ n \in Nat /\ received + n <= b * Len(written) /\ k \in Nat /\ d \in Nat
      /\ received = b * k + d /\ b * Len(written) \in Nat /\ b * k \in Nat
    BY <1>1, <1>2, <1>3, <1>4 DEF Between
<1>6. PICK q \in Nat, r \in 0 .. FrameLength - 1 : d + n = FrameLength * q + r
    <2>1. PICK m \in Nat : m = d + n
        BY <1>5
    <2> QED
        BY <2>1, FrameLengthFacts, Quotient
<1>7. received + n = FrameLength * (k + q) + r
    <2>1. b * (k + q) = b * k + b * q /\ b * q \in Nat
        BY <1>5
    <2> QED
        BY <1>4, <1>5, <1>6, <2>1
<1>8. k + q <= Len(written)
    <2>1. ASSUME Len(written) + 1 <= k + q PROVE FALSE
        <3>1. b * (Len(written) + 1) <= b * (k + q)
            BY <1>2, <1>5, <2>1, Times
        <3>2. b * (Len(written) + 1) = b * Len(written) + b
            BY <1>2
        <3> QED
            BY <1>4, <1>5, <1>7, <3>1, <3>2
    <2> QED
        BY <1>2, <1>5, <2>1
<1>9. PICK s : s = buffer \o Coming(n)
    OBVIOUS
<1>10. s = Frames(k, q, r)
    <2>1. PICK m \in Nat : m = FrameLength * k
        BY <1>4, <1>5
    <2>2. buffer = Stretch(m, d) /\ received = m + d
        BY <1>3, <2>1 DEF Between
    <2>3. Coming(n) = Stretch(m + d, n)
        BY <2>2 DEF Coming, Stretch
    <2>4. s = Stretch(m, d + n)
        <3>1. Stretch(m, d) \o Stretch(m + d, n) = Stretch(m, d + n)
            BY <1>5, StretchConcat
        <3> QED
            BY <1>9, <2>2, <2>3, <3>1
    <2> QED
        BY <1>6, <2>1, <2>4 DEF Frames
<1>11. PICK split : split = Split(s)
    OBVIOUS
<1>12. PICK w : w = FramesOf(split.parts)
    OBVIOUS
<1>13. buffer' = split.rest /\ Dispatch(w)
    BY <1>1, <1>9, <1>11, <1>12 DEF Receive, Read
<1>14. split.rest = Stretch(FrameLength * (k + q), r)
    BY <1>5, <1>10, <1>11, SplitFacts
<1>15. w = Visited(Following(k, q))
    BY <1>2, <1>5, <1>8, <1>10, <1>11, <1>12, FramesOfFacts
<1>16. PICK v \in 0 .. q :
           /\ w = Following(k, v)
           /\ \A j \in 1 .. v - 1 : ~Returns(k + j)
           /\ v # q => v >= 1 /\ Returns(k + v)
    BY <1>5, <1>15, VisitedFacts
<1>17. /\ v \in Nat /\ w \in Seq(Nat) /\ Len(w) = v /\ DOMAIN w = 1 .. v
       /\ \A j \in 1 .. v : w[j] = k + j
    <2>1. v \in Nat
        OBVIOUS
    <2>2. /\ Following(k, v) \in Seq(Nat) /\ Len(Following(k, v)) = v
          /\ DOMAIN Following(k, v) = 1 .. v
          /\ \A j \in 1 .. v : Following(k, v)[j] = k + j
        BY <1>5, <2>1, FollowingFacts
    <2> QED
        BY <1>16, <2>1, <2>2
<1>18. told' = Loud(0, k + v)
    <2>1. ASSUME NEW i \in 1 .. v
          PROVE  KindOf(w[i]) \notin {"junk", "DONE"} <=> written[k + i] \in Feed!Audible
        <3>1. k + i \in 1 .. Len(written) /\ w[i] = k + i
            BY <1>2, <1>5, <1>8, <1>17
        <3> QED
            BY <1>2, <3>1, KindFacts
    <2>2. {i \in DOMAIN w : KindOf(w[i]) \notin {"junk", "DONE"}}
              = {i \in 1 .. v : written[k + i] \in Feed!Audible}
        BY <1>17, <2>1
    <2>3. told' = told \o Loud(k, v)
        BY <1>13, <1>16, <2>2 DEF Dispatch, Loud
    <2> QED
        BY <1>3, <1>5, <1>17, <2>3, HeardMore DEF Between
<1>19. \A i \in 1 .. k + v - 1 : ~Returns(i)
    <2>1. ASSUME NEW i \in 1 .. k + v - 1 PROVE ~Returns(i)
        <3>1. CASE i <= k
            BY <1>3, <1>5, <3>1 DEF Between
        <3>2. CASE i > k
            <4>1. i - k \in 1 .. v - 1 /\ k + (i - k) = i
                BY <1>5, <1>17, <3>2
            <4> QED
                BY <1>16, <4>1
        <3> QED
            BY <1>5, <1>17, <3>1, <3>2
    <2> QED
        BY <2>1
<1>20. w # <<>> <=> v >= 1
    <2>1. Len(<<>>) = 0
        BY EmptySeq
    <2>2. w # <<>> => v # 0
        BY <1>17, EmptySeq
    <2> QED
        BY <1>17, <2>1, <2>2
<1>21. v >= 1 => w[Len(w)] = k + v /\ k + v \in 1 .. Len(written)
    BY <1>2, <1>5, <1>8, <1>17
<1>22. CASE v >= 1 /\ Returns(k + v)
    <2>1. k + v \in 1 .. Len(written) /\ Returns(w[Len(w)]) /\ w # <<>> /\ w[Len(w)] = k + v
        BY <1>20, <1>21, <1>22
    <2>2. KindOf(k + v) = written[k + v]
        BY <1>2, <2>1, KindFacts
    <2>3. /\ errors' = IF KindOf(k + v) = "error" THEN errors + 1 ELSE errors
          /\ phase' = "ended"
          /\ outcome' = CASE KindOf(k + v) = "error" -> "failed"
                          [] KindOf(k + v) = "final" -> "finished"
                          [] OTHER                   -> "silent"
        BY <1>13, <2>1 DEF Dispatch, End
    <2>4. outcome' = Feed!Ending(written[k + v])
        BY <1>2, <1>22, <2>1, <2>3, EndFacts
    <2>5. Chunked(k, q, v, r)
        BY <1>2, <1>3, <1>7, <1>8, <1>13, <1>14, <1>16, <1>18, <1>19, <1>22, <2>2, <2>3, <2>4
            DEF Chunked, Between
    <2> QED
        BY <1>2, <1>5, <1>17, <2>5
<1>23. CASE ~(v >= 1 /\ Returns(k + v))
    <2>1. ~(w # <<>> /\ Returns(w[Len(w)]))
        BY <1>20, <1>21, <1>23
    <2>2. UNCHANGED <<errors, phase, outcome>>
        BY <1>13, <2>1 DEF Dispatch
    <2>3. v = q
        BY <1>16, <1>23
    <2>4. Chunked(k, q, v, r)
        BY <1>2, <1>3, <1>7, <1>8, <1>13, <1>14, <1>16, <1>18, <1>19, <1>23, <2>2, <2>3
            DEF Chunked, Between
    <2> QED
        BY <1>2, <1>5, <1>17, <2>4
<1> QED
    BY <1>22, <1>23

-----------------------------------------------------------------------------
(* Every action keeps it. *)

\* It holds before the request.
LEMMA ReaderInit == Init => RInv
<1> SUFFICES ASSUME Init PROVE RInv
    OBVIOUS
<1>1. <<>> \in Seq(Kinds)
    BY EmptySeq
<1> QED
    BY <1>1 DEF Init, RInv, ReaderTypes, FreshInv, ReadingInv, ErrorsInv, SilentOnlyWithoutEnding

\* streamChat returns with an error or because the page aborted it.
LEMMA ReaderEnds ==
    ASSUME RInv, UNCHANGED <<server, received, buffer, told>>, phase # "ended",
           phase' = "ended", outcome' \in {"failed", "cancelled"},
           errors' = IF outcome' = "failed" THEN errors + 1 ELSE errors
    PROVE  RInv'
<1>1. outcome = "open" /\ errors = 0
    BY DEF RInv, ErrorsInv
<1> QED
    BY <1>1 DEF RInv, ReaderTypes, FreshInv, ReadingInv, ErrorsInv, SilentOnlyWithoutEnding,
                server

\* The request, before the response has come.
LEMMA ReaderOpens ==
    ASSUME RInv, Fetch \/ Respond
    PROVE  RInv'
<1>1. /\ UNCHANGED <<server, received, buffer, page, outcome>>
      /\ phase \in {"start", "opening"} /\ phase' \in {"opening", "reading", "refused"}
    BY DEF Fetch, Respond
<1>2. ReadingInv'
    <2>1. /\ written = <<>> /\ received = 0 /\ buffer = <<>> /\ told = <<>>
        BY <1>1 DEF RInv, FreshInv
    <2>2. Stretch(FrameLength * 0, 0) = <<>>
        <3>1. FrameLength * 0 \in Nat
            BY FrameLengthFacts
        <3>2. Stretch(FrameLength * 0, 0) \in Seq(Char) /\ Len(Stretch(FrameLength * 0, 0)) = 0
            BY <3>1, StretchFacts
        <3> QED
            BY <3>2, EmptySeq
    <2>3. Loud(0, 0)' = <<>>
        <3>1. Loud(0, 0) = <<>>
            BY OneMore
        <3>2. UNCHANGED written
            BY <1>1 DEF server
        <3>3. Loud(0, 0)' = Loud(0, 0)
            BY <3>2 DEF Loud
        <3> QED
            BY <3>1, <3>3
    <2>4. Between(0, 0)'
        BY <1>1, <2>1, <2>2, <2>3, FrameLengthFacts DEF Between, page
    <2>5. 0 \in 0 .. Len(written') /\ 0 \in 0 .. FrameLength - 1
        <3>1. Len(<<>>) = 0
            BY EmptySeq
        <3> QED
            BY <1>1, <2>1, <3>1, FrameLengthFacts DEF server
    <2> QED
        BY <2>4, <2>5 DEF ReadingInv
<1> QED
    BY <1>1, <1>2 DEF RInv, ReaderTypes, FreshInv, ErrorsInv, SilentOnlyWithoutEnding,
                      server, page

\* Another frame changes nothing about those that have come.
LEMMA ReaderWrites ==
    ASSUME RInv, NEW kind \in Kinds, Write(kind)
    PROVE  RInv'
<1>1. /\ phase = "reading" /\ written' = Append(written, kind)
      /\ UNCHANGED <<phase, serverDone, received, buffer, page, outcome>>
      /\ written \in Seq(Kinds) /\ outcome = "open"
    BY DEF Write, RInv, ReaderTypes
<1>2. /\ written' \in Seq(Kinds) /\ Len(written') = Len(written) + 1 /\ Len(written) \in Nat
      /\ \A i \in 1 .. Len(written) : written'[i] = written[i]
    BY <1>1, AppendProperties, LenProperties
<1>3. PICK k \in 0 .. Len(written), r \in 0 .. FrameLength - 1 : Between(k, r)
    BY <1>1 DEF RInv, ReadingInv
<1>4. Loud(0, k)' = Loud(0, k)
    <2>1. \A i \in 1 .. k : 0 + i \in 1 .. Len(written)
        BY <1>2
    <2>2. {i \in 1 .. k : written[0 + i] \in Feed!Audible}
              = {i \in 1 .. k : written'[0 + i] \in Feed!Audible}
        BY <1>2, <2>1
    <2>3. Feed!Audible' = Feed!Audible
        BY DEF Feed!Audible
    <2> QED
        BY <2>2, <2>3 DEF Loud
<1>5. ASSUME NEW i \in 1 .. k PROVE ~Returns(i)'
    <2>1. i \in 1 .. Len(written) /\ ~Returns(i)
        BY <1>2, <1>3 DEF Between
    <2>2. written'[i] = written[i]
        BY <1>2, <2>1
    <2> QED
        BY <2>1, <2>2 DEF Returns, KindOf
<1>6. Between(k, r)'
    BY <1>1, <1>3, <1>4, <1>5 DEF Between, page
<1>7. ReadingInv'
    <2>1. k \in 0 .. Len(written')
        BY <1>2
    <2> QED
        BY <1>6, <2>1 DEF ReadingInv
<1> QED
    BY <1>1, <1>2, <1>7 DEF RInv, ReaderTypes, FreshInv, ErrorsInv, SilentOnlyWithoutEnding,
                            page

\* The server closes the response.
LEMMA ReaderCloses ==
    ASSUME RInv, Close
    PROVE  RInv'
<1>1. /\ phase = "reading" /\ serverDone' = TRUE /\ outcome = "open"
      /\ UNCHANGED <<phase, written, received, buffer, page, outcome>>
    BY DEF Close, RInv
<1>2. PICK k \in 0 .. Len(written), r \in 0 .. FrameLength - 1 : Between(k, r)
    BY <1>1 DEF RInv, ReadingInv
<1>3. Between(k, r)'
    BY <1>1, <1>2 DEF Between, Loud, Returns, KindOf, page
<1>4. ReadingInv'
    BY <1>1, <1>3 DEF ReadingInv
<1> QED
    BY <1>1, <1>4 DEF RInv, ReaderTypes, FreshInv, ErrorsInv, SilentOnlyWithoutEnding, page

\* A chunk comes.
LEMMA ReaderReceives ==
    ASSUME RInv, Chunk
    PROVE  RInv'
<1>1. PICK k \in Nat, q \in Nat, v \in Nat, r \in 0 .. FrameLength - 1 : Chunked(k, q, v, r)
    BY ReceiveFacts
<1>2. /\ phase = "reading" /\ outcome = "open" /\ errors = 0
      /\ written \in Seq(Kinds) /\ Len(written) \in Nat
    BY ReceiveFacts, LenProperties DEF RInv, ReaderTypes, ErrorsInv
<1>3. /\ UNCHANGED server /\ UNCHANGED written /\ UNCHANGED serverDone
      /\ k + q <= Len(written) /\ v <= q
      /\ received' = FrameLength * (k + q) + r /\ received' \in Nat
    <2>1. FrameLength * (k + q) + r \in Nat
        <3>1. k + q \in Nat
            OBVIOUS
        <3> QED
            BY <3>1, FramesFacts
    <2> QED
        BY <1>1, <2>1 DEF Chunked, server
<1>4. CASE /\ v >= 1 /\ Returns(k + v)
           /\ phase' = "ended" /\ outcome' = Feed!Ending(written[k + v])
           /\ errors' = IF written[k + v] = "error" THEN errors + 1 ELSE errors
    <2>1. k + v \in 1 .. Len(written)
        BY <1>2, <1>3, <1>4
    <2>2. written[k + v] \in {"error", "final", "DONE"}
        BY <1>2, <1>4, <2>1, KindFacts DEF Feed!Terminal
    <2>3. /\ written[k + v] = "error" => outcome' = "failed"
          /\ written[k + v] = "final" => outcome' = "finished"
          /\ written[k + v] = "DONE" => outcome' = "silent"
        BY <1>4 DEF Feed!Ending
    <2>4. SilentOnlyWithoutEnding'
        BY <1>3, <2>1, <2>2, <2>3 DEF SilentOnlyWithoutEnding
    <2>5. ErrorsInv' /\ errors' \in Nat
        BY <1>2, <1>4, <2>2, <2>3 DEF ErrorsInv
    <2> QED
        BY <1>2, <1>3, <1>4, <2>2, <2>3, <2>4, <2>5
            DEF RInv, ReaderTypes, FreshInv, ReadingInv
<1>5. CASE /\ v = q /\ (v >= 1 => ~Returns(k + v))
           /\ UNCHANGED <<errors, phase, outcome>>
    <2>1. \A i \in 1 .. k + q : ~Returns(i)
        <3>1. ASSUME NEW i \in 1 .. k + q PROVE ~Returns(i)
            <4>1. CASE i \in 1 .. k \/ i \in 1 .. k + v - 1
                BY <1>1, <4>1 DEF Chunked
            <4>2. CASE i = k + v /\ v >= 1
                BY <1>5, <4>2
            <4> QED
                BY <1>5, <4>1, <4>2
        <3> QED
            BY <3>1
    <2>2. Between(k + q, r)'
        <3>1. told' = Loud(0, k + q)
            BY <1>1, <1>5 DEF Chunked
        <3>2. Loud(0, k + q)' = Loud(0, k + q) /\ \A i \in 1 .. k + q : Returns(i)' <=> Returns(i)
            BY <1>3 DEF Loud, Feed!Audible, Returns, KindOf
        <3>3. buffer' = Stretch(FrameLength * (k + q), r)
            BY <1>1 DEF Chunked
        <3>4. (k + q)' = k + q
            OBVIOUS
        <3> QED
            BY <1>3, <2>1, <3>1, <3>2, <3>3 DEF Between
    <2>3. ReadingInv'
        <3>1. k + q \in 0 .. Len(written')
            BY <1>2, <1>3
        <3> QED
            BY <2>2, <3>1 DEF ReadingInv
    <2> QED
        BY <1>2, <1>3, <1>5, <2>3
            DEF RInv, ReaderTypes, FreshInv, ErrorsInv, SilentOnlyWithoutEnding
<1> QED
    BY <1>1, <1>4, <1>5 DEF Chunked

\* The response ends.
LEMMA ReaderStops ==
    ASSUME RInv, EndOfStream
    PROVE  RInv'
<1>1. /\ phase = "reading" /\ serverDone /\ received = FrameLength * Len(written)
      /\ phase' = "ended" /\ outcome' = "silent" /\ outcome = "open" /\ errors = 0
      /\ UNCHANGED <<server, received, buffer, page>>
      /\ written \in Seq(Kinds) /\ Len(written) \in Nat
    BY LenProperties DEF EndOfStream, End, RInv, ReaderTypes, ErrorsInv
<1>2. PICK k \in 0 .. Len(written), r \in 0 .. FrameLength - 1 : Between(k, r)
    BY <1>1 DEF RInv, ReadingInv
<1>3. k = Len(written)
    <2>1. PICK b \in Nat \ {0} : b = FrameLength
        BY FrameLengthFacts
    <2>2. b * k + r = b * Len(written) + 0 /\ k \in Nat /\ 0 \in 0 .. b - 1
        BY <1>1, <1>2, <2>1 DEF Between
    <2>3. (b * k + r) \div b = k /\ (b * Len(written) + 0) \div b = Len(written)
        BY <1>1, <2>1, <2>2, DivMod
    <2> QED
        BY <2>2, <2>3
<1>4. ASSUME NEW f \in 1 .. Len(written) PROVE written[f] \notin {"error", "final"}
    <2>1. ~Returns(f)
        BY <1>2, <1>3 DEF Between
    <2> QED
        BY <1>1, <2>1, KindFacts DEF Feed!Terminal
<1>5. SilentOnlyWithoutEnding'
    BY <1>1, <1>4 DEF SilentOnlyWithoutEnding, server
<1> QED
    BY <1>1, <1>5 DEF RInv, ReaderTypes, FreshInv, ReadingInv, ErrorsInv, server, page

\* And so every step does.
LEMMA ReaderNext == RInv /\ [Next]_vars => RInv'
<1> SUFFICES ASSUME RInv, [Next]_vars PROVE RInv'
    OBVIOUS
<1>1. CASE NotSignedIn \/ FetchFails \/ Refused \/ Abort \/ Break
    <2>1. /\ UNCHANGED <<server, received, buffer, told>> /\ phase # "ended"
          /\ phase' = "ended" /\ outcome' \in {"failed", "cancelled"}
          /\ errors' = IF outcome' = "failed" THEN errors + 1 ELSE errors
        BY <1>1 DEF NotSignedIn, FetchFails, Refused, Abort, Break, Fail, End, page
    <2> QED
        BY <2>1, ReaderEnds
<1>2. CASE Fetch \/ Respond
    BY <1>2, ReaderOpens
<1>3. ASSUME NEW kind \in Kinds, Write(kind) PROVE RInv'
    BY <1>3, ReaderWrites
<1>4. CASE Close
    BY <1>4, ReaderCloses
<1>5. CASE Chunk
    BY <1>5, ReaderReceives
<1>6. CASE EndOfStream
    BY <1>6, ReaderStops
<1>7. CASE UNCHANGED vars
    BY <1>7 DEF vars, RInv, ReaderTypes, FreshInv, ReadingInv, ErrorsInv, Between, Loud,
                Returns, KindOf, SilentOnlyWithoutEnding
<1> QED
    BY <1>1, <1>2, <1>3, <1>4, <1>5, <1>6, <1>7 DEF Next

\* It always holds.
LEMMA ReaderInvariant == Spec => []RInv
<1>1. RInv /\ [Next]_vars => RInv'
    BY ReaderNext
<1> QED
    BY ReaderInit, <1>1, PTL DEF Spec

-----------------------------------------------------------------------------
(* What follows from it. *)

\* streaming.js:104-110. However the bytes were cut, a reader that waits for more
\* has told the page of every frame that has come whole.
THEOREM PromptAlways == Spec => []Prompt
<1>1. ASSUME RInv, phase = "reading"
      PROVE  told = Feed!Heard(received \div FrameLength)
    <2>1. PICK k \in 0 .. Len(written), r \in 0 .. FrameLength - 1 : Between(k, r)
        BY <1>1 DEF RInv, ReadingInv
    <2>2. k \in Nat
        BY <1>1, LenProperties DEF RInv, ReaderTypes
    <2>3. received \div FrameLength = k
        BY <2>1, <2>2, FrameLengthFacts, DivMod DEF Between
    <2> QED
        BY <2>1, <2>2, <2>3, HeardIsLoud DEF Between
<1>2. RInv => Prompt
    BY <1>1 DEF Prompt
<1> QED
    BY <1>2, ReaderInvariant, PTL

\* streaming.js:100, :121. A silent end, neither onFinal nor onError, means that
\* the server wrote [DONE] or closed without an ending event.
THEOREM SilentForAReason == Spec => []SilentOnlyWithoutEnding
<1>1. RInv => SilentOnlyWithoutEnding
    BY DEF RInv
<1> QED
    BY <1>1, ReaderInvariant, PTL

\* onError is called at most once, and exactly when streamChat has failed.
THEOREM OneError == Spec => []ErrorsInv
<1>1. RInv => ErrorsInv
    BY DEF RInv
<1> QED
    BY <1>1, ReaderInvariant, PTL

\* The abstract state of the first state.
LEMMA FeedInit == Init => Feed!Init
BY DEF Init, Feed!Init

\* Every step of the reader is one of the feed, or none.
LEMMA FeedNext == RInv /\ [Next]_vars => [Feed!Next]_Feed!vars
<1> SUFFICES ASSUME RInv, [Next]_vars PROVE [Feed!Next]_Feed!vars
    OBVIOUS
<1>1. CASE NotSignedIn \/ FetchFails \/ Refused \/ Abort \/ Break
    <2>1. /\ UNCHANGED <<written, told>> /\ phase # "ended"
          /\ outcome' \in {"failed", "cancelled"}
        BY <1>1 DEF NotSignedIn, FetchFails, Refused, Abort, Break, Fail, End, page, server
    <2>2. outcome = "open"
        BY <2>1 DEF RInv
    <2>3. Feed!Stop
        BY <2>1, <2>2 DEF Feed!Stop
    <2> QED
        BY <2>3 DEF Feed!Next
<1>2. CASE Fetch \/ Respond \/ Close
    BY <1>2 DEF Fetch, Respond, Close, server, page, Feed!vars
<1>3. ASSUME NEW kind \in Kinds, Write(kind) PROVE [Feed!Next]_Feed!vars
    <2>1. Feed!Publish
        BY <1>3 DEF Write, page, Feed!Publish
    <2> QED
        BY <2>1 DEF Feed!Next
<1>4. CASE Chunk
    <2>1. PICK k \in Nat, q \in Nat, v \in Nat, r \in 0 .. FrameLength - 1 : Chunked(k, q, v, r)
        BY <1>4, ReceiveFacts
    <2>2. outcome = "open" /\ written \in Seq(Kinds) /\ Len(written) \in Nat
        BY <1>4, ReceiveFacts, LenProperties DEF RInv, ReaderTypes
    <2>3. UNCHANGED written /\ k + v <= Len(written) /\ told = Loud(0, k) /\ told' = Loud(0, k + v)
        BY <2>1, <2>2 DEF Chunked, server
    <2>4. CASE v = 0
        <3>1. UNCHANGED <<written, told, outcome>>
            BY <2>1, <2>3, <2>4 DEF Chunked
        <3> QED
            BY <3>1 DEF Feed!vars
    <2>5. CASE v # 0
        <3>1. PICK n \in 1 .. Len(written) : n = k + v
            BY <2>2, <2>3, <2>5
        <3>2. \A i \in 1 .. n - 1 : written[i] \notin Feed!Terminal
            <4>1. ASSUME NEW i \in 1 .. n - 1 PROVE written[i] \notin Feed!Terminal
                <5>1. i \in 1 .. Len(written) /\ i \in 1 .. k + v - 1
                    BY <2>2, <3>1
                <5>2. ~Returns(i)
                    BY <2>1, <5>1 DEF Chunked
                <5> QED
                    BY <2>2, <5>1, <5>2, KindFacts
            <4> QED
                BY <4>1
        <3>3. told' = Feed!Heard(n)
            BY <2>3, <3>1, HeardIsLoud
        <3>4. outcome' = IF written[n] \in Feed!Terminal THEN Feed!Ending(written[n]) ELSE "open"
            <4>1. Returns(n) <=> written[n] \in Feed!Terminal
                BY <2>2, <3>1, KindFacts
            <4> QED
                BY <2>1, <2>2, <2>5, <3>1, <4>1 DEF Chunked
        <3>5. Len(told') >= Len(told)
            <4>1. told' = told \o Loud(k, v)
                BY <2>3, HeardMore
            <4>2. told \in Seq(Nat) /\ Loud(k, v) \in Seq(Nat)
                BY <2>3, OneMore
            <4>3. Len(told') = Len(told) + Len(Loud(k, v))
                BY <4>1, <4>2, ConcatProperties
            <4> QED
                BY <4>2, <4>3, LenProperties
        <3>6. Feed!Tell
            BY <2>2, <2>3, <3>2, <3>3, <3>4, <3>5 DEF Feed!Tell
        <3> QED
            BY <3>6 DEF Feed!Next
    <2> QED
        BY <2>4, <2>5
<1>5. CASE EndOfStream
    <2>1. /\ UNCHANGED <<written, told>> /\ outcome' = "silent" /\ outcome = "open"
        BY <1>5 DEF EndOfStream, End, page, server, RInv
    <2>2. Feed!Stop
        BY <2>1 DEF Feed!Stop
    <2> QED
        BY <2>2 DEF Feed!Next
<1>6. CASE UNCHANGED vars
    BY <1>6 DEF vars, Feed!vars
<1> QED
    BY <1>1, <1>2, <1>3, <1>4, <1>5, <1>6 DEF Next

\* streaming.js:97-159. streamChat implements EventFeed: the page is told the
\* server's events once each, in order, up to the one that ends the stream.
THEOREM ReaderImplementsFeed == Spec => ImplementsFeed
<1>1. Init => Feed!Init
    BY FeedInit
<1>2. RInv /\ [Next]_vars => [Feed!Next]_Feed!vars
    BY FeedNext
<1> QED
    BY <1>1, <1>2, ReaderInvariant, PTL DEF Spec, ImplementsFeed, Feed!Spec
=============================================================================
