------------------------------ MODULE SSEReader ------------------------------
(***************************************************************************)
(* streamChat of src/dashboard/src/utils/streaming.js: the reader of one   *)
(* Server-Sent-Events stream.                                              *)
(*                                                                         *)
(* The gateway writes frames "data: ...\n\n". The network cuts the bytes   *)
(* into chunks wherever it likes, inside a frame and between the two line  *)
(* feeds too. A character of frame f is <<f, i>>, the i-th piece of its    *)
(* body, or a line feed; so what a buffer holds can be compared with what  *)
(* was written.                                                            *)
(*                                                                         *)
(* JavaScript runs one turn at a time. All the parts a chunk completes are *)
(* dispatched in one turn. AbortController.abort() rejects the promise     *)
(* streamChat waits for, and its continuation runs before anything else.   *)
(*                                                                         *)
(* A definition named D_X is D with the mistake X in it. It is no part of  *)
(* the specification: it shows that a property can tell D from D_X.        *)
(***************************************************************************)
EXTENDS Naturals, Sequences, Filter

CONSTANTS
    Kinds,        \* kinds of frames the server may write
    BodyPieces,   \* pieces a frame's body can be cut into
    MaxFrames     \* bound of the model: frames written in one stream

ASSUME KindsAssumption == Kinds \subseteq
    {"token", "loop", "remediation", "error", "final", "DONE", "junk"}
ASSUME BodyPiecesAssumption == BodyPieces \in Nat \ {0}
ASSUME MaxFramesAssumption == MaxFrames \in Nat

VARIABLES
    phase,      \* "start" | "opening" | "refused" | "reading" | "ended"
    written,    \* the kinds of the frames the server has written
    serverDone, \* the server has closed the response
    received,   \* history: how many characters have arrived
    buffer,     \* the characters kept between two chunks
    told,       \* history: the frames whose callback was called, in order
    errors,     \* history: calls of onError
    outcome     \* "open", or how streamChat ended

vars   == <<phase, written, serverDone, received, buffer, told, errors, outcome>>
server == <<written, serverDone>>
page   == <<told, errors>>

LF == <<0, 0>>    \* a line feed; frames are numbered from 1

FrameLength == BodyPieces + 2

\* The n-th character of everything the server writes.
CharAt(n) == LET frame == ((n - 1) \div FrameLength) + 1
                 piece == ((n - 1) % FrameLength) + 1
             IN  IF piece > BodyPieces THEN LF ELSE <<frame, piece>>

Body(frame) == [i \in 1 .. BodyPieces |-> <<frame, i>>]

Init ==
    /\ phase = "start"
    /\ written = <<>>
    /\ serverDone = FALSE
    /\ received = 0
    /\ buffer = <<>>
    /\ told = <<>>
    /\ errors = 0
    /\ outcome = "open"
-----------------------------------------------------------------------------
(* The request.                                                            *)

End(how) == phase' = "ended" /\ outcome' = how

\* onError(message); return
Fail ==
    /\ errors' = errors + 1
    /\ End("failed")
    /\ UNCHANGED told

\* Without a stored token the page is told so and nothing is sent.
NotSignedIn ==
    /\ phase = "start"
    /\ Fail
    /\ UNCHANGED <<server, received, buffer>>

Fetch ==
    /\ phase = "start"
    /\ phase' = "opening"
    /\ UNCHANGED <<server, received, buffer, page, outcome>>

FetchFails ==
    /\ phase = "opening"
    /\ Fail
    /\ UNCHANGED <<server, received, buffer>>

\* The response has arrived, with status 200 or with another.
Respond ==
    /\ phase = "opening"
    /\ phase' \in {"reading", "refused"}
    /\ UNCHANGED <<server, received, buffer, page, outcome>>

\* The body of a refusal has been read, or could not be.
Refused ==
    /\ phase = "refused"
    /\ Fail
    /\ UNCHANGED <<server, received, buffer>>

\* The page aborts. While a refusal's body is read the `catch (_) {}` around
\* it swallows the AbortError, and onError is called all the same.
Abort ==
    /\ \/ /\ phase \in {"opening", "reading"}
          /\ End("cancelled")
          /\ UNCHANGED page
       \/ /\ phase = "refused"
          /\ Fail
    /\ UNCHANGED <<server, received, buffer>>
-----------------------------------------------------------------------------
(* The server and the network.                                             *)

Write(kind) ==
    /\ phase = "reading" /\ ~serverDone
    /\ Len(written) < MaxFrames
    /\ written' = Append(written, kind)
    /\ UNCHANGED <<phase, serverDone, received, buffer, page, outcome>>

Close ==
    /\ phase = "reading" /\ ~serverDone
    /\ serverDone' = TRUE
    /\ UNCHANGED <<phase, written, received, buffer, page, outcome>>

\* reader.read() rejects, and streamChat reports it.
Break ==
    /\ phase = "reading"
    /\ Fail
    /\ UNCHANGED <<server, received, buffer>>
-----------------------------------------------------------------------------
(* One chunk.                                                              *)

\* Where the delimiters start, in order. Frames hold no line feeds of their
\* own, so no two delimiters overlap.
Cuts(s) == LET starts == {i \in 1 .. Len(s) - 1 : s[i] = LF /\ s[i + 1] = LF}
           IN  Kept([i \in 1 .. Len(s) - 1 |-> i], starts)

\* The mistake of keeping the last part back when it is a whole one.
Split_KeepsLast(s) ==
    LET cut     == Cuts(s)
        from(k) == IF k = 1 THEN 1 ELSE cut[k - 1] + 2
        whole   == IF Len(cut) > 0 /\ cut[Len(cut)] = Len(s) - 1 THEN Len(cut) - 1
                                                                 ELSE Len(cut)
    IN  [parts |-> [k \in 1 .. whole |-> SubSeq(s, from(k), cut[k] - 1)],
         rest  |-> SubSeq(s, from(whole + 1), Len(s))]

\* s.split('\n\n'): the parts before each delimiter, and the rest, which may
\* be empty.
Split(s) ==
    LET cut     == Cuts(s)
        from(k) == IF k = 1 THEN 1 ELSE cut[k - 1] + 2
    IN  [parts |-> [k \in 1 .. Len(cut) |-> SubSeq(s, from(k), cut[k] - 1)],
         rest  |-> SubSeq(s, from(Len(cut) + 1), Len(s))]

\* s.trim(), where only line feeds can be white space.
Trim(s) ==
    LET text == {i \in DOMAIN s : s[i] # LF}
    IN  IF text = {} THEN <<>>
        ELSE SubSeq(s, CHOOSE i \in text : \A j \in text : i <= j,
                       CHOOSE i \in text : \A j \in text : i >= j)

\* The frame a part, trimmed, is the whole of; 0 if it is no whole frame.
FrameOf(part) ==
    IF \E f \in 1 .. Len(written) : Trim(part) = Body(f) THEN Trim(part)[1][1] ELSE 0

\* What the loop makes of a part: one it cannot parse is skipped.
KindOf_NoError(f) == IF f = 0 \/ written[f] = "error" THEN "junk" ELSE written[f]
KindOf(f) == IF f = 0 THEN "junk" ELSE written[f]

Returns(f) == KindOf(f) \in {"error", "final", "DONE"}

\* The frames the loop comes to: all of them, or those up to its first return.
Visited(frames) ==
    LET returns == {i \in DOMAIN frames : Returns(frames[i])}
    IN  IF returns = {} THEN frames
        ELSE SubSeq(frames, 1, CHOOSE i \in returns : \A j \in returns : i <= j)

\* The frames the loop comes to among the parts.
FramesOf(parts) == Visited([k \in DOMAIN parts |-> FrameOf(parts[k])])

\* The callbacks the loop calls, and the way it ends.
Dispatch(visited) ==
    LET last  == visited[Len(visited)]
        heard == {i \in DOMAIN visited : KindOf(visited[i]) \notin {"junk", "DONE"}}
    IN  /\ told' = told \o Kept(visited, heard)
        /\ IF visited # <<>> /\ Returns(last)
             THEN /\ errors' = IF KindOf(last) = "error" THEN errors + 1 ELSE errors
                  /\ End(CASE KindOf(last) = "error" -> "failed"
                           [] KindOf(last) = "final" -> "finished"
                           [] OTHER                  -> "silent")
             ELSE UNCHANGED <<errors, phase, outcome>>

\* The next n characters.
Coming(n) == [i \in 1 .. n |-> CharAt(received + i)]

\* What the reader does with the characters s. (A value bound by \E is one TLC
\* computes once.)
Read(s) ==
    \E split \in {Split(s)} : \E visited \in {FramesOf(split.parts)} :
        /\ phase = "reading"
        /\ buffer' = split.rest
        /\ Dispatch(visited)
        /\ UNCHANGED server

\* reader.read() yields the next n characters.
Receive_NoBuffer(n) ==
    /\ \E s \in {Coming(n)} : Read(s)
    /\ received' = received + n
Receive(n) ==
    /\ \E s \in {buffer \o Coming(n)} : Read(s)
    /\ received' = received + n

Chunk == \E n \in 1 .. FrameLength * Len(written) - received : Receive(n)

\* reader.read() yields done. What is left in the buffer is forgotten.
EndOfStream_Spins ==
    /\ phase = "reading" /\ serverDone
    /\ received = FrameLength * Len(written)
    /\ UNCHANGED vars
EndOfStream ==
    /\ phase = "reading" /\ serverDone
    /\ received = FrameLength * Len(written)
    /\ End("silent")
    /\ UNCHANGED <<server, received, buffer, page>>

Next ==
    \/ NotSignedIn \/ Fetch \/ FetchFails \/ Respond \/ Refused \/ Abort
    \/ \E kind \in Kinds : Write(kind)
    \/ Close \/ Break \/ Chunk \/ EndOfStream

Spec == Init /\ [][Next]_vars

\* A response comes, a refusal's body is read, what was written arrives, and
\* the gateway closes the streams it opens (TokenStream and ChatPipeline).
Fairness ==
    /\ WF_vars(Fetch \/ NotSignedIn)
    /\ WF_vars(Respond \/ FetchFails)
    /\ WF_vars(Refused)
    /\ WF_vars(Close)
    /\ WF_vars(Chunk)
    /\ WF_vars(EndOfStream)

FairSpec == Spec /\ Fairness
-----------------------------------------------------------------------------
(* What must be true.                                                      *)

Feed == INSTANCE EventFeed WITH published <- written

\* streaming.js:97-159. However the bytes are cut, the page is told the
\* server's events once each, in order, up to the one that ends the stream.
ImplementsFeed == Feed!Spec

\* streaming.js:104-110. A reader keeps back only what is no whole frame yet:
\* every frame that has arrived in full has had its callback.
Prompt ==
    phase = "reading" => told = Feed!Heard(received \div FrameLength)

\* streaming.js:100, :121. streamChat returns without onFinal and without
\* onError only when it was aborted or the server ended without either.
SilentOnlyWithoutEnding ==
    outcome = "silent" =>
        \/ \E f \in 1 .. Len(written) : written[f] = "DONE"
        \/ serverDone /\ \A f \in 1 .. Len(written) :
                             written[f] \notin {"error", "final"}

\* Chat.jsx:255 awaits the promise: streamChat returns, whatever happens.
ReaderReturns == <>(phase = "ended")
=============================================================================
