------------------------------ MODULE EventFeed ------------------------------
(***************************************************************************)
(* What streamChat (src/dashboard/src/utils/streaming.js) promises the     *)
(* page that calls it, with no characters, chunks or buffers in sight.     *)
(*                                                                         *)
(* The server publishes events. The page is told the events that mean      *)
(* something to it, each once and in the order of publication, up to the   *)
(* first one that ends the stream. A feed may be late, but it never skips  *)
(* an event, and it ends in one way only.                                  *)
(***************************************************************************)
EXTENDS Naturals, Sequences, Filter

CONSTANT Kinds    \* the kinds of events a server may publish

VARIABLES
    published,  \* the events published so far
    told,       \* the numbers of the events the page has been told, in order
    outcome     \* "open", or how the feed ended

vars == <<published, told, outcome>>

\* The kinds that end a stream, and the kinds a page hears about.
Terminal == {"error", "final", "DONE"}
Audible  == {"token", "loop", "remediation", "error", "final"}

\* The audible ones among the first n published events.
Heard(n) == Kept([i \in 1 .. n |-> i], {i \in 1 .. n : published[i] \in Audible})

Ending(kind) == CASE kind = "error" -> "failed"
                  [] kind = "final" -> "finished"
                  [] OTHER          -> "silent"

Init ==
    /\ published = <<>>
    /\ told = <<>>
    /\ outcome = "open"

Publish ==
    /\ \E kind \in Kinds : published' = Append(published, kind)
    /\ UNCHANGED <<told, outcome>>

\* The page hears the next events; it may also hear how the stream ends.
Tell ==
    /\ outcome = "open"
    /\ \E n \in 1 .. Len(published) :
          /\ \A i \in 1 .. n - 1 : published[i] \notin Terminal
          /\ told' = Heard(n)
          /\ outcome' = IF published[n] \in Terminal THEN Ending(published[n])
                                                     ELSE "open"
    /\ Len(told') >= Len(told)
    /\ UNCHANGED published

\* The transport failed, the page cancelled, or the server stopped without
\* an ending event.
Stop ==
    /\ outcome = "open"
    /\ outcome' \in {"failed", "cancelled", "silent"}
    /\ UNCHANGED <<published, told>>

Next == Publish \/ Tell \/ Stop

Spec == Init /\ [][Next]_vars
=============================================================================
