-------------------------------- MODULE Filter --------------------------------
(***************************************************************************)
(* Array.prototype.filter, on which the dashboard's code rests in several  *)
(* places. SelectSeq of Sequences says the same of a test given as an      *)
(* operator; with a set of positions it can be reasoned about too.         *)
(***************************************************************************)
EXTENDS Naturals, Sequences

\* The elements of s at the positions in K, in their order.
Kept(s, K) ==
    LET kept[n \in 0 .. Len(s)] ==
            IF n = 0 THEN <<>>
            ELSE IF n \in K THEN Append(kept[n - 1], s[n])
                            ELSE kept[n - 1]
    IN  kept[Len(s)]
=============================================================================
