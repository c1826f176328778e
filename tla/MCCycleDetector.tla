---------------------------- MODULE MCCycleDetector ----------------------------
(* Instances of CycleDetector for TLC. *)
EXTENDS CycleDetector, TLC

CONSTANTS c1, c2, c3, s1, s2

\* All calls in one session, or the last one in another.
OneSession  == [c \in Calls |-> s1]
TwoSessions == [c \in Calls |-> IF c = c3 THEN s2 ELSE s1]

\* Calls that differ in nothing are interchangeable.
Symmetric == Permutations(Calls \ Impatient)
=============================================================================
