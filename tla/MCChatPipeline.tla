---------------------------- MODULE MCChatPipeline ----------------------------
(* Instances of ChatPipeline for TLC. *)
EXTENDS ChatPipeline, TLC

CONSTANTS r1, r2, r3, s1, s2, p1, p2, k1, a1, a2

\* Two prompts far enough apart to be a MISS for one another, and what the
\* pruner makes of the first: close to it, but no longer the same prompt.
MCKeys    == {p1, p2, k1}
OnePrompt  == {p1}
TwoPrompts == {p1, p2}
MCPruneOf  == [p \in Prompts |-> IF p = p1 THEN k1 ELSE p]

MCCloseness ==
    [kk \in MCKeys \X MCKeys |->
        CASE kk[1] = kk[2]                -> "HIT"
          [] {kk[1], kk[2]} = {p1, k1}    -> "FEW_SHOT"
          [] OTHER                        -> "MISS"]

SymmetricAnswers == Permutations(Answers)

Symmetric == SymmetricAnswers \cup Permutations(Requests) \cup Permutations(Sessions)
=============================================================================
