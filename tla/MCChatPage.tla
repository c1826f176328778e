------------------------------ MODULE MCChatPage ------------------------------
(* ChatPage on small instances: two pages. *)
EXTENDS ChatPage

CONSTANTS p1, p2

TwoPages == {p1, p2}
=============================================================================
