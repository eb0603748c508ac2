--------------------------- MODULE MCChatService ---------------------------
(* Requests for one prompt, streamed and not. *)
EXTENDS ChatService

CONSTANTS s1, s2, w1, p1

SamePrompt == [r \in Requests |-> p1]
=============================================================================
