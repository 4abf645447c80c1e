-------------------------- MODULE MCOutgoingTracker --------------------------
(* TLC instance of OutgoingTracker: one logical send in each of the chats, *)
(* so that message ids of different chats coincide.                        *)
EXTENDS OutgoingTracker

CONSTANTS r1, r2, c1, c2

MCChatOf == [r \in RandomIds |-> IF r = r1 THEN c1 ELSE c2]
=============================================================================
