-------------------------- MODULE MCMessagePipeline --------------------------
(* TLC instance of MessagePipeline: a group with a message for the agent   *)
(* and one that an edit or a policy may make one, and a private chat.      *)
EXTENDS MessagePipeline

CONSTANTS group, private

MCChatOf == [m \in Messages |-> IF m = 3 THEN private ELSE group]
=============================================================================
