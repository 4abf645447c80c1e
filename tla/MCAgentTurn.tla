---------------------------- MODULE MCAgentTurn ----------------------------
(* TLC instance of AgentTurn: responses that act after a read, and that    *)
(* act, are blocked and are left out of the transcript.                    *)
EXTENDS AgentTurn

CONSTANTS act, look

MCRequests ==
  {[calls |-> <<look, act>>, blocked |-> {}, silent |-> FALSE],
   [calls |-> <<act>>, blocked |-> {1}, silent |-> TRUE]}
MCMaxRetries == [rate_limit |-> 1, server_error |-> 0]
=============================================================================
