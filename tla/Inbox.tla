-------------------------------- MODULE Inbox --------------------------------
(***************************************************************************)
(* What the message pipeline promises about the agent's turns in a chat,   *)
(* without events, buffers, queues or deduplication: there is one turn at  *)
(* a time, it is for a message beyond the mark of the chat, and the mark   *)
(* only moves up to the message of the turn that ends, so that no message  *)
(* below it ever gets a turn again.  A restart may lose the turns under    *)
(* way and the last movements of the marks, nothing else.                  *)
(*                                                                         *)
(* MessagePipeline implements this specification.                          *)
(***************************************************************************)
EXTENDS Naturals

CONSTANTS Chats, Messages, ChatOf

VARIABLES mark,    (* the last message handled in each chat                  *)
          durable, (* the marks a restart finds                              *)
          turn     (* the message the agent is answering, 0 without one      *)

vars == <<mark, durable, turn>>

Init ==
  /\ mark = [c \in Chats |-> 0]
  /\ durable = [c \in Chats |-> 0]
  /\ turn = [c \in Chats |-> 0]

Begin(m) ==
  /\ turn[ChatOf[m]] = 0
  /\ m > mark[ChatOf[m]]
  /\ turn' = [turn EXCEPT ![ChatOf[m]] = m]
  /\ UNCHANGED <<mark, durable>>

Handled(c) ==
  /\ turn[c] > mark[c]
  /\ mark' = [mark EXCEPT ![c] = turn[c]]
  /\ durable' \in {durable, mark'}
  /\ turn' = [turn EXCEPT ![c] = 0]

Failed(c) ==
  /\ turn[c] # 0
  /\ turn' = [turn EXCEPT ![c] = 0]
  /\ UNCHANGED <<mark, durable>>

Restart ==
  /\ mark' = durable
  /\ turn' = [c \in Chats |-> 0]
  /\ UNCHANGED durable

Next ==
  \/ \E m \in Messages : Begin(m)
  \/ \E c \in Chats : Handled(c) \/ Failed(c)
  \/ Restart

Spec == Init /\ [][Next]_vars
=============================================================================
