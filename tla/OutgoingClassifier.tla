------------------------- MODULE OutgoingClassifier -------------------------
(***************************************************************************)
(* What the outgoing tracker promises the rest of the agent, without       *)
(* records, states or timers: a message of the account's own outgoing      *)
(* stream is called "programmatic" only if the agent itself sent it and    *)
(* the agent knows that at the moment it answers.  Nothing is ever guessed *)
(* from the chat, the text or the time of a message.                       *)
(*                                                                         *)
(* OutgoingTracker implements this specification.                          *)
(***************************************************************************)

CONSTANTS Keys,       (* (chat, message id) pairs                            *)
          RandomIds,  (* MTProto random ids of the agent's own sends         *)
          Manual,     (* the author of a message the owner typed             *)
          Nobody      (* the author of a message that does not exist         *)

VARIABLES origin,   (* who wrote each message                                *)
          known,    (* the messages the agent knows to be its own            *)
          verdict   (* the last answer given about each message              *)

vars == <<origin, known, verdict>>

Verdicts == {"none", "programmatic", "creator_manual"}

Init ==
  /\ origin = [k \in Keys |-> Nobody]
  /\ known = {}
  /\ verdict = [k \in Keys |-> "none"]

(* A message appears in a chat, written by the agent or by the owner.      *)
Create(k) ==
  /\ origin[k] = Nobody
  /\ \E who \in RandomIds \cup {Manual} : origin' = [origin EXCEPT ![k] = who]
  /\ UNCHANGED <<known, verdict>>

(* The agent learns that a message is its own, and only of such messages.  *)
Learn(k) ==
  /\ origin[k] \in RandomIds
  /\ known' = known \cup {k}
  /\ UNCHANGED <<origin, verdict>>

Forget(gone) ==
  /\ known' = known \ gone
  /\ UNCHANGED <<origin, verdict>>

Judge(k) ==
  /\ origin[k] # Nobody
  /\ verdict' = [verdict EXCEPT ![k] = IF k \in known THEN "programmatic"
                                                      ELSE "creator_manual"]
  /\ UNCHANGED <<origin, known>>

Next ==
  \/ \E k \in Keys : Create(k) \/ Learn(k) \/ Judge(k)
  \/ \E gone \in SUBSET Keys : Forget(gone)

Spec == Init /\ [][Next]_vars

=============================================================================
