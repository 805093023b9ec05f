---------------------------- MODULE WitnessCodec ----------------------------
(***************************************************************************)
(* What the contract and the wallet may rely on: a lock field is a message *)
(* that stands for a value, or for nothing, and reading it is one step.    *)
(*                                                                         *)
(* `meanings` is the set of values whose encoding is the lock field.  The  *)
(* reader answers with the value when there is exactly one, and with an    *)
(* error when there is none; two values with one encoding would leave it   *)
(* without an answer.                                                      *)
(***************************************************************************)
CONSTANT NoReply, Rejected, Accepted(_)

VARIABLES meanings, reply

Init == reply = NoReply

Accept == \E v \in meanings : meanings = {v} /\ reply' = Accepted(v)

Reject == meanings = {} /\ reply' = Rejected

Next == reply = NoReply /\ (Accept \/ Reject) /\ UNCHANGED meanings

Safety == Init /\ [][Next]_<<meanings, reply>>

Spec == Safety /\ WF_<<meanings, reply>>(Next)
=============================================================================
