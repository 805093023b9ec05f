---------------------------- MODULE IdlRegister ----------------------------
(***************************************************************************)
(* What a reader of idl.json may rely on when the builds of a crate do not *)
(* overlap: the file is a register that versions of the source are         *)
(* published to, in the order in which they were written.  It holds the    *)
(* document of the latest version that a build has come to, or is being    *)
(* written, or there is none.                                              *)
(***************************************************************************)
EXTENDS Integers

CONSTANTS
  Last,     \* the last version of the source
  Docs,     \* version -> the documents of its flat witnesses
  Publish,  \* the versions with a flat witness
  Withdraw  \* the versions with a recursive witness

VARIABLES source, version, content

Absent == "absent"
Torn   == "torn"

Init == source = 1 /\ version = 0 /\ content = Absent

Edit == source < Last /\ source' = source + 1 /\ UNCHANGED <<version, content>>

(* A build has come to a witness of version v. *)
Come(v) == v \in version .. source /\ version' = v /\ UNCHANGED source

BeginWriting == \E v \in Publish : Come(v) /\ content' = Torn

FinishWriting ==
  /\ content = Torn
  /\ content' \in Docs[version]
  /\ UNCHANGED <<source, version>>

Remove == \E v \in Withdraw : Come(v) /\ content' = Absent

Next == Edit \/ BeginWriting \/ FinishWriting \/ Remove

Spec == Init /\ [][Next]_<<source, version, content>>
=============================================================================
