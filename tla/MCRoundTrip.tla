----------------------------- MODULE MCRoundTrip -----------------------------
(***************************************************************************)
(* Instances of RoundTrip for TLC.  All lock fields up to MaxLen bytes are *)
(* read, the encodings and everything that is not one.                     *)
(***************************************************************************)
EXTENDS MCWitnessDecoder, RoundTrip

(* The layouts are finite: a size for each of them. *)
MCSize ==
  [ Sig |-> 2, Multi |-> 3, Note |-> 2, Inner |-> 5, Outer |-> 7, Pair |-> 3, Batch |-> 3,
    Wide |-> 3, Flags |-> 4, Transfer |-> 4, CallFlags |-> 5, CallInner |-> 6,
    CallAuth |-> 4, Shadowed |-> 3 ]

ASSUME LayoutsAreFiniteHere == Ends(MCSize)
=============================================================================
