------------------------------ MODULE RoundTrip ------------------------------
(***************************************************************************)
(* The wallet's encoder and the contract's decoder together: the decoder   *)
(* implements WitnessCodec.                                                *)
(***************************************************************************)
EXTENDS WitnessDecoder, ClientEncoder

(* Every encoding of a value of a top-level struct that a lock field can   *)
(* be; a constant.                                                         *)
Messages ==
  [s \in Tops |-> UNION {[value : Decodings(s, raw), bytes : {raw}] : raw \in Buffers}]

Meanings == {m.value : m \in {e \in Messages[entry.body] :
                                witness.status = "lock" /\ e.bytes = witness.raw}}

Value == [i \in DOMAIN leaves |-> [some |-> leaves[i].some, val |-> leaves[i].val]]

Accepted(value) == [reply |-> "ok", value |-> value]
Rejected        == [reply |-> "err"]
NoReply         == [reply |-> "none"]

Reply == CASE outcome = Pending -> NoReply
           [] outcome = Decoded -> Accepted(Value)
           [] outcome = Panic   -> [reply |-> "panic"]
           [] OTHER             -> Rejected

Codec == INSTANCE WitnessCodec WITH meanings <- Meanings, reply <- Reply

(* The decoder returns the value a wallet encoded and an error for bytes   *)
(* that encode nothing, whatever usize is wide.  Two values with one       *)
(* encoding would leave it without a right answer.                         *)
AnswersAreRight == Codec!Safety

(* And it always returns. *)
ImplementsCodec == Codec!Spec

(* README.md: the format is identical in both directions.  What the wallet *)
(* encodes, the contract does not refuse.                                  *)
EncodedIsAccepted == outcome.status = "err" => Meanings = {}
=============================================================================
