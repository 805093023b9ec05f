-------------------------- MODULE MCWitnessDecoder --------------------------
(***************************************************************************)
(* Instances of WitnessDecoder for TLC: binary bytes, all lock fields up   *)
(* to MaxLen bytes, and layouts that collect_field_metas accepts, between  *)
(* them one field of every kind, at the end of a layout and before others. *)
(***************************************************************************)
EXTENDS WitnessDecoder, TLC

CONSTANT MaxLen   \* length of the longest lock field enumerated

MCBuffers == UNION {[1 .. n -> Byte] : n \in 0 .. MaxLen}

U(n)     == [k |-> "scalar", size |-> n]
Arr(n)   == [k |-> "array", size |-> n]
Opt(of)  == [k |-> "opt", of |-> of]
VecOf(e) == [k |-> "vec", of |-> e]
Sub(s)   == [k |-> "struct", path |-> s]
Enum(u)  == [k |-> "union", path |-> u]
F(name, kind) == [name |-> name, kind |-> kind]

MCFields ==
  [ Transfer |-> <<F("nonce", U(1)), F("data", VarBytes), F("memo", Opt(VarBytes))>>,
    Flags    |-> <<F("a", Opt(U(1))), F("b", Opt(U(2))), F("c", Opt(Arr(3)))>>,
    Wide     |-> <<F("amount", U(8)), F("fee", Opt(U(16)))>>,
    Batch    |-> <<F("amounts", VecOf(U(2))), F("last", Opt(U(1)))>>,
    Pair     |-> <<F("left", VecOf(U(1))), F("right", VecOf(Arr(1)))>>,
    Outer    |-> <<F("version", U(1)), F("inner", Sub("Inner"))>>,
    Inner    |-> <<F("id", Arr(1)), F("auth", Enum("Auth"))>>,
    Sig      |-> <<F("sig", Arr(2))>>,
    Multi    |-> <<F("sigs", VecOf(U(1))), F("note", Opt(Arr(2)))>>,
    Note     |-> <<F("n", Opt(U(1)))>>,
    CallFlags |-> <<F("call", Sub("Flags"))>>,
    CallInner |-> <<F("call", Sub("Inner"))>>,
    CallAuth  |-> <<F("call", Enum("Auth"))>> ]

MCStructs  == DOMAIN MCFields
MCUnions   == {"Auth"}
MCVariants == [Auth |-> (1 :> "Sig" @@ 2 :> "Multi" @@ 9 :> "Note")]
MCTops     == {"Transfer", "Flags", "Wide", "Batch", "Pair", "Outer", "Note"}
MCCallers  == {"CallFlags", "CallInner", "CallAuth"}

(* A witness with a field that is called like a local of the generated     *)
(* function.                                                               *)
ShadowedFields  == [Shadowed |-> <<F("nonce", U(1)), F("buf", VarBytes)>>]
ShadowedStructs == DOMAIN ShadowedFields
NoVariants      == << >>
=============================================================================
