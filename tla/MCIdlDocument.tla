--------------------------- MODULE MCIdlDocument ---------------------------
(***************************************************************************)
(* Instances of IdlDocument and DocumentReader for TLC.                    *)
(***************************************************************************)
EXTENDS DocumentReader, TLC

U(n)   == Sized("scalar", n)
Arr(n) == Sized("array", n)
Raw    == Kind("bytes")

Meta(name, kind, label, description) ==
  [name |-> name, kind |-> kind, label |-> label, description |-> description,
   required |-> kind.k # "opt"]

Simple(name, kind) == Meta(name, kind, NoLabel, NoText)

FlatKinds == {U(1), U(16), Arr(32), Raw, Of("vec", U(2)), Of("vec", Arr(3))}
OptKinds  == {Of("opt", U(2)), Of("opt", Arr(65)), Of("opt", Raw)}

Labelled(name, kinds) ==
  {Meta(name, kind, label, text) :
     kind \in kinds, label \in {NoLabel, "proj:label"}, text \in {NoText, "text"}}
  \cup {Meta(name, Arr(65), "secp256k1_sig", NoText), Simple(name, Arr(65))}

Leaves == Labelled("a", FlatKinds \cup OptKinds)
Lasts  == Labelled("z", OptKinds) \cup {Simple("z", U(1)), Meta("z", Of("vec", U(1)), "proj:label", NoText)}

NestedMetas ==
  {Meta("inner", Path("struct", "Inner"), label, text) :
     label \in {NoLabel, "proj:label"}, text \in {NoText, "text"}}
  \cup {Meta("auth", Path("union", "Auth"), NoLabel, text) : text \in {NoText, "text"}}

Variant(tag, name, struct) == [tag |-> tag, name |-> name, struct |-> struct]

MCVariants == <<Variant(42, "Multi", "Multi"), Variant(7, "Sig", "Sig"), Variant(9, "Deep", "Deep")>>

Source(top, inner) ==
  [top |-> "Top",
   structs |-> [Top |-> top, Inner |-> inner,
                Sig |-> <<Meta("sig", Arr(65), "secp256k1_sig", NoText)>>,
                Multi |-> <<Simple("sigs", Of("vec", Arr(65))), Simple("note", Of("opt", Raw))>>,
                Deep |-> <<Simple("id", U(4)), Simple("leaf", Path("struct", "Sig"))>>],
   unions |-> [Auth |-> MCVariants]]

Inners == {<<m>> : m \in Labelled("b", {U(4), Raw})}
            \cup {<<Simple("b", U(4)), Simple("auth", Path("union", "Auth"))>>}

SomeInner == <<Simple("b", U(4))>>

MCSources ==
  {Source(<<a>>, SomeInner) : a \in Leaves}
    \cup {Source(<<a, z>>, SomeInner) : a \in Labelled("a", FlatKinds), z \in Lasts}
    \cup {Source(<<Simple("a", U(1)), n>>, inner) : n \in NestedMetas, inner \in Inners}

(* How deep the structs of these sources are nested.                       *)
MCDepth == [Top |-> 3, Inner |-> 2, Deep |-> 1, Multi |-> 0, Sig |-> 0]

ASSUME SourcesAreFiniteHere == \A schema \in Sources : Nests(schema, MCDepth)

NoTypes == {}
MCLabels == {"proj:label"}
=============================================================================
