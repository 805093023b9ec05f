---------------------------- MODULE MCFieldLayout ----------------------------
(***************************************************************************)
(* Instances of FieldLayout for TLC: one declared field of every type up   *)
(* to three constructors deep with every pair of attribute items; and      *)
(* structs of up to four fields, one of every sort that matters to the     *)
(* layout.                                                                 *)
(***************************************************************************)
EXTENDS FieldLayout, TLC

PathType(ident, args)  == [t |-> "path", ident |-> ident, segments |-> 1, args |-> args]
Qualified(ident)       == [t |-> "path", ident |-> ident, segments |-> 2, args |-> << >>]
ArrayType(elem, len)   == [t |-> "array", elem |-> elem, len |-> len]
Plain(ident)           == PathType(ident, << >>)
Vector(ty)             == PathType("Vec", <<ty>>)
OptionOf(ty)           == PathType("Option", <<ty>>)

BaseTypes ==
  {Plain(ident) : ident \in {"u8", "u16", "u128", "Inner"}}
    \cup {Qualified("u8"), [t |-> "other"]}

ArrayTypes ==
  {ArrayType(Plain("u8"), n) : n \in {NotLiteral, 0, 1, 65}}
    \cup {ArrayType(Plain("u16"), 1)}

Level(types) == types \cup {Vector(ty) : ty \in types} \cup {OptionOf(ty) : ty \in types}

MCTypes ==
  Level(Level(Level(BaseTypes \cup ArrayTypes)))
    \cup {Plain("Vec"), PathType("Option", <<Plain("u8"), Plain("u8")>>)}

(* The types of these instances are finite.                                *)
Depth[ty \in Types] ==
  IF ty.t = "path" /\ ty.args # << >>
  THEN 1 + (IF Len(ty.args) = 2 /\ Depth[ty.args[2]] > Depth[ty.args[1]]
            THEN Depth[ty.args[2]] ELSE Depth[ty.args[1]])
  ELSE 0

ASSUME TypesAreFiniteHere == Descends(Depth)

Item(key, value) == [key |-> key, value |-> value]

MCItems ==
  {Item("union", Bare), Item("union", "true"), Item("required", "true"),
   Item("required", "false"), Item("required", Bare), Item("description", "text"),
   Item("type", "secp256k1_sig"), Item("type", "proj:label"), Item("type", "label"),
   Item("type", ""), Item("tag", Bare)}

ItemLists == UNION {[1 .. n -> MCItems] : n \in 0 .. 2}

Decl(name, type, attrs) == [name |-> name, type |-> type, attrs |-> attrs]

MCCustomLabels   == {"proj:label"}
MCIdlIdentifiers == {"a", "b"}

(* One field, everything about it.                                         *)
OneFieldDecls ==
  [name : {"a"}, type : MCTypes, attrs : ItemLists]
    \cup {Decl("nicht_ascii", Plain("u8"), << >>)}
OneField == [shape : {"named"}, fields : [1 .. 1 -> OneFieldDecls]]

(* Some fields, one of every sort, in every order.                         *)
Optionally == <<Item("required", "false")>>
LayoutDecls ==
  {Decl("a", Plain("u16"), << >>),
   Decl("a", ArrayType(Plain("u8"), 65), <<Item("type", "secp256k1_sig")>>),
   Decl("a", Vector(Plain("u8")), << >>),
   Decl("a", Vector(Plain("u16")), << >>),
   Decl("b", OptionOf(Plain("u8")), Optionally),
   Decl("b", OptionOf(Vector(Plain("u8"))), Optionally),
   Decl("a", Plain("Inner"), << >>),
   Decl("a", Plain("Auth"), <<Item("union", Bare)>>),
   Decl("a", OptionOf(Plain("Inner")), Optionally)}
Layouts ==
  [shape : {"named"}, fields : UNION {[1 .. n -> LayoutDecls] : n \in 0 .. 4}]
    \cup [shape : {"enum", "tuple"}, fields : {<< >>}]

(* Both together. *)
DeriveTypes == MCTypes \cup {Plain("Auth")}
DeriveDecls == OneFieldDecls \cup LayoutDecls
Derives     == OneField \cup Layouts

(* The witness of README.md:33-46.                                         *)
ReadmeDecls ==
  {Decl("signature", ArrayType(Plain("u8"), 65), <<Item("description", "text")>>),
   Decl("unlock_after_ms", Plain("u64"), <<Item("description", "text")>>),
   Decl("extra", Vector(Plain("u8")),
        <<Item("required", "false"), Item("description", "text")>>)}
ReadmeTypes       == MCTypes \cup {Plain("u64")}
ReadmeIdentifiers == {f.name : f \in ReadmeDecls}
ReadmeWitness ==
  {[shape |-> "named",
    fields |-> <<CHOOSE f \in ReadmeDecls : f.name = "signature",
                 CHOOSE f \in ReadmeDecls : f.name = "unlock_after_ms",
                 CHOOSE f \in ReadmeDecls : f.name = "extra">>]}

(* README.md:33-46 with README.md:49: the witness of the usage section is  *)
(* accepted and produces an idl.json.                                      *)
ReadmeWitnessAccepted == verdict # Pending => verdict = Accepted
=============================================================================
