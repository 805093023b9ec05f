--------------------------- MODULE MCUnionDerive ---------------------------
(***************************************************************************)
(* Instances of UnionDerive for TLC: one variant with every list of up to  *)
(* two attribute items, and enums of up to four variants, one of every     *)
(* sort.  A u32 has four bits.                                             *)
(***************************************************************************)
EXTENDS UnionDerive

Lit(n, text) == [lit |-> "int", n |-> n, text |-> text]
TagItem(v)   == [key |-> "tag", value |-> v]
Bare         == [lit |-> "none"]
Str          == [lit |-> "str"]

MCItems ==
  {TagItem(v) : v \in {Lit(0, "0"), Lit(7, "7"), Lit(7, "0x7"), Lit(15, "15"),
                       Lit(16, "16"), Lit(-1, "-1"), Bare, Str}}
    \cup {[key |-> "union", value |-> Bare], [key |-> "type", value |-> Str]}

Variant(ident, unraw, form, items) ==
  [ident |-> ident, unraw |-> unraw, form |-> form, items |-> items]

OneVariantDecls ==
  {Variant("A", "A", "one_field", items) :
     items \in UNION {[1 .. n -> MCItems] : n \in 0 .. 2}}

(* The sorts of variants.  Names may repeat: the passes do not compare     *)
(* them, and rustc refuses an enum with two variants of one name.          *)
ManyVariantDecls ==
  {Variant("A", "A", "one_field", <<TagItem(Lit(7, "7"))>>),
   Variant("B", "B", "one_field", <<TagItem(Lit(7, "0x7"))>>),
   Variant("C", "C", "one_field", <<TagItem(Lit(0, "0"))>>),
   Variant("D", "D", "one_field", <<TagItem(Lit(15, "15"))>>),
   Variant("r#type", "type", "one_field", <<TagItem(Lit(1, "1"))>>),
   Variant("nicht_ascii", "nicht_ascii", "one_field", <<TagItem(Lit(2, "2"))>>),
   Variant("E", "E", "one_field", << >>),
   Variant("F", "F", "unit", <<TagItem(Lit(3, "3"))>>)}

MCVariantDecls == OneVariantDecls \cup ManyVariantDecls

MCEnums ==
  [shape : {"enum"},
   variants : {<<v>> : v \in OneVariantDecls}
                \cup UNION {[1 .. n -> ManyVariantDecls] : n \in 0 .. 4}]
    \cup [shape : {"struct", "union"}, variants : {<< >>}]

MCIdlIdentifiers == {"A", "B", "C", "D", "E", "F", "type"}
=============================================================================
