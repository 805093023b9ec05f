--------------------------- MODULE DocumentReader ---------------------------
(***************************************************************************)
(* The reading of a document by a wallet: ckb-idl-client, which knows the  *)
(* layout of a witness from the document alone (external, from README.md   *)
(* and the keys the producers write), and the layout the contract decodes  *)
(* by.                                                                     *)
(***************************************************************************)
EXTENDS IdlDocument

ReadElement(type) ==
  IF type.idl = "uint" THEN Sized("scalar", type.n \div 8) ELSE Sized("array", type.n)

(* `read` holds the layouts of the arrays of fields inside.  Variants have *)
(* no order.                                                               *)
ReadVariants(objects, read) ==
  {<<objects[i].tag, read[objects[i].fields]>> : i \in DOMAIN objects}

ReadType(object, type, read) ==
  CASE type.idl = "uint"        -> Sized("scalar", type.n \div 8)
    [] type.idl = "bytes_fixed" -> Sized("array", type.n)
    [] type.idl = "bytes"       -> Kind("bytes")
    [] type.idl = "vector"      -> Of("vec", ReadElement(object.items.type))
    [] type.idl = "struct"      -> [k |-> "struct", fields |-> read[object.fields]]
    [] type.idl = "union"       ->
         [k |-> "union", variants |-> ReadVariants(object.variants, read)]
    [] OTHER                    -> NoKind

ReadField(object, read) ==
  LET type == IF "wire_type" \in DOMAIN object THEN object.wire_type ELSE object.type
      kind == ReadType(object, type, read)
  IN  IF object.required THEN kind ELSE Of("opt", kind)

ReadFields(fields, read) == [i \in DOMAIN fields |-> ReadField(fields[i], read)]

(* The arrays of fields that occur in the document of a source, its own    *)
(* among them: those the reader meets on its way.                          *)
Arrays(schema) ==
  LET nested == NestedFields(schema)
  IN  {document_for(schema)} \cup {nested[s] : s \in DOMAIN schema.structs}

Reading(schema) ==
  LET read[fields \in Arrays(schema)] == ReadFields(fields, read)
  IN  read
-----------------------------------------------------------------------------
VariantLayouts(variants, layout) ==
  {<<variants[i].tag, layout[variants[i].struct]>> : i \in DOMAIN variants}

KindLayout(schema, kind, layout) ==
  CASE kind.k = "struct" -> [k |-> "struct", fields |-> layout[kind.path]]
    [] kind.k = "union"  ->
         [k |-> "union", variants |-> VariantLayouts(schema.unions[kind.path], layout)]
    [] OTHER             -> kind

FieldsLayout(schema, metas, layout) ==
  [i \in DOMAIN metas |-> KindLayout(schema, metas[i].kind, layout)]

LayoutOf(schema) ==
  LET layout[s \in DOMAIN schema.structs] == FieldsLayout(schema, schema.structs[s], layout)
  IN  layout[schema.top]

(* A wallet that has nothing but the exported document knows the layout    *)
(* the contract decodes by: whatever the labels and descriptions, and      *)
(* however deep, the document says what is on the wire.                    *)
DocumentTellsLayout ==
  exported # Absent => Reading(source)[exported] = LayoutOf(source)
=============================================================================
