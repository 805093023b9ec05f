# A TLA+ verification of ckb-idl-derive

`ckb-idl-derive` is a set of Rust procedural macros. A lock-script author
declares the layout of a witness as a struct; the macros generate the decoder
the script runs in the CKB VM and publish the layout as an IDL document for
wallets. This directory holds TLA+ modules translated from the source under
`src/`, the TLC configurations that check them, and theorems that TLAPS proves.

## 1. The system

| component | source | state | operations |
|---|---|---|---|
| wire kinds and format | `src/registry.rs`, `src/codegen.rs` | none | the `WireKind`s, little-endian prefixes |
| generated decoder | `src/codegen.rs`, `ckb-idl-types/src/lib.rs` | cursor, buffer, loop locals, call stack | `from_witness_args`, `decode_fields`, `decode_union`, `checked_end` |
| type registry | `src/registry.rs` | none | `map_type`, `map_wire_kind` |
| field attributes, labels | `src/attr.rs` | attributes merged so far | `parse_field_attrs`, `validate_semantic_type`, `idl_identifier`, `parse_union_variant_tag` |
| layout validation | `src/lib.rs`, `src/validate.rs` | metas, `seen_optional`, `seen_nested` | `check_named_struct`, `collect_field_metas` |
| union derive | `src/lib.rs`, `src/validate.rs`, `src/attr.rs` | tags parsed so far | `impl_ckb_witness_union`, `check_enum_single_field_variants` |
| IDL document | `src/codegen.rs` | none | `build_idl`, `wire_type_name`, `idl_fields`, schema providers |
| host exporter | `ckb-idl-export/src/lib.rs` | none | `document_for`, `export_to_path` |
| artifact lifecycle | `src/io.rs`, `src/lib.rs`, exporter | the file `idl.json` | `write_idl`, `remove_stale_idl`, export, the deployer's snapshot |

How they interact. A derive reads the struct (`check_named_struct`,
`collect_field_metas`, which calls the attribute parser and the two maps of the
registry for each field) and hands the metas to the code generator. The
generated decoders call each other: `from_witness_args` of a top-level witness
calls `decode_fields` of a nested struct and `decode_union` of an enum, sharing
the buffer and passing the cursor by reference. A flat witness also writes
`idl.json`; a recursive one removes it and leaves the document to the exporter,
which walks the schema the derives have emitted. Wallets (`ckb-idl-client`,
another repository) encode witnesses by the document.

What is hard about it, component by component:

- *decoder*: the cursor is moved by hand in some fifteen quoted fragments; an
  `Option` is absent exactly when the bytes run out, so one wrong cursor turns
  into silently missing fields; lengths and counts come from the transaction;
  `usize` is 32 bits wide on one class of targets; user-chosen field names share
  the scope of the generated locals. Correct means: what a wallet encoded is what
  the script gets, everything else is an error that says the truth, and nothing
  panics, loops or allocates beyond the bytes that are there.
- *registry and layout validation*: two recursive maps over the same type must
  agree; checks in three files together have to keep out every kind the code
  generator has no decoder for, and every layout whose fields have no boundary.
- *union derive*: four passes over the variants, and a code generator that pairs
  tags with variants by position. Correct means: every variant of an accepted enum
  is selected by a number of its own, whatever radix or order it was written in.
- *IDL document*: three producers describe the same layout, `build_idl` in the
  macro, the tables `idl_fields` and `idl_variants` in the contract, and the
  exporter over the schema providers. Correct means: they say the same, and a
  wallet can read the layout back from the document alone.
- *artifact lifecycle*: one fixed file, written by every expansion of every
  derive, by several processes at once, non-atomically, and hashed by a human.
  Correct means: a build that succeeds has left the document of its version, what
  was damaged heals, and what is deployed next to a binary belongs to it.

## 2. Modules

| module | models |
|---|---|
| `WireFormat` | the kinds, `u32::from_le_bytes`, slices; `Spells`: bytes spell a field |
| `WitnessDecoder` | the generated decoder as a state machine, with its properties |
| `WitnessCodec` | abstract: a lock field stands for one value or none, read in one step |
| `ClientEncoder` | external: the wallet's encoder, as README.md and the decoder describe it |
| `RoundTrip` | encoder and decoder together; the refinement mapping to `WitnessCodec` |
| `MCWitnessDecoder`, `MCRoundTrip` | TLC instances |
| `WireFormatTheorems` | lemmas on slices, prefixes and sequences of bytes, and on what the encoder relates |
| `WitnessDecoderProofs` | types, absence of panics, the caller's cursor, proved |
| `WitnessTilingProofs` | tiling, absence, vectors and errors, proved |
| `RoundTripProofs` | the decoder answers with what the wallet encoded, proved |
| `Registry` | `map_type`, `map_wire_kind`, attributes and labels |
| `FieldLayout` | `check_named_struct` and the two passes of `collect_field_metas` |
| `MCFieldLayout` | TLC instances |
| `FieldLayoutProofs` | the two maps agree; what the derive accepts and what it collects, proved |
| `UnionDerive` | the four passes of `impl_ckb_witness_union`, `parse_union_variant_tag` |
| `MCUnionDerive` | TLC instances |
| `UnionDeriveProofs` | tags follow variants, what is accepted, what is reached, proved |
| `IdlDocument` | `build_idl`, the tables, the schema providers, `document_for`; extends `Registry` |
| `DocumentReader` | external: the wallet's reading of a document; the layout the contract decodes by |
| `MCIdlDocument` | TLC instances |
| `IdlDocumentProofs` | the producers agree, the wallet reads the layout back, proved |
| `ArtifactLifecycle` | builders, exporter and deployer on `idl.json` and the exported file |
| `IdlRegister` | abstract: `idl.json` as a register of the versions of the source |
| `MCArtifactLifecycle` | TLC instances: histories of crates |
| `ArtifactProofs` | where the processes stand, writers of one document converge; one builder: success, deployment and the refinement, proved |

**The decoder.** A step of `WitnessDecoder` is one generated statement (one
field), one iteration of a vector's loop, one call or one return. `stack` holds
the frames of the calls in progress: the struct, the next field `pc`, the local
`cursor` and what the name `buf` means there. `decode_fields` copies the caller's
cursor and writes it back before `Ok`, so `ReturnNested` updates the caller's
frame and `Fail` does not; `decode_union` advances the caller's cursor directly,
before the tag is looked up. A union has no frame of its own: it has no local
state beyond that cursor, and returns as soon as its variant does. `leaves` is a
history of what was bound, with the span it was read from; the decoder never
reads it. Every slice and index, of a prefix, a tag, an element or a payload, is a
`Take` or a `Sliced`, which panic when the bytes are not there, so that the absence of
panics is a result and not an assumption. A vector
element is a single step in which `checked_end`, the comparison and the push
happen together: they are local and nothing can come between them.

`Bind` keeps Rust's scoping: `let #ident` and `buf` have the same hygiene, so a
field called `buf` replaces the witness bytes for the statements after it. The
model lets any kind of field do so; with a kind that has no `len()` the generated
code does not compile, and such schemas are simply not in the instances.

**The encoder.** `ClientEncoder` says which values are encoded as given bytes, and not
how to compute them: a *meaning* is a function from bytes to sets of values, and `Then`
puts two of them one after the other without framing, at whatever place the bytes can
be cut. That a lock field is the encoding of at most one value is therefore a result.
`Meaning` takes a place in a layout, a struct and a field of it, to what is read
from there to the end of the struct, and is one recursive function over the places.

**The derive.** `Registry` writes the two maps as recursive functions over a set
of Rust types closed under type arguments. In `FieldLayout` a step of the first
pass takes one field through all checks in the order of the code
(`FieldChecks`): the first fault decides and ends the derive, as
`collect::<Result<_>>` does. A step of the second pass is one turn of its loop.
The third check of that loop (`src/lib.rs:143-152`) can never fire: a nested
field is not optional, so the check before it has already answered.

**The union derive.** A step of `UnionDerive` is the shape check, one attribute
item of a variant (`ReadTag`), the end of a variant's items, one variant of the
name pass, or one of the duplicate check. The state between is what the code
keeps: the tags parsed so far, and the tag of the current variant. Literals carry
their value and their text, so that `0x7` and `7` are two spellings of one tag.
What the derive generates is `decode_union` in `WitnessDecoder`.

**The document.** `IdlDocument` writes each producer as a function of what the
derives have accepted: field metas, variants, the witness at the top. A JSON object
is a function from its keys, so that a key that is there and a key that is not are
different. `document_for` goes by way of the schema providers (`FieldSchema`,
`TypeSchema`), as the exporter does, and sorts variants by tag: the place of a
variant is its `Rank`, the number of variants that come before it in a stable sort.
The actions are the expansion of the derive, the export, and an author who moves
variants around. A source is what the derives have accepted (`AcceptedSource`): kinds
that have a decoder, no label on a union, `required` on all but options, and tags
that differ. The theorems about the two derives show the first and the last of these.
`DocumentReader` has the other end: `Reading` takes a document to a layout, `LayoutOf`
takes a source to the layout its decoder follows.

**The artifact.** In `ArtifactLifecycle` a process (cargo, rust-analyzer, the
exporter) has read a version of the source and goes through its `CkbWitness`
derives in order. `write_idl` and `export_to_path` end in `fs::write`, which is not
one step: `OpenFile` creates or truncates the file, and each `Write` puts some of
the blocks that are left at the writer's own offset, so that two writers overlap,
and a file that another process truncates meanwhile has a hole. `RemoveStale`
takes the name away; a writer that has the file open goes on writing to a file
without a name. That is the POSIX meaning of `remove_file`, on which the toolchain
for the CKB VM runs; with other rules the removal fails, which is `IoFails`. A call that fails (`IoFails`, `WriteFails`) becomes a compile error
and the other derives are still expanded; `Kill` may come anywhere. `Finish` is
success only if no derive failed and the rest of the crate compiles. `Edit`,
`StartBuild`, `StartExport` and `Commit` are the author, the build tools and the
deployer, modelled from README.md:149-190. `overlap` and `touched` are history:
which documents were written in one overlap of writers and whether one was cut
short, and which version came to `idl.json` last. No guard reads them.

## 3. Runs

| run | configuration | shows |
|---|---|---|
| `decoder` | `Decoder.cfg` | all invariants and the termination of the decoder |
| `round_trip` | `RoundTrip.cfg` | the decoder implements `WitnessCodec`, and its errors are true, also where field ends overflow `usize` |
| `field_named_buf` | `FieldNamedBuf.cfg` | violation: a field called `buf` breaks decoding |
| `allocation` | `Allocation.cfg` | violation: capacity is capped in elements, not bytes |
| `derives` | `Derives.cfg` | the registry's maps agree; what is accepted is what a reference grammar describes and has a decoder |
| `readme_witness` | `ReadmeWitness.cfg` | violation: README.md's witness is refused |
| `unions` | `Unions.cfg` | the union derive accepts its grammar; every variant has its number |
| `variant_names` | `VariantNames.cfg` | violation: a raw identifier is published with `r#` |
| `documents` | `Documents.cfg` | the producers of the document agree; a wallet can read the layout back |
| `one_builder` | `OneBuilder.cfg` | one builder: `idl.json` is a register, success is true, damage heals |
| `background` | `Background.cfg` | two builders at once: writers converge, what is deployed for a recursive witness is whole, a stale flat document goes for good |
| `flat_artifact` | `FlatArtifact.cfg` | violation: a build has succeeded, and the artifact of a flat witness is not in its place |

**Properties of the decoder.** `Tiling`: decoded fields and tags cover the bytes
without gap or overlap, each from the span that spells it. `NoPanic`.
`AbsenceIsFinal`: nothing present follows an absent option. It also makes a limit
of the format visible: a value whose earlier option is `None` and whose later one
is `Some` has no encoding. `ForgedCountIsHarmless`: the vector loop stays within
the reserved capacity, the capacity within the bytes left. `ErrorIsTruthful`:
the size an error expects is that of the field the decoder has got to, or of the
payload its prefix announces, and the size it got is what is there; counts, indices and
tags are those of the witness. `CallerCursor`:
what a direct caller of `decode_fields` or `decode_union` finds in its cursor
after `Ok` and after `Err`. `Answered`: every call returns. `AnswersAreRight`: if the
decoder answers, it is with *the* value a wallet encoded, or with an error for bytes
that encode nothing; a witness with two meanings would have no correct answer, so
the refinement also shows that the layouts are unambiguous. `ImplementsCodec` adds
that it answers.

**Properties of the derives.** `NoMacroPanic`: the `expect` at `src/lib.rs:30`
never fails. `DecoderExists`: every collected kind is one `WireFormat` knows, so no
`compile_error!` arm is expanded; this is the assumption the decoder's modules
make of a layout. `LabelsDescribeWire`: a reserved label, validated against
`map_type`'s name, agrees with the name published from the wire kind.
`AcceptsGrammar`: the derive accepts exactly what a direct description of the
grammar (`InGrammar`, `LayoutRule`) describes. `LayoutIsDecided`: the two flags of
the second pass decide that rule. `AcceptsUnions`: the same for enums,
against `Legal`. `EveryVariantIsReached`: each variant of an accepted enum is
selected by a `u32` that selects no other.

**Properties of the document.** `PublishedIsComplete`: what the macro leaves in
`idl.json` is what the exporter would make of the same witness; of a recursive
witness it leaves nothing rather than a part. `ExportIgnoresOrder`: an exported
document stays the document of the source when variants are moved
(`src/attr.rs:96`). `TablesAgree`: the tables in the contract and the exported
document give every nested struct and every variant the same fields, with the same
names, types and descriptions.
`DocumentTellsLayout`: a wallet that reads the exported document, and nothing
else, gets the layout the contract decodes by; labels and descriptions hide nothing.

**Properties of the artifact.** `SuccessLeavesArtifact` (one builder): a build that
succeeds has left exactly what its last witness asks for. In a crate with several
witnesses that takes for granted that the last one decides; what it does to the others
is the question of `FlatArtifactInPlace`.
`ImplementsRegister` (one builder): the file, written in place and damaged by
failures and kills, never goes back to an earlier version, and shows a version
whole or as damaged. `Heals`: whatever was left there, the next build of a valid
version that nothing disturbs repairs. `SameDocumentConverges` (any builders):
truncations and writes of the same document may interleave in any way; without one
that is cut short the document is what stays. `CommitmentMatchesBinary`: what is
deployed for a recursive witness is the complete document of the binary's version:
an export that reports success has left all of it, also over what a killed one has
left. Only exporters write that file, so this says nothing of `idl.json`.
`StaleFileIsGone` does: a run of rust-analyzer that still expands the flat version may
write `idl.json` after cargo has removed it for the recursive one, but once the old
runs have ended the next build removes it, and no later build brings it back.
`FlatArtifactInPlace` asks of a flat witness, which is deployed from `idl.json`, that
whoever reads the file between a successful build and the next edit finds its document.
It fails (section 5), in three ways: a recursive witness of the crate has removed it,
another flat one has overwritten it, or another process has truncated it to write the
same bytes again.

**Bounds.** Bytes are binary (`Radix = 2`), so the 4-byte prefix counts to 15: enough
for a payload, a vector and a claim that exceeds the buffer, and it keeps exhaustive
enumeration of *all* lock fields possible. `MaxLen` is 9 in `decoder` and 11 in
`round_trip`: 11 bytes reach a nested struct with a union whose variant has a vector
of one element and an absent option; 9 reach that variant by a direct call of
`decode_union`, and three options in a row. The 16-byte option of one layout is only
ever absent or cut short. `UsizeMax` is 255, beyond every sum, in `decoder`, and 22 in
`round_trip`: the least that leaves room for slices of 11 bytes (`isize::MAX`), where
a prefix near the maximum, and a fixed field near the end, overflow as they do with
`u32` lengths on a 32-bit target. Layouts contain every kind, at the end and before
other fields, two vectors in a row, three options in a row, and three variants.
`decoder` also starts direct calls at every offset.

`derives` takes one field of every type up to three constructors deep, with every
pair of eleven attribute items, each way to get one wrong among them: the maps look
at a type, its argument, and recurse, and each recursion decides by the same two
levels. It also takes structs of up to four fields of nine sorts: a fault relates
two fields, with one before and one between. `unions` takes one variant with every
list of up to two items, and enums of up to four variants of eight sorts; tags have
four bits (`TagMax = 15`), with literals below, at and beyond the limits. A
duplicate relates two variants, and four leave room before, between and after them.
`documents` has every kind, label and description in a flat witness, alone and
before a last field of each sort, and nested documents three levels deep (witness,
union or struct, and a struct inside a variant); three variants whose tags are not
in the order of declaration.

In `one_builder` the crate has six versions: flat, invalid, recursive, one that does
not compile, two flat witnesses, and a flat one before a recursive one; two mishaps.
In `background` two builders and the exporter run over two versions with one mishap, a
flat one with a long document and a recursive one with a short: an export can be of
the other version, and an old run put the old document back. `flat_artifact` needs one
version and no mishap. Documents are one to three blocks: with three a write is
interrupted at its start, in the middle and before its end, and a short document over
a long one leaves a tail. Builders see a version at any distance behind the editor.
The safety properties of `one_builder` and `background` are also proved, for every
history, document length, number of builders where they allow several, and number of
mishaps.

**Fairness.** `WF_vars(Next)` for the decoder. It is a single thread inside the VM:
nothing else runs in between and nothing but its own next statement can happen. The
VM's cycle limit ends a script from outside and is not modelled. In
`ArtifactLifecycle` each process has `WF_vars(Step(p))`: the operating system lets a
process that was started go on. Nobody has to edit, build, export or deploy, and no
call has to fail; `Heals` and `StaleFileIsGone` are therefore said of a build that has
been started, once all mishaps the bound allows are spent, and a kill or a failure
before that is one of the states they start from. The derives and `IdlDocument` state
only safety and have no fairness: their loops are `for` loops over finite lists, whose
end needs no argument.

**Deadlock** is checked everywhere: a system that has answered stutters explicitly
(`Answer`), and a crate can always be built again.

## 4. Proofs

All theorems hold for every value of the constants that satisfies the assumptions
named in the modules, which TLC evaluates on every instance:

- `WidthAssumption`: a `u32` fits `usize`. `SchemaAssumption`: layouts have wire
  kinds that have a decoder (`EveryFieldHasDecoder` proves that the derive only
  accepts those). `EntryAssumption`: slices are at most `isize::MAX` long.
- `TypesAssumption`, `InputsAssumption`, `LabelsAssumption`: the derive's inputs are
  fields with types and lists of attribute items, and a custom label is not one of
  the reserved ones, which have no `:` (`src/attr.rs:68`).
- `EnumsAssumption`: an enum is a sequence of variants with sequences of items.
- `SourcesAssumption`: a source is `AcceptedSource` (section 2).
- `LifecycleAssumption`: documents have at least one block; every version has at
  least one derive; the release is built by one of the builders.

Three more are hypotheses of the theorems that need them. `TypesAreFinite`: a type is a
finite tree, since the compiler parses it from finite text. `SourcesAreFinite`: no
struct contains itself, neither directly nor through the variants of an enum, since
rustc refuses a type of infinite size. `LayoutsAreFinite`: the same of the layouts the
decoder goes by. Each says that some measure decreases from a type to its arguments,
or from a struct to what it contains. TLC cannot search for that measure, so the
instances name one, and `TypesAreFiniteHere`, `SourcesAreFiniteHere` and
`LayoutsAreFiniteHere` have TLC check it.

- `TypeCorrect`, `PanicFree` (`WitnessDecoderProofs`). The inductive invariant is
  `TypeInv`: `TypeOK`, `NoPanic` and the shape of the frames (the cursor and `pc`
  are naturals, buffers are byte sequences, a loop in progress is at a vector
  field). `NoPanic` holds even when `buf` is shadowed, because every fragment
  compares with the length of the same `buf` it slices.
- `CallerCursorIsKept` (`WitnessDecoderProofs`), with no further hypothesis: it holds
  even when `buf` is shadowed. The property speaks of the moment a call has returned,
  so `CallInv` says where things stand in every state before it: the innermost call
  where the fields bound so far end (`Stands`), and the caller, at the bottom of the
  stack, still at its call with the cursor it came with, or past the tag that
  `decode_union` has read (`CallerInv`).
- `DecoderTiles`, `AbsentToTheEnd`, `VectorsStayInBounds`, `ErrorsTellTheTruth`
  (`WitnessTilingProofs`), under `NoCapture`: no field is called `buf`. Without it
  the decoder reads a field's bytes where it should read the witness, which is the
  finding of `field_named_buf`. They are not inductive: that leaves tile
  the bytes says nothing of the cursor. `Progress` adds that every frame reads the
  witness bytes, that the innermost cursor stands where the leaves end, and that
  the loop has consumed exactly `i` elements behind the prefix.
- `DecoderAnswers` (`RoundTripProofs`), under `NoCapture` and `LayoutsAreFinite`, for
  `from_witness_args` (`Callers = {}`: a direct caller starts in the middle of bytes
  the codec does not know). It is the safety part of `ImplementsCodec`, for every
  width of `usize` and every lock field. The invariant adds `MeaningInv` to `Progress`:
  at every statement the values a wallet can have encoded are those that begin with
  what has been bound and go on with what the calls in progress read in the bytes
  after the cursor (`Promise`). A step moves one field from the second part to the
  first, and that there is only one way to do so is `PlainFirst`, `TagFirst` and, for
  options, that nothing follows an absent one. At the end the second part is nothing,
  which has a value exactly where no byte is left; at an error it has none.
  `ThenAssociates` lets a nested struct be read into the fields of the struct around
  it. TLC cannot evaluate `MeaningInv`, which quantifies over meanings of all byte
  sequences; it checks the consequence, `AnswersAreRight`.
- `MetasFollowFields`, `LayoutDecided` (`FieldLayoutProofs`), for structs of any
  length and any registry. `LoopInv` says what the two flags mean.
- `MacroNeverPanics`, `EveryFieldHasDecoder`, `LabelsAreTruthful`, `GrammarIsDecided`
  (`FieldLayoutProofs`), for types of any depth (`TypesAreFinite`). What a verdict says
  about the input is not inductive by itself; `DecidedInv` adds that every field the
  first pass has gone through has no fault (`Checked`) and what having come to a pass
  means (`Verdicts`). The rest is about the registry: that `map_type` and
  `map_wire_kind` succeed on the same types and with kinds that correspond, and which
  types those are, by induction over the depth of a type.
- `TagsFollowVariants`, `UnionsAccepted`, `VariantsAreReached`
  (`UnionDeriveProofs`), for any number of variants and items. That the verdict is
  right says nothing of the passes that have not decided yet; the inductive
  invariant adds what each item read so far means for the current tag (`ItemInv`),
  what a pass that has got to a variant has excluded for all before it
  (`PassInv`), and why a verdict was given (`VerdictInv`).
- `DocumentsAreWellFormed`, `MacroPublishesWhole` (`IdlDocumentProofs`), for any crate.
  `PublishedInv` is the type invariant with what `idl.json` may hold.
- `ReorderingKeepsDocument`, `ContractTablesAgree`, `WalletKnowsLayout`
  (`IdlDocumentProofs`), for documents of any depth (`SourcesAreFinite`). The first is
  `ExportedInv`, which an author's step keeps for this reason: the sort by tag gives
  the same sequence for every order of declaration, because tags differ and ranks are
  therefore a bijection (`RanksArePlaces`, `SortIgnoresOrder`). The document, the
  wallet's reading and the layout are recursive functions over the structs of the
  crate. `RecursionEnds` and `RecursionIsUnique` show once, over the measure, that
  each has exactly one solution, and each theorem is then an equality of solutions.
- `ProcessesStand`, `WritersConverge` (`ArtifactProofs`), for any number of
  builders, histories and mishaps. `TypeInv` is `TypeOK` with the fact that a file
  somebody is writing has its name. Convergence is not inductive, since it speaks
  only of moments without a writer. `ConvInv` says of every single block that it is
  in the file, or that some writer that has not come to it has the file open.
- `SuccessIsTrue`, `ReleaseIsWhole`, `FileIsRegister` (`ArtifactProofs`), for
  an exporter with a path of its own (`ExportPath # IdlPath`); the first and the
  third with one builder, the second with any number. All three rest on a process
  that has a path to itself (`Sole(p)`) and on `OwnInv(p)`: what such a process has
  succeeded on is in its file, between two derives the file is what the last one
  asked for, and while a write is in progress it is the blocks up to the offset.
  The refinement adds `Ordered(b)`: the versions a builder comes to do not
  decrease. `FileIsRegister` maps every step, mishaps included, to a step of
  `IdlRegister` or a stutter.

**Induction.** The library's theorems on induction take an operator as parameter and
cannot be used here. Where a proof needs induction, it goes by a smallest
counterexample instead (`Smallest`, `MeasureInduction`), from the library's fact that
the order of the naturals is well founded.

**Only model-checked.** Liveness (`Answered`, `Heals`, `StaleFileIsGone`, and of
`ImplementsCodec` that the decoder answers), which is out of the prover's reach. Every safety invariant and every
safety part of a refinement that the passing runs check is stated by a theorem.

## 5. Findings

1. A witness with a field called `buf` (`Vec<u8>` or `[u8; N]`) compiles and
   decodes wrongly: `src/codegen.rs:841`.
2. The comment on the capacity of vectors promises a bound in bytes; the code
   bounds elements: `src/codegen.rs:639-644`.
3. README.md's usage example is refused: `required = false` on a `Vec<u8>`.
4. A variant with a raw identifier is checked without `r#` and published with it
   (`src/codegen.rs:310`, `:352`), against `src/attr.rs:38`.
5. README.md:176 calls `idl.json` the interface artifact of a flat witness, and
   `summary.md:23` says that `_CKB_WITNESS_IDL_PATH` points to it. A recursive witness
   of the same crate removes it (`src/lib.rs:182`); the build succeeds and the constant
   stays. `summary.md:73` has as an open question that another flat witness overwrites it.

Met on the way and not checked by a run:

- README.md:185 warns of a changed `idl.json` after changes to the struct. The file is
  also empty or partial for a moment whenever rust-analyzer expands an unchanged flat
  witness, next to a binary that is finished (`src/io.rs:27`). `FlatArtifactInPlace`
  fails on that too; the trace of `flat_artifact` is the shorter one.
- `src/attr.rs:19-20` says that labels are not validated; `src/lib.rs:57` does.
- README.md:85-93 lists fewer types than the registry accepts, and labels where the
  code publishes `bytes_fixed_N`.
- `summary.md:21`, `:28` and `:73`, `example-idls/README.md:14` and `build.rs:2` still
  place the artifact in `$OUT_DIR`; `src/io.rs:19` says why it is not there.

## 6. Not modelled

Left out for good: the quoting of tokens and error texts; canonical JSON and the
CKB VM (external); the tests, examples and CI scripts, which have no behaviour of
the program. An exporter that is told to write to the crate's `idl.json` itself is
admitted by the modules (`WritersConverge` covers it) but is in no run: the next
expansion of the recursive witness removes the file, and no property of its bytes
can hold.
