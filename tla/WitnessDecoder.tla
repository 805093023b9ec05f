--------------------------- MODULE WitnessDecoder ---------------------------
(***************************************************************************)
(* The decoder that the derives generate (codegen.rs): one call of         *)
(* from_witness_args, decode_fields or decode_union, from the witness the  *)
(* VM holds to the value or the error the contract gets.                   *)
(*                                                                         *)
(* The generated code is straight-line: one statement per field, a loop    *)
(* for a vector, a call for a nested struct or union.  Here a step is one  *)
(* statement, one iteration of the loop, one call or one return, and the   *)
(* locals of the calls in progress are the frames of `stack`.              *)
(***************************************************************************)
EXTENDS WireFormat

CONSTANTS
  Tops,     \* structs that derive CkbWitness: from_witness_args is called on them
  Callers,  \* bodies written by hand that call decode_fields or decode_union
            \* once, on bytes they hold: layouts of a single nested field
  Buffers   \* the lock fields a witness may carry

ASSUME EntryAssumption ==
  /\ Tops \subseteq Structs
  /\ Callers \subseteq Structs
  /\ Tops \cap Callers = {}
  /\ \A c \in Callers : Len(Fields[c]) = 1 /\ Fields[c][1].kind.k \in {"struct", "union"}
  /\ Buffers \subseteq Seq(Byte)
  /\ \A b \in Buffers : Len(b) <= UsizeMax \div 2     \* isize::MAX bounds every slice

VARIABLES
  entry,    \* which body is called, and at which offset of the bytes it starts
  witness,  \* what load_witness_args finds, and the bytes of the lock field
  stack,    \* locals of the calls in progress, innermost last
  loop,     \* locals of the vector loop in progress (count = 0: none)
  leaves,   \* every field bound so far, in the order it was bound
  outcome   \* what the call returns

vars == <<entry, witness, stack, loop, leaves, outcome>>
-----------------------------------------------------------------------------
(* Locals of one generated function; pc is the field its next statement    *)
(* binds.                                                                  *)
Frame == [layout : Structs, pc : Nat, cursor : Nat, buf : Seq(Byte)]

(* The locals of `for __i in 0..__count`: __cur, the elements in __vec as  *)
(* one run of bytes, and the capacity __vec was created with.              *)
Loop   == [count : Nat, i : Nat, cur : Nat, cap : Nat, val : Seq(Byte)]
NoLoop == [count |-> 0, i |-> 0, cur |-> 0, cap |-> 0, val |-> << >>]

Pending == [status |-> "pending"]
Decoded == [status |-> "ok"]
Panic   == [status |-> "panic"]
Error(e) == [status |-> "err", error |-> e]

(* WitnessError, without the name of the field that every variant carries. *)
Load                      == [e |-> "Load"]
MissingLockField          == [e |-> "MissingLockField"]
IntegerOverflow           == [e |-> "IntegerOverflow"]
InvalidVectorCount        == [e |-> "InvalidVectorCount"]
FieldTooShort(n, g)       == [e |-> "FieldTooShort", expected |-> n, got |-> g]
VecElementsTooShort(i)    == [e |-> "VecElementsTooShort", element_index |-> i]
UnknownUnionTypeId(tag)   == [e |-> "UnknownUnionTypeId", type_id |-> tag]
TrailingBytes(used, all)  == [e |-> "TrailingBytes", consumed |-> used, total |-> all]

Errors ==
  {Load, MissingLockField, IntegerOverflow, InvalidVectorCount}
    \cup [e : {"FieldTooShort"}, expected : Nat, got : Nat]
    \cup [e : {"VecElementsTooShort"}, element_index : Nat]
    \cup [e : {"UnknownUnionTypeId"}, type_id : Nat]
    \cup [e : {"TrailingBytes"}, consumed : Nat, total : Nat]

Outcomes == {Pending, Decoded, Panic} \cup [status : {"err"}, error : Errors]

TypeOK ==
  /\ entry \in [body : Tops \cup Callers, at : Nat]
  /\ witness \in [status : {"load_error", "no_lock", "lock"}, raw : Buffers \cup {<< >>}]
  /\ stack \in Seq(Frame)
  /\ loop \in Loop
  /\ leaves \in Seq(Leaf)
  /\ outcome \in Outcomes
-----------------------------------------------------------------------------
Running  == outcome = Pending /\ stack # << >>
Top      == stack[Len(stack)]
Buf      == Top.buf
Cursor   == Top.cursor
Layout   == Fields[Top.layout]
Current  == Layout[Top.pc]

(* The next statement of the innermost call decodes a field of a kind that *)
(* satisfies `kinds`; no loop is in progress.                              *)
AtField(tags) ==
  /\ Running
  /\ loop.count = 0
  /\ Top.pc <= Len(Layout)
  /\ Current.kind.k \in tags

(* Mutant: the element before the end is where the buffer ends.            *)
FitsOffByOne(at, n) == at + n <= UsizeMax /\ at + n <= Len(Buf) + 1

(* Mutant: wrapping_add instead of checked_add.                            *)
FitsWrapping(at, n) == (at + n) % (UsizeMax + 1) <= Len(Buf)

(* checked_end succeeds and the end it returns is inside the buffer.       *)
Fits(at, n) == at + n <= UsizeMax /\ at + n <= Len(Buf)

(* Why it does not fit: checked_end overflows, or the bytes are missing.   *)
Refusal(at, n, missing) == IF at + n > UsizeMax THEN IntegerOverflow ELSE missing

(* buf.len().saturating_sub(at) *)
Available(at) == IF at <= Len(Buf) THEN Len(Buf) - at ELSE 0

(* Mutant: what is missing, subtracted the wrong way round.                *)
ShortSubtracted(at, n) == Refusal(at, n, FieldTooShort(n, Available(at) - n))

(* Mutant: the length of the buffer instead of what is left of it.         *)
ShortOfWhole(at, n) == Refusal(at, n, FieldTooShort(n, Len(Buf)))

Short(at, n) == Refusal(at, n, FieldTooShort(n, Available(at)))

(* `return Err(e)` or a `?`: every frame is abandoned as it is.  The frames *)
(* stay in `stack` so that the cursor of the caller can be seen.           *)
Fail(e) ==
  /\ outcome' = Error(e)
  /\ UNCHANGED <<entry, witness, stack, loop, leaves>>

(* A frame further on: at statement pc, with its cursor moved.             *)
Resume(frame, pc, cursor) ==
  [layout |-> frame.layout, pc |-> pc, cursor |-> cursor, buf |-> frame.buf]

(* `let #ident = ...; cursor = to`.  The statement's identifier is the     *)
(* user's, as is the `buf` the next statements read: a field called `buf`  *)
(* shadows the witness bytes.                                              *)
Bind(some, from, to, val) ==
  /\ leaves' = Append(leaves, [kind |-> Current.kind, some |-> some,
                               from |-> from, to |-> to, val |-> val])
  /\ stack' = [stack EXCEPT ![Len(stack)] =
                 [layout |-> Top.layout, pc |-> Top.pc + 1, cursor |-> to,
                  buf |-> IF Current.name = "buf" THEN val ELSE Buf]]
  /\ UNCHANGED <<entry, witness, outcome>>

(* A slice or an index is out of range.                                    *)
Panics ==
  /\ outcome' = Panic
  /\ UNCHANGED <<entry, witness, stack, loop, leaves>>

(* `then` goes on with buf[at..at + n], which panics when the bytes are    *)
(* not there.                                                              *)
Sliced(at, n, then) == IF at + n <= Len(Buf) THEN then ELSE Panics

(* Bind the bytes of buf[at..to], which panics when they are not there.    *)
Take(at, to) ==
  IF at <= to /\ to <= Len(Buf)
  THEN Bind(TRUE, Cursor, to, Slice(Buf, at, to)) /\ UNCHANGED loop
  ELSE Panics
-----------------------------------------------------------------------------
Init ==
  /\ witness \in [status : {"lock"}, raw : Buffers]
                   \cup [status : {"load_error", "no_lock"}, raw : {<< >>}]
  /\ \/ entry \in [body : Tops, at : {0}]
     \/ /\ witness.status = "lock"
        /\ entry \in [body : Callers, at : 0 .. Len(witness.raw)]
  /\ stack = << >>
  /\ loop = NoLoop
  /\ leaves = << >>
  /\ outcome = Pending

(* load_witness_args fails, or the WitnessArgs have no lock field.         *)
LoadFails ==
  /\ outcome = Pending /\ stack = << >>
  /\ entry.body \in Tops
  /\ \/ witness.status = "load_error" /\ Fail(Load)
     \/ witness.status = "no_lock" /\ Fail(MissingLockField)

(* The body starts: cursor = 0 in from_witness_args, or where the caller   *)
(* of decode_fields and decode_union has got to in its own bytes.          *)
Begin ==
  /\ outcome = Pending /\ stack = << >>
  /\ entry.body \in Tops => witness.status = "lock"
  /\ stack' = <<[layout |-> entry.body, pc |-> 1, cursor |-> entry.at,
                 buf |-> witness.raw]>>
  /\ UNCHANGED <<entry, witness, loop, leaves, outcome>>

(* u8, u16, u32, u64, u128 and [u8; N], required.                          *)
ReadFixed(n) ==
  \/ Fits(Cursor, n) /\ Take(Cursor, Cursor + n)
  \/ ~Fits(Cursor, n) /\ Fail(Short(Cursor, n))

(* Vec<u8>: the length prefix, then that many bytes.                       *)
ReadVarBytes ==
  LET start == Cursor + PrefixLen
      len   == PrefixAt(Buf, Cursor)
  IN  \/ ~Fits(Cursor, PrefixLen) /\ Fail(Short(Cursor, PrefixLen))
      \/ /\ Fits(Cursor, PrefixLen)
         /\ Sliced(Cursor, PrefixLen,
                   \/ ~Fits(start, len) /\ Fail(Short(start, len))
                   \/ Fits(start, len) /\ Take(start, start + len))

DecodeFixed == AtField({"scalar", "array"}) /\ ReadFixed(Current.kind.size)

DecodeVarBytes == AtField({"bytes"}) /\ ReadVarBytes

(* Mutant: an Option is taken to be absent one byte too early.             *)
DecodeAbsentEarly ==
  /\ AtField({"opt"})
  /\ Cursor >= Len(Buf) - 1
  /\ Bind(FALSE, Cursor, Cursor, << >>)
  /\ UNCHANGED loop

(* Option<T>: an exhausted buffer means None.                              *)
DecodeAbsent ==
  /\ AtField({"opt"})
  /\ Cursor >= Len(Buf)
  /\ Bind(FALSE, Cursor, Cursor, << >>)
  /\ UNCHANGED loop

(* Some: decoded like T, except that one byte is read without a second     *)
(* look at the length of the buffer.                                       *)
DecodePresent ==
  /\ AtField({"opt"})
  /\ Cursor < Len(Buf)
  /\ LET of == Current.kind.of
     IN  \/ of = VarBytes /\ ReadVarBytes
         \/ of \in Fixed /\ of # [k |-> "scalar", size |-> 1] /\ ReadFixed(of.size)
         \/ /\ of = [k |-> "scalar", size |-> 1]
            /\ IF Cursor + 1 > UsizeMax THEN Fail(IntegerOverflow)
               ELSE Take(Cursor, Cursor + 1)
-----------------------------------------------------------------------------
(* Mutant: Vec::with_capacity(count), without the cap.                     *)
DecodeVecCountUncapped ==
  /\ AtField({"vec"})
  /\ Fits(Cursor, PrefixLen)
  /\ PrefixAt(Buf, Cursor) # 0
  /\ loop' = [count |-> PrefixAt(Buf, Cursor), i |-> 0, cur |-> Cursor + PrefixLen,
              val |-> << >>, cap |-> PrefixAt(Buf, Cursor)]
  /\ UNCHANGED <<entry, witness, stack, leaves, outcome>>

(* Vec<T>: the element count; then one element per iteration.              *)
DecodeVecCount ==
  /\ AtField({"vec"})
  /\ LET start == Cursor + PrefixLen
         count == PrefixAt(Buf, Cursor)
     IN  \/ ~Fits(Cursor, PrefixLen) /\ Fail(Short(Cursor, PrefixLen))
         \/ /\ Fits(Cursor, PrefixLen)
            /\ Sliced(Cursor, PrefixLen,
                      \/ count = 0 /\ Fail(InvalidVectorCount)
                      \/ /\ count # 0
                         /\ loop' = [count |-> count, i |-> 0, cur |-> start,
                                     val |-> << >>,
                                     cap |-> IF count <= Available(start) THEN count
                                             ELSE Available(start)]
                         /\ UNCHANGED <<entry, witness, stack, leaves, outcome>>)

NextElement(n) ==
  [count |-> loop.count, i |-> loop.i + 1, cur |-> loop.cur + n, cap |-> loop.cap,
   val |-> loop.val \o Slice(Buf, loop.cur, loop.cur + n)]

(* __vec.push(element); __cur = __end                                      *)
PushElement(n) ==
  Sliced(loop.cur, n,
         /\ loop' = NextElement(n)
         /\ UNCHANGED <<entry, witness, stack, leaves, outcome>>)

(* Mutant: the index of the element is counted from one in the error.      *)
DecodeVecElementOneBased ==
  /\ Running /\ loop.count # 0 /\ loop.i < loop.count
  /\ LET n == Current.kind.of.size
     IN  \/ /\ ~Fits(loop.cur, n)
            /\ Fail(Refusal(loop.cur, n, VecElementsTooShort(loop.i + 1)))
         \/ Fits(loop.cur, n) /\ PushElement(n)

(* Mutant: an element that does not fit is tried again.                    *)
DecodeVecElementRetried ==
  /\ Running /\ loop.count # 0 /\ loop.i < loop.count
  /\ LET n == Current.kind.of.size
     IN  \/ ~Fits(loop.cur, n) /\ UNCHANGED vars
         \/ Fits(loop.cur, n) /\ PushElement(n)

DecodeVecElement ==
  /\ Running /\ loop.count # 0 /\ loop.i < loop.count
  /\ LET n == Current.kind.of.size
     IN  \/ /\ ~Fits(loop.cur, n)
            /\ Fail(Refusal(loop.cur, n, VecElementsTooShort(loop.i)))
         \/ Fits(loop.cur, n) /\ PushElement(n)

(* Mutant: cursor = __cur is missing.                                      *)
FinishVecCursorKept ==
  /\ Running /\ loop.count # 0 /\ loop.i = loop.count
  /\ Bind(TRUE, Cursor, Cursor + PrefixLen, loop.val)
  /\ loop' = NoLoop

(* The loop ends: cursor = __cur.                                          *)
FinishVec ==
  /\ Running /\ loop.count # 0 /\ loop.i = loop.count
  /\ Bind(TRUE, Cursor, loop.cur, loop.val)
  /\ loop' = NoLoop
-----------------------------------------------------------------------------
Enter(struct, cursor) ==
  [layout |-> struct, pc |-> 1, cursor |-> cursor, buf |-> Buf]

(* decode_fields(buf, &mut cursor): the callee works on a copy of the      *)
(* cursor, so the caller's does not move before the callee returns Ok.     *)
DecodeNested ==
  /\ AtField({"struct"})
  /\ stack' = Append(stack, Enter(Current.kind.path, Cursor))
  /\ UNCHANGED <<entry, witness, loop, leaves, outcome>>

(* decode_union(buf, &mut cursor): the caller's cursor moves past the tag  *)
(* before the tag is looked up and the variant decoded.                    *)
DecodeUnion ==
  /\ AtField({"union"})
  /\ LET end   == Cursor + PrefixLen
         tag   == PrefixAt(Buf, Cursor)
         arms  == Variants[Current.kind.path]
         moved == [stack EXCEPT ![Len(stack)] = Resume(Top, Top.pc, end)]
     IN  \/ ~Fits(Cursor, PrefixLen) /\ Fail(Short(Cursor, PrefixLen))
         \/ /\ Fits(Cursor, PrefixLen)
            /\ Sliced(Cursor, PrefixLen,
                 \/ /\ tag \notin DOMAIN arms
                    /\ outcome' = Error(UnknownUnionTypeId(tag))
                    /\ stack' = moved
                    /\ UNCHANGED <<entry, witness, loop, leaves>>
                 \/ /\ tag \in DOMAIN arms
                    /\ stack' = Append(moved, Enter(arms[tag], end))
                    /\ leaves' = Append(leaves, [kind |-> UnionTag, some |-> TRUE,
                                                 from |-> Cursor, to |-> end,
                                                 val |-> Slice(Buf, Cursor, end)])
                    /\ UNCHANGED <<entry, witness, loop, outcome>>)

(* All fields of the innermost call are bound.                             *)
Exhausted == Running /\ loop.count = 0 /\ Top.pc > Len(Layout)

(* The call that the innermost one returns to.                             *)
Calling == stack[Len(stack) - 1]

(* Mutant: the cursor is not written back.                                 *)
ReturnNestedCursorLost ==
  /\ Exhausted
  /\ Len(stack) > 1
  /\ stack' = Append(SubSeq(stack, 1, Len(stack) - 2),
                     Resume(Calling, Calling.pc + 1, Calling.cursor))
  /\ UNCHANGED <<entry, witness, loop, leaves, outcome>>

(* decode_fields ends: the cursor is written back and Ok(Self) returned.   *)
ReturnNested ==
  /\ Exhausted
  /\ Len(stack) > 1
  /\ stack' = Append(SubSeq(stack, 1, Len(stack) - 2),
                     Resume(Calling, Calling.pc + 1, Cursor))
  /\ UNCHANGED <<entry, witness, loop, leaves, outcome>>

(* Mutant: the check for trailing bytes is missing.                        *)
ReturnTopUnchecked ==
  /\ Exhausted
  /\ Len(stack) = 1
  /\ entry.body \in Tops
  /\ outcome' = Decoded
  /\ UNCHANGED <<entry, witness, stack, loop, leaves>>

(* from_witness_args ends: nothing may be left over.                       *)
ReturnTop ==
  /\ Exhausted
  /\ Len(stack) = 1
  /\ entry.body \in Tops
  /\ outcome' = IF Cursor = Len(Buf) THEN Decoded
                ELSE Error(TrailingBytes(Cursor, Len(Buf)))
  /\ UNCHANGED <<entry, witness, stack, loop, leaves>>

(* A direct call of decode_fields or decode_union has returned Ok.         *)
ReturnToCaller ==
  /\ Exhausted
  /\ Len(stack) = 1
  /\ entry.body \in Callers
  /\ outcome' = Decoded
  /\ UNCHANGED <<entry, witness, stack, loop, leaves>>

(* The call has returned, with a value or an error.                        *)
Returned == outcome # Pending /\ UNCHANGED vars

Next ==
  \/ LoadFails \/ Begin
  \/ DecodeFixed \/ DecodeVarBytes \/ DecodeAbsent \/ DecodePresent
  \/ DecodeVecCount \/ DecodeVecElement \/ FinishVec
  \/ DecodeNested \/ DecodeUnion
  \/ ReturnNested \/ ReturnTop \/ ReturnToCaller
  \/ Returned

(* One thread runs the call to its end; nothing can keep it from its next  *)
(* statement.                                                              *)
Spec == Init /\ [][Next]_vars /\ WF_vars(Next)
-----------------------------------------------------------------------------
(* How far the fields bound so far reach into the bytes.                   *)
Reached == IF leaves = << >> THEN entry.at ELSE leaves[Len(leaves)].to

(* Nothing is skipped, read twice or misread: the decoded fields (and      *)
(* union tags) cover the bytes from the start of the call without a gap or *)
(* an overlap, each from the span that encodes it, and a witness that      *)
(* from_witness_args accepts is covered to its last byte.  Relates the     *)
(* cursor arithmetic of all decode arms, calls and returns.                *)
Tiling ==
  /\ \A i \in DOMAIN leaves :
        /\ Spells(witness.raw, leaves[i])
        /\ leaves[i].from = IF i = 1 THEN entry.at ELSE leaves[i - 1].to
  /\ outcome = Decoded /\ entry.body \in Tops => Reached = Len(witness.raw)

(* No slice or index of the generated code is out of range, whatever the   *)
(* witness holds: the unwraps and the unchecked buf[cursor] never panic.   *)
NoPanic == outcome # Panic

(* An absent Option is followed by absent Options only, and bytes are only *)
(* reported as trailing when no Option was taken to be absent: exhaustion  *)
(* of the buffer is never mistaken for the end of one field.               *)
AbsenceIsFinal ==
  \A i \in DOMAIN leaves :
    ~leaves[i].some =>
      /\ \A j \in i .. Len(leaves) : ~leaves[j].some
      /\ outcome.status = "err" => outcome.error.e # "TrailingBytes"

(* A forged element count costs the contract nothing: the loop never runs  *)
(* more often than there are bytes after the prefix, and the vector never  *)
(* outgrows the capacity it was created with.                              *)
ForgedCountIsHarmless ==
  loop.count # 0 =>
    /\ loop.i <= loop.cap
    /\ loop.cap <= Len(witness.raw) - (Reached + PrefixLen)

(* How many bytes the statement of a field reads first: all of them, or a  *)
(* length, count or tag.                                                   *)
HeadLen(kind) == IF kind.k \in {"scalar", "array"} THEN kind.size ELSE PrefixLen

(* What an error says of the witness is true.  The bytes it calls missing  *)
(* are those of the field the decoder has got to, or of the payload that   *)
(* the field's own prefix announces, and exactly `got` of them are there;  *)
(* the count it calls invalid stands in the witness and is zero; the       *)
(* element it names is the first that does not fit; the tag it names       *)
(* stands before the cursor and has no arm.                                *)
ErrorIsTruthful ==
  outcome.status = "err" =>
    LET error == outcome.error
        left  == Len(witness.raw) - Reached
    IN  /\ error.e = "FieldTooShort" =>
             /\ error.got < error.expected
             /\ \/ /\ error.got = left
                   /\ error.expected = HeadLen(Inner(Current.kind))
                \/ /\ Inner(Current.kind) = VarBytes
                   /\ error.got = left - PrefixLen
                   /\ error.expected = PrefixAt(witness.raw, Reached)
        /\ error.e = "InvalidVectorCount" =>
             /\ Current.kind.k = "vec"
             /\ PrefixLen <= left
             /\ PrefixAt(witness.raw, Reached) = 0
        /\ error.e = "VecElementsTooShort" =>
             LET n == Current.kind.of.size
             IN  /\ error.element_index < PrefixAt(witness.raw, Reached)
                 /\ PrefixLen + error.element_index * n <= left
                 /\ left < PrefixLen + (error.element_index + 1) * n
        /\ error.e = "IntegerOverflow" =>
             LET kind == Inner(Current.kind)
             IN  left < PrefixLen \/ PayloadTo(witness.raw, kind, Reached) > Len(witness.raw)
        /\ error.e = "TrailingBytes" =>
             /\ error.consumed = Reached
             /\ error.consumed < error.total
             /\ error.total = Len(witness.raw)
        /\ error.e = "UnknownUnionTypeId" =>
             /\ error.type_id = PrefixAt(witness.raw, Reached)
             /\ error.type_id \notin DOMAIN Variants[Current.kind.path]

(* What the caller of decode_fields or decode_union finds in its cursor:   *)
(* the end of what was decoded after Ok; after Err the cursor as it was,   *)
(* or, when it called decode_union, at most moved past the tag.            *)
CallerCursor ==
  entry.body \in Callers /\ outcome # Pending =>
    LET kind   == Fields[entry.body][1].kind
        cursor == stack[1].cursor
    IN  IF outcome = Decoded THEN cursor = Reached
        ELSE \/ cursor = entry.at
             \/ kind.k = "union" /\ cursor = entry.at + PrefixLen

(* The comment in emit_decode_stmts: the allocation made for the vector is *)
(* capped to the remaining buffer length.                                  *)
AllocationIsCapped ==
  loop.count # 0 =>
    loop.cap * Current.kind.of.size <= Len(witness.raw) - (Reached + PrefixLen)

(* Every call returns, whatever counts and lengths the witness claims.     *)
Answered == <>(outcome # Pending)
=============================================================================
