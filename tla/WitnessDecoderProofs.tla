------------------------ MODULE WitnessDecoderProofs ------------------------
(***************************************************************************)
(* Proofs about WitnessDecoder for every layout, every witness, every      *)
(* width of usize and every byte size.                                     *)
(***************************************************************************)
EXTENDS WitnessDecoder, WireFormatTheorems

(***************************************************************************)
(* Part 1: types, and no panic.                                            *)
(***************************************************************************)

(* The control part of the invariant: a statement always stands in a       *)
(* layout, and a vector loop runs at a statement that decodes a vector.    *)
Shape ==
  /\ \A d \in 1 .. Len(stack) : stack[d].pc # 0
  /\ loop.count = 0 => loop = NoLoop
  /\ loop.count # 0 => /\ stack # << >>
                       /\ Top.pc <= Len(Layout)
                       /\ Current.kind.k = "vec"

TypeInv == TypeOK /\ Shape /\ NoPanic

(* What the innermost call works with.                                     *)
LEMMA Innermost ==
  ASSUME TypeInv, stack # << >>
  PROVE  /\ Len(stack) \in Nat \ {0}
         /\ Top \in Frame /\ Top.pc \in Nat \ {0} /\ Top.layout \in Structs
         /\ Buf \in Seq(Byte) /\ Len(Buf) \in Nat
         /\ Cursor \in Nat
         /\ Layout \in Seq(Field) /\ Len(Layout) \in Nat
         /\ Top.pc <= Len(Layout) => Current \in Field /\ Current.kind \in Kinds
<1>1. Len(stack) \in Nat \ {0} /\ Len(stack) \in 1 .. Len(stack)
  BY EmptySeq, LenProperties DEF TypeInv, TypeOK
<1>2. Top \in Frame
  BY <1>1, ElementOfSeq DEF TypeInv, TypeOK, Top
<1>3. Top.pc \in Nat \ {0} /\ Top.layout \in Structs
  BY <1>1, <1>2 DEF TypeInv, Shape, Top, Frame
<1>4. Buf \in Seq(Byte) /\ Cursor \in Nat
  BY <1>2 DEF Frame, Buf, Cursor
<1>5. Len(Buf) \in Nat
  BY <1>4, LenProperties
<1>6. Layout \in Seq(Field) /\ Len(Layout) \in Nat
  BY <1>3, SchemaAssumption, LenProperties DEF Layout
<1>7. ASSUME Top.pc <= Len(Layout)
      PROVE  Current \in Field /\ Current.kind \in Kinds
  <2>1. Top.pc \in 1 .. Len(Layout)
    BY <1>3, <1>6, <1>7
  <2>2. Current \in Field
    BY <1>6, <2>1, ElementOfSeq DEF Current
  <2>3. QED
    BY <2>2 DEF Field
<1>8. QED
  BY <1>1, <1>2, <1>3, <1>4, <1>5, <1>6, <1>7

LEMMA ErrorIsOutcome ==
  ASSUME NEW e \in Errors
  PROVE  Error(e) \in Outcomes /\ Error(e) # Panic
  BY DEF Error, Outcomes, Panic

LEMMA ShortIsError ==
  ASSUME NEW at \in Nat, NEW n \in Nat, Len(Buf) \in Nat
  PROVE  Short(at, n) \in Errors
<1>1. Available(at) \in Nat
  BY DEF Available
<1>2. FieldTooShort(n, Available(at)) \in Errors
  BY <1>1 DEF FieldTooShort, Errors
<1>3. IntegerOverflow \in Errors
  BY DEF Errors
<1>4. QED
  BY <1>2, <1>3 DEF Short, Refusal

(* A return with an error changes the outcome alone.                       *)
LEMMA FailKeepsType ==
  ASSUME TypeInv, NEW e \in Errors, Fail(e)
  PROVE  TypeInv'
<1>1. outcome' \in Outcomes /\ outcome' # Panic
  BY ErrorIsOutcome DEF Fail
<1>2. TypeOK'
  BY <1>1 DEF TypeInv, TypeOK, Fail
<1>3. Shape'
  BY DEF TypeInv, Shape, Fail, Top, Layout, Current
<1>4. QED
  BY <1>1, <1>2, <1>3 DEF TypeInv, NoPanic

(* Binding a field keeps the frames well-formed.                           *)
LEMMA BindKeepsType ==
  ASSUME TypeInv, stack # << >>, Top.pc <= Len(Layout),
         NEW some \in BOOLEAN, NEW from \in Nat, NEW to \in Nat, NEW val \in Seq(Byte),
         Bind(some, from, to, val), loop' = NoLoop
  PROVE  TypeInv'
<1> DEFINE leaf  == [kind |-> Current.kind, some |-> some, from |-> from, to |-> to,
                     val |-> val]
           frame == [layout |-> Top.layout, pc |-> Top.pc + 1, cursor |-> to,
                     buf |-> IF Current.name = "buf" THEN val ELSE Buf]
<1>1. leaf \in Leaf
  BY Innermost DEF Leaf
<1>2. frame \in Frame /\ frame.pc # 0
  BY Innermost DEF Frame
<1>3. Len(stack) \in 1 .. Len(stack) /\ stack \in Seq(Frame)
  BY Innermost DEF TypeInv, TypeOK
<1>4. stack' = [stack EXCEPT ![Len(stack)] = frame] /\ leaves' = Append(leaves, leaf)
  BY DEF Bind
<1> HIDE DEF leaf, frame
<1>5. leaves' \in Seq(Leaf)
  BY <1>1, <1>4, AppendProperties DEF TypeInv, TypeOK
<1>6. /\ stack' \in Seq(Frame)
      /\ Len(stack') = Len(stack)
      /\ \A d \in 1 .. Len(stack) : stack'[d] = IF d = Len(stack) THEN frame ELSE stack[d]
  BY <1>2, <1>3, <1>4, ExceptSeq
<1>7. NoLoop \in Loop /\ NoLoop.count = 0
  BY EmptySeq DEF NoLoop, Loop
<1>8. TypeOK'
  BY <1>5, <1>6, <1>7 DEF TypeInv, TypeOK, Bind
<1>9. Shape'
  BY <1>2, <1>6, <1>7 DEF TypeInv, Shape
<1>10. NoPanic'
  BY DEF TypeInv, NoPanic, Bind
<1>11. QED
  BY <1>8, <1>9, <1>10 DEF TypeInv

(* A slice in range is bound, and does not panic.                          *)
LEMMA TakeKeepsType ==
  ASSUME TypeInv, stack # << >>, loop.count = 0, Top.pc <= Len(Layout),
         NEW at \in Nat, NEW to \in Nat, at <= to, to <= Len(Buf), Take(at, to)
  PROVE  TypeInv'
<1>1. Slice(Buf, at, to) \in Seq(Byte)
  BY Innermost, SliceProperties
<1>2. Bind(TRUE, Cursor, to, Slice(Buf, at, to)) /\ loop' = NoLoop
  BY DEF Take, TypeInv, Shape
<1>3. QED
  BY <1>1, <1>2, Innermost, BindKeepsType

LEMMA ReadFixedKeepsType ==
  ASSUME TypeInv, stack # << >>, loop.count = 0, Top.pc <= Len(Layout),
         NEW n \in Nat, ReadFixed(n)
  PROVE  TypeInv'
<1>1. CASE Fits(Cursor, n) /\ Take(Cursor, Cursor + n)
  <2>1. Cursor \in Nat /\ Cursor + n \in Nat /\ Cursor <= Cursor + n /\ Cursor + n <= Len(Buf)
    BY <1>1, Innermost DEF Fits
  <2>2. QED
    BY <1>1, <2>1, TakeKeepsType
<1>2. CASE Fail(Short(Cursor, n))
  BY <1>2, Innermost, ShortIsError, FailKeepsType
<1>3. QED
  BY <1>1, <1>2 DEF ReadFixed

LEMMA ReadVarBytesKeepsType ==
  ASSUME TypeInv, stack # << >>, loop.count = 0, Top.pc <= Len(Layout), ReadVarBytes
  PROVE  TypeInv'
<1> DEFINE start == Cursor + PrefixLen
           len   == PrefixAt(Buf, Cursor)
<1>1. PrefixLen \in Nat /\ Cursor \in Nat /\ start \in Nat
  BY Innermost DEF PrefixLen
<1>2. Fits(Cursor, PrefixLen) => len \in Nat
  BY Innermost, PrefixType DEF Fits
<1>3. CASE ~Fits(Cursor, PrefixLen) /\ Fail(Short(Cursor, PrefixLen))
  BY <1>1, <1>3, Innermost, ShortIsError, FailKeepsType
<1>4. CASE Fits(Cursor, PrefixLen) /\ Fail(Short(start, len))
  BY <1>1, <1>2, <1>4, Innermost, ShortIsError, FailKeepsType
<1>5. CASE Fits(Cursor, PrefixLen) /\ Fits(start, len) /\ Take(start, start + len)
  <2>1. start + len \in Nat /\ start <= start + len /\ start + len <= Len(Buf)
    BY <1>1, <1>2, <1>5 DEF Fits
  <2>2. QED
    BY <1>1, <1>5, <2>1, TakeKeepsType
<1>6. QED
  BY <1>3, <1>4, <1>5 DEF ReadVarBytes, Sliced, Fits

(* A decode statement runs in a layout, at a field of a kind.              *)
LEMMA AtFieldFacts ==
  ASSUME TypeInv, NEW tags, AtField(tags)
  PROVE  /\ stack # << >> /\ loop.count = 0 /\ Top.pc <= Len(Layout)
         /\ Current.kind \in Kinds /\ Current.kind.k \in tags
  BY Innermost DEF AtField, Running

LEMMA DecodeAbsentKeepsType ==
  ASSUME TypeInv, DecodeAbsent
  PROVE  TypeInv'
<1>1. stack # << >> /\ loop.count = 0 /\ Top.pc <= Len(Layout)
  BY AtFieldFacts DEF DecodeAbsent
<1>2. Bind(FALSE, Cursor, Cursor, << >>) /\ loop' = NoLoop
  BY <1>1 DEF DecodeAbsent, TypeInv, Shape
<1>3. << >> \in Seq(Byte) /\ Cursor \in Nat
  BY <1>1, Innermost, EmptySeq
<1>4. QED
  BY <1>1, <1>2, <1>3, BindKeepsType

LEMMA DecodePresentKeepsType ==
  ASSUME TypeInv, DecodePresent
  PROVE  TypeInv'
<1> DEFINE of == Current.kind.of
<1>1. /\ stack # << >> /\ loop.count = 0 /\ Top.pc <= Len(Layout)
      /\ of \in Fixed \cup {VarBytes}
  BY AtFieldFacts, KindCases DEF DecodePresent
<1>2. Cursor \in Nat /\ Len(Buf) \in Nat /\ Cursor < Len(Buf)
  BY <1>1, Innermost DEF DecodePresent
<1>3. CASE ReadVarBytes
  BY <1>1, <1>3, ReadVarBytesKeepsType
<1>4. CASE of \in Fixed /\ ReadFixed(of.size)
  BY <1>1, <1>4, FixedSize, ReadFixedKeepsType
<1>5. CASE Fail(IntegerOverflow)
  BY <1>5, FailKeepsType DEF Errors
<1>6. CASE Take(Cursor, Cursor + 1)
  <2>1. Cursor + 1 \in Nat /\ Cursor <= Cursor + 1 /\ Cursor + 1 <= Len(Buf)
    BY <1>2
  <2>2. QED
    BY <1>1, <1>2, <1>6, <2>1, TakeKeepsType
<1>7. QED
  BY <1>3, <1>4, <1>5, <1>6 DEF DecodePresent

LEMMA DecodeVecCountKeepsType ==
  ASSUME TypeInv, DecodeVecCount
  PROVE  TypeInv'
<1> DEFINE start == Cursor + PrefixLen
           count == PrefixAt(Buf, Cursor)
<1>1. /\ stack # << >> /\ Top.pc <= Len(Layout)
      /\ Current.kind.k = "vec"
  BY AtFieldFacts DEF DecodeVecCount
<1>2. Cursor \in Nat /\ PrefixLen \in Nat /\ start \in Nat /\ Len(Buf) \in Nat
  BY <1>1, Innermost DEF PrefixLen
<1>3. CASE Fail(Short(Cursor, PrefixLen))
  BY <1>2, <1>3, ShortIsError, FailKeepsType
<1>4. CASE Fail(InvalidVectorCount)
  BY <1>4, FailKeepsType DEF Errors
<1>5. CASE /\ Fits(Cursor, PrefixLen) /\ count # 0
           /\ loop' = [count |-> count, i |-> 0, cur |-> start, val |-> << >>,
                       cap |-> IF count <= Available(start) THEN count
                               ELSE Available(start)]
           /\ UNCHANGED <<entry, witness, stack, leaves, outcome>>
  <2>1. count \in Nat
    BY <1>1, <1>2, <1>5, Innermost, PrefixType DEF Fits
  <2>2. Available(start) \in Nat
    BY <1>2 DEF Available
  <2>3. loop' \in Loop /\ loop'.count # 0
    BY <1>2, <1>5, <2>1, <2>2, EmptySeq DEF Loop
  <2>4. TypeOK' /\ NoPanic'
    BY <1>5, <2>3 DEF TypeInv, TypeOK, NoPanic
  <2>5. Shape'
    BY <1>1, <1>5, <2>3 DEF TypeInv, Shape, Top, Layout, Current
  <2>6. QED
    BY <2>4, <2>5 DEF TypeInv
<1>6. QED
  BY <1>3, <1>4, <1>5 DEF DecodeVecCount, Sliced, Fits

(* While a loop runs, it runs at a vector field.                           *)
LEMMA InLoop ==
  ASSUME TypeInv, loop.count # 0
  PROVE  /\ stack # << >> /\ Top.pc <= Len(Layout)
         /\ Current.kind \in Kinds /\ Current.kind.k = "vec"
         /\ Current.kind.of.size \in Nat \ {0}
         /\ loop \in Loop
<1>1. stack # << >> /\ Top.pc <= Len(Layout) /\ Current.kind.k = "vec"
  BY DEF TypeInv, Shape
<1>2. Current.kind \in Kinds
  BY <1>1, Innermost
<1>3. QED
  BY <1>1, <1>2, KindCases DEF TypeInv, TypeOK

LEMMA DecodeVecElementKeepsType ==
  ASSUME TypeInv, DecodeVecElement
  PROVE  TypeInv'
<1> DEFINE n == Current.kind.of.size
<1>1. loop.count # 0 /\ stack # << >>
  BY DEF DecodeVecElement, Running
<1>2. /\ n \in Nat /\ loop.count \in Nat /\ loop.i \in Nat /\ loop.cur \in Nat
      /\ loop.cap \in Nat /\ loop.val \in Seq(Byte)
  BY <1>1, InLoop DEF Loop
<1>3. CASE Fail(Refusal(loop.cur, n, VecElementsTooShort(loop.i)))
  <2>1. VecElementsTooShort(loop.i) \in Errors /\ IntegerOverflow \in Errors
    BY <1>2 DEF VecElementsTooShort, Errors
  <2>2. QED
    BY <1>3, <2>1, FailKeepsType DEF Refusal
<1>4. CASE /\ Fits(loop.cur, n) /\ loop' = NextElement(n)
           /\ UNCHANGED <<entry, witness, stack, leaves, outcome>>
  <2>1. loop.cur + n \in Nat /\ loop.cur <= loop.cur + n /\ loop.cur + n <= Len(Buf)
    BY <1>2, <1>4 DEF Fits
  <2>2. Slice(Buf, loop.cur, loop.cur + n) \in Seq(Byte)
    BY <1>1, <1>2, <2>1, Innermost, SliceProperties
  <2>3. loop' \in Loop /\ loop'.count = loop.count
    BY <1>2, <1>4, <2>1, <2>2, ConcatProperties DEF NextElement, Loop
  <2>4. TypeOK' /\ NoPanic'
    BY <1>4, <2>3 DEF TypeInv, TypeOK, NoPanic
  <2>5. Shape'
    BY <1>1, <1>4, <2>3 DEF TypeInv, Shape, Top, Layout, Current
  <2>6. QED
    BY <2>4, <2>5 DEF TypeInv
<1>5. QED
  BY <1>3, <1>4 DEF DecodeVecElement, PushElement, Sliced, Fits

LEMMA FinishVecKeepsType ==
  ASSUME TypeInv, FinishVec
  PROVE  TypeInv'
<1>1. loop.count # 0 /\ Bind(TRUE, Cursor, loop.cur, loop.val) /\ loop' = NoLoop
  BY DEF FinishVec
<1>2. stack # << >> /\ Top.pc <= Len(Layout)
  BY <1>1, InLoop
<1>3. Cursor \in Nat /\ loop.cur \in Nat /\ loop.val \in Seq(Byte)
  BY <1>1, <1>2, Innermost, InLoop DEF Loop
<1>4. QED
  BY <1>1, <1>2, <1>3, BindKeepsType

(* Entering a call, or coming back from one, puts a frame on top of frames *)
(* that were there before.                                                 *)
LEMMA FrameOnTop ==
  ASSUME NEW s \in Seq(Frame), \A d \in 1 .. Len(s) : s[d].pc # 0,
         NEW frame \in Frame, frame.pc # 0
  PROVE  /\ Append(s, frame) \in Seq(Frame)
         /\ \A d \in 1 .. Len(Append(s, frame)) : Append(s, frame)[d].pc # 0
<1>1. /\ Append(s, frame) \in Seq(Frame)
      /\ Len(Append(s, frame)) = Len(s) + 1
      /\ \A d \in 1 .. Len(s) : Append(s, frame)[d] = s[d]
      /\ Append(s, frame)[Len(s) + 1] = frame
  BY AppendProperties
<1>2. Len(s) \in Nat
  BY LenProperties
<1>3. QED
  BY <1>1, <1>2

LEMMA EnterIsFrame ==
  ASSUME TypeInv, stack # << >>, NEW struct \in Structs, NEW cursor \in Nat
  PROVE  Enter(struct, cursor) \in Frame /\ Enter(struct, cursor).pc # 0
  BY Innermost DEF Enter, Frame

LEMMA DecodeNestedKeepsType ==
  ASSUME TypeInv, DecodeNested
  PROVE  TypeInv'
<1>1. stack # << >> /\ loop.count = 0 /\ Current.kind.path \in Structs
  BY AtFieldFacts, KindCases DEF DecodeNested
<1>2. stack' = Append(stack, Enter(Current.kind.path, Cursor))
  BY DEF DecodeNested
<1>3. stack' \in Seq(Frame) /\ \A d \in 1 .. Len(stack') : stack'[d].pc # 0
  BY <1>1, <1>2, Innermost, EnterIsFrame, FrameOnTop DEF TypeInv, TypeOK, Shape
<1>4. TypeOK' /\ NoPanic'
  BY <1>3 DEF DecodeNested, TypeInv, TypeOK, NoPanic
<1>5. Shape'
  BY <1>1, <1>3 DEF DecodeNested, TypeInv, Shape
<1>6. QED
  BY <1>4, <1>5 DEF TypeInv

LEMMA DecodeUnionKeepsType ==
  ASSUME TypeInv, DecodeUnion
  PROVE  TypeInv'
<1> DEFINE end   == Cursor + PrefixLen
           tag   == PrefixAt(Buf, Cursor)
           arms  == Variants[Current.kind.path]
           moved == [stack EXCEPT ![Len(stack)] = Resume(Top, Top.pc, end)]
           leaf  == [kind |-> UnionTag, some |-> TRUE, from |-> Cursor, to |-> end,
                     val |-> Slice(Buf, Cursor, end)]
<1>1. /\ stack # << >> /\ loop.count = 0 /\ Current.kind.path \in Unions
  BY AtFieldFacts, KindCases DEF DecodeUnion
<1>2. Cursor \in Nat /\ PrefixLen \in Nat /\ end \in Nat /\ Len(Buf) \in Nat
  BY <1>1, Innermost DEF PrefixLen
<1>3. Resume(Top, Top.pc, end) \in Frame /\ Resume(Top, Top.pc, end).pc # 0
  BY <1>1, <1>2, Innermost DEF Resume, Frame
<1>4. moved \in Seq(Frame) /\ \A d \in 1 .. Len(moved) : moved[d].pc # 0
  <2>1. stack \in Seq(Frame) /\ Len(stack) \in 1 .. Len(stack)
    BY <1>1, Innermost DEF TypeInv, TypeOK
  <2>2. /\ moved \in Seq(Frame) /\ Len(moved) = Len(stack)
        /\ \A d \in 1 .. Len(stack) :
              moved[d] = IF d = Len(stack) THEN Resume(Top, Top.pc, end) ELSE stack[d]
    BY <1>3, <2>1, ExceptSeq
  <2>3. QED
    BY <1>3, <2>2 DEF TypeInv, Shape
<1>5. CASE Fail(Short(Cursor, PrefixLen))
  BY <1>2, <1>5, ShortIsError, FailKeepsType
<1>6. CASE /\ Fits(Cursor, PrefixLen) /\ outcome' = Error(UnknownUnionTypeId(tag))
           /\ stack' = moved /\ UNCHANGED <<entry, witness, loop, leaves>>
  <2>1. tag \in Nat
    BY <1>1, <1>2, <1>6, Innermost, PrefixType DEF Fits
  <2>2. UnknownUnionTypeId(tag) \in Errors
    BY <2>1 DEF UnknownUnionTypeId, Errors
  <2>3. outcome' \in Outcomes /\ outcome' # Panic
    BY <1>6, <2>2, ErrorIsOutcome
  <2>4. TypeOK' /\ NoPanic'
    BY <1>4, <1>6, <2>3 DEF TypeInv, TypeOK, NoPanic
  <2>5. Shape'
    BY <1>1, <1>4, <1>6 DEF TypeInv, Shape
  <2>6. QED
    BY <2>4, <2>5 DEF TypeInv
<1>7. CASE /\ Fits(Cursor, PrefixLen) /\ tag \in DOMAIN arms
           /\ stack' = Append(moved, Enter(arms[tag], end))
           /\ leaves' = Append(leaves, leaf)
           /\ UNCHANGED <<entry, witness, loop, outcome>>
  <2>1. arms[tag] \in Structs
    BY <1>1, <1>7, SchemaAssumption
  <2>2. stack' \in Seq(Frame) /\ \A d \in 1 .. Len(stack') : stack'[d].pc # 0
    BY <1>1, <1>2, <1>4, <1>7, <2>1, EnterIsFrame, FrameOnTop
  <2>3. Slice(Buf, Cursor, end) \in Seq(Byte)
    <3>1. Cursor <= end /\ end <= Len(Buf)
      BY <1>2, <1>7 DEF Fits
    <3>2. QED
      BY <1>1, <1>2, <3>1, Innermost, SliceProperties
  <2>4. leaf \in Leaf
    BY <1>2, <2>3 DEF Leaf
  <2>5. leaves' \in Seq(Leaf)
    BY <1>7, <2>4, AppendProperties DEF TypeInv, TypeOK
  <2>6. TypeOK' /\ NoPanic'
    BY <1>7, <2>2, <2>5 DEF TypeInv, TypeOK, NoPanic
  <2>7. Shape'
    BY <1>1, <1>7, <2>2 DEF TypeInv, Shape
  <2>8. QED
    BY <2>6, <2>7 DEF TypeInv
<1>8. QED
  BY <1>5, <1>6, <1>7 DEF DecodeUnion, Sliced, Fits

LEMMA ReturnNestedKeepsType ==
  ASSUME TypeInv, ReturnNested
  PROVE  TypeInv'
<1> DEFINE below == SubSeq(stack, 1, Len(stack) - 2)
           back  == Resume(Calling, Calling.pc + 1, Cursor)
<1>1. stack # << >> /\ loop.count = 0 /\ Len(stack) > 1
  BY DEF ReturnNested, Exhausted, Running
<1>2. stack \in Seq(Frame) /\ Len(stack) \in Nat
  BY <1>1, Innermost DEF TypeInv, TypeOK
<1>3. back \in Frame /\ back.pc # 0
  <2>1. Calling \in Frame
    BY <1>1, <1>2, ElementOfSeq DEF Calling
  <2>2. QED
    BY <1>1, <2>1, Innermost DEF Resume, Frame
<1>4. below \in Seq(Frame) /\ \A d \in 1 .. Len(below) : below[d].pc # 0
  <2>1. \A d \in 1 .. Len(stack) - 2 : stack[d] \in Frame /\ stack[d].pc # 0
    BY <1>2, ElementOfSeq DEF TypeInv, Shape
  <2>2. /\ below \in Seq(Frame)
        /\ Len(below) = IF 1 <= Len(stack) - 2 THEN Len(stack) - 2 ELSE 0
        /\ \A d \in 1 .. Len(stack) - 2 : below[d] = stack[d]
    <3>1. /\ 1 \in Int /\ Len(stack) - 2 \in Int
          /\ (Len(stack) - 2) - 1 + 1 = Len(stack) - 2
          /\ \A d \in Int : 1 + d - 1 = d
      BY <1>2
    <3>2. QED
      BY <2>1, <3>1, SubSeqProperties
  <2>3. QED
    BY <1>1, <1>2, <2>1, <2>2
<1>5. stack' = Append(below, back)
  BY DEF ReturnNested
<1> HIDE DEF below, back
<1>6. stack' \in Seq(Frame) /\ \A d \in 1 .. Len(stack') : stack'[d].pc # 0
  BY <1>3, <1>4, <1>5, FrameOnTop
<1>7. TypeOK' /\ NoPanic'
  BY <1>6 DEF ReturnNested, TypeInv, TypeOK, NoPanic
<1>8. Shape'
  BY <1>1, <1>6 DEF ReturnNested, TypeInv, Shape
<1>9. QED
  BY <1>7, <1>8 DEF TypeInv

(* The bytes of a lock field are bytes.                                    *)
LEMMA BufferType == \A raw \in Buffers \cup {<< >>} : raw \in Seq(Byte)
<1>1. << >> \in Seq(Byte)
  OBVIOUS
<1>2. Buffers \subseteq Seq(Byte)
  BY EntryAssumption
<1>3. QED
  BY <1>1, <1>2

LEMMA BeginKeepsType ==
  ASSUME TypeInv, Begin
  PROVE  TypeInv'
<1> DEFINE frame == [layout |-> entry.body, pc |-> 1, cursor |-> entry.at,
                     buf |-> witness.raw]
<1>1. frame \in Frame /\ frame.pc # 0
  <2>1. witness.raw \in Seq(Byte)
    BY BufferType DEF TypeInv, TypeOK
  <2>2. entry.body \in Structs /\ entry.at \in Nat
    BY EntryAssumption DEF TypeInv, TypeOK
  <2>3. QED
    BY <2>1, <2>2 DEF Frame
<1>2. stack' = << frame >>
  BY DEF Begin
<1> HIDE DEF frame
<1>3. stack' \in Seq(Frame) /\ \A d \in 1 .. Len(stack') : stack'[d].pc # 0
  BY <1>1, <1>2
<1>4. loop.count = 0
  BY DEF Begin, TypeInv, Shape
<1>5. TypeOK' /\ NoPanic'
  BY <1>3 DEF Begin, TypeInv, TypeOK, NoPanic
<1>6. Shape'
  BY <1>3, <1>4 DEF Begin, TypeInv, Shape
<1>7. QED
  BY <1>5, <1>6 DEF TypeInv

(* The invariant holds at the start and survives every step.               *)
LEMMA InitType == Init => TypeInv
<1> SUFFICES ASSUME Init PROVE TypeInv
  OBVIOUS
<1>1. NoLoop \in Loop /\ NoLoop.count = 0
  BY EmptySeq DEF NoLoop, Loop
<1>2. witness \in [status : {"load_error", "no_lock", "lock"}, raw : Buffers \cup {<< >>}]
  BY DEF Init
<1>3. Len(witness.raw) \in Nat
  <2>1. witness.raw \in Seq(Byte)
    BY <1>2, BufferType
  <2>2. QED
    BY <2>1, LenProperties
<1>4. entry \in [body : Tops \cup Callers, at : Nat]
  BY <1>3 DEF Init
<1>5. TypeOK
  BY <1>1, <1>2, <1>4, EmptySeq DEF Init, TypeOK, Outcomes
<1>6. Shape
  BY <1>1, EmptySeq DEF Init, Shape
<1>7. NoPanic
  BY DEF Init, NoPanic, Pending, Panic
<1>8. QED
  BY <1>5, <1>6, <1>7 DEF TypeInv

LEMMA NextKeepsType == TypeInv /\ [Next]_vars => TypeInv'
<1> SUFFICES ASSUME TypeInv, [Next]_vars PROVE TypeInv'
  OBVIOUS
<1>1. CASE LoadFails
  BY <1>1, FailKeepsType DEF LoadFails, Errors
<1>2. CASE Begin
  BY <1>2, BeginKeepsType
<1>3. CASE DecodeFixed
  BY <1>3, AtFieldFacts, KindCases, ReadFixedKeepsType DEF DecodeFixed
<1>4. CASE DecodeVarBytes
  BY <1>4, AtFieldFacts, ReadVarBytesKeepsType DEF DecodeVarBytes
<1>5. CASE DecodeAbsent
  BY <1>5, DecodeAbsentKeepsType
<1>6. CASE DecodePresent
  BY <1>6, DecodePresentKeepsType
<1>7. CASE DecodeVecCount
  BY <1>7, DecodeVecCountKeepsType
<1>8. CASE DecodeVecElement
  BY <1>8, DecodeVecElementKeepsType
<1>9. CASE FinishVec
  BY <1>9, FinishVecKeepsType
<1>10. CASE DecodeNested
  BY <1>10, DecodeNestedKeepsType
<1>11. CASE DecodeUnion
  BY <1>11, DecodeUnionKeepsType
<1>12. CASE ReturnNested
  BY <1>12, ReturnNestedKeepsType
<1>13. CASE ReturnTop \/ ReturnToCaller
  <2>1. /\ outcome' \in Outcomes /\ outcome' # Panic
        /\ UNCHANGED <<entry, witness, stack, loop, leaves>>
    <3>1. stack # << >>
      BY <1>13 DEF ReturnTop, ReturnToCaller, Exhausted, Running
    <3>2. TrailingBytes(Cursor, Len(Buf)) \in Errors
      BY <3>1, Innermost DEF TrailingBytes, Errors
    <3>3. Decoded \in Outcomes /\ Decoded # Panic
      BY DEF Outcomes, Decoded, Panic
    <3>4. QED
      BY <1>13, <3>2, <3>3, ErrorIsOutcome DEF ReturnTop, ReturnToCaller
  <2>2. TypeOK' /\ NoPanic'
    BY <2>1 DEF TypeInv, TypeOK, NoPanic
  <2>3. Shape'
    BY <2>1 DEF TypeInv, Shape, Top, Layout, Current
  <2>4. QED
    BY <2>2, <2>3 DEF TypeInv
<1>14. CASE UNCHANGED vars
  BY <1>14 DEF vars, TypeInv, TypeOK, Shape, NoPanic, Top, Layout, Current
<1>15. QED
  BY <1>1, <1>2, <1>3, <1>4, <1>5, <1>6, <1>7, <1>8, <1>9, <1>10, <1>11, <1>12,
     <1>13, <1>14 DEF Next, Returned

(* The state of the decoder keeps its types, whatever the witness holds.   *)
THEOREM TypeCorrect == Spec => []TypeOK
<1>1. TypeInv => TypeOK
  BY DEF TypeInv
<1>2. QED
  BY <1>1, InitType, NextKeepsType, PTL DEF Spec

(* The generated decoder never indexes or slices out of range: no witness, *)
(* no layout and no width of usize make it panic.                          *)
THEOREM PanicFree == Spec => []NoPanic
<1>1. TypeInv => NoPanic
  BY DEF TypeInv
<1>2. QED
  BY <1>1, InitType, NextKeepsType, PTL DEF Spec

(***************************************************************************)
(* Part 2: what the caller of decode_fields and decode_union finds in its  *)
(* cursor.                                                                 *)
(***************************************************************************)

(* Between two statements the innermost call stands where the fields bound *)
(* so far end, even when a field has shadowed the bytes.                   *)
Stands ==
  /\ stack = << >> => leaves = << >>
  /\ stack # << >> /\ outcome = Pending => Cursor = Reached

(* The caller is at its only field until the call has come back: its       *)
(* cursor has not moved, unless decode_union has read a tag with it.       *)
AtCall(frame) ==
  LET kind == Fields[entry.body][1].kind
  IN  /\ frame.pc = 1 /\ kind.k \in {"struct", "union"}
      /\ \/ frame.cursor = entry.at
         \/ /\ kind.k = "union" /\ frame.cursor = entry.at + PrefixLen
            /\ Len(stack) = 1 => outcome # Pending
      /\ outcome # Decoded

Back(frame) ==
  /\ frame.pc = 2 /\ Len(stack) = 1
  /\ outcome \in {Pending, Decoded}
  /\ outcome = Decoded => frame.cursor = Reached

CallerInv ==
  entry.body \in Callers =>
    /\ stack = << >> => outcome = Pending
    /\ stack # << >> => /\ stack[1].layout = entry.body
                        /\ AtCall(stack[1]) \/ Back(stack[1])

CallInv == Stands /\ CallerInv

LEMMA OutcomesDiffer ==
  /\ Pending # Decoded /\ Panic # Pending /\ Panic # Decoded
  /\ \A e : Error(e) # Pending /\ Error(e) # Decoded
  BY DEF Pending, Decoded, Panic, Error

(* Where a caller that has not come back yet may stand.                    *)
LEMMA InField ==
  ASSUME TypeInv, CallInv, Running, Top.pc <= Len(Layout), entry.body \in Callers
  PROVE  /\ AtCall(stack[1]) /\ stack[1].layout = entry.body
         /\ Len(stack) = 1 => /\ Top = stack[1]
                              /\ Current.kind = Fields[entry.body][1].kind
                              /\ Current.kind.k \in {"struct", "union"}
<1>1. /\ stack # << >> /\ stack[1].layout = entry.body
      /\ AtCall(stack[1]) \/ Back(stack[1])
  BY DEF CallInv, CallerInv, Running
<1>2. Len(Fields[entry.body]) = 1
  BY EntryAssumption
<1>3. Len(stack) = 1 => Top = stack[1] /\ Layout = Fields[entry.body]
  BY <1>1 DEF Top, Layout
<1>4. AtCall(stack[1])
  <2>1. ASSUME Back(stack[1]) PROVE FALSE
    <3>1. Top.pc = 2 /\ Len(Layout) = 1
      BY <1>2, <1>3, <2>1 DEF Back
    <3>2. QED
      BY <3>1
  <2>2. QED
    BY <1>1, <2>1
<1>5. stack[1].pc = 1 /\ Fields[entry.body][1].kind.k \in {"struct", "union"}
  BY <1>4 DEF AtCall
<1>6. QED
  BY <1>1, <1>3, <1>4, <1>5 DEF Current

LEMMA FailKeepsCall ==
  ASSUME TypeInv, CallInv, Running, Top.pc <= Len(Layout), NEW e, Fail(e)
  PROVE  CallInv'
<1>1. /\ outcome' # Pending /\ outcome' # Decoded
      /\ UNCHANGED <<entry, stack, leaves>>
  BY OutcomesDiffer DEF Fail
<1>2. Stands'
  BY <1>1 DEF CallInv, Stands
<1>3. ASSUME entry.body \in Callers
      PROVE  AtCall(stack[1])' /\ stack[1].layout = entry.body /\ stack # << >>
  BY <1>1, <1>3, InField DEF AtCall, Running
<1>4. QED
  BY <1>1, <1>2, <1>3 DEF CallInv, CallerInv

(* A field that is bound lies in a call that the caller has made.          *)
LEMMA BindKeepsCall ==
  ASSUME TypeInv, CallInv, Running, Top.pc <= Len(Layout),
         Current.kind.k \notin {"struct", "union"},
         NEW some \in BOOLEAN, NEW from \in Nat, NEW to \in Nat, NEW val \in Seq(Byte),
         Bind(some, from, to, val)
  PROVE  CallInv'
<1> DEFINE leaf  == [kind |-> Current.kind, some |-> some, from |-> from, to |-> to,
                     val |-> val]
           frame == [layout |-> Top.layout, pc |-> Top.pc + 1, cursor |-> to,
                     buf |-> IF Current.name = "buf" THEN val ELSE Buf]
<1>1. leaf \in Leaf /\ leaf.to = to
  BY Innermost DEF Leaf, Running
<1>2. frame \in Frame /\ frame.cursor = to
  BY Innermost DEF Frame, Running
<1>3. stack \in Seq(Frame) /\ Len(stack) \in 1 .. Len(stack) /\ leaves \in Seq(Leaf)
  BY Innermost DEF TypeInv, TypeOK, Running
<1>4. /\ stack' = [stack EXCEPT ![Len(stack)] = frame] /\ leaves' = Append(leaves, leaf)
      /\ UNCHANGED <<entry, outcome>>
  BY DEF Bind
<1> HIDE DEF leaf, frame
<1>5. /\ Len(stack') = Len(stack) /\ stack' \in Seq(Frame) /\ stack' # << >>
      /\ \A d \in 1 .. Len(stack) : stack'[d] = IF d = Len(stack) THEN frame ELSE stack[d]
  <2>1. /\ Len(stack') = Len(stack) /\ stack' \in Seq(Frame)
        /\ \A d \in 1 .. Len(stack) : stack'[d] = IF d = Len(stack) THEN frame ELSE stack[d]
    BY <1>2, <1>3, <1>4, ExceptSeq
  <2>2. QED
    BY <1>3, <2>1, EmptySeq
<1>6. Reached' = to
  <2>1. leaves' # << >> /\ leaves'[Len(leaves')] = leaf
    BY <1>1, <1>3, <1>4, AppendProperties
  <2>2. QED
    BY <1>1, <2>1 DEF Reached
<1>7. Stands'
  BY <1>2, <1>3, <1>5, <1>6 DEF Stands, Cursor, Top
<1>8. ASSUME entry.body \in Callers
      PROVE  stack'[1] = stack[1] /\ AtCall(stack[1])' /\ stack[1].layout = entry.body
  <2>1. 1 \in 1 .. Len(stack) /\ Len(stack) # 1
    BY <1>3, <1>8, InField
  <2>2. stack'[1] = stack[1]
    BY <1>5, <2>1
  <2>3. QED
    BY <1>4, <1>5, <1>8, <2>1, <2>2, InField DEF AtCall
<1>9. CallerInv'
  BY <1>4, <1>5, <1>8 DEF CallerInv
<1>10. QED
  BY <1>7, <1>9 DEF CallInv

LEMMA TakeKeepsCall ==
  ASSUME TypeInv, CallInv, Running, Top.pc <= Len(Layout),
         Current.kind.k \notin {"struct", "union"},
         NEW at \in Nat, NEW to \in Nat, at <= to, to <= Len(Buf), Take(at, to)
  PROVE  CallInv'
<1>1. Slice(Buf, at, to) \in Seq(Byte) /\ Cursor \in Nat
  BY Innermost, SliceProperties DEF Running
<1>2. Bind(TRUE, Cursor, to, Slice(Buf, at, to))
  BY DEF Take
<1>3. QED
  BY <1>1, <1>2, BindKeepsCall

LEMMA ReadFixedKeepsCall ==
  ASSUME TypeInv, CallInv, Running, Top.pc <= Len(Layout),
         Current.kind.k \notin {"struct", "union"}, NEW n \in Nat, ReadFixed(n)
  PROVE  CallInv'
<1>1. CASE Fits(Cursor, n) /\ Take(Cursor, Cursor + n)
  <2>1. Cursor \in Nat /\ Cursor + n \in Nat /\ Cursor <= Cursor + n /\ Cursor + n <= Len(Buf)
    BY <1>1, Innermost DEF Fits, Running
  <2>2. QED
    BY <1>1, <2>1, TakeKeepsCall
<1>2. CASE Fail(Short(Cursor, n))
  BY <1>2, FailKeepsCall
<1>3. QED
  BY <1>1, <1>2 DEF ReadFixed

LEMMA ReadVarBytesKeepsCall ==
  ASSUME TypeInv, CallInv, Running, Top.pc <= Len(Layout),
         Current.kind.k \notin {"struct", "union"}, ReadVarBytes
  PROVE  CallInv'
<1> DEFINE start == Cursor + PrefixLen
           len   == PrefixAt(Buf, Cursor)
<1>1. CASE \E e : Fail(e)
  BY <1>1, FailKeepsCall
<1>2. CASE Fits(Cursor, PrefixLen) /\ Fits(start, len) /\ Take(start, start + len)
  <2>1. PrefixLen \in Nat /\ Cursor \in Nat /\ start \in Nat /\ Buf \in Seq(Byte)
    BY Innermost DEF PrefixLen, Running
  <2>2. len \in Nat
    BY <1>2, <2>1, PrefixType DEF Fits
  <2>3. start + len \in Nat /\ start <= start + len /\ start + len <= Len(Buf)
    BY <1>2, <2>1, <2>2 DEF Fits
  <2>4. QED
    BY <1>2, <2>1, <2>3, TakeKeepsCall
<1>3. QED
  BY <1>1, <1>2 DEF ReadVarBytes, Sliced, Fits

LEMMA DecodePresentKeepsCall ==
  ASSUME TypeInv, CallInv, DecodePresent
  PROVE  CallInv'
<1> DEFINE of == Current.kind.of
<1>1. /\ Running /\ stack # << >> /\ Top.pc <= Len(Layout)
      /\ Current.kind.k \notin {"struct", "union"}
  BY AtFieldFacts DEF DecodePresent, AtField
<1>2. Cursor \in Nat /\ Len(Buf) \in Nat /\ Cursor < Len(Buf)
  BY <1>1, Innermost DEF DecodePresent
<1>3. CASE ReadVarBytes
  BY <1>1, <1>3, ReadVarBytesKeepsCall
<1>4. CASE of \in Fixed /\ ReadFixed(of.size)
  BY <1>1, <1>4, FixedSize, ReadFixedKeepsCall
<1>5. CASE Fail(IntegerOverflow)
  BY <1>1, <1>5, FailKeepsCall
<1>6. CASE Take(Cursor, Cursor + 1)
  <2>1. Cursor + 1 \in Nat /\ Cursor <= Cursor + 1 /\ Cursor + 1 <= Len(Buf)
    BY <1>2
  <2>2. QED
    BY <1>1, <1>2, <1>6, <2>1, TakeKeepsCall
<1>7. QED
  BY <1>3, <1>4, <1>5, <1>6 DEF DecodePresent

(* What a call adds to the stack leaves the caller's frame as it is.       *)
LEMMA CalleeOnTop ==
  ASSUME NEW s \in Seq(Frame), s # << >>, NEW frame \in Frame
  PROVE  /\ Append(s, frame) # << >> /\ Append(s, frame)[1] = s[1]
         /\ Append(s, frame)[Len(Append(s, frame))] = frame
         /\ Len(Append(s, frame)) = Len(s) + 1 /\ Len(Append(s, frame)) # 1
<1>1. Len(s) \in Nat /\ Len(s) # 0
  BY LenProperties, EmptySeq
<1>2. /\ Len(Append(s, frame)) = Len(s) + 1
      /\ \A d \in 1 .. Len(s) : Append(s, frame)[d] = s[d]
      /\ Append(s, frame)[Len(s) + 1] = frame
      /\ Append(s, frame) # << >>
  BY AppendProperties
<1>3. QED
  BY <1>1, <1>2

LEMMA DecodeNestedKeepsCall ==
  ASSUME TypeInv, CallInv, DecodeNested
  PROVE  CallInv'
<1> DEFINE frame == Enter(Current.kind.path, Cursor)
<1>1. /\ Running /\ stack # << >> /\ Top.pc <= Len(Layout)
      /\ Current.kind.path \in Structs
  BY AtFieldFacts, KindCases DEF DecodeNested, AtField
<1>2. frame \in Frame /\ frame.cursor = Cursor /\ stack \in Seq(Frame)
  BY <1>1, Innermost, EnterIsFrame DEF Enter, TypeInv, TypeOK
<1> HIDE DEF frame
<1>3. stack' = Append(stack, frame) /\ UNCHANGED <<entry, leaves, outcome>>
  BY DEF DecodeNested, frame
<1>4. /\ stack' # << >> /\ stack'[1] = stack[1] /\ stack'[Len(stack')] = frame
      /\ Len(stack') # 1
  BY <1>1, <1>2, <1>3, CalleeOnTop
<1>5. Stands'
  BY <1>1, <1>2, <1>3, <1>4 DEF CallInv, Stands, Cursor, Top, Reached, Running
<1>6. entry.body \in Callers => AtCall(stack[1])' /\ stack[1].layout = entry.body
  BY <1>1, <1>3, <1>4, InField DEF AtCall
<1>7. QED
  BY <1>3, <1>4, <1>5, <1>6 DEF CallInv, CallerInv

LEMMA DecodeUnionKeepsCall ==
  ASSUME TypeInv, CallInv, DecodeUnion
  PROVE  CallInv'
<1> DEFINE end   == Cursor + PrefixLen
           tag   == PrefixAt(Buf, Cursor)
           arms  == Variants[Current.kind.path]
           on    == Resume(Top, Top.pc, end)
           moved == [stack EXCEPT ![Len(stack)] = on]
           frame == Enter(arms[tag], end)
           leaf  == [kind |-> UnionTag, some |-> TRUE, from |-> Cursor, to |-> end,
                     val |-> Slice(Buf, Cursor, end)]
<1>1. /\ Running /\ stack # << >> /\ Top.pc <= Len(Layout)
      /\ Current.kind.k = "union" /\ Current.kind.path \in Unions
  BY AtFieldFacts, KindCases DEF DecodeUnion, AtField
<1>2. /\ Cursor \in Nat /\ end \in Nat /\ PrefixLen \in Nat /\ Len(Buf) \in Nat
      /\ Buf \in Seq(Byte) /\ on \in Frame
      /\ on.layout = Top.layout /\ on.pc = Top.pc /\ on.cursor = end
  BY <1>1, Innermost DEF PrefixLen, Resume, Frame
<1> HIDE DEF on
<1>3. /\ moved \in Seq(Frame) /\ moved # << >> /\ Len(moved) = Len(stack)
      /\ moved[1] = IF Len(stack) = 1 THEN on ELSE stack[1]
  <2>1. stack \in Seq(Frame) /\ Len(stack) \in 1 .. Len(stack) /\ 1 \in 1 .. Len(stack)
    BY <1>1, Innermost DEF TypeInv, TypeOK
  <2>2. /\ moved \in Seq(Frame) /\ Len(moved) = Len(stack)
        /\ \A d \in 1 .. Len(stack) : moved[d] = IF d = Len(stack) THEN on ELSE stack[d]
    BY <1>2, <2>1, ExceptSeq
  <2>3. QED
    BY <2>1, <2>2, EmptySeq
<1> HIDE DEF moved
<1>4. ASSUME entry.body \in Callers
      PROVE  /\ moved[1].layout = entry.body /\ moved[1].pc = 1
             /\ Fields[entry.body][1].kind.k \in {"struct", "union"}
             /\ \/ moved[1].cursor = entry.at
                \/ /\ Fields[entry.body][1].kind.k = "union"
                   /\ moved[1].cursor = entry.at + PrefixLen
  BY <1>1, <1>2, <1>3, <1>4, InField, OutcomesDiffer DEF AtCall, Running, Cursor
<1>5. CASE Fail(Short(Cursor, PrefixLen))
  BY <1>1, <1>5, FailKeepsCall
<1>6. CASE /\ outcome' = Error(UnknownUnionTypeId(tag)) /\ stack' = moved
           /\ UNCHANGED <<entry, witness, loop, leaves>>
  <2>1. outcome' # Pending /\ outcome' # Decoded
    BY <1>6, OutcomesDiffer
  <2>2. Stands'
    BY <1>3, <1>6, <2>1 DEF Stands
  <2>3. entry.body \in Callers => AtCall(stack[1])'
    BY <1>4, <1>6, <2>1 DEF AtCall
  <2>4. QED
    BY <1>3, <1>4, <1>6, <2>2, <2>3 DEF CallInv, CallerInv
<1>7. CASE /\ Fits(Cursor, PrefixLen) /\ tag \in DOMAIN arms
           /\ stack' = Append(moved, frame) /\ leaves' = Append(leaves, leaf)
           /\ UNCHANGED <<entry, witness, loop, outcome>>
  <2>1. frame \in Frame /\ frame.cursor = end
    BY <1>1, <1>2, <1>7, SchemaAssumption, EnterIsFrame DEF Enter
  <2>2. leaf \in Leaf /\ leaf.to = end
    <3>1. Cursor <= end /\ end <= Len(Buf)
      BY <1>2, <1>7 DEF Fits
    <3>2. Slice(Buf, Cursor, end) \in Seq(Byte)
      BY <1>2, <3>1, SliceProperties
    <3>3. QED
      BY <1>2, <3>2 DEF Leaf
  <2> HIDE DEF leaf, frame
  <2>3. /\ stack' # << >> /\ stack'[1] = moved[1] /\ stack'[Len(stack')] = frame
        /\ Len(stack') # 1
    BY <1>3, <1>7, <2>1, CalleeOnTop
  <2>4. Reached' = end
    <3>1. leaves' # << >> /\ leaves'[Len(leaves')] = leaf
      BY <1>7, <2>2, AppendProperties DEF TypeInv, TypeOK
    <3>2. QED
      BY <2>2, <3>1 DEF Reached
  <2>5. Stands'
    BY <2>1, <2>3, <2>4 DEF Stands, Cursor, Top
  <2>6. entry.body \in Callers => AtCall(stack[1])'
    BY <1>1, <1>4, <1>7, <2>3, OutcomesDiffer DEF AtCall, Running
  <2>7. QED
    BY <1>4, <1>7, <2>3, <2>5, <2>6 DEF CallInv, CallerInv
<1>8. QED
  BY <1>5, <1>6, <1>7 DEF DecodeUnion, Sliced, Fits, on, moved

LEMMA BelowTheTwo ==
  ASSUME NEW n \in Nat, n > 1
  PROVE  /\ (IF 1 <= n - 2 THEN n - 2 ELSE 0) = n - 2
         /\ n > 2 => 1 \in 1 .. n - 2
  OBVIOUS

LEMMA ReturnNestedKeepsCall ==
  ASSUME TypeInv, CallInv, ReturnNested
  PROVE  CallInv'
<1> DEFINE below == SubSeq(stack, 1, Len(stack) - 2)
           back  == Resume(Calling, Calling.pc + 1, Cursor)
<1>1. Running /\ stack # << >> /\ Len(stack) > 1 /\ outcome = Pending
  BY DEF ReturnNested, Exhausted, Running
<1>2. stack \in Seq(Frame) /\ Len(stack) \in Nat /\ Cursor \in Nat
  BY <1>1, Innermost DEF TypeInv, TypeOK
<1>3. /\ back \in Frame /\ back.cursor = Cursor
      /\ back.layout = Calling.layout /\ back.pc = Calling.pc + 1
  <2>1. Calling \in Frame
    BY <1>1, <1>2, ElementOfSeq DEF Calling
  <2>2. QED
    BY <1>2, <2>1 DEF Resume, Frame
<1>4. /\ below \in Seq(Frame) /\ Len(below) = Len(stack) - 2
      /\ Len(stack) > 2 => below[1] = stack[1]
  <2>1. \A d \in 1 .. Len(stack) - 2 : stack[d] \in Frame
    BY <1>2, ElementOfSeq
  <2>2. /\ 1 \in Int /\ Len(stack) - 2 \in Int
        /\ (Len(stack) - 2) - 1 + 1 = Len(stack) - 2
        /\ \A d \in Int : 1 + d - 1 = d
    BY <1>2
  <2>3. /\ below \in Seq(Frame)
        /\ Len(below) = IF 1 <= Len(stack) - 2 THEN Len(stack) - 2 ELSE 0
        /\ \A d \in 1 .. Len(stack) - 2 : below[d] = stack[d]
    BY <2>1, <2>2, SubSeqProperties
  <2> HIDE DEF below
  <2>4. QED
    BY <1>1, <1>2, <2>3, BelowTheTwo
<1>5. stack' = Append(below, back) /\ UNCHANGED <<entry, leaves, outcome>>
  BY DEF ReturnNested
<1> HIDE DEF below, back
<1>6. /\ stack' # << >> /\ Len(stack') = Len(stack) - 1 /\ stack'[Len(stack')] = back
      /\ stack'[1] = IF Len(stack) = 2 THEN back ELSE stack[1]
  <2>1. /\ stack' # << >> /\ Len(stack') = Len(below) + 1
        /\ \A d \in 1 .. Len(below) : stack'[d] = below[d]
        /\ stack'[Len(below) + 1] = back
    BY <1>3, <1>4, <1>5, AppendProperties
  <2>2. QED
    BY <1>1, <1>2, <1>4, <2>1
<1>7. Stands'
  BY <1>1, <1>3, <1>5, <1>6 DEF CallInv, Stands, Cursor, Top, Reached
<1>8. ASSUME entry.body \in Callers
      PROVE  stack'[1].layout = entry.body /\ (AtCall(stack[1]) \/ Back(stack[1]))'
  <2>1. AtCall(stack[1]) /\ stack[1].layout = entry.body
    BY <1>1, <1>8 DEF CallInv, CallerInv, Back
  <2>2. CASE Len(stack) = 2
    <3>1. Calling = stack[1] /\ stack'[1] = back /\ Len(stack') = 1
      BY <1>6, <2>2 DEF Calling
    <3>2. QED
      BY <1>1, <1>3, <1>5, <2>1, <3>1, OutcomesDiffer DEF AtCall, Back
  <2>3. CASE Len(stack) # 2
    <3>1. stack'[1] = stack[1] /\ Len(stack') # 1
      BY <1>2, <1>6, <2>3
    <3>2. QED
      BY <1>5, <2>1, <3>1 DEF AtCall
  <2>4. QED
    BY <2>2, <2>3
<1>9. QED
  BY <1>5, <1>6, <1>7, <1>8 DEF CallInv, CallerInv

LEMMA BeginKeepsCall ==
  ASSUME TypeInv, CallInv, Begin
  PROVE  CallInv'
<1>1. /\ stack' = <<[layout |-> entry.body, pc |-> 1, cursor |-> entry.at,
                     buf |-> witness.raw]>>
      /\ UNCHANGED <<entry, leaves, outcome>>
      /\ outcome = Pending /\ leaves = << >>
  BY DEF Begin, CallInv, Stands
<1>2. /\ Len(stack') = 1 /\ stack' # << >> /\ stack'[1].layout = entry.body
      /\ stack'[1].pc = 1 /\ stack'[1].cursor = entry.at
  BY <1>1
<1>3. Stands'
  BY <1>1, <1>2 DEF Stands, Cursor, Top, Reached
<1>4. entry.body \in Callers => AtCall(stack[1])'
  BY <1>1, <1>2, EntryAssumption, OutcomesDiffer DEF AtCall
<1>5. QED
  BY <1>1, <1>2, <1>3, <1>4 DEF CallInv, CallerInv

LEMMA ReturnKeepsCall ==
  ASSUME TypeInv, CallInv, ReturnTop \/ ReturnToCaller
  PROVE  CallInv'
<1>1. /\ Running /\ stack # << >> /\ outcome = Pending /\ Len(stack) = 1
      /\ Top.pc > Len(Layout) /\ Top = stack[1]
      /\ UNCHANGED <<entry, stack, leaves>> /\ outcome' # Pending
  BY OutcomesDiffer DEF ReturnTop, ReturnToCaller, Exhausted, Running, Top
<1>2. Stands'
  BY <1>1 DEF CallInv, Stands
<1>3. ASSUME entry.body \in Callers
      PROVE  Back(stack[1])' /\ stack[1].layout = entry.body
  <2>1. stack[1].layout = entry.body /\ (AtCall(stack[1]) \/ Back(stack[1]))
    BY <1>1, <1>3 DEF CallInv, CallerInv
  <2>2. Len(Layout) = 1
    BY <1>1, <1>3, <2>1, EntryAssumption DEF Layout
  <2>3. Back(stack[1])
    BY <1>1, <2>1, <2>2 DEF AtCall
  <2>4. outcome' = Decoded
    BY <1>3, EntryAssumption DEF ReturnTop, ReturnToCaller
  <2>5. stack[1].cursor = Reached
    BY <1>1 DEF CallInv, Stands, Cursor
  <2>6. QED
    BY <1>1, <2>1, <2>3, <2>4, <2>5 DEF Back, Reached
<1>4. QED
  BY <1>1, <1>2, <1>3 DEF CallInv, CallerInv

LEMMA NextKeepsCall == TypeInv /\ CallInv /\ [Next]_vars => CallInv'
<1> SUFFICES ASSUME TypeInv, CallInv, [Next]_vars PROVE CallInv'
  OBVIOUS
<1>1. CASE LoadFails
  <2>1. /\ entry.body \notin Callers /\ stack = << >>
        /\ UNCHANGED <<entry, stack, leaves>>
    BY <1>1, EntryAssumption DEF LoadFails, Fail
  <2>2. QED
    BY <2>1 DEF CallInv, Stands, CallerInv
<1>2. CASE Begin
  BY <1>2, BeginKeepsCall
<1>3. CASE DecodeFixed
  BY <1>3, AtFieldFacts, KindCases, ReadFixedKeepsCall DEF DecodeFixed, AtField
<1>4. CASE DecodeVarBytes
  BY <1>4, AtFieldFacts, ReadVarBytesKeepsCall DEF DecodeVarBytes, AtField
<1>5. CASE DecodeAbsent
  <2>1. /\ Running /\ Top.pc <= Len(Layout) /\ Current.kind.k \notin {"struct", "union"}
        /\ Bind(FALSE, Cursor, Cursor, << >>)
    BY <1>5, AtFieldFacts DEF DecodeAbsent, AtField
  <2>2. << >> \in Seq(Byte) /\ Cursor \in Nat
    BY <2>1, Innermost, EmptySeq DEF Running
  <2>3. QED
    BY <2>1, <2>2, BindKeepsCall
<1>6. CASE DecodePresent
  BY <1>6, DecodePresentKeepsCall
<1>7. CASE UNCHANGED <<entry, stack, leaves, outcome>>
  BY <1>7 DEF CallInv, Stands, CallerInv, AtCall, Back, Cursor, Top, Reached
<1>8. CASE DecodeVecCount
  <2>1. Running /\ Top.pc <= Len(Layout)
    BY <1>8, AtFieldFacts DEF DecodeVecCount, AtField
  <2>2. (\E e : Fail(e)) \/ UNCHANGED <<entry, stack, leaves, outcome>>
    BY <1>8 DEF DecodeVecCount, Sliced, Fits
  <2>3. QED
    BY <1>7, <2>1, <2>2, FailKeepsCall
<1>9. CASE DecodeVecElement
  <2>1. Running /\ Top.pc <= Len(Layout)
    BY <1>9, InLoop DEF DecodeVecElement
  <2>2. (\E e : Fail(e)) \/ UNCHANGED <<entry, stack, leaves, outcome>>
    BY <1>9 DEF DecodeVecElement, PushElement, Sliced, Fits
  <2>3. QED
    BY <1>7, <2>1, <2>2, FailKeepsCall
<1>10. CASE FinishVec
  <2>1. /\ Running /\ Top.pc <= Len(Layout) /\ Current.kind.k = "vec"
        /\ Bind(TRUE, Cursor, loop.cur, loop.val)
    BY <1>10, InLoop DEF FinishVec
  <2>2. Cursor \in Nat /\ loop.cur \in Nat /\ loop.val \in Seq(Byte)
    BY <1>10, <2>1, Innermost, InLoop DEF FinishVec, Loop, Running
  <2>3. QED
    BY <2>1, <2>2, BindKeepsCall
<1>11. CASE DecodeNested
  BY <1>11, DecodeNestedKeepsCall
<1>12. CASE DecodeUnion
  BY <1>12, DecodeUnionKeepsCall
<1>13. CASE ReturnNested
  BY <1>13, ReturnNestedKeepsCall
<1>14. CASE ReturnTop \/ ReturnToCaller
  BY <1>14, ReturnKeepsCall
<1>15. QED
  BY <1>1, <1>2, <1>3, <1>4, <1>5, <1>6, <1>7, <1>8, <1>9, <1>10, <1>11, <1>12,
     <1>13, <1>14 DEF Next, Returned, vars

(* After Ok the caller's cursor is at the end of what was decoded; after   *)
(* an error decode_fields has not moved it, and decode_union has moved it  *)
(* past the tag at most, whatever the callee's layout and the bytes.       *)
THEOREM CallerCursorIsKept == Spec => []CallerCursor
<1>1. Init => CallInv
  BY DEF Init, CallInv, Stands, CallerInv
<1>2. TypeInv /\ CallInv => CallerCursor
  <2> SUFFICES ASSUME TypeInv, CallInv, entry.body \in Callers, outcome # Pending
               PROVE  CallerCursor
    BY DEF CallerCursor
  <2>1. AtCall(stack[1]) \/ Back(stack[1])
    BY DEF CallInv, CallerInv
  <2>2. CASE AtCall(stack[1])
    BY <2>2 DEF AtCall, CallerCursor
  <2>3. CASE Back(stack[1])
    BY <2>3 DEF Back, CallerCursor
  <2>4. QED
    BY <2>1, <2>2, <2>3
<1>3. QED
  BY <1>1, <1>2, NextKeepsCall, InitType, NextKeepsType, PTL DEF Spec
=============================================================================
