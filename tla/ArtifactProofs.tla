--------------------------- MODULE ArtifactProofs ---------------------------
(***************************************************************************)
(* Theorems about ArtifactLifecycle, for any number of builders, any       *)
(* history of a crate, documents of any length and any number of mishaps.  *)
(***************************************************************************)
EXTENDS ArtifactLifecycle, SequenceTheorems, TLAPS

(* A file that is being written has a name: it is not an absent one.       *)
WrittenExists == \A path \in Paths : file[path] = Absent => Writers(path) = {}

TypeInv == TypeOK /\ WrittenExists
-----------------------------------------------------------------------------
(* Facts about blocks, tasks and processes.                                *)

LEMMA WorkTyped ==
  ASSUME NEW p \in Processes, NEW v \in Versions
  PROVE  /\ WorkOf(p, v) \in Seq(Tasks) /\ Len(WorkOf(p, v)) \in Nat \ {0}
         /\ Crate[v].doc \in Docs
<1>1. Crate[v].doc \in Docs /\ Crate[v].derives \in Seq(Tasks) /\ Crate[v].derives # << >>
  BY LifecycleAssumption
<1>2. CASE p = Exporter
  <2>1. Task("flat", Crate[v].doc) \in Tasks
    BY <1>1 DEF Task, Tasks
  <2> QED
    BY <1>1, <1>2, <2>1 DEF WorkOf
<1>3. CASE p # Exporter
  <2>1. WorkOf(p, v) = Crate[v].derives
    BY <1>3 DEF WorkOf
  <2> QED
    BY <1>1, <2>1, EmptySeq, LenProperties
<1> QED
  BY <1>2, <1>3

(* Writing a document keeps a file a sequence of blocks, and it is not the *)
(* mark of an absent file.                                                 *)
LEMMA WriteBlocksTyped ==
  ASSUME NEW blocks \in Seq(Blocks), NEW doc \in Docs, NEW off \in Nat, NEW n \in Nat \ {0}
  PROVE  /\ WriteBlocks(blocks, doc, off, n) \in Seq(Blocks)
         /\ WriteBlocks(blocks, doc, off, n) # Absent
         /\ Len(WriteBlocks(blocks, doc, off, n)) = Longer(Len(blocks), off + n)
<1> DEFINE m == Longer(Len(blocks), off + n)
           new == WriteBlocks(blocks, doc, off, n)
<1>1. m \in Nat /\ m >= off + n /\ m >= Len(blocks) /\ Len(blocks) \in Nat
  BY DEF Longer
<1>2. \A i \in 1 .. m : Block(doc, i) \in Blocks /\ Hole \in Blocks
  BY <1>1 DEF Block, Hole, Blocks
<1>3. \A i \in 1 .. m : i <= Len(blocks) => blocks[i] \in Blocks
  BY <1>1
<1>4. new = [i \in 1 .. m |-> IF i \in off + 1 .. off + n THEN Block(doc, i)
                              ELSE IF i <= Len(blocks) THEN blocks[i] ELSE Hole]
  BY DEF WriteBlocks
<1> HIDE DEF m, new
<1>5. \A i \in 1 .. m : new[i] \in Blocks
  BY <1>2, <1>3, <1>4
<1>6. new \in [1 .. m -> Blocks]
  BY <1>4, <1>5
<1>7. new \in Seq(Blocks) /\ Len(new) = m
  BY <1>1, <1>6
<1>8. new # Absent
  <2>1. CASE off = 0
    <3>1. new[1] = <<doc, 1>>
      BY <1>1, <1>4, <2>1 DEF Block
    <3> QED
      BY <3>1 DEF Absent
  <2>2. CASE off # 0
    <3>1. Len(Absent) = 1
      BY DEF Absent
    <3>2. m # 1
      BY <1>1, <2>2
    <3> QED
      BY <1>7, <3>1, <3>2
  <2> QED
    BY <2>1, <2>2
<1> QED
  BY <1>7, <1>8 DEF m, new

(* What a process is doing, and the file it has open, are of their types.  *)
LEMMA ProcessTyped ==
  ASSUME TypeOK, NEW p \in Processes
  PROVE  /\ process[p] \in Runs /\ process[p].version \in Versions
         /\ process[p].at \in Nat /\ process[p].at \in 1 .. Len(Work(p)) + 1
         /\ Work(p) \in Seq(Tasks) /\ Len(Work(p)) \in Nat \ {0}
         /\ handle[p] \in Handles /\ PathOf(p) \in Paths
         /\ \A i \in 1 .. Len(Work(p)) : Work(p)[i] \in Tasks
<1>1. process[p] \in Runs /\ handle[p] \in Handles /\ process[p].at \in 1 .. Len(Work(p)) + 1
  BY DEF TypeOK
<1>2. process[p].version \in Versions /\ process[p].at \in Nat
  BY <1>1 DEF Runs
<1>3. Work(p) \in Seq(Tasks) /\ Len(Work(p)) \in Nat \ {0}
  BY <1>2, WorkTyped DEF Work
<1>4. PathOf(p) \in Paths
  BY DEF PathOf, Paths
<1> QED
  BY <1>1, <1>2, <1>3, <1>4, ElementOfSeq

-----------------------------------------------------------------------------
(* The types, in two halves: the counters, and what processes and files    *)
(* have to do with each other.                                             *)

Counters ==
  /\ source \in Versions /\ mishaps \in 0 .. MaxMishaps
  /\ built \in [Processes -> Versions \cup {0}] /\ touched \in Versions \cup {0}

Standing(p) ==
  /\ process[p].at \in 1 .. Len(Work(p)) + 1
  /\ Open(p) => Writing(p)

Core ==
  /\ file \in [Paths -> Seq(Blocks) \cup {Absent}]
  /\ process \in [Processes -> Runs] /\ handle \in [Processes -> Handles]
  /\ overlap \in [Paths -> [docs : SUBSET Docs, cut : BOOLEAN]]
  /\ \A p \in Processes : Standing(p)
  /\ WrittenExists

LEMMA Halves == TypeInv <=> Core /\ Counters
BY DEF TypeInv, TypeOK, Core, Counters, Standing

LEMMA HalvesNext == Core' /\ Counters' => TypeInv'
BY DEF TypeInv, TypeOK, Core, Counters, Standing

(* Who leaves its run and its file alone stands where it stood.            *)
LEMMA StandsStill ==
  ASSUME NEW p \in Processes, Standing(p), process'[p] = process[p],
         handle'[p].open = handle[p].open, handle'[p].path = handle[p].path,
         handle'[p].doc = handle[p].doc, handle'[p].off = handle[p].off
  PROVE  Standing(p)'
BY DEF Standing, Writing, Open, Work

(* Who has closed its file only has to be at one of its tasks, or behind.  *)
LEMMA StandsClosed ==
  ASSUME NEW p \in Processes, ~handle'[p].open,
         process'[p].at \in 1 .. Len(WorkOf(p, process'[p].version)) + 1
  PROVE  Standing(p)'
BY DEF Standing, Open, Work

LEMMA ClosedTyped == Closed \in Handles /\ ~Closed.open
BY DEF Closed, Handles, Paths

(* Where a process at a task, or at the end of them, can go.               *)
LEMMA Runnable ==
  ASSUME TypeOK, NEW p \in Processes
  PROVE  /\ [process[p] EXCEPT !.busy = FALSE] \in Runs
         /\ process[p].at <= Len(Work(p)) =>
              /\ [process[p] EXCEPT !.at = @ + 1] \in Runs
              /\ [process[p] EXCEPT !.at = @ + 1, !.failed = TRUE] \in Runs
              /\ process[p].at + 1 \in 1 .. Len(Work(p)) + 1
<1> DEFINE r == process[p]
<1>1. /\ r \in Runs /\ r.at \in Nat /\ r.at \in 1 .. Len(Work(p)) + 1
      /\ Len(Work(p)) \in Nat
  BY ProcessTyped
<1>2. r.at + 1 \in Nat /\ (r.at <= Len(Work(p)) => r.at + 1 \in 1 .. Len(Work(p)) + 1)
  BY <1>1
<1> HIDE DEF r
<1>3. /\ [r EXCEPT !.busy = FALSE] \in Runs /\ [r EXCEPT !.at = @ + 1] \in Runs
      /\ [r EXCEPT !.at = @ + 1, !.failed = TRUE] \in Runs
  BY <1>1, <1>2 DEF Runs
<1> QED
  BY <1>2, <1>3 DEF r

(* A step that only moves a process with no open file.                     *)
LEMMA ProcessMoves ==
  ASSUME Core, NEW p \in Processes, NEW r \in Runs, process' = [process EXCEPT ![p] = r],
         ~Open(p), r.at \in 1 .. Len(WorkOf(p, r.version)) + 1,
         UNCHANGED <<file, handle, overlap>>
  PROVE  Core'
<1>1. /\ file' \in [Paths -> Seq(Blocks) \cup {Absent}] /\ handle' \in [Processes -> Handles]
      /\ overlap' \in [Paths -> [docs : SUBSET Docs, cut : BOOLEAN]]
      /\ process' \in [Processes -> Runs]
  BY DEF Core
<1>2. ASSUME NEW q \in Processes PROVE Standing(q)'
  <2>1. CASE q = p
    <3>1. process'[p] = r /\ ~handle'[p].open
      BY DEF Core, Open
    <3> QED
      BY <2>1, <3>1, StandsClosed
  <2>2. CASE q # p
    <3>1. process'[q] = process[q] /\ handle'[q] = handle[q] /\ Standing(q)
      BY <2>2 DEF Core
    <3> QED
      BY <3>1, StandsStill
  <2> QED
    BY <2>1, <2>2
<1>3. WrittenExists'
  BY DEF Core, WrittenExists, Writers, Names, Open
<1> QED
  BY <1>1, <1>2, <1>3 DEF Core
-----------------------------------------------------------------------------
(* Core, action by action. *)

LEMMA IdleClosed ==
  ASSUME TypeOK, NEW p \in Processes, Idle(p)
  PROVE  ~Open(p)
BY DEF TypeOK, Idle, Writing

LEMMA StartCore ==
  ASSUME TypeInv, NEW p \in Processes, NEW v \in Versions, Idle(p), process' = Start(p, v),
         UNCHANGED <<file, handle, overlap>>
  PROVE  Core'
<1> DEFINE r == [busy |-> TRUE, version |-> v, at |-> 1, failed |-> FALSE]
<1>1. r \in Runs /\ process' = [process EXCEPT ![p] = r]
  BY DEF Runs, Start
<1>2. r.at \in 1 .. Len(WorkOf(p, r.version)) + 1
  BY WorkTyped
<1>3. ~Open(p) /\ Core
  BY IdleClosed, Halves DEF TypeInv
<1> HIDE DEF r
<1> QED
  BY <1>1, <1>2, <1>3, ProcessMoves

LEMMA MoveCore ==
  ASSUME TypeInv, NEW p \in Processes, ~Open(p), UNCHANGED <<file, handle, overlap>>,
         \/ process[p].at <= Len(Work(p)) /\ (process' = Done(p) \/ process' = Fail(p))
         \/ process' = Stop(p)
  PROVE  Core'
<1>1. TypeOK /\ Core
  BY Halves DEF TypeInv
<1>2. CASE process' = Stop(p)
  <2> DEFINE r == [process[p] EXCEPT !.busy = FALSE]
  <2>1. process' = [process EXCEPT ![p] = r]
    BY <1>2 DEF Stop
  <2>2. r \in Runs /\ r.at = process[p].at /\ r.version = process[p].version
    BY <1>1, Runnable, ProcessTyped DEF Runs
  <2>3. r.at \in 1 .. Len(WorkOf(p, r.version)) + 1
    BY <1>1, <2>2, ProcessTyped DEF Work
  <2> HIDE DEF r
  <2> QED
    BY <1>1, <2>1, <2>2, <2>3, ProcessMoves
<1>3. CASE process[p].at <= Len(Work(p)) /\ process' = Done(p)
  <2> DEFINE r == [process[p] EXCEPT !.at = @ + 1]
  <2>1. process' = [process EXCEPT ![p] = r]
    BY <1>3 DEF Done
  <2>2. r \in Runs /\ r.at = process[p].at + 1 /\ r.version = process[p].version
    BY <1>1, <1>3, Runnable, ProcessTyped DEF Runs
  <2>3. r.at \in 1 .. Len(WorkOf(p, r.version)) + 1
    BY <1>1, <1>3, <2>2, Runnable DEF Work
  <2> HIDE DEF r
  <2> QED
    BY <1>1, <2>1, <2>2, <2>3, ProcessMoves
<1>4. CASE process[p].at <= Len(Work(p)) /\ process' = Fail(p)
  <2> DEFINE r == [process[p] EXCEPT !.at = @ + 1, !.failed = TRUE]
  <2>1. process' = [process EXCEPT ![p] = r]
    BY <1>4 DEF Fail
  <2>2. r \in Runs /\ r.at = process[p].at + 1 /\ r.version = process[p].version
    BY <1>1, <1>4, Runnable, ProcessTyped DEF Runs
  <2>3. r.at \in 1 .. Len(WorkOf(p, r.version)) + 1
    BY <1>1, <1>4, <2>2, Runnable DEF Work
  <2> HIDE DEF r
  <2> QED
    BY <1>1, <2>1, <2>2, <2>3, ProcessMoves
<1> QED
  BY <1>2, <1>3, <1>4

(* A step that closes the file of p, and may stop or move it.              *)
LEMMA CloseCore ==
  ASSUME TypeInv, NEW p \in Processes, process' = Stop(p) \/ (Open(p) /\ process' = Fail(p)),
         CutShort(p), handle' = [handle EXCEPT ![p] = Closed], UNCHANGED file
  PROVE  Core'
<1>1. TypeOK /\ Core
  BY Halves DEF TypeInv
<1>2. PICK r \in Runs : /\ process' = [process EXCEPT ![p] = r]
                        /\ r.at \in 1 .. Len(WorkOf(p, r.version)) + 1
  <2>1. CASE process' = Stop(p)
    <3> DEFINE r == [process[p] EXCEPT !.busy = FALSE]
    <3>1. r \in Runs /\ r.at = process[p].at /\ r.version = process[p].version
      BY <1>1, Runnable, ProcessTyped DEF Runs
    <3>2. r.at \in 1 .. Len(WorkOf(p, r.version)) + 1
      BY <1>1, <3>1, ProcessTyped DEF Work
    <3> QED
      BY <2>1, <3>1, <3>2 DEF Stop
  <2>2. CASE Open(p) /\ process' = Fail(p)
    <3> DEFINE r == [process[p] EXCEPT !.at = @ + 1, !.failed = TRUE]
    <3>1. process[p].at <= Len(Work(p))
      BY <1>1, <2>2, ProcessTyped DEF TypeOK, Writing
    <3>2. r \in Runs /\ r.at = process[p].at + 1 /\ r.version = process[p].version
      BY <1>1, <3>1, Runnable, ProcessTyped DEF Runs
    <3>3. r.at \in 1 .. Len(WorkOf(p, r.version)) + 1
      BY <1>1, <3>1, <3>2, Runnable DEF Work
    <3> QED
      BY <2>2, <3>2, <3>3 DEF Fail
  <2> QED
    BY <2>1, <2>2
<1>3. /\ handle' \in [Processes -> Handles] /\ process' \in [Processes -> Runs]
      /\ file' \in [Paths -> Seq(Blocks) \cup {Absent}]
  BY <1>1, <1>2, ClosedTyped DEF Core
<1>4. overlap' \in [Paths -> [docs : SUBSET Docs, cut : BOOLEAN]]
  BY <1>1 DEF Core, CutShort
<1>5. ASSUME NEW q \in Processes PROVE Standing(q)'
  <2>1. CASE q = p
    <3>1. process'[p] = r /\ ~handle'[p].open
      BY <1>1, <1>2, ClosedTyped DEF Core
    <3> QED
      BY <1>2, <2>1, <3>1, StandsClosed
  <2>2. CASE q # p
    <3>1. process'[q] = process[q] /\ handle'[q] = handle[q] /\ Standing(q)
      BY <1>1, <1>2, <2>2 DEF Core
    <3> QED
      BY <3>1, StandsStill
  <2> QED
    BY <2>1, <2>2
<1>6. WrittenExists'
  <2>1. \A q \in Processes : q = p \/ handle'[q] = handle[q]
    BY <1>1 DEF Core
  <2>2. ~handle'[p].open
    BY <1>1, ClosedTyped DEF Core
  <2> QED
    BY <1>1, <2>1, <2>2 DEF Core, WrittenExists, Writers, Names, Open
<1> QED
  BY <1>3, <1>4, <1>5, <1>6 DEF Core

LEMMA AtTask ==
  ASSUME TypeOK, NEW p \in Processes, NEW kind, At(p, kind)
  PROVE  /\ process[p].at \in 1 .. Len(Work(p)) /\ process[p].at <= Len(Work(p))
         /\ process[p].busy /\ ~Open(p)
         /\ Work(p)[process[p].at] \in Tasks
         /\ Work(p)[process[p].at].kind = kind /\ Work(p)[process[p].at].doc \in Docs
<1>1. process[p].at \in 1 .. Len(Work(p)) + 1 /\ process[p].at <= Len(Work(p))
  BY ProcessTyped DEF At
<1>2. process[p].at \in 1 .. Len(Work(p))
  BY <1>1, ProcessTyped
<1>3. Work(p)[process[p].at] \in Tasks
  BY <1>2, ProcessTyped
<1> QED
  BY <1>1, <1>2, <1>3 DEF At, Tasks

LEMMA OpenFileCore ==
  ASSUME TypeInv, NEW p \in Processes, OpenFile(p)
  PROVE  Core'
<1> DEFINE path == PathOf(p)
           doc  == Work(p)[process[p].at].doc
<1>1. TypeOK /\ Core
  BY Halves DEF TypeInv
<1>2. At(p, "flat") /\ UNCHANGED process
  BY DEF OpenFile
<1>3. path \in Paths /\ doc \in Docs /\ process[p].at \in 1 .. Len(Work(p)) /\ process[p].busy
      /\ Work(p)[process[p].at].kind = "flat"
  BY <1>1, <1>2, AtTask, ProcessTyped
<1>4. /\ file' = [file EXCEPT ![path] = << >>]
      /\ handle' = [handle EXCEPT ![p] = Opened(path, doc)]
      /\ overlap' = [overlap EXCEPT ![path] =
                       IF Writers(path) = {} THEN [docs |-> {doc}, cut |-> FALSE]
                       ELSE [docs |-> @.docs \cup {doc}, cut |-> @.cut]]
  BY Zenon DEF OpenFile
<1> HIDE DEF path, doc
<1>5. << >> \in Seq(Blocks) /\ << >> # Absent
  BY DEF Absent
<1>6. Opened(path, doc) \in Handles
  BY <1>3 DEF Opened, Handles
<1>7. file' \in [Paths -> Seq(Blocks) \cup {Absent}] /\ handle' \in [Processes -> Handles]
  BY <1>1, <1>4, <1>5, <1>6 DEF Core
<1>8. overlap' \in [Paths -> [docs : SUBSET Docs, cut : BOOLEAN]]
  <2>1. overlap[path] \in [docs : SUBSET Docs, cut : BOOLEAN]
    BY <1>1, <1>3 DEF Core
  <2>2. [docs |-> {doc}, cut |-> FALSE] \in [docs : SUBSET Docs, cut : BOOLEAN]
    BY <1>3
  <2>3. [docs |-> overlap[path].docs \cup {doc}, cut |-> overlap[path].cut]
          \in [docs : SUBSET Docs, cut : BOOLEAN]
    BY <1>3, <2>1
  <2> QED
    BY <1>1, <1>3, <1>4, <2>2, <2>3 DEF Core
<1>9. ASSUME NEW q \in Processes PROVE Standing(q)'
  <2>1. CASE q = p
    <3>1. handle'[p] = Opened(path, doc)
      BY <1>1, <1>4 DEF Core
    <3>2. Size[doc] \in Nat \ {0}
      BY <1>3, LifecycleAssumption
    <3>3. process'[p].at \in 1 .. Len(WorkOf(p, process'[p].version)) + 1
      BY <1>1, <1>2, ProcessTyped DEF Work
    <3>4. handle'[p].path = PathOf(p) /\ handle'[p].doc = doc /\ handle'[p].off = 0
      BY <3>1 DEF Opened, path
    <3> QED
      BY <1>2, <1>3, <2>1, <3>2, <3>3, <3>4 DEF Standing, Writing, Work, doc
  <2>2. CASE q # p
    <3>1. process'[q] = process[q] /\ handle'[q] = handle[q] /\ Standing(q)
      BY <1>1, <1>2, <1>4, <2>2 DEF Core
    <3> QED
      BY <3>1, StandsStill
  <2> QED
    BY <2>1, <2>2
<1>10. WrittenExists'
  <2>1. file'[path] # Absent
    BY <1>1, <1>3, <1>4, <1>5 DEF Core
  <2>2. ASSUME NEW other \in Paths, other # path, file'[other] = Absent
        PROVE  Writers(other)' = {}
    <3>1. Writers(other) = {}
      BY <1>1, <1>4, <2>2 DEF Core, WrittenExists
    <3>2. \A q \in Processes : q # p => handle'[q] = handle[q]
      BY <1>1, <1>4 DEF Core
    <3>3. handle'[p].path = path
      BY <1>1, <1>4 DEF Core, Opened
    <3> QED
      BY <2>2, <3>1, <3>2, <3>3 DEF Writers, Names, Open
  <2> QED
    BY <2>1, <2>2 DEF WrittenExists
<1> QED
  BY <1>1, <1>2, <1>7, <1>8, <1>9, <1>10 DEF Core

(* What a write does: to the file, if it still has a name, and to the      *)
(* writer.                                                                 *)
LEMMA WriteStep ==
  ASSUME TypeInv, NEW p \in Processes, Write(p)
  PROVE  /\ Open(p) /\ handle[p].path = PathOf(p) /\ handle[p].path \in Paths
         /\ handle[p].doc \in Docs /\ handle[p].off \in Nat
         /\ Size[handle[p].doc] \in Nat \ {0}
         /\ \E n \in Nat \ {0} :
              /\ handle[p].off + n <= Size[handle[p].doc]
              /\ file' = IF handle[p].linked
                         THEN [file EXCEPT ![handle[p].path] =
                                 WriteBlocks(@, handle[p].doc, handle[p].off, n)]
                         ELSE file
              /\ \/ /\ handle[p].off + n = Size[handle[p].doc]
                    /\ handle' = [handle EXCEPT ![p] = Closed] /\ process' = Done(p)
                 \/ /\ handle[p].off + n < Size[handle[p].doc]
                    /\ handle' = [handle EXCEPT ![p].off = @ + n] /\ UNCHANGED process
<1>1. Open(p) /\ Writing(p)
  BY DEF TypeInv, TypeOK, Write
<1>2. handle[p].path \in Paths /\ handle[p].doc \in Docs /\ handle[p].off \in Nat
      /\ handle[p].path = PathOf(p)
  BY <1>1, ProcessTyped DEF TypeInv, Writing, Handles
<1>3. Size[handle[p].doc] \in Nat \ {0}
  BY <1>2, LifecycleAssumption
<1>4. PICK n \in 1 .. Size[handle[p].doc] - handle[p].off :
        /\ file' = IF handle[p].linked
                   THEN [file EXCEPT ![handle[p].path] =
                           WriteBlocks(@, handle[p].doc, handle[p].off, n)] ELSE file
        /\ IF handle[p].off + n = Size[handle[p].doc]
           THEN handle' = [handle EXCEPT ![p] = Closed] /\ process' = Done(p)
           ELSE handle' = [handle EXCEPT ![p].off = @ + n] /\ UNCHANGED process
  BY DEF Write
<1>5. n \in Nat \ {0} /\ handle[p].off + n <= Size[handle[p].doc]
  BY <1>2, <1>3
<1>6. \/ /\ handle[p].off + n = Size[handle[p].doc]
         /\ handle' = [handle EXCEPT ![p] = Closed] /\ process' = Done(p)
      \/ /\ handle[p].off + n < Size[handle[p].doc]
         /\ handle' = [handle EXCEPT ![p].off = @ + n] /\ UNCHANGED process
  <2>1. handle[p].off + n # Size[handle[p].doc] => handle[p].off + n < Size[handle[p].doc]
    BY <1>2, <1>3, <1>5
  <2> QED
    BY <1>4, <2>1, Zenon
<1> QED
  BY <1>1, <1>2, <1>3, <1>4, <1>5, <1>6

LEMMA WriteCore ==
  ASSUME TypeInv, NEW p \in Processes, Write(p)
  PROVE  Core'
<1> DEFINE h == handle[p]
<1>1. TypeOK /\ Core
  BY Halves DEF TypeInv
<1>2. /\ Open(p) /\ h.path = PathOf(p) /\ h.path \in Paths /\ h.doc \in Docs /\ h.off \in Nat
      /\ Size[h.doc] \in Nat \ {0} /\ h \in Handles
  BY <1>1, WriteStep, ProcessTyped
<1>3. PICK n \in Nat \ {0} :
        /\ h.off + n <= Size[h.doc]
        /\ file' = IF h.linked
                   THEN [file EXCEPT ![h.path] = WriteBlocks(@, h.doc, h.off, n)] ELSE file
        /\ \/ /\ h.off + n = Size[h.doc]
              /\ handle' = [handle EXCEPT ![p] = Closed] /\ process' = Done(p)
           \/ /\ h.off + n < Size[h.doc]
              /\ handle' = [handle EXCEPT ![p].off = @ + n] /\ UNCHANGED process
  BY WriteStep
<1>4. UNCHANGED overlap
  BY DEF Write
<1>5. /\ process[p].at \in 1 .. Len(Work(p)) /\ process[p].at <= Len(Work(p))
      /\ process[p].version \in Versions /\ Len(Work(p)) \in Nat
  BY <1>1, <1>2, ProcessTyped DEF TypeOK, Writing
<1>6. h.linked => /\ file[h.path] \in Seq(Blocks)
                  /\ WriteBlocks(file[h.path], h.doc, h.off, n) \in Seq(Blocks)
                  /\ WriteBlocks(file[h.path], h.doc, h.off, n) # Absent
  <2>1. h.linked => p \in Writers(h.path)
    BY <1>2 DEF Writers, Names
  <2>2. h.linked => file[h.path] # Absent
    BY <1>1, <1>2, <2>1 DEF Core, WrittenExists
  <2>3. h.linked => file[h.path] \in Seq(Blocks)
    BY <1>1, <1>2, <2>2 DEF Core
  <2> QED
    BY <1>2, <1>3, <2>3, WriteBlocksTyped
<1>7. file' \in [Paths -> Seq(Blocks) \cup {Absent}]
  BY <1>1, <1>2, <1>3, <1>6 DEF Core
<1>8. /\ handle' \in [Processes -> Handles]
      /\ \A q \in Processes : q # p => handle'[q] = handle[q]
      /\ handle'[p].open => /\ handle'[p] = [h EXCEPT !.off = h.off + n]
                            /\ h.off + n < Size[h.doc] /\ UNCHANGED process
  <2>1. [h EXCEPT !.off = h.off + n] \in Handles
    BY <1>2, <1>3 DEF Handles
  <2>2. CASE handle' = [handle EXCEPT ![p] = Closed]
    BY <1>1, <2>2, ClosedTyped DEF Core
  <2>3. CASE handle' = [handle EXCEPT ![p].off = @ + n] /\ h.off + n < Size[h.doc] /\ UNCHANGED process
    BY <1>1, <2>1, <2>3 DEF Core
  <2> QED
    BY <1>3, <2>2, <2>3
<1>9. /\ process' \in [Processes -> Runs]
      /\ \A q \in Processes : q # p => process'[q] = process[q]
      /\ process'[p].at \in 1 .. Len(WorkOf(p, process'[p].version)) + 1
  <2>1. CASE process' = Done(p)
    <3> DEFINE r == [process[p] EXCEPT !.at = @ + 1]
    <3>1. process' = [process EXCEPT ![p] = r]
      BY <2>1 DEF Done
    <3>2. r \in Runs /\ r.at = process[p].at + 1 /\ r.version = process[p].version
      BY <1>1, <1>5, Runnable, ProcessTyped DEF Runs
    <3>3. r.at \in 1 .. Len(WorkOf(p, r.version)) + 1
      BY <1>1, <1>5, <3>2, Runnable DEF Work
    <3> HIDE DEF r
    <3> QED
      BY <1>1, <3>1, <3>2, <3>3 DEF Core
  <2>2. CASE UNCHANGED process
    BY <1>1, <2>2, ProcessTyped DEF Core, Work
  <2> QED
    BY <1>3, <2>1, <2>2
<1>10. ASSUME NEW q \in Processes PROVE Standing(q)'
  <2>1. CASE q = p /\ ~handle'[p].open
    BY <1>9, <2>1, StandsClosed
  <2>2. CASE q = p /\ handle'[p].open
    <3>1. handle'[p] = [h EXCEPT !.off = h.off + n] /\ h.off + n < Size[h.doc] /\ UNCHANGED process
      BY <1>8, <2>2
    <3>2. /\ handle'[p].path = h.path /\ handle'[p].doc = h.doc
          /\ handle'[p].off = h.off + n
      BY <1>2, <3>1 DEF Handles
    <3>3. Writing(p)
      BY <1>1, <1>2 DEF TypeOK
    <3>4. Writing(p)'
      BY <3>1, <3>2, <3>3 DEF Writing, Work
    <3> QED
      BY <1>9, <2>2, <3>4 DEF Standing, Work
  <2>3. CASE q # p
    <3>1. process'[q] = process[q] /\ handle'[q] = handle[q] /\ Standing(q)
      BY <1>1, <1>8, <1>9, <2>3 DEF Core
    <3> QED
      BY <3>1, StandsStill
  <2> QED
    BY <2>1, <2>2, <2>3
<1>11. WrittenExists'
  <2> SUFFICES ASSUME NEW path \in Paths, file'[path] = Absent PROVE Writers(path)' = {}
    BY DEF WrittenExists
  <2>1. file[path] = Absent
    BY <1>1, <1>2, <1>3, <1>6 DEF Core
  <2>2. Writers(path) = {}
    BY <1>1, <2>1 DEF Core, WrittenExists
  <2>3. handle'[p].open => handle'[p].path = h.path /\ handle'[p].linked = h.linked
    BY <1>2, <1>8 DEF Handles
  <2> QED
    BY <1>2, <1>8, <2>2, <2>3 DEF Writers, Names, Open
<1> QED
  BY <1>1, <1>4, <1>7, <1>8, <1>9, <1>10, <1>11 DEF Core

LEMMA RemoveStaleCore ==
  ASSUME TypeInv, NEW p \in Processes, RemoveStale(p)
  PROVE  Core'
<1>1. TypeOK /\ Core
  BY Halves DEF TypeInv
<1>2. /\ At(p, "recursive") /\ process' = Done(p) /\ UNCHANGED overlap
      /\ file' = [file EXCEPT ![IdlPath] = Absent]
      /\ handle' = [q \in Processes |->
                     IF Names(q, IdlPath) THEN [handle[q] EXCEPT !.linked = FALSE] ELSE handle[q]]
  BY DEF RemoveStale
<1>3. process[p].at <= Len(Work(p)) /\ ~Open(p)
  BY <1>1, <1>2, AtTask
<1>4. ASSUME NEW q \in Processes
      PROVE  /\ handle'[q] \in Handles
             /\ handle'[q].open = handle[q].open /\ handle'[q].path = handle[q].path
             /\ handle'[q].doc = handle[q].doc /\ handle'[q].off = handle[q].off
             /\ handle'[q].linked => handle[q].linked /\ ~Names(q, IdlPath)
  <2>1. handle[q] \in Handles
    BY <1>1 DEF Core
  <2>2. CASE Names(q, IdlPath)
    <3>1. handle'[q] = [handle[q] EXCEPT !.linked = FALSE]
      BY <1>2, <2>2
    <3> QED
      BY <2>1, <3>1 DEF Handles
  <2>3. CASE ~Names(q, IdlPath)
    BY <1>2, <2>1, <2>3
  <2> QED
    BY <2>2, <2>3
<1>5. handle' \in [Processes -> Handles]
  BY <1>2, <1>4
<1>6. file' \in [Paths -> Seq(Blocks) \cup {Absent}]
  BY <1>1, <1>2 DEF Core
<1> DEFINE r == [process[p] EXCEPT !.at = @ + 1]
<1>7. process' = [process EXCEPT ![p] = r]
  BY <1>2 DEF Done
<1>8. r \in Runs /\ r.at = process[p].at + 1 /\ r.version = process[p].version
  BY <1>1, <1>3, Runnable, ProcessTyped DEF Runs
<1>9. r.at \in 1 .. Len(WorkOf(p, r.version)) + 1
  BY <1>1, <1>3, <1>8, Runnable DEF Work
<1> HIDE DEF r
<1>10. process' \in [Processes -> Runs]
  BY <1>1, <1>7, <1>8 DEF Core
<1>11. ASSUME NEW q \in Processes PROVE Standing(q)'
  <2>1. CASE q = p
    <3>1. process'[p] = r /\ ~handle'[p].open
      BY <1>1, <1>3, <1>4, <1>7 DEF Core, Open
    <3> QED
      BY <1>9, <2>1, <3>1, StandsClosed
  <2>2. CASE q # p
    <3>1. process'[q] = process[q] /\ Standing(q)
      BY <1>1, <1>7, <2>2 DEF Core
    <3> QED
      BY <1>4, <3>1, StandsStill
  <2> QED
    BY <2>1, <2>2
<1>12. WrittenExists'
  <2> SUFFICES ASSUME NEW path \in Paths, file'[path] = Absent PROVE Writers(path)' = {}
    BY DEF WrittenExists
  <2>1. CASE path = IdlPath
    BY <1>4, <2>1 DEF Writers, Names, Open
  <2>2. CASE path # IdlPath
    <3>1. Writers(path) = {}
      BY <1>1, <1>2, <2>2 DEF Core, WrittenExists
    <3> QED
      BY <1>4, <3>1 DEF Writers, Names, Open
  <2> QED
    BY <2>1, <2>2
<1> QED
  BY <1>1, <1>2, <1>5, <1>6, <1>10, <1>11, <1>12 DEF Core
-----------------------------------------------------------------------------
LEMMA MishapCounts ==
  ASSUME Counters, Mishap
  PROVE  mishaps' \in 0 .. MaxMishaps
BY LifecycleAssumption DEF Counters, Mishap

LEMMA CountersNext ==
  ASSUME TypeInv, [Next]_vars
  PROVE  Counters'
<1>1. Counters /\ TypeOK
  BY Halves DEF TypeInv
<1>2. \A p \in Processes : process[p].version \in Versions
  BY <1>1, ProcessTyped
<1>3. CASE Edit
  BY <1>1, <1>3 DEF Edit, Counters
<1>4. CASE StartExport
  <2>1. \A v \in Versions \cup {0} : [built EXCEPT ![Exporter] = 0] \in [Processes -> Versions \cup {0}]
    BY <1>1 DEF Counters
  <2> QED
    BY <1>1, <1>4, <2>1 DEF StartExport, Counters
<1>5. CASE Commit
  BY <1>1, <1>5 DEF Commit, Counters
<1>6. ASSUME NEW b \in Builders, StartBuild(b) PROVE Counters'
  BY <1>1, <1>6 DEF StartBuild, Counters
<1>7. ASSUME NEW p \in Processes, Refuse(p) PROVE Counters'
  BY <1>1, <1>7 DEF Refuse, Counters
<1>8. ASSUME NEW p \in Processes, OpenFile(p) PROVE Counters'
  BY <1>1, <1>2, <1>8 DEF OpenFile, Touch, Counters
<1>9. ASSUME NEW p \in Processes, Write(p) PROVE Counters'
  BY <1>1, <1>9 DEF Write, Counters
<1>10. ASSUME NEW p \in Processes, RemoveStale(p) PROVE Counters'
  BY <1>1, <1>2, <1>10 DEF RemoveStale, Counters
<1>11. ASSUME NEW p \in Processes, Finish(p) PROVE Counters'
  BY <1>1, <1>2, <1>11 DEF Finish, Counters
<1>12. ASSUME NEW p \in Processes, IoFails(p) PROVE Counters'
  <2>1. UNCHANGED <<source, built, touched>>
    BY <1>12 DEF IoFails
  <2>2. Mishap
    BY <1>12 DEF IoFails
  <2> QED
    BY <1>1, <2>1, <2>2, MishapCounts DEF Counters
<1>13. ASSUME NEW p \in Processes, WriteFails(p) PROVE Counters'
  <2>1. UNCHANGED <<source, built, touched>>
    BY <1>13 DEF WriteFails
  <2>2. Mishap
    BY <1>13 DEF WriteFails
  <2> QED
    BY <1>1, <2>1, <2>2, MishapCounts DEF Counters
<1>14. ASSUME NEW p \in Processes, Kill(p) PROVE Counters'
  <2>1. UNCHANGED <<source, built, touched>>
    BY <1>14 DEF Kill
  <2>2. Mishap
    BY <1>14 DEF Kill
  <2> QED
    BY <1>1, <2>1, <2>2, MishapCounts DEF Counters
<1>15. CASE UNCHANGED vars
  BY <1>1, <1>15 DEF vars, Counters
<1> QED
  BY <1>3, <1>4, <1>5, <1>6, <1>7, <1>8, <1>9, <1>10, <1>11, <1>12, <1>13, <1>14, <1>15
     DEF Next, Step

LEMMA CoreNext ==
  ASSUME TypeInv, [Next]_vars
  PROVE  Core'
<1>1. Counters /\ TypeOK /\ Core
  BY Halves DEF TypeInv
<1>2. ASSUME UNCHANGED <<file, process, handle, overlap>> PROVE Core'
  BY <1>1, <1>2 DEF Core, Standing, WrittenExists, Writers, Names, Open, Writing, Work
<1>3. CASE Edit
  BY <1>2, <1>3 DEF Edit
<1>4. CASE StartExport
  <2>1. PICK b \in Builders : built[b] # 0 /\ process' = Start(Exporter, built[b])
    BY <1>4 DEF StartExport
  <2>2. built[b] \in Versions /\ Exporter \in Processes
    BY <1>1, <2>1 DEF Counters, Processes
  <2>3. Idle(Exporter) /\ UNCHANGED <<file, handle, overlap>>
    BY <1>4 DEF StartExport
  <2> QED
    BY <2>1, <2>2, <2>3, StartCore
<1>5. CASE Commit
  BY <1>2, <1>5 DEF Commit
<1>6. ASSUME NEW b \in Builders, StartBuild(b) PROVE Core'
  BY <1>1, <1>6, StartCore DEF StartBuild, Counters, Processes
<1>7. ASSUME NEW p \in Processes, Refuse(p) PROVE Core'
  BY <1>1, <1>7, AtTask, MoveCore DEF Refuse
<1>8. ASSUME NEW p \in Processes, Finish(p) PROVE Core'
  BY <1>8, MoveCore DEF Finish, Ended
<1>9. ASSUME NEW p \in Processes, IoFails(p) PROVE Core'
  BY <1>1, <1>9, AtTask, MoveCore DEF IoFails
<1>10. ASSUME NEW p \in Processes, WriteFails(p) PROVE Core'
  BY <1>10, CloseCore DEF WriteFails
<1>11. ASSUME NEW p \in Processes, Kill(p) PROVE Core'
  BY <1>11, CloseCore DEF Kill
<1>12. CASE UNCHANGED vars
  BY <1>2, <1>12 DEF vars
<1> QED
  BY <1>3, <1>4, <1>5, <1>6, <1>7, <1>8, <1>9, <1>10, <1>11, <1>12,
     OpenFileCore, WriteCore, RemoveStaleCore DEF Next, Step

LEMMA TypeInit == Init => TypeInv
<1> SUFFICES ASSUME Init PROVE TypeInv
  OBVIOUS
<1>1. Counters
  BY LifecycleAssumption DEF Init, Counters
<1>2. /\ process \in [Processes -> Runs] /\ handle \in [Processes -> Handles]
      /\ file \in [Paths -> Seq(Blocks) \cup {Absent}]
      /\ overlap \in [Paths -> [docs : SUBSET Docs, cut : BOOLEAN]]
  BY LifecycleAssumption, ClosedTyped DEF Init, Runs
<1>3. \A p \in Processes : ~Open(p)
  BY ClosedTyped DEF Init, Open
<1>4. ASSUME NEW p \in Processes PROVE Standing(p)
  <2>1. process[p].at = 1 /\ process[p].version \in Versions
    BY LifecycleAssumption DEF Init
  <2> QED
    BY <1>3, <2>1, WorkTyped DEF Standing, Work
<1>5. WrittenExists
  BY <1>3 DEF WrittenExists, Writers, Names
<1> QED
  BY <1>1, <1>2, <1>4, <1>5, Halves DEF Core

LEMMA TypeNext == TypeInv /\ [Next]_vars => TypeInv'
BY CoreNext, CountersNext, HalvesNext

LEMMA TypeInvariant == Spec => []TypeInv
BY TypeInit, TypeNext, PTL DEF Spec

(* The processes stand where the code can be, and an open file belongs to  *)
(* a derive with blocks of its document left to write.                     *)
THEOREM ProcessesStand == Spec => []TypeOK
<1>1. TypeInv => TypeOK
  BY DEF TypeInv
<1> QED
  BY <1>1, TypeInvariant, PTL
-----------------------------------------------------------------------------
(* Writers of one document.  Every block of the document is there, or a    *)
(* writer that has not come to it has the file open: writers undo each     *)
(* other's work only by truncating, and who truncates writes everything.   *)

Accounted(path, doc) ==
  /\ Len(file[path]) <= Size[doc]
  /\ \A i \in 1 .. Size[doc] :
       \/ i <= Len(file[path]) /\ file[path][i] = Block(doc, i)
       \/ \E w \in Writers(path) : handle[w].off < i

Agreed(path) == \A w \in Writers(path) : handle[w].doc \in overlap[path].docs

Converging(path) ==
  /\ Agreed(path)
  /\ \A doc \in Docs :
       overlap[path].docs = {doc} /\ ~overlap[path].cut /\ file[path] # Absent
         => Accounted(path, doc)

ConvInv == \A path \in Paths : Converging(path)

LEMMA WriteFills ==
  ASSUME NEW blocks \in Seq(Blocks), NEW doc \in Docs, NEW off \in Nat, NEW n \in Nat \ {0},
         Size[doc] \in Nat, off + n <= Size[doc], Len(blocks) <= Size[doc],
         NEW new, new = WriteBlocks(blocks, doc, off, n)
  PROVE  /\ Len(new) <= Size[doc]
         /\ \A i \in 1 .. Size[doc] :
              /\ off < i /\ i <= off + n => i <= Len(new) /\ new[i] = Block(doc, i)
              /\ ~(off < i /\ i <= off + n) /\ i <= Len(blocks) =>
                   i <= Len(new) /\ new[i] = blocks[i]
<1> DEFINE m == Longer(Len(blocks), off + n)
<1>1. m \in Nat /\ m >= off + n /\ m >= Len(blocks) /\ m <= Size[doc] /\ Len(blocks) \in Nat
  BY DEF Longer
<1>2. Len(new) = m
  BY WriteBlocksTyped
<1>3. new = [i \in 1 .. m |-> IF i \in off + 1 .. off + n THEN Block(doc, i)
                              ELSE IF i <= Len(blocks) THEN blocks[i] ELSE Hole]
  BY DEF WriteBlocks
<1> HIDE DEF m
<1>4. ASSUME NEW i \in 1 .. Size[doc], off < i, i <= off + n
      PROVE  i <= m /\ new[i] = Block(doc, i)
  BY <1>1, <1>3, <1>4
<1>5. ASSUME NEW i \in 1 .. Size[doc], ~(off < i /\ i <= off + n), i <= Len(blocks)
      PROVE  i <= m /\ new[i] = blocks[i]
  BY <1>1, <1>3, <1>5
<1> QED
  BY <1>1, <1>2, <1>4, <1>5

(* Nothing has happened to the file of this path.                          *)
LEMMA ConvergesStill ==
  ASSUME NEW path \in Paths, Converging(path), file'[path] = file[path],
         Writers(path)' = Writers(path), overlap'[path] = overlap[path],
         \A w \in Writers(path) :
           handle'[w].doc = handle[w].doc /\ handle'[w].off = handle[w].off
  PROVE  Converging(path)'
BY DEF Converging, Agreed, Accounted

LEMMA CloseConverges ==
  ASSUME TypeInv, ConvInv, NEW p \in Processes, CutShort(p),
         handle' = [handle EXCEPT ![p] = Closed], UNCHANGED file
  PROVE  ConvInv'
<1> SUFFICES ASSUME NEW path \in Paths PROVE Converging(path)'
  BY DEF ConvInv
<1>1. TypeOK /\ handle \in [Processes -> Handles] /\ Converging(path)
  BY DEF TypeInv, TypeOK, ConvInv
<1>2. /\ \A q \in Processes : q # p => handle'[q] = handle[q]
      /\ ~handle'[p].open
  BY <1>1, ClosedTyped
<1>3. overlap[path] \in [docs : SUBSET Docs, cut : BOOLEAN]
  BY <1>1 DEF TypeOK
<1>4. CASE Names(p, path)
  <2>1. overlap'[path] = [overlap[path] EXCEPT !.cut = TRUE]
    BY <1>4 DEF CutShort
  <2>2. overlap'[path].cut /\ overlap'[path].docs = overlap[path].docs
    BY <1>3, <2>1
  <2>3. \A w \in Processes : w \in Writers(path)' => w \in Writers(path) /\ handle'[w] = handle[w]
    BY <1>2 DEF Writers, Names, Open
  <2> QED
    BY <1>1, <2>2, <2>3 DEF Converging, Agreed, Writers
<1>5. CASE ~Names(p, path)
  <2>1. overlap'[path] = overlap[path]
    BY <1>5 DEF CutShort
  <2>2. Writers(path)' = Writers(path)
    BY <1>2, <1>5 DEF Writers, Names, Open
  <2>3. \A w \in Writers(path) : handle'[w] = handle[w]
    BY <1>2, <1>5 DEF Writers
  <2> QED
    BY <1>1, <2>1, <2>2, <2>3, ConvergesStill
<1> QED
  BY <1>4, <1>5

LEMMA OpenFileConverges ==
  ASSUME TypeInv, ConvInv, NEW p \in Processes, OpenFile(p)
  PROVE  ConvInv'
<1> SUFFICES ASSUME NEW path \in Paths PROVE Converging(path)'
  BY DEF ConvInv
<1> DEFINE mine == PathOf(p)
           doc  == Work(p)[process[p].at].doc
<1>1. TypeOK /\ handle \in [Processes -> Handles] /\ Converging(path)
      /\ file \in [Paths -> Seq(Blocks) \cup {Absent}] /\ At(p, "flat")
      /\ overlap \in [Paths -> [docs : SUBSET Docs, cut : BOOLEAN]]
  BY DEF TypeInv, TypeOK, ConvInv, OpenFile
<1>2. mine \in Paths /\ doc \in Docs /\ ~Open(p)
  BY <1>1, AtTask, ProcessTyped
<1>3. /\ file' = [file EXCEPT ![mine] = << >>]
      /\ handle' = [handle EXCEPT ![p] = Opened(mine, doc)]
      /\ overlap' = [overlap EXCEPT ![mine] =
                       IF Writers(mine) = {} THEN [docs |-> {doc}, cut |-> FALSE]
                       ELSE [docs |-> @.docs \cup {doc}, cut |-> @.cut]]
  BY Zenon DEF OpenFile
<1> HIDE DEF mine, doc
<1>4. /\ handle'[p] = Opened(mine, doc)
      /\ handle'[p].open /\ handle'[p].path = mine /\ handle'[p].linked
      /\ handle'[p].doc = doc /\ handle'[p].off = 0
      /\ \A q \in Processes : q # p => handle'[q] = handle[q]
  BY <1>1, <1>3 DEF Opened
<1>5. CASE path # mine
  <2>1. file'[path] = file[path] /\ overlap'[path] = overlap[path]
    BY <1>1, <1>3, <1>5
  <2>2. Writers(path)' = Writers(path)
    BY <1>2, <1>4, <1>5 DEF Writers, Names, Open
  <2>3. \A w \in Writers(path) : handle'[w] = handle[w]
    BY <1>2, <1>4 DEF Writers, Names
  <2> QED
    BY <1>1, <2>1, <2>2, <2>3, ConvergesStill
<1>6. CASE path = mine
  <2>1. file'[path] = << >>
    BY <1>1, <1>2, <1>3, <1>6
  <2>2. overlap'[path] = IF Writers(path) = {} THEN [docs |-> {doc}, cut |-> FALSE]
                         ELSE [docs |-> overlap[path].docs \cup {doc}, cut |-> overlap[path].cut]
    BY <1>1, <1>2, <1>3, <1>6
  <2>3. doc \in overlap'[path].docs
        /\ (Writers(path) # {} => overlap[path].docs \subseteq overlap'[path].docs)
    BY <2>2
  <2>4. p \in Writers(path)' /\ \A w \in Writers(path)' : w = p \/ w \in Writers(path)
    BY <1>4, <1>6 DEF Writers, Names, Open
  <2>5. Agreed(path)'
    <3> SUFFICES ASSUME NEW w \in Writers(path)' PROVE handle'[w].doc \in overlap'[path].docs
      BY DEF Agreed
    <3>1. CASE w = p
      BY <1>4, <2>3, <3>1
    <3>2. CASE w # p
      <4>1. w \in Writers(path) /\ handle'[w] = handle[w]
        BY <1>4, <2>4, <3>2 DEF Writers
      <4>2. handle[w].doc \in overlap[path].docs
        BY <1>1, <4>1 DEF Converging, Agreed
      <4> QED
        BY <2>3, <4>1, <4>2
    <3> QED
      BY <3>1, <3>2
  <2>6. ASSUME NEW d \in Docs PROVE Accounted(path, d)'
    <3>1. Size[d] \in Nat
      BY LifecycleAssumption
    <3>2. \A i \in 1 .. Size[d] : handle'[p].off < i
      BY <1>4, <3>1
    <3> QED
      BY <2>1, <2>4, <3>1, <3>2 DEF Accounted
  <2> QED
    BY <2>5, <2>6 DEF Converging
<1> QED
  BY <1>5, <1>6

LEMMA WriteConverges ==
  ASSUME TypeInv, ConvInv, NEW p \in Processes, Write(p)
  PROVE  ConvInv'
<1> SUFFICES ASSUME NEW path \in Paths PROVE Converging(path)'
  BY DEF ConvInv
<1> DEFINE h == handle[p]
<1>1. /\ TypeOK /\ WrittenExists /\ handle \in [Processes -> Handles] /\ Converging(path)
      /\ file \in [Paths -> Seq(Blocks) \cup {Absent}] /\ UNCHANGED overlap
  BY DEF TypeInv, TypeOK, ConvInv, Write
<1>2. /\ Open(p) /\ h.path \in Paths /\ h.doc \in Docs /\ h.off \in Nat
      /\ Size[h.doc] \in Nat \ {0} /\ h \in Handles
  BY <1>1, WriteStep, ProcessTyped
<1>3. PICK n \in Nat \ {0} :
        /\ h.off + n <= Size[h.doc]
        /\ file' = IF h.linked
                   THEN [file EXCEPT ![h.path] = WriteBlocks(@, h.doc, h.off, n)] ELSE file
        /\ \/ /\ h.off + n = Size[h.doc]
              /\ handle' = [handle EXCEPT ![p] = Closed] /\ process' = Done(p)
           \/ /\ h.off + n < Size[h.doc]
              /\ handle' = [handle EXCEPT ![p].off = @ + n] /\ UNCHANGED process
  BY WriteStep
<1>4. /\ \A q \in Processes : q # p => handle'[q] = handle[q]
      /\ \/ ~handle'[p].open /\ h.off + n = Size[h.doc]
         \/ /\ handle'[p].open /\ handle'[p].path = h.path /\ handle'[p].linked = h.linked
            /\ handle'[p].doc = h.doc /\ handle'[p].off = h.off + n
  <2>1. CASE h.off + n = Size[h.doc] /\ handle' = [handle EXCEPT ![p] = Closed]
    BY <1>1, <2>1, ClosedTyped
  <2>2. CASE handle' = [handle EXCEPT ![p].off = @ + n]
    <3>1. handle'[p] = [h EXCEPT !.off = h.off + n]
      BY <1>1, <2>2
    <3>2. \A q \in Processes : q # p => handle'[q] = handle[q]
      BY <1>1, <2>2
    <3> QED
      BY <1>2, <3>1, <3>2 DEF Handles, Open
  <2> QED
    BY <1>3, <2>1, <2>2
<1>5. CASE ~Names(p, path)
  <2>1. file'[path] = file[path]
    BY <1>1, <1>2, <1>3, <1>5 DEF Names
  <2>2. Writers(path)' = Writers(path)
    BY <1>2, <1>4, <1>5 DEF Writers, Names, Open
  <2>3. \A w \in Writers(path) : handle'[w] = handle[w]
    BY <1>4, <1>5 DEF Writers
  <2> QED
    BY <1>1, <2>1, <2>2, <2>3, ConvergesStill
<1>6. CASE Names(p, path)
  <2>1. path = h.path /\ h.linked /\ p \in Writers(path)
    BY <1>6 DEF Names, Writers
  <2>2. file[path] \in Seq(Blocks)
    BY <1>1, <2>1 DEF WrittenExists
  <2>3. file'[path] = WriteBlocks(file[path], h.doc, h.off, n)
    BY <1>1, <1>3, <2>1
  <2>4. \A w \in Writers(path)' : w \in Writers(path) /\ handle'[w].doc = handle[w].doc
    BY <1>2, <1>4, <2>1 DEF Writers, Names, Open
  <2>5. Agreed(path)'
    BY <1>1, <2>4 DEF Agreed, Converging
  <2>6. h.doc \in overlap[path].docs
    BY <1>1, <2>1 DEF Agreed, Converging
  <2>7. ASSUME NEW doc \in Docs, overlap[path].docs = {doc}, ~overlap[path].cut
        PROVE  Accounted(path, doc)'
    <3>1. doc = h.doc
      BY <2>6, <2>7
    <3>2. Accounted(path, doc) /\ Size[doc] \in Nat
      <4>1. file[path] # Absent
        BY <1>1, <2>1 DEF WrittenExists
      <4> QED
        BY <1>1, <1>2, <2>7, <3>1, <4>1 DEF Converging
    <3>3. /\ Len(file'[path]) <= Size[doc]
          /\ \A i \in 1 .. Size[doc] :
               /\ h.off < i /\ i <= h.off + n =>
                    i <= Len(file'[path]) /\ file'[path][i] = Block(doc, i)
               /\ ~(h.off < i /\ i <= h.off + n) /\ i <= Len(file[path]) =>
                    i <= Len(file'[path]) /\ file'[path][i] = file[path][i]
      <4>1. Len(file[path]) <= Size[doc]
        BY <3>2 DEF Accounted
      <4> QED
        BY <1>2, <1>3, <2>2, <2>3, <3>1, <4>1, WriteFills
    <3>4. ASSUME NEW i \in 1 .. Size[doc]
          PROVE  \/ i <= Len(file'[path]) /\ file'[path][i] = Block(doc, i)
                 \/ \E w \in Writers(path)' : handle'[w].off < i
      <4>1. CASE h.off < i /\ i <= h.off + n
        BY <3>3, <4>1
      <4>2. CASE h.off + n < i
        <5>1. h.off + n # Size[h.doc]
          BY <1>2, <1>3, <3>1, <3>2, <4>2
        <5>2. handle'[p].open /\ handle'[p].path = path /\ handle'[p].linked
              /\ handle'[p].off < i
          BY <1>4, <2>1, <4>2, <5>1
        <5>3. p \in Writers(path)'
          BY <5>2 DEF Writers, Names, Open
        <5> QED
          BY <5>2, <5>3
      <4>3. CASE i <= h.off
        <5>1. \/ i <= Len(file[path]) /\ file[path][i] = Block(doc, i)
              \/ \E w \in Writers(path) : handle[w].off < i
          BY <3>2 DEF Accounted
        <5>2. CASE i <= Len(file[path]) /\ file[path][i] = Block(doc, i)
          <6>1. ~(h.off < i /\ i <= h.off + n)
            BY <1>2, <3>2, <4>3
          <6> QED
            BY <3>3, <5>2, <6>1
        <5>3. CASE \E w \in Writers(path) : handle[w].off < i
          <6>1. PICK w \in Writers(path) : handle[w].off < i
            BY <5>3
          <6>2. w # p
            BY <1>2, <3>2, <4>3, <6>1
          <6>3. w \in Writers(path)' /\ handle'[w].off < i
            BY <1>4, <6>1, <6>2 DEF Writers, Names, Open
          <6> QED
            BY <6>3
        <5> QED
          BY <5>1, <5>2, <5>3
      <4> QED
        BY <1>2, <1>3, <3>2, <4>1, <4>2, <4>3
    <3> QED
      BY <3>3, <3>4 DEF Accounted
  <2> QED
    BY <1>1, <2>5, <2>7 DEF Converging
<1> QED
  BY <1>5, <1>6

LEMMA RemoveStaleConverges ==
  ASSUME TypeInv, ConvInv, NEW p \in Processes, RemoveStale(p)
  PROVE  ConvInv'
<1> SUFFICES ASSUME NEW path \in Paths PROVE Converging(path)'
  BY DEF ConvInv
<1>1. /\ TypeOK /\ handle \in [Processes -> Handles] /\ Converging(path)
      /\ file \in [Paths -> Seq(Blocks) \cup {Absent}] /\ UNCHANGED overlap
      /\ file' = [file EXCEPT ![IdlPath] = Absent]
      /\ handle' = [q \in Processes |->
                     IF Names(q, IdlPath) THEN [handle[q] EXCEPT !.linked = FALSE] ELSE handle[q]]
  BY DEF TypeInv, TypeOK, ConvInv, RemoveStale
<1>2. ASSUME NEW q \in Processes
      PROVE  handle'[q] = IF Names(q, IdlPath) THEN [handle[q] EXCEPT !.linked = FALSE]
                          ELSE handle[q]
  BY <1>1
<1>3. CASE path = IdlPath
  <2>1. file'[path] = Absent
    BY <1>1, <1>3
  <2>2. ASSUME NEW q \in Processes PROVE ~Names(q, path)'
    <3>1. handle[q] \in Handles
      BY <1>1
    <3> QED
      BY <1>2, <1>3, <3>1 DEF Names, Open, Handles
  <2>3. Writers(path)' = {}
    BY <2>2 DEF Writers
  <2> QED
    BY <2>1, <2>3 DEF Converging, Agreed
<1>4. CASE path # IdlPath
  <2>1. file'[path] = file[path]
    BY <1>1, <1>4
  <2>2. ASSUME NEW q \in Processes
        PROVE  (Names(q, path)' <=> Names(q, path)) /\ (Names(q, path) => handle'[q] = handle[q])
    <3>1. handle[q] \in Handles
      BY <1>1
    <3> QED
      BY <1>2, <1>4, <3>1 DEF Names, Open, Handles
  <2>3. Writers(path)' = Writers(path)
    BY <2>2 DEF Writers
  <2>4. \A w \in Writers(path) : handle'[w] = handle[w]
    BY <2>2 DEF Writers
  <2> QED
    BY <1>1, <2>1, <2>3, <2>4, ConvergesStill
<1> QED
  BY <1>3, <1>4

LEMMA ConvNext ==
  ASSUME TypeInv, ConvInv, [Next]_vars
  PROVE  ConvInv'
<1>1. ASSUME UNCHANGED <<file, handle, overlap>> PROVE ConvInv'
  BY <1>1 DEF ConvInv, Converging, Agreed, Accounted, Writers, Names, Open
<1>2. CASE Edit \/ StartExport \/ Commit \/ UNCHANGED vars
  BY <1>1, <1>2 DEF Edit, StartExport, Commit, vars
<1>3. ASSUME NEW b \in Builders, StartBuild(b) PROVE ConvInv'
  BY <1>1, <1>3 DEF StartBuild
<1>4. ASSUME NEW p \in Processes, Refuse(p) \/ Finish(p) \/ IoFails(p) PROVE ConvInv'
  BY <1>1, <1>4 DEF Refuse, Finish, IoFails
<1>5. ASSUME NEW p \in Processes, WriteFails(p) \/ Kill(p) PROVE ConvInv'
  BY <1>5, CloseConverges DEF WriteFails, Kill
<1> QED
  BY <1>2, <1>3, <1>4, <1>5, OpenFileConverges, WriteConverges, RemoveStaleConverges
     DEF Next, Step

LEMMA ConvInit == Init => ConvInv
<1> SUFFICES ASSUME Init, NEW path \in Paths PROVE Converging(path)
  BY DEF ConvInv
<1>1. file[path] = Absent /\ Writers(path) = {}
  BY ClosedTyped DEF Init, Writers, Names, Open
<1> QED
  BY <1>1 DEF Converging, Agreed

LEMMA ConvergedWhole ==
  ASSUME TypeInv, ConvInv
  PROVE  SameDocumentConverges
<1> SUFFICES ASSUME NEW path \in Paths, NEW doc \in Docs, Writers(path) = {},
                    overlap[path].docs = {doc}, ~overlap[path].cut, file[path] # Absent
             PROVE  file[path] = Whole(doc)
  BY DEF SameDocumentConverges
<1>1. file[path] \in Seq(Blocks) /\ Size[doc] \in Nat
  BY LifecycleAssumption DEF TypeInv, TypeOK
<1>2. Accounted(path, doc)
  BY DEF ConvInv, Converging
<1>3. Len(file[path]) <= Size[doc]
      /\ \A i \in 1 .. Size[doc] : i <= Len(file[path]) /\ file[path][i] = Block(doc, i)
  BY <1>2 DEF Accounted
<1>4. Len(file[path]) = Size[doc]
  BY <1>1, <1>3
<1>5. file[path] = [i \in 1 .. Size[doc] |-> Block(doc, i)]
  BY <1>1, <1>3, <1>4
<1> QED
  BY <1>5 DEF Whole

(* io.rs:27, for any number of processes and any interleaving of their     *)
(* writes: if the writes that overlap are of one document and none is cut  *)
(* short, the file they leave is that document, or has been removed.       *)
THEOREM WritersConverge == Spec => []SameDocumentConverges
<1>1. Init => ConvInv
  BY ConvInit
<1>2. TypeInv /\ TypeInv' /\ ConvInv /\ [Next]_vars => ConvInv'
  BY ConvNext
<1>3. TypeInv /\ ConvInv => SameDocumentConverges
  BY ConvergedWhole
<1> QED
  BY <1>1, <1>2, <1>3, TypeInvariant, PTL DEF Spec
-----------------------------------------------------------------------------
(* A process that has its file for itself: a single builder with idl.json, *)
(* and the exporter with the path it is given, whatever the builders do to *)
(* theirs.                                                                 *)

(* No other process writes the file that p writes. *)
Sole(p) == \A q \in Processes : q # p => PathOf(q) # PathOf(p)

(* What a task leaves behind, and the last task of a run.                  *)
Outcome(task) == IF task.kind = "recursive" THEN Absent ELSE Whole(task.doc)
LastOf(work)  == work[Len(work)]

(* An open file holds the document up to the writer's offset; after a task *)
(* that has not failed it holds the task's outcome; a success, that of the *)
(* last task of the version it was a success of, until the next run.       *)
Succeeded(p) ==
  built[p] # 0 => Idle(p) /\ file[PathOf(p)] = Outcome(LastOf(WorkOf(p, built[p])))

Between(p) ==
  process[p].busy /\ ~Open(p) /\ ~process[p].failed /\ process[p].at > 1 =>
    file[PathOf(p)] = Outcome(Work(p)[process[p].at - 1])

Growing(p) ==
  Open(p) =>
    /\ handle[p].linked /\ Len(file[PathOf(p)]) = handle[p].off
    /\ \A i \in 1 .. handle[p].off : file[PathOf(p)][i] = Block(handle[p].doc, i)

OwnInv(p) == Succeeded(p) /\ Between(p) /\ Growing(p)
-----------------------------------------------------------------------------
(* Neither p nor its file has changed. *)
LEMMA OwnStill ==
  ASSUME NEW p \in Processes, OwnInv(p), process'[p] = process[p], built'[p] = built[p],
         file'[PathOf(p)] = file[PathOf(p)], handle'[p].open = handle[p].open,
         Open(p) => handle'[p] = handle[p]
  PROVE  OwnInv(p)'
<1>1. PathOf(p)' = PathOf(p) /\ Idle(p)' = Idle(p) /\ Work(p)' = Work(p) /\ Open(p)' = Open(p)
  BY DEF PathOf, Idle, Work, WorkOf, Open
<1>2. \A v : WorkOf(p, v)' = WorkOf(p, v)
  BY DEF WorkOf
<1>3. Succeeded(p)'
  BY <1>1, <1>2 DEF OwnInv, Succeeded
<1>4. Between(p)'
  BY <1>1 DEF OwnInv, Between
<1>5. Growing(p)'
  BY <1>1 DEF OwnInv, Growing
<1> QED
  BY <1>3, <1>4, <1>5 DEF OwnInv

(* A process at work has not succeeded yet. *)
LEMMA BusyUnbuilt ==
  ASSUME NEW p \in Processes, OwnInv(p), process[p].busy
  PROVE  built[p] = 0
BY DEF OwnInv, Succeeded, Idle

(* A run that has stopped, failed or not begun owes nothing.               *)
LEMMA OwesNothing ==
  ASSUME NEW p \in Processes, built'[p] = 0, ~handle'[p].open,
         ~process'[p].busy \/ process'[p].failed \/ process'[p].at = 1
  PROVE  OwnInv(p)'
BY DEF OwnInv, Succeeded, Between, Growing, Open

(* The exporter removes nothing. *)
LEMMA OnlyBuildersRemove ==
  ASSUME TypeInv, NEW q \in Processes, RemoveStale(q)
  PROVE  q # Exporter /\ PathOf(q) = IdlPath
<1> SUFFICES ASSUME q = Exporter PROVE FALSE
  BY DEF PathOf
<1>1. At(q, "recursive") /\ TypeOK
  BY DEF RemoveStale, TypeInv
<1>2. Work(q) = <<Task("flat", Crate[process[q].version].doc)>>
  BY DEF Work, WorkOf
<1>3. process[q].at = 1
  BY <1>1, <1>2, AtTask
<1> QED
  BY <1>1, <1>2, <1>3 DEF At, Task

(* What the others do is not done to p's file.                             *)
LEMMA OthersLeaveIt ==
  ASSUME TypeInv, NEW p \in Processes, Sole(p), OwnInv(p), NEW q \in Processes, q # p,
         Step(q) \/ IoFails(q) \/ WriteFails(q) \/ Kill(q)
  PROVE  OwnInv(p)'
<1>1. /\ TypeOK /\ handle \in [Processes -> Handles] /\ process \in [Processes -> Runs]
      /\ file \in [Paths -> Seq(Blocks) \cup {Absent}]
      /\ built \in [Processes -> Versions \cup {0}]
      /\ PathOf(q) # PathOf(p) /\ PathOf(p) \in Paths
  BY DEF TypeInv, TypeOK, Sole, PathOf, Paths
<1>2. process'[p] = process[p]
  BY <1>1 DEF Step, Refuse, OpenFile, Write, RemoveStale, Finish, IoFails, WriteFails, Kill,
              Done, Fail, Stop
<1>3. built'[p] = built[p]
  BY <1>1 DEF Step, Refuse, OpenFile, Write, RemoveStale, Finish, IoFails, WriteFails, Kill
<1>4. CASE RemoveStale(q)
  <2>1. PathOf(q) = IdlPath
    BY <1>4, OnlyBuildersRemove
  <2>2. file'[PathOf(p)] = file[PathOf(p)]
    BY <1>1, <1>4, <2>1 DEF RemoveStale
  <2>3. Open(p) => handle[p].path = PathOf(p)
    BY <1>1 DEF TypeOK, Writing
  <2>4. handle'[p] = IF Names(p, IdlPath) THEN [handle[p] EXCEPT !.linked = FALSE] ELSE handle[p]
    BY <1>4 DEF RemoveStale
  <2>5. ~Names(p, IdlPath)
    BY <1>1, <2>1, <2>3 DEF Names
  <2> QED
    BY <1>2, <1>3, <2>2, <2>4, <2>5, OwnStill
<1>5. CASE Write(q)
  <2>1. handle'[p] = handle[p]
    BY <1>1, <1>5 DEF Write
  <2>2. handle[q].path = PathOf(q)
    BY <1>5, WriteStep
  <2>3. file'[PathOf(p)] = file[PathOf(p)]
    BY <1>1, <1>5, <2>2 DEF Write
  <2> QED
    BY <1>2, <1>3, <2>1, <2>3, OwnStill
<1>6. CASE OpenFile(q)
  <2>1. handle'[p] = handle[p] /\ file'[PathOf(p)] = file[PathOf(p)]
    BY <1>1, <1>6 DEF OpenFile
  <2> QED
    BY <1>2, <1>3, <2>1, OwnStill
<1>7. CASE Refuse(q) \/ Finish(q) \/ IoFails(q)
  <2>1. UNCHANGED <<file, handle>>
    BY <1>7 DEF Refuse, Finish, IoFails
  <2> QED
    BY <1>2, <1>3, <2>1, OwnStill
<1>8. CASE WriteFails(q) \/ Kill(q)
  <2>1. handle'[p] = handle[p] /\ UNCHANGED file
    BY <1>1, <1>8 DEF WriteFails, Kill
  <2> QED
    BY <1>2, <1>3, <2>1, OwnStill
<1> QED
  BY <1>4, <1>5, <1>6, <1>7, <1>8 DEF Step
-----------------------------------------------------------------------------
(* What p does itself. *)

LEMMA OwnOpenFile ==
  ASSUME TypeInv, NEW p \in Processes, OwnInv(p), OpenFile(p)
  PROVE  OwnInv(p)'
<1> DEFINE path == PathOf(p)
           doc  == Work(p)[process[p].at].doc
<1>1. /\ TypeOK /\ At(p, "flat") /\ handle \in [Processes -> Handles]
      /\ file \in [Paths -> Seq(Blocks) \cup {Absent}] /\ path \in Paths
      /\ UNCHANGED <<process, built>>
  BY DEF TypeInv, TypeOK, OpenFile, PathOf, Paths
<1>2. file' = [file EXCEPT ![path] = << >>] /\ handle' = [handle EXCEPT ![p] = Opened(path, doc)]
  BY Zenon DEF OpenFile
<1>3. built[p] = 0
  BY <1>1, BusyUnbuilt DEF At
<1> HIDE DEF path, doc
<1>4. handle'[p].open /\ handle'[p].linked /\ handle'[p].off = 0 /\ file'[path] = << >>
  BY <1>1, <1>2 DEF Opened
<1>5. Growing(p)'
  BY <1>4 DEF Growing, path, PathOf
<1> QED
  BY <1>1, <1>3, <1>4, <1>5 DEF OwnInv, Succeeded, Between, Open

(* A document written to a file that holds its beginning.                  *)
LEMMA WriteExtends ==
  ASSUME NEW blocks \in Seq(Blocks), NEW doc \in Docs, NEW off \in Nat, NEW n \in Nat \ {0},
         Len(blocks) = off, \A i \in 1 .. off : blocks[i] = Block(doc, i)
  PROVE  WriteBlocks(blocks, doc, off, n) = [i \in 1 .. off + n |-> Block(doc, i)]
<1>1. Longer(Len(blocks), off + n) = off + n
  BY DEF Longer
<1>2. \A i \in 1 .. off + n : i \in off + 1 .. off + n \/ i \in 1 .. off
  OBVIOUS
<1> QED
  BY <1>1, <1>2 DEF WriteBlocks

LEMMA GrowsBy ==
  ASSUME TypeInv, NEW p \in Processes, OwnInv(p), Write(p), NEW n \in Nat \ {0},
         file' = IF handle[p].linked
                 THEN [file EXCEPT ![handle[p].path] =
                         WriteBlocks(@, handle[p].doc, handle[p].off, n)] ELSE file
  PROVE  file'[PathOf(p)] = [i \in 1 .. handle[p].off + n |-> Block(handle[p].doc, i)]
<1> DEFINE h == handle[p]
           path == PathOf(p)
<1>1. /\ TypeOK /\ WrittenExists
      /\ file \in [Paths -> Seq(Blocks) \cup {Absent}] /\ path \in Paths
  BY DEF TypeInv, TypeOK, PathOf, Paths
<1>2. Open(p) /\ h.path = path /\ h.doc \in Docs /\ h.off \in Nat
  BY <1>1, WriteStep
<1>3. /\ h.linked /\ Len(file[path]) = h.off
      /\ \A i \in 1 .. h.off : file[path][i] = Block(h.doc, i)
  BY <1>2 DEF OwnInv, Growing
<1>4. file[path] \in Seq(Blocks)
  <2>1. p \in Writers(path)
    BY <1>2, <1>3 DEF Writers, Names
  <2> QED
    BY <1>1, <2>1 DEF WrittenExists
<1>5. file'[path] = WriteBlocks(file[path], h.doc, h.off, n)
  BY <1>1, <1>2, <1>3
<1>6. WriteBlocks(file[path], h.doc, h.off, n) = [i \in 1 .. h.off + n |-> Block(h.doc, i)]
  <2> HIDE DEF h, path
  <2> QED
    BY <1>2, <1>3, <1>4, WriteExtends
<1> QED
  BY <1>5, <1>6

LEMMA OwnWrite ==
  ASSUME TypeInv, NEW p \in Processes, OwnInv(p), Write(p)
  PROVE  OwnInv(p)'
<1> DEFINE h == handle[p]
           path == PathOf(p)
<1>1. /\ TypeOK /\ WrittenExists /\ handle \in [Processes -> Handles]
      /\ process \in [Processes -> Runs] /\ UNCHANGED built
      /\ file \in [Paths -> Seq(Blocks) \cup {Absent}] /\ path \in Paths
  BY DEF TypeInv, TypeOK, Write, PathOf, Paths
<1>2. /\ Open(p) /\ Writing(p) /\ h.path = path /\ h.doc \in Docs /\ h.off \in Nat
      /\ Size[h.doc] \in Nat \ {0} /\ h \in Handles
  BY <1>1, WriteStep, ProcessTyped DEF TypeOK
<1>3. PICK n \in Nat \ {0} :
        /\ h.off + n <= Size[h.doc]
        /\ file' = IF h.linked
                   THEN [file EXCEPT ![h.path] = WriteBlocks(@, h.doc, h.off, n)] ELSE file
        /\ \/ /\ h.off + n = Size[h.doc]
              /\ handle' = [handle EXCEPT ![p] = Closed] /\ process' = Done(p)
           \/ /\ h.off + n < Size[h.doc]
              /\ handle' = [handle EXCEPT ![p].off = @ + n] /\ UNCHANGED process
  BY WriteStep
<1>4. /\ h.linked /\ Len(file[path]) = h.off
      /\ \A i \in 1 .. h.off : file[path][i] = Block(h.doc, i)
  BY <1>2 DEF OwnInv, Growing
<1>6. file'[path] = [i \in 1 .. h.off + n |-> Block(h.doc, i)]
  BY <1>3, GrowsBy
<1>7. built[p] = 0 /\ process[p].busy
  BY <1>2, BusyUnbuilt DEF Writing
<1>8. PathOf(p)' = path
  BY DEF PathOf
<1>9. Succeeded(p)'
  BY <1>1, <1>7 DEF Succeeded
<1>10. CASE handle' = [handle EXCEPT ![p] = Closed] /\ process' = Done(p)
            /\ h.off + n = Size[h.doc]
  <2>1. ~handle'[p].open
    BY <1>1, <1>10, ClosedTyped
  <2>2. process'[p] = [process[p] EXCEPT !.at = @ + 1]
    BY <1>1, <1>10 DEF Done
  <2>3. process'[p].at = process[p].at + 1 /\ process'[p].version = process[p].version
        /\ process[p].at \in Nat
    BY <1>1, <2>2, ProcessTyped DEF Runs
  <2>4. Work(p)' = Work(p) /\ process'[p].at - 1 = process[p].at
    BY <2>3 DEF Work, WorkOf
  <2>5. Outcome(Work(p)[process[p].at]) = Whole(h.doc)
    BY <1>2 DEF Outcome, Writing
  <2>6. file'[path] = Whole(h.doc)
    BY <1>6, <1>10 DEF Whole
  <2>7. Between(p)'
    BY <1>8, <2>4, <2>5, <2>6 DEF Between, Outcome, Whole
  <2> QED
    BY <1>9, <2>1, <2>7 DEF OwnInv, Growing, Open
<1>11. CASE handle' = [handle EXCEPT ![p].off = @ + n] /\ UNCHANGED process
  <2>1. handle'[p] = [h EXCEPT !.off = h.off + n]
    BY <1>1, <1>11
  <2>2. /\ handle'[p].off = h.off + n /\ handle'[p].doc = h.doc /\ handle'[p].open
        /\ handle'[p].linked
    BY <1>2, <1>4, <2>1 DEF Handles, Open
  <2>3. Len(file'[path]) = h.off + n /\ \A i \in 1 .. h.off + n : file'[path][i] = Block(h.doc, i)
    <3>1. h.off + n \in Nat
      BY <1>2
    <3> HIDE DEF h
    <3> QED
      BY <1>6, <3>1
  <2>4. Growing(p)'
    BY <1>8, <2>2, <2>3 DEF Growing, Block
  <2> QED
    BY <1>9, <2>2, <2>4 DEF OwnInv, Between, Open
<1> QED
  BY <1>3, <1>10, <1>11

LEMMA OwnRemoveStale ==
  ASSUME TypeInv, NEW p \in Processes, OwnInv(p), RemoveStale(p), PathOf(p) = IdlPath
  PROVE  OwnInv(p)'
<1>1. /\ TypeOK /\ At(p, "recursive") /\ UNCHANGED built /\ process' = Done(p)
      /\ process \in [Processes -> Runs] /\ file' = [file EXCEPT ![IdlPath] = Absent]
      /\ file \in [Paths -> Seq(Blocks) \cup {Absent}] /\ IdlPath \in Paths
  BY DEF TypeInv, TypeOK, RemoveStale, Paths
<1>2. /\ ~Open(p) /\ built[p] = 0 /\ process[p].at \in Nat
      /\ Work(p)[process[p].at].kind = "recursive"
  BY <1>1, AtTask, ProcessTyped, BusyUnbuilt
<1>3. ~handle'[p].open
  <2>1. handle'[p] = IF Names(p, IdlPath) THEN [handle[p] EXCEPT !.linked = FALSE] ELSE handle[p]
    BY DEF RemoveStale
  <2> QED
    BY <1>2, <2>1 DEF Names, Open
<1>4. file'[IdlPath] = Absent
  BY <1>1
<1>5. process'[p] = [process[p] EXCEPT !.at = @ + 1]
  BY <1>1 DEF Done
<1>6. process'[p].at = process[p].at + 1 /\ process'[p].version = process[p].version
  BY <1>1, <1>5, ProcessTyped DEF Runs
<1>7. Work(p)' = Work(p) /\ process'[p].at - 1 = process[p].at /\ PathOf(p)' = IdlPath
  BY <1>2, <1>6 DEF Work, WorkOf, PathOf
<1>8. Between(p)'
  BY <1>2, <1>4, <1>7 DEF Between, Outcome
<1> QED
  BY <1>1, <1>2, <1>3, <1>8 DEF OwnInv, Succeeded, Growing, Open

LEMMA OwnFinish ==
  ASSUME TypeInv, NEW p \in Processes, OwnInv(p), Finish(p)
  PROVE  OwnInv(p)'
<1>1. /\ TypeOK /\ process \in [Processes -> Runs] /\ UNCHANGED <<file, handle>>
      /\ built \in [Processes -> Versions \cup {0}] /\ process' = Stop(p)
      /\ process[p].busy /\ ~Open(p) /\ process[p].at > Len(Work(p))
  BY DEF TypeInv, TypeOK, Finish, Ended
<1>2. ~process'[p].busy
  BY <1>1 DEF Stop, Runs
<1>3. process[p].at = Len(Work(p)) + 1 /\ process[p].at > 1
      /\ process[p].at - 1 = Len(Work(p))
  BY <1>1, ProcessTyped
<1>4. built'[p] = 0 \/ (built'[p] = process[p].version /\ ~process[p].failed)
  BY <1>1 DEF Finish
<1>5. CASE built'[p] = process[p].version /\ ~process[p].failed
  <2>1. file[PathOf(p)] = Outcome(LastOf(WorkOf(p, process[p].version)))
    BY <1>1, <1>3, <1>5 DEF OwnInv, Between, LastOf, Work
  <2>2. Succeeded(p)'
    BY <1>1, <1>2, <1>5, <2>1 DEF Succeeded, Idle, PathOf, LastOf, WorkOf, Outcome
  <2> QED
    BY <1>1, <1>2, <2>2 DEF OwnInv, Between, Growing, Open
<1>6. CASE built'[p] = 0
  BY <1>1, <1>2, <1>6, OwesNothing DEF Open
<1> QED
  BY <1>4, <1>5, <1>6

LEMMA OwnStart ==
  ASSUME TypeInv, NEW p \in Processes, Idle(p), built' = [built EXCEPT ![p] = 0],
         NEW v \in Versions, process' = Start(p, v), UNCHANGED handle
  PROVE  OwnInv(p)'
<1>1. TypeOK /\ process \in [Processes -> Runs] /\ built \in [Processes -> Versions \cup {0}]
  BY DEF TypeInv, TypeOK
<1>2. built'[p] = 0 /\ process'[p].at = 1 /\ ~handle'[p].open
  BY <1>1, IdleClosed DEF Start, Open
<1> QED
  BY <1>2, OwesNothing

LEMMA OwnFailure ==
  ASSUME TypeInv, NEW p \in Processes, OwnInv(p), UNCHANGED built,
         \/ (Refuse(p) \/ IoFails(p)) /\ UNCHANGED handle
         \/ (WriteFails(p) \/ Kill(p)) /\ handle' = [handle EXCEPT ![p] = Closed]
  PROVE  OwnInv(p)'
<1>1. /\ TypeOK /\ process \in [Processes -> Runs] /\ handle \in [Processes -> Handles]
  BY DEF TypeInv, TypeOK
<1>2. process[p].busy
  <2>1. CASE Refuse(p) \/ IoFails(p)
    BY <2>1 DEF Refuse, IoFails, At
  <2>2. CASE WriteFails(p) \/ Kill(p)
    BY <1>1, <2>2 DEF WriteFails, Kill, TypeOK, Writing, Idle
  <2> QED
    BY <2>1, <2>2
<1>3. built'[p] = 0
  BY <1>2, BusyUnbuilt
<1>4. ~handle'[p].open
  BY <1>1, AtTask, ClosedTyped DEF Refuse, IoFails, Open
<1>5. ~process'[p].busy \/ process'[p].failed
  <2>1. process' = Fail(p) \/ process' = Stop(p)
    BY DEF Refuse, IoFails, WriteFails, Kill
  <2>2. CASE process' = Fail(p)
    <3>1. process'[p] = [process[p] EXCEPT !.at = @ + 1, !.failed = TRUE]
      BY <1>1, <2>2 DEF Fail
    <3> QED
      BY <1>1, <3>1 DEF Runs
  <2>3. CASE process' = Stop(p)
    <3>1. process'[p] = [process[p] EXCEPT !.busy = FALSE]
      BY <1>1, <2>3 DEF Stop
    <3> QED
      BY <1>1, <3>1 DEF Runs
  <2> QED
    BY <2>1, <2>2, <2>3
<1> QED
  BY <1>3, <1>4, <1>5, OwesNothing

LEMMA OwnNext ==
  ASSUME TypeInv, NEW p \in Processes, Sole(p), OwnInv(p), [Next]_vars
  PROVE  OwnInv(p)'
<1>1. /\ TypeOK /\ process \in [Processes -> Runs] /\ built \in [Processes -> Versions \cup {0}]
      /\ \A q \in Processes : process[q].version \in Versions
      /\ source \in Versions /\ Exporter \in Processes /\ Builders \subseteq Processes
  BY ProcessTyped DEF TypeInv, TypeOK, Processes
<1>2. CASE Edit \/ Commit \/ UNCHANGED vars
  BY <1>2, OwnStill DEF Edit, Commit, vars
<1>3. CASE StartExport
  <2>1. PICK b \in Builders : built[b] # 0 /\ process' = Start(Exporter, built[b])
    BY <1>3 DEF StartExport
  <2>2. /\ built[b] \in Versions /\ Idle(Exporter) /\ UNCHANGED <<file, handle>>
        /\ built' = [built EXCEPT ![Exporter] = 0]
    BY <1>1, <1>3, <2>1 DEF StartExport
  <2>3. CASE p = Exporter
    BY <2>1, <2>2, <2>3, OwnStart
  <2>4. CASE p # Exporter
    <3>1. process'[p] = process[p] /\ built'[p] = built[p]
      BY <1>1, <2>1, <2>2, <2>4 DEF Start
    <3> QED
      BY <2>2, <3>1, OwnStill
  <2> QED
    BY <2>3, <2>4
<1>4. ASSUME NEW b \in Builders, StartBuild(b) PROVE OwnInv(p)'
  <2>1. /\ Idle(b) /\ UNCHANGED <<file, handle>> /\ built' = [built EXCEPT ![b] = 0]
        /\ process' = Start(b, source)
    BY <1>4 DEF StartBuild
  <2>2. CASE p = b
    BY <1>1, <2>1, <2>2, OwnStart
  <2>3. CASE p # b
    <3>1. process'[p] = process[p] /\ built'[p] = built[p]
      BY <1>1, <2>1, <2>3 DEF Start
    <3> QED
      BY <2>1, <3>1, OwnStill
  <2> QED
    BY <2>2, <2>3
<1>5. ASSUME NEW q \in Processes, Step(q) \/ IoFails(q) \/ WriteFails(q) \/ Kill(q)
      PROVE  OwnInv(p)'
  <2>1. CASE q # p
    BY <1>5, <2>1, OthersLeaveIt
  <2>2. CASE q = p /\ RemoveStale(p)
    BY <2>2, OnlyBuildersRemove, OwnRemoveStale
  <2>3. CASE q = p /\ (Refuse(p) \/ IoFails(p))
    BY <2>3, OwnFailure DEF Refuse, IoFails
  <2>4. CASE q = p /\ (WriteFails(p) \/ Kill(p))
    BY <2>4, OwnFailure DEF WriteFails, Kill
  <2> QED
    BY <1>5, <2>1, <2>2, <2>3, <2>4, OwnOpenFile, OwnWrite, OwnFinish DEF Step
<1> QED
  BY <1>2, <1>3, <1>4, <1>5 DEF Next

LEMMA OwnInit ==
  ASSUME Init, NEW p \in Processes
  PROVE  OwnInv(p)
BY ClosedTyped DEF Init, OwnInv, Succeeded, Between, Growing, Open
-----------------------------------------------------------------------------
(* A build that succeeds has left the artifact of its version, that of the *)
(* witness expanded last: with one builder, whatever errors, kills and     *)
(* invalid versions there have been, and whatever the exporter does.       *)
THEOREM SuccessIsTrue ==
  ASSUME \A b, c \in Builders : b = c, ExportPath # IdlPath
  PROVE  Spec => []SuccessLeavesArtifact
<1>1. Builders = {Release}
  BY LifecycleAssumption
<1>2. Release \in Processes /\ Release # Exporter /\ PathOf(Release) = IdlPath
  BY <1>1, LifecycleAssumption DEF Processes, PathOf
<1>3. Sole(Release)
  BY <1>1, <1>2 DEF Sole, Processes, PathOf
<1>4. OwnInv(Release) => SuccessLeavesArtifact
  BY <1>1, <1>2 DEF OwnInv, Succeeded, SuccessLeavesArtifact, Outcome, LastOf, WorkOf, Demands
<1>5. Init => OwnInv(Release)
  BY <1>2, OwnInit
<1>6. TypeInv /\ OwnInv(Release) /\ [Next]_vars => OwnInv(Release)'
  BY <1>2, <1>3, OwnNext
<1> QED
  BY <1>4, <1>5, <1>6, TypeInvariant, PTL DEF Spec

LEMMA CommitmentNext ==
  ASSUME CommitmentMatchesBinary, OwnInv(Exporter), [Next]_vars
  PROVE  CommitmentMatchesBinary'
<1>1. CASE Commit
  <2> DEFINE v == built[Release]
  <2>1. CASE Crate[v].recursive
    <3>1. built[Exporter] = v /\ v # 0
      BY <1>1, <2>1 DEF Commit
    <3>2. commitment' = [version |-> v, bytes |-> file[ExportPath]]
      BY <1>1, <2>1, <3>1 DEF Commit
    <3>3. file[ExportPath] = Whole(Crate[v].doc)
      BY <3>1 DEF OwnInv, Succeeded, PathOf, WorkOf, LastOf, Outcome, Task
    <3> QED
      BY <3>2, <3>3 DEF CommitmentMatchesBinary, Whole, Block
  <2>2. CASE ~Crate[v].recursive
    <3>1. commitment'.version = v
      BY <1>1 DEF Commit
    <3> QED
      BY <2>2, <3>1 DEF CommitmentMatchesBinary
  <2> QED
    BY <2>1, <2>2
<1>2. CASE ~Commit
  <2>1. UNCHANGED commitment
    BY <1>2 DEF Next, Step, Edit, StartExport, StartBuild, Refuse, OpenFile, Write, RemoveStale,
                Finish, IoFails, WriteFails, Kill, vars
  <2> QED
    BY <2>1 DEF CommitmentMatchesBinary, NotDeployed
<1> QED
  BY <1>1, <1>2

(* README.md:161-167: what is committed next to the binary of a recursive  *)
(* witness is the complete document of the version it was built from, for  *)
(* any number of background builds, if the exporter is given a path of its *)
(* own.                                                                    *)
THEOREM ReleaseIsWhole ==
  ASSUME ExportPath # IdlPath
  PROVE  Spec => []CommitmentMatchesBinary
<1>1. Exporter \in Processes /\ Sole(Exporter)
  BY DEF Sole, Processes, PathOf
<1>2. Init => CommitmentMatchesBinary
  BY DEF Init, CommitmentMatchesBinary
<1>3. CommitmentMatchesBinary /\ OwnInv(Exporter) /\ [Next]_vars => CommitmentMatchesBinary'
  BY CommitmentNext
<1>4. Init => OwnInv(Exporter)
  BY <1>1, OwnInit
<1>5. TypeInv /\ OwnInv(Exporter) /\ [Next]_vars => OwnInv(Exporter)'
  BY <1>1, OwnNext
<1> QED
  BY <1>2, <1>3, <1>4, <1>5, TypeInvariant, PTL DEF Spec
-----------------------------------------------------------------------------
(* The file of a single builder implements IdlRegister.                    *)

(* The versions a builder has come to are in the order of the history.     *)
Ordered(b) ==
  /\ touched <= source /\ process[b].version <= source
  /\ process[b].busy => touched <= process[b].version
  /\ Open(b) => touched = process[b].version

Numbers == source \in Nat /\ touched \in Nat /\ \A p \in Processes : process[p].version \in Nat

LEMMA VersionsNumbered == TypeInv => Numbers
<1> SUFFICES ASSUME TypeInv PROVE Numbers
  OBVIOUS
<1>1. \A v \in Versions : v \in Nat
  BY LifecycleAssumption
<1>2. \A p \in Processes : process[p].version \in Versions
  BY ProcessTyped DEF TypeInv
<1>3. source \in Versions /\ touched \in Versions \cup {0}
  BY DEF TypeInv, TypeOK
<1> QED
  BY <1>1, <1>2, <1>3 DEF Numbers

LEMMA OrderedNext ==
  ASSUME TypeInv, NEW b \in Processes, Builders = {b}, b # Exporter, PathOf(Exporter) # IdlPath,
         Ordered(b), [Next]_vars
  PROVE  Ordered(b)'
<1>1. /\ TypeOK /\ Numbers /\ process \in [Processes -> Runs]
      /\ handle \in [Processes -> Handles]
      /\ \A p \in Processes : p = b \/ p = Exporter
  BY VersionsNumbered DEF TypeInv, TypeOK, Processes
<1>2. ASSUME UNCHANGED touched, source' \in Nat, source' >= source, process'[b].version = process[b].version,
             process'[b].busy => process[b].busy, handle'[b].open => handle[b].open
      PROVE  Ordered(b)'
  BY <1>1, <1>2 DEF Ordered, Numbers, Open
<1>3. CASE Edit
  BY <1>1, <1>2, <1>3 DEF Edit, Numbers
<1>4. CASE Commit \/ UNCHANGED vars
  BY <1>1, <1>2, <1>4 DEF Commit, vars, Numbers
<1>5. CASE StartExport
  <2>1. process'[b] = process[b]
    BY <1>1, <1>5 DEF StartExport, Start
  <2> QED
    BY <1>1, <1>2, <1>5, <2>1 DEF StartExport, Numbers
<1>6. CASE StartBuild(b)
  <2>1. /\ process'[b].version = source /\ UNCHANGED <<source, touched, handle>>
    BY <1>1, <1>6 DEF StartBuild, Start
  <2>2. ~handle'[b].open
    BY <1>1, <1>6, <2>1, IdleClosed DEF StartBuild, Open
  <2> QED
    BY <1>1, <2>1, <2>2 DEF Ordered, Numbers, Open
<1>7. ASSUME NEW p \in Processes, Refuse(p) \/ IoFails(p) \/ Finish(p) PROVE Ordered(b)'
  <2>1. /\ UNCHANGED <<source, touched, handle>>
        /\ process' = Fail(p) \/ process' = Stop(p)
    BY <1>7 DEF Refuse, IoFails, Finish
  <2>2. process'[b].version = process[b].version /\ (process'[b].busy => process[b].busy)
    BY <1>1, <2>1 DEF Fail, Stop, Runs
  <2> QED
    BY <1>1, <1>2, <2>1, <2>2 DEF Numbers
<1>8. ASSUME NEW p \in Processes, WriteFails(p) \/ Kill(p) PROVE Ordered(b)'
  <2>1. /\ UNCHANGED <<source, touched>> /\ handle' = [handle EXCEPT ![p] = Closed]
        /\ process' = Fail(p) \/ process' = Stop(p)
    BY <1>8 DEF WriteFails, Kill
  <2>2. process'[b].version = process[b].version /\ (process'[b].busy => process[b].busy)
    BY <1>1, <2>1 DEF Fail, Stop, Runs
  <2>3. handle'[b].open => handle[b].open
    BY <1>1, <2>1, ClosedTyped
  <2> QED
    BY <1>1, <1>2, <2>1, <2>2, <2>3 DEF Numbers
<1>9. ASSUME NEW p \in Processes, Write(p) PROVE Ordered(b)'
  <2>1. UNCHANGED <<source, touched>> /\ Open(p)
    BY <1>9 DEF Write
  <2>2. process'[b].version = process[b].version /\ (process'[b].busy => process[b].busy)
    <3>1. process' = Done(p) \/ UNCHANGED process
      BY <1>9, WriteStep
    <3> QED
      BY <1>1, <3>1 DEF Done, Runs
  <2>3. handle'[b].open => handle[b].open
    <3>1. p # b => handle'[b] = handle[b]
      BY <1>1, <1>9 DEF Write
    <3> QED
      BY <2>1, <3>1 DEF Open
  <2> QED
    BY <1>1, <1>2, <2>1, <2>2, <2>3 DEF Numbers
<1>10. ASSUME NEW p \in Processes, OpenFile(p) PROVE Ordered(b)'
  <2>1. UNCHANGED <<source, process>> /\ At(p, "flat") /\ Touch(p)
    BY <1>10 DEF OpenFile
  <2>2. CASE p = b
    <3>1. touched' = process[b].version
      BY <2>1, <2>2, <1>1 DEF Touch, PathOf
    <3> QED
      BY <1>1, <2>1, <3>1 DEF Ordered, Numbers, Open
  <2>3. CASE p # b
    <3>1. UNCHANGED touched /\ handle'[b] = handle[b]
      BY <1>1, <1>10, <2>1, <2>3 DEF Touch, OpenFile
    <3> QED
      BY <1>1, <1>2, <2>1, <3>1 DEF Numbers
  <2> QED
    BY <2>2, <2>3
<1>11. ASSUME NEW p \in Processes, RemoveStale(p) PROVE Ordered(b)'
  <2>1. p = b
    BY <1>1, <1>11, OnlyBuildersRemove
  <2>2. /\ UNCHANGED source /\ touched' = process[b].version
        /\ process' = Done(b) /\ At(b, "recursive")
    BY <1>11, <2>1 DEF RemoveStale
  <2>3. process'[b].version = process[b].version
    BY <1>1, <2>2 DEF Done, Runs
  <2>4. ~handle'[b].open
    <3>1. handle'[b] = IF Names(b, IdlPath) THEN [handle[b] EXCEPT !.linked = FALSE] ELSE handle[b]
      BY <1>11 DEF RemoveStale
    <3> QED
      BY <2>2, <3>1 DEF At, Names, Open
  <2> QED
    BY <1>1, <2>2, <2>3, <2>4 DEF Ordered, Numbers, Open
<1> QED
  BY <1>3, <1>4, <1>5, <1>6, <1>7, <1>8, <1>9, <1>10, <1>11 DEF Next, Step

(* What a reader sees of the bytes of a file. *)
LEMMA ContentAbsent == ContentOf(Absent) = "absent"
BY DEF ContentOf

LEMMA ContentWhole ==
  ASSUME NEW doc \in Docs
  PROVE  ContentOf(Whole(doc)) = doc
<1>1. \A d \in Docs : Size[d] \in Nat \ {0}
  BY LifecycleAssumption
<1>2. \A d \in Docs : Whole(d)[1] = <<d, 1>>
  BY <1>1 DEF Whole, Block
<1>3. \A d \in Docs : Whole(doc) = Whole(d) => d = doc
  <2> SUFFICES ASSUME NEW d \in Docs, Whole(doc) = Whole(d) PROVE d = doc
    OBVIOUS
  <2>1. <<d, 1>> = <<doc, 1>>
    BY <1>2
  <2> QED
    BY <2>1
<1>4. Whole(doc) # Absent
  BY <1>2 DEF Absent
<1>5. (CHOOSE d \in Docs : Whole(doc) = Whole(d)) = doc
  BY <1>3
<1> QED
  BY <1>4, <1>5 DEF ContentOf

LEMMA ContentTorn ==
  ASSUME NEW doc \in Docs, NEW off \in Nat, off < Size[doc], NEW bytes, bytes # Absent,
         bytes = [i \in 1 .. off |-> Block(doc, i)]
  PROVE  ContentOf(bytes) = "torn"
<1>1. \A d \in Docs : Size[d] \in Nat \ {0}
  BY LifecycleAssumption
<1>2. ASSUME NEW d \in Docs, bytes = Whole(d) PROVE FALSE
  <2>1. Len(Whole(d)) = Size[d] /\ Whole(d)[1] = <<d, 1>>
    BY <1>1 DEF Whole, Block
  <2>2. Len(bytes) = off
    OBVIOUS
  <2>3. off >= 1 /\ bytes[1] = <<doc, 1>>
    BY <1>1, <1>2, <2>1, <2>2 DEF Block
  <2>4. d = doc
    BY <1>2, <2>1, <2>3
  <2> QED
    BY <1>1, <1>2, <2>1, <2>2, <2>4
<1> QED
  BY <1>2 DEF ContentOf

(* While p has its file open, it shows no version.                         *)
LEMMA OpenIsTorn ==
  ASSUME TypeInv, NEW p \in Processes, OwnInv(p), Open(p)
  PROVE  ContentOf(file[PathOf(p)]) = "torn"
<1> DEFINE path == PathOf(p)
<1>1. /\ Writing(p) /\ handle[p] \in Handles /\ path \in Paths
      /\ file[path] \in Seq(Blocks) \cup {Absent}
  BY ProcessTyped DEF TypeInv, TypeOK
<1>2. /\ handle[p].doc \in Docs /\ handle[p].off < Size[handle[p].doc] /\ handle[p].off \in Nat
      /\ handle[p].path = path
  BY <1>1 DEF Writing, Handles
<1>3. /\ handle[p].linked /\ Len(file[path]) = handle[p].off
      /\ \A i \in 1 .. handle[p].off : file[path][i] = Block(handle[p].doc, i)
  BY DEF OwnInv, Growing
<1>4. file[path] # Absent
  <2>1. p \in Writers(path)
    BY <1>2, <1>3 DEF Writers, Names
  <2> QED
    BY <1>1, <2>1 DEF TypeInv, WrittenExists
<1>5. file[path] = [i \in 1 .. handle[p].off |-> Block(handle[p].doc, i)]
  BY <1>1, <1>3, <1>4
<1> QED
  BY <1>2, <1>4, <1>5, ContentTorn

(* What the mapped register may do in a step. *)
RegisterStep == [Register!Next]_<<source, touched, ContentOf(file[IdlPath])>>

Shown == ContentOf(file[IdlPath])

LEMMA RegisterOpen ==
  ASSUME TypeInv, NEW b \in Processes, b # Exporter, OwnInv(b), Ordered(b), OpenFile(b)
  PROVE  RegisterStep
<1> DEFINE v == process[b].version
<1>1. /\ At(b, "flat") /\ Touch(b) /\ UNCHANGED <<source, process>> /\ PathOf(b) = IdlPath
      /\ TypeOK /\ handle \in [Processes -> Handles]
  BY DEF OpenFile, PathOf, TypeInv, TypeOK
<1>2. v \in HasTask("flat")
  <2>1. v \in Versions /\ Work(b) = Crate[v].derives /\ Work(b) \in Seq(Tasks)
    BY <1>1, ProcessTyped DEF Work, WorkOf
  <2>2. process[b].at \in 1 .. Len(Work(b)) /\ Work(b)[process[b].at].kind = "flat"
    BY <1>1, AtTask
  <2>3. process[b].at \in DOMAIN Work(b)
    BY <2>1, <2>2, LenProperties
  <2> QED
    BY <2>1, <2>2, <2>3 DEF HasTask
<1>3. touched' = v
  BY <1>1 DEF Touch
<1>4. v \in touched .. source
  BY <1>1, VersionsNumbered DEF Ordered, Numbers, At
<1>5. file'[IdlPath] = << >>
  BY <1>1 DEF OpenFile, TypeOK, Paths
<1>6. Shown' = "torn"
  <2>1. PICK doc \in Docs : Size[doc] > 0
    BY <1>1, AtTask, LifecycleAssumption
  <2>2. << >> = [i \in 1 .. 0 |-> Block(doc, i)] /\ << >> # Absent
    BY DEF Absent
  <2>3. ContentOf(<< >>) = "torn"
    BY <2>1, <2>2, ContentTorn
  <2> QED
    BY <1>5, <2>3 DEF Shown
<1> QED
  BY <1>1, <1>2, <1>3, <1>4, <1>6
     DEF RegisterStep, Shown, Register!Next, Register!BeginWriting, Register!Come, Register!Torn

LEMMA RegisterWrite ==
  ASSUME TypeInv, NEW b \in Processes, b # Exporter, OwnInv(b), Ordered(b), Write(b)
  PROVE  RegisterStep
<1> DEFINE h == handle[b]
           v == process[b].version
<1>1. /\ UNCHANGED <<source, touched>> /\ PathOf(b) = IdlPath /\ Open(b) /\ Writing(b) /\ TypeOK
      /\ h.doc \in Docs /\ h.off \in Nat /\ Size[h.doc] \in Nat \ {0}
  BY WriteStep DEF Write, PathOf, TypeInv, TypeOK
<1>2. Shown = "torn"
  BY <1>1, OpenIsTorn DEF Shown
<1>3. PICK n \in Nat \ {0} :
        /\ h.off + n <= Size[h.doc]
        /\ file' = IF h.linked
                   THEN [file EXCEPT ![h.path] = WriteBlocks(@, h.doc, h.off, n)] ELSE file
        /\ \/ /\ h.off + n = Size[h.doc]
              /\ handle' = [handle EXCEPT ![b] = Closed] /\ process' = Done(b)
           \/ /\ h.off + n < Size[h.doc]
              /\ handle' = [handle EXCEPT ![b].off = @ + n] /\ UNCHANGED process
  BY WriteStep
<1>4. file'[IdlPath] = [i \in 1 .. h.off + n |-> Block(h.doc, i)]
  BY <1>1, <1>3, GrowsBy
<1>5. CASE h.off + n < Size[h.doc]
  <2>1. h.off + n \in Nat /\ h.off + n >= 1
    BY <1>1
  <2>2. file'[IdlPath] # Absent
    <3>1. file'[IdlPath][1] = <<h.doc, 1>>
      BY <1>4, <2>1 DEF Block
    <3> QED
      BY <3>1 DEF Absent
  <2>3. ContentOf(file'[IdlPath]) = "torn"
    BY <1>1, <1>4, <1>5, <2>1, <2>2, ContentTorn
  <2> QED
    BY <1>1, <1>2, <2>3 DEF RegisterStep, Shown
<1>6. CASE h.off + n = Size[h.doc]
  <2>1. file'[IdlPath] = Whole(h.doc)
    BY <1>4, <1>6 DEF Whole
  <2>2. ContentOf(file'[IdlPath]) = h.doc
    BY <1>1, <2>1, ContentWhole
  <2>3. touched = v /\ v \in Versions
    BY <1>1, ProcessTyped DEF Ordered
  <2>4. h.doc \in FlatDocs(v)
    <3>1. Work(b) = Crate[v].derives /\ Work(b) \in Seq(Tasks)
      BY <1>1, ProcessTyped DEF Work, WorkOf
    <3>2. process[b].at \in DOMAIN Work(b)
      BY <1>1, <3>1, LenProperties DEF Writing
    <3> QED
      BY <1>1, <3>1, <3>2 DEF FlatDocs, Writing
  <2> QED
    BY <1>1, <1>2, <2>2, <2>3, <2>4
       DEF RegisterStep, Shown, Register!Next, Register!FinishWriting, Register!Torn
<1> QED
  BY <1>3, <1>5, <1>6

LEMMA RegisterRemove ==
  ASSUME TypeInv, NEW b \in Processes, b # Exporter, Ordered(b), RemoveStale(b)
  PROVE  RegisterStep
<1> DEFINE v == process[b].version
<1>1. /\ At(b, "recursive") /\ TypeOK /\ UNCHANGED source /\ touched' = v
  BY DEF RemoveStale, TypeInv
<1>2. v \in HasTask("recursive")
  <2>1. v \in Versions /\ Work(b) = Crate[v].derives /\ Work(b) \in Seq(Tasks)
    BY <1>1, ProcessTyped DEF Work, WorkOf
  <2>2. process[b].at \in 1 .. Len(Work(b)) /\ Work(b)[process[b].at].kind = "recursive"
    BY <1>1, AtTask
  <2>3. process[b].at \in DOMAIN Work(b)
    BY <2>1, <2>2, LenProperties
  <2> QED
    BY <2>1, <2>2, <2>3 DEF HasTask
<1>3. v \in touched .. source
  BY <1>1, VersionsNumbered DEF Ordered, Numbers, At
<1>4. file'[IdlPath] = Absent
  BY <1>1 DEF RemoveStale, TypeOK, Paths
<1>5. ContentOf(file'[IdlPath]) = "absent"
  BY <1>4, ContentAbsent
<1> QED
  BY <1>1, <1>2, <1>3, <1>5
     DEF RegisterStep, Register!Next, Register!Remove, Register!Come, Register!Absent

LEMMA RegisterNext ==
  ASSUME TypeInv, NEW b \in Processes, Builders = {b}, b # Exporter, PathOf(Exporter) # IdlPath,
         OwnInv(b), Ordered(b), [Next]_vars
  PROVE  RegisterStep
<1>1. TypeOK /\ \A p \in Processes : p = b \/ p = Exporter
  BY DEF TypeInv, Processes
<1>2. ASSUME UNCHANGED <<source, touched>>, file'[IdlPath] = file[IdlPath]
      PROVE  RegisterStep
  BY <1>2 DEF RegisterStep
<1>3. CASE Edit
  <2>1. source' = source + 1 /\ source < Len(Crate) /\ UNCHANGED <<touched, file>>
    BY <1>1, <1>3, LifecycleAssumption DEF Edit, TypeOK
  <2> QED
    BY <2>1 DEF RegisterStep, Register!Next, Register!Edit
<1>4. CASE StartExport \/ Commit \/ StartBuild(b) \/ UNCHANGED vars
  BY <1>2, <1>4 DEF StartExport, Commit, StartBuild, vars
<1>5. ASSUME NEW p \in Processes,
             Refuse(p) \/ Finish(p) \/ IoFails(p) \/ WriteFails(p) \/ Kill(p)
      PROVE  RegisterStep
  BY <1>2, <1>5 DEF Refuse, Finish, IoFails, WriteFails, Kill
<1>6. ASSUME NEW p \in Processes, OpenFile(p) PROVE RegisterStep
  <2>1. CASE p = b
    BY <1>6, <2>1, RegisterOpen
  <2>2. CASE p = Exporter
    <3>1. UNCHANGED <<source, touched>> /\ file'[IdlPath] = file[IdlPath]
      BY <1>1, <1>6, <2>2 DEF OpenFile, Touch, TypeOK, Paths
    <3> QED
      BY <1>2, <3>1
  <2> QED
    BY <1>1, <2>1, <2>2
<1>7. ASSUME NEW p \in Processes, Write(p) PROVE RegisterStep
  <2>1. CASE p = b
    BY <1>7, <2>1, RegisterWrite
  <2>2. CASE p = Exporter
    <3>1. handle[p].path # IdlPath
      BY <1>7, <2>2, WriteStep
    <3>2. UNCHANGED <<source, touched>> /\ file'[IdlPath] = file[IdlPath]
      BY <1>1, <1>7, <3>1 DEF Write, TypeOK, Paths
    <3> QED
      BY <1>2, <3>2
  <2> QED
    BY <1>1, <2>1, <2>2
<1>8. ASSUME NEW p \in Processes, RemoveStale(p) PROVE RegisterStep
  BY <1>1, <1>8, OnlyBuildersRemove, RegisterRemove
<1> QED
  BY <1>3, <1>4, <1>5, <1>6, <1>7, <1>8 DEF Next, Step

(* With one builder, idl.json is a register of the versions: whatever      *)
(* fails or is killed, a step of the processes shows as a step of the      *)
(* register, or not at all.                                                *)
THEOREM FileIsRegister ==
  ASSUME \A b, c \in Builders : b = c, ExportPath # IdlPath
  PROVE  Spec => ImplementsRegister
<1> DEFINE b == Release
<1>1. Builders = {b} /\ b \in Processes /\ b # Exporter /\ PathOf(Exporter) # IdlPath
  BY LifecycleAssumption DEF Processes, PathOf
<1>2. Sole(b)
  BY <1>1 DEF Sole, Processes, PathOf
<1>3. Init => OwnInv(b) /\ Ordered(b)
  <2>1. Init => Ordered(b)
    BY <1>1, ClosedTyped DEF Init, Ordered, Open
  <2> QED
    BY <1>1, <2>1, OwnInit
<1>4. TypeInv /\ OwnInv(b) /\ Ordered(b) /\ [Next]_vars => OwnInv(b)' /\ Ordered(b)'
  BY <1>1, <1>2, OwnNext, OrderedNext
<1>5. TypeInv /\ OwnInv(b) /\ Ordered(b) /\ [Next]_vars =>
        [Register!Next]_<<source, touched, ContentOf(file[IdlPath])>>
  BY <1>1, RegisterNext DEF RegisterStep
<1>6. Init => Register!Init
  BY ContentAbsent DEF Init, Paths, Register!Init, Register!Absent
<1> QED
  BY <1>3, <1>4, <1>5, <1>6, TypeInvariant, PTL DEF Spec, ImplementsRegister, Register!Spec
=============================================================================
