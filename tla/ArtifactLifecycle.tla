------------------------- MODULE ArtifactLifecycle -------------------------
(***************************************************************************)
(* The life of the IDL artifact.  Every expansion of a CkbWitness derive   *)
(* writes, or removes, the one file idl.json of its crate (io.rs); cargo   *)
(* and rust-analyzer expand the derives in processes of their own; the     *)
(* exporter writes a file the user names; a deployer reads one of the two  *)
(* once, and commits to the bytes next to the binary (external, README.md).*)
(*                                                                         *)
(* fs::write creates or truncates the file and then writes the document,   *)
(* in as many calls as it takes.  A document is a sequence of blocks; the  *)
(* offset belongs to the writer, the contents to the file, and a file that *)
(* is removed while it is open lives on under no name.                     *)
(***************************************************************************)
EXTENDS Integers, Sequences

CONSTANTS
  Builders,    \* the processes that expand derives
  Exporter,    \* the host process made by export_idl_main!
  Release,     \* the builder whose binary is deployed
  Crate,       \* the history of the source: [derives, compiles, recursive, doc]
  Size,        \* document -> the number of its blocks
  IdlPath,     \* CARGO_MANIFEST_DIR/idl.json
  ExportPath,  \* the path given to the exporter
  MaxMishaps   \* bound: how often a process is killed or a call fails

VARIABLES
  source,      \* the version of the source in the editor
  file,        \* path -> the blocks of the file, or Absent
  process,     \* [busy, version, at, failed]: what each process is doing
  handle,      \* process -> the file it is writing, if it is open
  built,       \* process -> the version its last run succeeded on, or 0
  commitment,  \* what has been deployed: [version, bytes]
  mishaps,     \* how many there have been
  overlap,     \* history: path -> the documents of the writes that overlap
               \* the last one, and whether one of them was cut short
  touched      \* history: the version that last opened or removed idl.json

vars == <<source, file, process, handle, built, commitment, mishaps, overlap, touched>>

Processes == Builders \cup {Exporter}
Paths     == {IdlPath, ExportPath}
Docs      == DOMAIN Size
Versions  == DOMAIN Crate

Tasks     == [kind : {"flat", "recursive", "invalid"}, doc : Docs]

ASSUME LifecycleAssumption ==
  /\ Exporter \notin Builders /\ Release \in Builders
  /\ Size \in [Docs -> Nat \ {0}] /\ MaxMishaps \in Nat
  /\ Len(Crate) \in Nat \ {0} /\ Versions = 1 .. Len(Crate)
  /\ \A v \in Versions :
       /\ Crate[v].doc \in Docs
       /\ Crate[v].derives \in Seq(Tasks) /\ Crate[v].derives # << >>

Block(doc, i) == <<doc, i>>
Hole          == <<"zeros", 0>>
Whole(doc)    == [i \in 1 .. Size[doc] |-> Block(doc, i)]
Absent        == <<<<"absent", 0>>>>
Closed        == [open |-> FALSE, path |-> IdlPath, doc |-> "none", off |-> 0, linked |-> FALSE]
NotDeployed   == [version |-> 0, bytes |-> Absent]

Opened(path, doc) == [open |-> TRUE, path |-> path, doc |-> doc, off |-> 0, linked |-> TRUE]

Open(p)        == handle[p].open
Names(p, path) == Open(p) /\ handle[p].path = path /\ handle[p].linked
Writers(path)  == {p \in Processes : Names(p, path)}
-----------------------------------------------------------------------------
(* What a process has to do: a builder expands the CkbWitness derives of   *)
(* the version it has read, one after the other; the exporter writes the   *)
(* document of the version it was compiled from.                           *)
Task(kind, doc) == [kind |-> kind, doc |-> doc]

WorkOf(p, v) ==
  IF p = Exporter THEN <<Task("flat", Crate[v].doc)>> ELSE Crate[v].derives

Work(p)   == WorkOf(p, process[p].version)
PathOf(p) == IF p = Exporter THEN ExportPath ELSE IdlPath

Idle(p)    == ~process[p].busy
Ended(p)   == process[p].busy /\ ~Open(p) /\ process[p].at > Len(Work(p))
At(p, kind) ==
  /\ process[p].busy /\ ~Open(p)
  /\ process[p].at <= Len(Work(p))
  /\ Work(p)[process[p].at].kind = kind

Start(p, v) == [process EXCEPT ![p] = [busy |-> TRUE, version |-> v, at |-> 1, failed |-> FALSE]]
Done(p)     == [process EXCEPT ![p].at = @ + 1]
Fail(p)     == [process EXCEPT ![p].at = @ + 1, ![p].failed = TRUE]
Stop(p)     == [process EXCEPT ![p].busy = FALSE]

Touch(p) == touched' = IF PathOf(p) = IdlPath THEN process[p].version ELSE touched

Mishap == mishaps < MaxMishaps /\ mishaps' = mishaps + 1

(* Closing a file before the document is written cuts the write short.     *)
CutShort(p) ==
  overlap' = [path \in Paths |->
                IF Names(p, path) THEN [overlap[path] EXCEPT !.cut = TRUE] ELSE overlap[path]]

-----------------------------------------------------------------------------
Init ==
  /\ source = 1
  /\ file = [path \in Paths |-> Absent]
  /\ process = [p \in Processes |-> [busy |-> FALSE, version |-> 1, at |-> 1, failed |-> FALSE]]
  /\ handle = [p \in Processes |-> Closed]
  /\ built = [p \in Processes |-> 0]
  /\ commitment = NotDeployed
  /\ mishaps = 0
  /\ overlap = [path \in Paths |-> [docs |-> {}, cut |-> FALSE]]
  /\ touched = 0

(* The author saves the next version (external). *)
Edit ==
  /\ source + 1 \in Versions /\ source' = source + 1
  /\ UNCHANGED <<file, process, handle, built, commitment, mishaps, overlap, touched>>

(* A build reads the source as it is now (external: cargo, rust-analyzer). *)
StartBuild(b) ==
  /\ Idle(b)
  /\ process' = Start(b, source)
  /\ built' = [built EXCEPT ![b] = 0]
  /\ UNCHANGED <<source, file, handle, commitment, mishaps, overlap, touched>>

(* cargo run --example export_idl: on a version that has compiled.         *)
StartExport ==
  /\ Idle(Exporter)
  /\ \E b \in Builders : built[b] # 0 /\ process' = Start(Exporter, built[b])
  /\ built' = [built EXCEPT ![Exporter] = 0]
  /\ UNCHANGED <<source, file, handle, commitment, mishaps, overlap, touched>>

(* The derive fails before it touches the file: validation, or no          *)
(* CARGO_MANIFEST_DIR.                                                     *)
Refuse(p) ==
  /\ At(p, "invalid")
  /\ process' = Fail(p)
  /\ UNCHANGED <<source, file, handle, built, commitment, mishaps, overlap, touched>>

(* Mutant: the file is opened without being truncated.                     *)
OpenFileKeeping(p) ==
  /\ At(p, "flat")
  /\ LET path  == PathOf(p)
         doc   == Work(p)[process[p].at].doc
         first == Writers(path) = {}
     IN  /\ file' = [file EXCEPT ![path] = IF @ = Absent THEN << >> ELSE @]
         /\ handle' = [handle EXCEPT ![p] = Opened(path, doc)]
         /\ overlap' = [overlap EXCEPT ![path] =
                          IF first THEN [docs |-> {doc}, cut |-> FALSE]
                          ELSE [docs |-> @.docs \cup {doc}, cut |-> @.cut]]
  /\ Touch(p)
  /\ UNCHANGED <<source, process, built, commitment, mishaps>>

(* write_idl and export_to_path, into fs::write: File::create. *)
OpenFile(p) ==
  /\ At(p, "flat")
  /\ LET path  == PathOf(p)
         doc   == Work(p)[process[p].at].doc
         first == Writers(path) = {}
     IN  /\ file' = [file EXCEPT ![path] = << >>]
         /\ handle' = [handle EXCEPT ![p] = Opened(path, doc)]
         /\ overlap' = [overlap EXCEPT ![path] =
                          IF first THEN [docs |-> {doc}, cut |-> FALSE]
                          ELSE [docs |-> @.docs \cup {doc}, cut |-> @.cut]]
  /\ Touch(p)
  /\ UNCHANGED <<source, process, built, commitment, mishaps>>

Longer(m, n) == IF m > n THEN m ELSE n

(* Mutant: the blocks are appended to what is there.                       *)
AppendBlocks(blocks, doc, off, n) ==
  blocks \o [i \in 1 .. n |-> Block(doc, off + i)]

(* n blocks of doc written at offset off.                                  *)
WriteBlocks(blocks, doc, off, n) ==
  [i \in 1 .. Longer(Len(blocks), off + n) |->
     IF i \in off + 1 .. off + n THEN Block(doc, i)
     ELSE IF i <= Len(blocks) THEN blocks[i] ELSE Hole]

(* Mutant: one more write is attempted after the last block.               *)
WriteOnceMore(p) ==
  /\ Open(p)
  /\ LET h == handle[p]
     IN  \E n \in 1 .. Size[h.doc] - h.off :
           /\ file' = IF h.linked
                      THEN [file EXCEPT ![h.path] = WriteBlocks(@, h.doc, h.off, n)] ELSE file
           /\ handle' = [handle EXCEPT ![p].off = @ + n] /\ UNCHANGED process
  /\ UNCHANGED <<source, built, commitment, mishaps, overlap, touched>>

(* write_all: some of the blocks that are left; the last ones close the    *)
(* file, and the derive (or the exporter) has succeeded.                   *)
Write(p) ==
  /\ Open(p)
  /\ LET h == handle[p]
     IN  \E n \in 1 .. Size[h.doc] - h.off :
           /\ file' = IF h.linked
                      THEN [file EXCEPT ![h.path] = WriteBlocks(@, h.doc, h.off, n)] ELSE file
           /\ IF h.off + n = Size[h.doc]
              THEN handle' = [handle EXCEPT ![p] = Closed] /\ process' = Done(p)
              ELSE handle' = [handle EXCEPT ![p].off = @ + n] /\ UNCHANGED process
  /\ UNCHANGED <<source, built, commitment, mishaps, overlap, touched>>

(* Mutant: the file of a recursive witness is emptied, not removed.        *)
RemoveStaleTruncating(p) ==
  /\ At(p, "recursive")
  /\ file' = [file EXCEPT ![IdlPath] = IF @ = Absent THEN @ ELSE << >>]
  /\ process' = Done(p)
  /\ touched' = process[p].version
  /\ UNCHANGED <<source, handle, built, commitment, mishaps, overlap>>

(* remove_stale_idl: a file that is not there is as good as removed.       *)
RemoveStale(p) ==
  /\ At(p, "recursive")
  /\ file' = [file EXCEPT ![IdlPath] = Absent]
  /\ handle' = [q \in Processes |->
                  IF Names(q, IdlPath) THEN [handle[q] EXCEPT !.linked = FALSE] ELSE handle[q]]
  /\ process' = Done(p)
  /\ touched' = process[p].version
  /\ UNCHANGED <<source, built, commitment, mishaps, overlap>>

(* Mutant: the result of the call is dropped.                              *)
IoErrorIgnored(p) ==
  /\ At(p, "flat") \/ At(p, "recursive")
  /\ Mishap
  /\ process' = Done(p)
  /\ UNCHANGED <<source, file, handle, built, commitment, overlap, touched>>

(* create_dir_all, File::create or remove_file fails; the file is as it    *)
(* was.                                                                    *)
IoFails(p) ==
  /\ At(p, "flat") \/ At(p, "recursive")
  /\ Mishap
  /\ process' = Fail(p)
  /\ UNCHANGED <<source, file, handle, built, commitment, overlap, touched>>

(* write_all fails; the file keeps what has been written.                  *)
WriteFails(p) ==
  /\ Open(p)
  /\ Mishap
  /\ CutShort(p)
  /\ handle' = [handle EXCEPT ![p] = Closed]
  /\ process' = Fail(p)
  /\ UNCHANGED <<source, file, built, commitment, touched>>

(* A derive that failed has become a compile error; without one the rest   *)
(* of the crate decides.                                                   *)
Finish(p) ==
  /\ Ended(p)
  /\ LET v  == process[p].version
         ok == ~process[p].failed /\ (p = Exporter \/ Crate[v].compiles)
     IN  built' = [built EXCEPT ![p] = IF ok THEN v ELSE 0]
  /\ process' = Stop(p)
  /\ UNCHANGED <<source, file, handle, commitment, mishaps, overlap, touched>>

Kill(p) ==
  /\ ~Idle(p)
  /\ Mishap
  /\ CutShort(p)
  /\ handle' = [handle EXCEPT ![p] = Closed]
  /\ process' = Stop(p)
  /\ UNCHANGED <<source, file, built, commitment, touched>>

(* The deployer (external, README.md:171-185): the binary of a build that  *)
(* has succeeded, and the artifact that belongs to it, idl.json for a flat *)
(* witness and the file of an export of the same version for a recursive   *)
(* one, read once.                                                         *)
Commit ==
  LET v    == built[Release]
      path == IF v # 0 /\ Crate[v].recursive THEN ExportPath ELSE IdlPath
  IN  /\ v # 0
      /\ Crate[v].recursive => built[Exporter] = v
      /\ file[path] # Absent
      /\ commitment' = [version |-> v, bytes |-> file[path]]
      /\ UNCHANGED <<source, file, process, handle, built, mishaps, overlap, touched>>

Step(p) == Refuse(p) \/ OpenFile(p) \/ Write(p) \/ RemoveStale(p) \/ Finish(p)

Next ==
  \/ Edit \/ StartExport \/ Commit
  \/ \E b \in Builders : StartBuild(b)
  \/ \E p \in Processes : Step(p) \/ IoFails(p) \/ WriteFails(p) \/ Kill(p)

(* A process that has been started goes on; nobody has to edit, to build,  *)
(* to export or to deploy, and nothing has to fail.                        *)
Spec == Init /\ [][Next]_vars /\ \A p \in Processes : WF_vars(Step(p))
-----------------------------------------------------------------------------
Blocks  == (Docs \cup {"zeros"}) \X Nat
Handles == [open : BOOLEAN, path : Paths, doc : Docs \cup {"none"}, off : Nat, linked : BOOLEAN]
Runs    == [busy : BOOLEAN, version : Versions, at : Nat, failed : BOOLEAN]

(* A process that has a file open is at a derive it has to write, with     *)
(* blocks of its document left.                                            *)
Writing(p) ==
  /\ process[p].busy /\ process[p].at \in 1 .. Len(Work(p))
  /\ Work(p)[process[p].at].kind = "flat"
  /\ Work(p)[process[p].at].doc = handle[p].doc
  /\ handle[p].path = PathOf(p)
  /\ handle[p].doc \in Docs /\ handle[p].off < Size[handle[p].doc]

(* The types, and where the processes stand. *)
TypeOK ==
  /\ source \in Versions
  /\ file \in [Paths -> Seq(Blocks) \cup {Absent}]
  /\ process \in [Processes -> Runs]
  /\ handle \in [Processes -> Handles]
  /\ built \in [Processes -> Versions \cup {0}]
  /\ mishaps \in 0 .. MaxMishaps
  /\ overlap \in [Paths -> [docs : SUBSET Docs, cut : BOOLEAN]]
  /\ touched \in Versions \cup {0}
  /\ \A p \in Processes : /\ process[p].at \in 1 .. Len(Work(p)) + 1
                          /\ Open(p) => Writing(p)

(* What a version asks of idl.json: the last of its witnesses decides.     *)
Demands(v) ==
  LET derives == Crate[v].derives
      last    == derives[Len(derives)]
  IN  IF last.kind = "recursive" THEN Absent ELSE Whole(last.doc)

(* io.rs:27: cargo and rust-analyzer write the file at the same time.      *)
(* Whatever the order in which they truncate it and write their blocks, if *)
(* they describe the same witness and none is cut short, the file they     *)
(* leave is the document, or has been removed.                             *)
SameDocumentConverges ==
  \A path \in Paths : \A doc \in Docs :
    Writers(path) = {} /\ overlap[path].docs = {doc} /\ ~overlap[path].cut =>
      file[path] \in {Absent, Whole(doc)}

(* A build that succeeds has left the artifact of its version, that of the *)
(* witness that was expanded last: no error of a call, no invalid version  *)
(* and no kill before it can make a success leave another document, a part *)
(* of one, or a stale one.  For one builder at a time.                     *)
SuccessLeavesArtifact ==
  \A b \in Builders : built[b] # 0 => file[IdlPath] = Demands(built[b])

(* README.md:161-167: the bytes that are committed next to the binary of a *)
(* recursive witness are the complete document of the version it was built *)
(* from, whatever stale or unfinished file another process leaves in       *)
(* idl.json, also after it has been removed.                               *)
CommitmentMatchesBinary ==
  commitment # NotDeployed /\ Crate[commitment.version].recursive =>
    commitment.bytes = Whole(Crate[commitment.version].doc)

Valid(v) == \A i \in DOMAIN Crate[v].derives : Crate[v].derives[i].kind # "invalid"

(* What has been damaged or left behind heals: a build of a valid version  *)
(* that nothing disturbs brings idl.json to what the version asks for,     *)
(* whatever an earlier build, a kill or a failed call has left there.  For *)
(* one builder at a time.                                                  *)
Heals ==
  \A b \in Builders : \A v \in Versions :
    (/\ process[b].busy /\ process[b].at = 1 /\ process[b].version = v
     /\ Valid(v) /\ mishaps = MaxMishaps)
    ~> file[IdlPath] = Demands(v)

LastIsRecursive ==
  \A i \in DOMAIN Crate[Len(Crate)].derives :
    Crate[Len(Crate)].derives[i].kind = "recursive"

(* Nobody builds an older version any more. *)
OnlyLastIsBuilt ==
  /\ source = Len(Crate)
  /\ \A b \in Builders : process[b].busy => process[b].version = source

(* README.md:161: deriving a recursive witness removes what an earlier     *)
(* version has left in idl.json, and for good: a run of rust-analyzer that *)
(* was still writing the old document may put it back after cargo has      *)
(* removed it, but once those runs have ended the next build takes it away *)
(* and no later one, in either process, brings it back.                    *)
StaleFileIsGone ==
  \A b \in Builders :
    (/\ LastIsRecursive /\ OnlyLastIsBuilt
     /\ process[b].busy /\ process[b].at = 1 /\ mishaps = MaxMishaps)
    ~> [](file[IdlPath] = Absent)

(* README.md:176: idl.json is the interface artifact of a flat witness.    *)
(* From the build that succeeds on it until the source is edited, whoever  *)
(* reads the file - the deployer, or a tool by the path constant that the  *)
(* macro has emitted - finds the document of that witness, whatever other  *)
(* witnesses the crate has and other processes expand.                     *)
FlatArtifactInPlace ==
  \A b \in Builders : built[b] = source =>
    \A i \in DOMAIN Crate[source].derives :
      LET derive == Crate[source].derives[i]
      IN  derive.kind = "flat" => file[IdlPath] = Whole(derive.doc)
-----------------------------------------------------------------------------
(* idl.json as a register of versions (IdlRegister). *)
ContentOf(bytes) ==
  IF bytes = Absent THEN "absent"
  ELSE IF \E doc \in Docs : bytes = Whole(doc) THEN CHOOSE doc \in Docs : bytes = Whole(doc)
  ELSE "torn"

HasTask(kind) ==
  {v \in Versions : \E i \in DOMAIN Crate[v].derives : Crate[v].derives[i].kind = kind}

FlatDocs(v) ==
  {Crate[v].derives[i].doc : i \in {j \in DOMAIN Crate[v].derives :
                                      Crate[v].derives[j].kind = "flat"}}

Register == INSTANCE IdlRegister WITH
  Last     <- Len(Crate),
  Docs     <- [v \in Versions |-> FlatDocs(v)],
  Publish  <- HasTask("flat"),
  Withdraw <- HasTask("recursive"),
  version  <- touched,
  content  <- ContentOf(file[IdlPath])

(* With one builder the file, written in place block by block, implements  *)
(* the register: it never goes back to an earlier version, and shows a     *)
(* version whole or not at all, whatever fails or is killed.               *)
ImplementsRegister == Register!Spec
=============================================================================
