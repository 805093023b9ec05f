------------------------ MODULE MCArtifactLifecycle ------------------------
(***************************************************************************)
(* Instances of ArtifactLifecycle for TLC.  A long document is three       *)
(* blocks, a short one is one: enough for a write to be interrupted at     *)
(* every sort of place, and for a tail to be left over.                    *)
(***************************************************************************)
EXTENDS ArtifactLifecycle

Version(tasks, doc) ==
  [derives |-> tasks, doc |-> doc, compiles |-> TRUE,
   recursive |-> \E i \in DOMAIN tasks : tasks[i].kind = "recursive"]

Flat(doc)      == Version(<<Task("flat", doc)>>, doc)
Recursive(doc) == Version(<<Task("recursive", doc)>>, doc)
Invalid(doc)   == Version(<<Task("invalid", doc)>>, doc)
NoBinary(doc)  == [Flat(doc) EXCEPT !.compiles = FALSE]

MCSize == [long |-> 3, mid |-> 2, short |-> 1]

(* The history of a crate: its witness becomes recursive and flat again,   *)
(* then the crate has two witnesses.                                       *)
History ==
  <<Flat("long"), Invalid("mid"), Recursive("mid"), NoBinary("long"),
    Version(<<Task("flat", "long"), Task("flat", "short")>>, "short"),
    Version(<<Task("flat", "mid"), Task("recursive", "long")>>, "long")>>

(* A crate with a flat and a recursive witness. *)
Mixed == <<Version(<<Task("flat", "mid"), Task("recursive", "long")>>, "long")>>

(* A witness that has become recursive, while background builds go on.     *)
Nesting == <<Flat("long"), Recursive("short")>>
=============================================================================
