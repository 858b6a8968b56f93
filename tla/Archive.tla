------------------------------ MODULE Archive ------------------------------
(***************************************************************************)
(* archive_text() of src/storage/archive.rs: admit a document, look for    *)
(* its run identity on disk, write `<runId>.json` by temporary file and    *)
(* rename, then read, extend and rewrite index.json the same way.  Any     *)
(* number of archiver processes work on one archive directory; each system *)
(* call is a step, a process may die between two of them, and any of them  *)
(* may fail.  Nothing in the code locks the directory.                     *)
(*                                                                         *)
(* admit(), run_id() and the digests are functions of the document alone,  *)
(* so a document is a value of Doc, equal to another exactly when their    *)
(* `document` digests are.  index.json is a sorted array; its order is not *)
(* observed by any property, so it is a set of rows.                       *)
(***************************************************************************)
CONSTANTS
  Archiver,    \* processes running `storage-aggregate --archive`
  Doc,         \* documents handed to them, up to the `document` digest
  RunId,       \* run identities
  Admissible,  \* the documents admit() has no refusal for
  RunIdOf,     \* the identity run_id() derives from each document
  NoDoc,       \* no file at this path
  Torn         \* a file, or a row, of which only a part was written

ASSUME ArchiveAssumption ==
  /\ Admissible \subseteq Doc
  /\ RunIdOf \in [Doc -> RunId]
  /\ NoDoc \notin Doc
  /\ Torn \notin Doc
  /\ Torn # NoDoc
  /\ Torn \notin [runId : RunId, digest : Doc]

VARIABLES
  files,       \* run identity -> content of root/<runId>.json
  index,       \* content of root/index.json (absent is `[]`)
  pc,          \* archiver -> the call it makes next
  docOf,       \* archiver -> the document it was given last
  rows,        \* archiver -> the index it read, with its own row added
  temp,        \* archiver -> the temporary file of its current write
  acked        \* the documents some call has returned Ok for (history)

vars == <<files, index, pc, docOf, rows, temp, acked>>

Row == [runId : RunId, digest : Doc]

RowOf(d) == [runId |-> RunIdOf[d], digest |-> d]

PC == {"idle", "exists", "compare", "writeDoc", "renameDoc", "loadIndex",
       "writeIndex", "renameIndex", "dead"}

Init ==
  /\ files = [r \in RunId |-> NoDoc]
  /\ index = {}
  /\ pc = [p \in Archiver |-> "idle"]
  /\ docOf = [p \in Archiver |-> NoDoc]
  /\ rows = [p \in Archiver |-> {}]
  /\ temp = [p \in Archiver |-> "none"]
  /\ acked = {}

-----------------------------------------------------------------------------
Goto(p, next) == pc' = [pc EXCEPT ![p] = next]

SetTemp(p, state) == temp' = [temp EXCEPT ![p] = state]

\* The path a process files its document under.
Path(p) == RunIdOf[docOf[p]]

\* A call begins: admit() decides before anything on disk is looked at.
Begin(p, d) ==
  /\ pc[p] = "idle"
  /\ Goto(p, IF d \in Admissible THEN "exists" ELSE "idle")
  /\ docOf' = [docOf EXCEPT ![p] = d]
  /\ SetTemp(p, "none")
  /\ UNCHANGED <<files, index, rows, acked>>

\* Mutant of Exists: no look at the path before writing to it.
Exists_Unchecked(p) ==
  /\ pc[p] = "exists"
  /\ Goto(p, "writeDoc")
  /\ UNCHANGED <<files, index, docOf, rows, temp, acked>>

\* path.exists()
Exists(p) ==
  /\ pc[p] = "exists"
  /\ Goto(p, IF files[Path(p)] = NoDoc THEN "writeDoc" ELSE "compare")
  /\ UNCHANGED <<files, index, docOf, rows, temp, acked>>

\* Mutant of Compare: "already archived" is an answer, and the index is left.
Compare_SkipsIndex(p) ==
  /\ pc[p] = "compare"
  /\ Goto(p, "idle")
  /\ acked' = IF files[Path(p)] = docOf[p] THEN acked \cup {docOf[p]} ELSE acked
  /\ UNCHANGED <<files, index, docOf, rows, temp>>

\* The stamped digest of the file against the document's: the same run again
\* goes on to the index, another run under this identity is a Collision.
Compare(p) ==
  /\ pc[p] = "compare"
  /\ Goto(p, IF files[Path(p)] = docOf[p] THEN "loadIndex" ELSE "idle")
  /\ UNCHANGED <<files, index, docOf, rows, temp, acked>>

\* Mutant of WriteTemp: the result of the write is not looked at.
WriteTemp_IgnoresError(p, at, next) ==
  /\ pc[p] = at
  /\ \E state \in {"partial", "whole"} : SetTemp(p, state)
  /\ Goto(p, next)
  /\ UNCHANGED <<files, index, docOf, rows, acked>>

\* fs::write of the temporary file.  A failure returns at once and leaves
\* whatever part was written.
WriteTemp(p, at, next) ==
  /\ pc[p] = at
  /\ \/ Goto(p, next) /\ SetTemp(p, "whole")
     \/ Goto(p, "idle") /\ SetTemp(p, "partial")
  /\ UNCHANGED <<files, index, docOf, rows, acked>>

WriteDoc(p) == WriteTemp(p, "writeDoc", "renameDoc")

WriteIndex(p) == WriteTemp(p, "writeIndex", "renameIndex")

\* What a rename puts at the path: all of the content, or only a part.
Landed(p, content, part) == IF temp[p] = "whole" THEN content ELSE part

\* Mutant of RenameDoc: the result of the rename is not looked at.
RenameDoc_IgnoresError(p) ==
  /\ pc[p] = "renameDoc"
  /\ \/ files' = [files EXCEPT ![Path(p)] = Landed(p, docOf[p], Torn)]
     \/ UNCHANGED files
  /\ Goto(p, "loadIndex")
  /\ SetTemp(p, "none")
  /\ UNCHANGED <<index, docOf, rows, acked>>

\* fs::rename of the document; a failure removes the temporary file.
RenameDoc(p) ==
  /\ pc[p] = "renameDoc"
  /\ \/ /\ files' = [files EXCEPT ![Path(p)] = Landed(p, docOf[p], Torn)]
        /\ Goto(p, "loadIndex")
     \/ Goto(p, "idle") /\ UNCHANGED files
  /\ SetTemp(p, "none")
  /\ UNCHANGED <<index, docOf, rows, acked>>

Listed(r, table) == \E row \in table : row.runId = r

\* Mutant of LoadIndex: the new index starts from an empty list.
LoadIndex_FromEmpty(p) ==
  /\ pc[p] = "loadIndex"
  /\ Torn \notin index
  /\ \/ Listed(Path(p), index) /\ Goto(p, "idle") /\ UNCHANGED rows
     \/ /\ ~Listed(Path(p), index)
        /\ Goto(p, "writeIndex")
        /\ rows' = [rows EXCEPT ![p] = {RowOf(docOf[p])}]
  /\ UNCHANGED <<files, index, docOf, temp, acked>>

\* update_index() up to its write: the row is there already, or it is added
\* to a copy of the rows as they are read here.
LoadIndex(p) ==
  /\ pc[p] = "loadIndex"
  /\ Torn \notin index
  /\ \/ /\ Listed(Path(p), index)
        /\ Goto(p, "idle")
        /\ acked' = acked \cup {docOf[p]}
        /\ UNCHANGED rows
     \/ /\ ~Listed(Path(p), index)
        /\ Goto(p, "writeIndex")
        /\ rows' = [rows EXCEPT ![p] = index \cup {RowOf(docOf[p])}]
        /\ UNCHANGED acked
  /\ UNCHANGED <<files, index, docOf, temp>>

\* fs::rename of the index: the copy replaces whatever is there by now.
RenameIndex(p) ==
  /\ pc[p] = "renameIndex"
  /\ \/ /\ index' = Landed(p, rows[p], {Torn})
        /\ acked' = acked \cup {docOf[p]}
     \/ UNCHANGED <<index, acked>>
  /\ Goto(p, "idle")
  /\ SetTemp(p, "none")
  /\ UNCHANGED <<files, docOf, rows>>

\* create_dir_all, a read or a parse fails: the call returns the error.
ReadError(p) ==
  /\ pc[p] \in {"exists", "compare", "loadIndex"}
  /\ Goto(p, "idle")
  /\ UNCHANGED <<files, index, docOf, rows, temp, acked>>

\* The process dies; what it was writing stays on disk.
Crash(p) ==
  /\ pc[p] \notin {"idle", "dead"}
  /\ Goto(p, "dead")
  /\ UNCHANGED <<files, index, docOf, rows, temp, acked>>

\* Somebody runs the command again.  The stray temporary file keeps a name
\* (process id and nanoseconds) no later write uses, so it is forgotten here.
Restart(p) ==
  /\ pc[p] = "dead"
  /\ Goto(p, "idle")
  /\ SetTemp(p, "none")
  /\ UNCHANGED <<files, index, docOf, rows, acked>>

Next ==
  \E p \in Archiver :
    \/ \E d \in Doc : Begin(p, d)
    \/ Exists(p)
    \/ Compare(p)
    \/ WriteDoc(p)
    \/ RenameDoc(p)
    \/ LoadIndex(p)
    \/ WriteIndex(p)
    \/ RenameIndex(p)
    \/ ReadError(p)
    \/ Crash(p)
    \/ Restart(p)

Spec == Init /\ [][Next]_vars

-----------------------------------------------------------------------------
\* The state of every file, process and history variable is of its kind.
TypeOK ==
  /\ files \in [RunId -> Doc \cup {NoDoc, Torn}]
  /\ index \in SUBSET (Row \cup {Torn})
  /\ pc \in [Archiver -> PC]
  /\ docOf \in [Archiver -> Doc \cup {NoDoc}]
  /\ rows \in [Archiver -> SUBSET Row]
  /\ temp \in [Archiver -> {"none", "partial", "whole"}]
  /\ acked \in SUBSET Doc

\* A reader of the archive sees the old file or the whole new one, whatever
\* write failed and wherever a process died (write_atomically's comment).
FilesAreWhole ==
  /\ \A r \in RunId : files[r] # Torn
  /\ Torn \notin index

\* Every row of the index points at a file that holds the document the row
\* gives the digest of: a crash or an error never leaves a row ahead of its
\* file, and nothing replaces a listed document.
IndexSound == \A row \in index : files[row.runId] = row.digest

\* A document some call returned Ok for is in the index from then on: the
\* README's "one row per archived run", which re-archiving restores after a
\* crash between the two writes.
AckedIsListed == \A d \in acked : RowOf(d) \in index

\* A document once filed is never replaced by another: a second run with the
\* same identity is a Collision and changes nothing.
FiledIsNeverReplaced ==
  [][\A r \in RunId : files[r] # NoDoc => files'[r] = files[r]]_vars

\* The archive implements the append-only store.
Store == INSTANCE ArchiveStore WITH store <- files, listed <- index

ImplementsStore == Store!Spec
=============================================================================
