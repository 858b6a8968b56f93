----------------------------- MODULE FilingProofs --------------------------
(***************************************************************************)
(* What is filed, and that it stays: of the archive (Archive), for any     *)
(* number of archivers and documents, and of the documents that get there  *)
(* (Paper), for every set of hosts, reports and edits.                     *)
(*                                                                         *)
(* IndexSound and FiledIsNeverReplaced need one of two conditions: that    *)
(* archivers do not overlap (Serial), or that no two admissible documents  *)
(* derive one identity (NoSharedIdentity).  Without both, two archivers    *)
(* find one path free and the second renames over the first.               *)
(* AckedIsListed and the refinement need Serial: of two archivers that     *)
(* read the index before either renames, the later drops a row.            *)
(*                                                                         *)
(* The fields of a document stay what they are whatever a hand writes into *)
(* them; the block of an honest paper is that of its host; and nothing is  *)
(* filed but what was admitted and is sealed over what it says.            *)
(***************************************************************************)
EXTENDS Archive, Paper, TLAPS

Serial == \A p, q \in Archiver : p = q

NoSharedIdentity ==
  \A d, e \in Admissible : RunIdOf[d] = RunIdOf[e] => d = e

Writing == {"writeDoc", "renameDoc"}

Indexing == {"loadIndex", "writeIndex", "renameIndex"}

\* The temporary file a rename is about to move is complete.
TempInv ==
  \A p \in Archiver :
    pc[p] \in {"renameDoc", "renameIndex"} => temp[p] = "whole"

\* A process between two of its calls works on an admissible document.
DocInv ==
  \A p \in Archiver : pc[p] \notin {"idle", "dead"} => docOf[p] \in Admissible

\* Invariant of every behaviour.
WholeInv == TypeOK /\ TempInv /\ DocInv /\ FilesAreWhole

\* A path a process is about to write is free or already holds its document.
PathInv ==
  \A p \in Archiver :
    pc[p] \in Writing => files[Path(p)] \in {NoDoc, docOf[p]}

\* A process that has reached the index has its document on file.
FiledInv ==
  \A p \in Archiver : pc[p] \in Indexing => files[Path(p)] = docOf[p]

\* The copy of the index a process is about to write is right.
CopyInv ==
  \A p \in Archiver :
    pc[p] \in {"writeIndex", "renameIndex"} =>
      \A row \in rows[p] : files[row.runId] = row.digest

SoundInv == WholeInv /\ PathInv /\ FiledInv /\ CopyInv /\ IndexSound

-----------------------------------------------------------------------------
\* The initial states are well typed.
LEMMA TypeInit == Init => TypeOK
  BY ArchiveAssumption DEF Init, TypeOK, PC, Row

\* Every step keeps the types and the wholeness of files and temporaries.
LEMMA WholeStep ==
  ASSUME WholeInv, [Next]_vars
  PROVE  WholeInv'
<1> USE ArchiveAssumption DEF WholeInv, TypeOK, TempInv, DocInv, FilesAreWhole,
      PC, Goto, SetTemp
<1>1. CASE UNCHANGED vars
  BY <1>1 DEF vars
<1>2. ASSUME NEW p \in Archiver, NEW d \in Doc, Begin(p, d) PROVE WholeInv'
  BY <1>2 DEF Begin
<1>3. ASSUME NEW p \in Archiver, Exists(p) PROVE WholeInv'
  BY <1>3 DEF Exists
<1>4. ASSUME NEW p \in Archiver, Compare(p) PROVE WholeInv'
  BY <1>4 DEF Compare
<1>5. ASSUME NEW p \in Archiver, WriteDoc(p) PROVE WholeInv'
  BY <1>5 DEF WriteDoc, WriteTemp
<1>6. ASSUME NEW p \in Archiver, RenameDoc(p) PROVE WholeInv'
  BY <1>6 DEF RenameDoc, Landed, Path
<1>7. ASSUME NEW p \in Archiver, LoadIndex(p) PROVE WholeInv'
  BY <1>7 DEF LoadIndex, Row, RowOf
<1>8. ASSUME NEW p \in Archiver, WriteIndex(p) PROVE WholeInv'
  BY <1>8 DEF WriteIndex, WriteTemp
<1>9. ASSUME NEW p \in Archiver, RenameIndex(p) PROVE WholeInv'
  BY <1>9 DEF RenameIndex, Landed, Row
<1>10. ASSUME NEW p \in Archiver, ReadError(p) PROVE WholeInv'
  BY <1>10 DEF ReadError
<1>11. ASSUME NEW p \in Archiver, Crash(p) PROVE WholeInv'
  BY <1>11 DEF Crash
<1>12. ASSUME NEW p \in Archiver, Restart(p) PROVE WholeInv'
  BY <1>12 DEF Restart
<1> QED
  BY <1>1, <1>2, <1>3, <1>4, <1>5, <1>6, <1>7, <1>8, <1>9, <1>10, <1>11,
     <1>12 DEF Next

\* Nothing is written yet, so nothing is torn.
LEMMA WholeInit == Init => WholeInv
  BY TypeInit, ArchiveAssumption
     DEF Init, WholeInv, TempInv, DocInv, FilesAreWhole

\* No file is torn in any reachable state.
LEMMA WholeAlways == Spec => []WholeInv
  BY WholeInit, WholeStep, PTL DEF Spec

\* Every variable keeps its kind (TypeOK).
THEOREM TypeCorrect == Spec => []TypeOK
<1>1. WholeInv => TypeOK
  BY DEF WholeInv
<1> QED
  BY <1>1, WholeAlways, PTL

\* Whatever fails and wherever an archiver dies, no reader finds part of a
\* file: the claim write_atomically makes, for any number of archivers.
THEOREM NeverTorn == Spec => []FilesAreWhole
<1>1. WholeInv => FilesAreWhole
  BY DEF WholeInv
<1> QED
  BY <1>1, WholeAlways, PTL

-----------------------------------------------------------------------------
\* When paths about to be written are free or hold the same document, no step
\* changes what a path already holds.
LEMMA FilesStep ==
  ASSUME WholeInv, PathInv, [Next]_vars
  PROVE  \A r \in RunId : files[r] # NoDoc => files'[r] = files[r]
<1> USE DEF WholeInv, TypeOK
<1>1. ASSUME NEW p \in Archiver, RenameDoc(p)
      PROVE  \A r \in RunId : files[r] # NoDoc => files'[r] = files[r]
  <2>1. temp[p] = "whole" /\ pc[p] \in Writing
    BY <1>1 DEF RenameDoc, TempInv, Writing
  <2>2. files[Path(p)] \in {NoDoc, docOf[p]}
    BY <2>1 DEF PathInv
  <2> QED
    BY <1>1, <2>1, <2>2 DEF RenameDoc, Landed
<1>2. ASSUME \A p \in Archiver : ~RenameDoc(p) PROVE files' = files
  BY <1>2 DEF Next, vars, Begin, Exists, Compare, WriteDoc, WriteIndex,
     WriteTemp, LoadIndex, RenameIndex, ReadError, Crash, Restart
<1> QED
  BY <1>1, <1>2

\* A step that leaves the files alone, and takes a process to its first write,
\* to the index or to a copy of the index only as the code does, keeps
\* SoundInv.
LEMMA SoundStep ==
  ASSUME SoundInv, Serial \/ NoSharedIdentity, [Next]_vars
  PROVE  SoundInv'
<1>0. WholeInv'
  BY WholeStep DEF SoundInv
<1>f. \A r \in RunId : files[r] # NoDoc => files'[r] = files[r]
  BY FilesStep DEF SoundInv
<1>d. \A p \in Archiver : pc[p] \notin {"idle", "dead"} =>
        docOf[p] \in Doc /\ Path(p) \in RunId /\ docOf[p] # NoDoc
  BY ArchiveAssumption DEF SoundInv, WholeInv, DocInv, Path
<1>r. \A row \in index : row \in Row /\ row.runId \in RunId /\ row.digest # NoDoc
  BY ArchiveAssumption
     DEF SoundInv, WholeInv, TypeOK, FilesAreWhole, Row
<1>c. \A p \in Archiver : \A row \in rows[p] :
        row.runId \in RunId /\ row.digest # NoDoc
  BY ArchiveAssumption DEF SoundInv, WholeInv, TypeOK, Row
<1> USE DEF SoundInv, WholeInv, TypeOK, Goto, SetTemp
<1>1. CASE UNCHANGED vars
  BY <1>0, <1>1 DEF vars, PathInv, FiledInv, CopyInv, IndexSound, Path
<1>2. ASSUME NEW p \in Archiver, NEW d \in Doc, Begin(p, d) PROVE SoundInv'
  BY <1>0, <1>2 DEF Begin, PathInv, FiledInv, CopyInv, IndexSound, Path,
     Writing, Indexing
<1>3. ASSUME NEW p \in Archiver, Exists(p) PROVE SoundInv'
  BY <1>0, <1>3 DEF Exists, PathInv, FiledInv, CopyInv, IndexSound, Path,
     Writing, Indexing
<1>4. ASSUME NEW p \in Archiver, Compare(p) PROVE SoundInv'
  BY <1>0, <1>4 DEF Compare, PathInv, FiledInv, CopyInv, IndexSound, Path,
     Writing, Indexing
<1>5. ASSUME NEW p \in Archiver, WriteDoc(p) PROVE SoundInv'
  BY <1>0, <1>5 DEF WriteDoc, WriteTemp, PathInv, FiledInv, CopyInv,
     IndexSound, Path, Writing, Indexing
<1>6. ASSUME NEW p \in Archiver, RenameDoc(p) PROVE SoundInv'
  <2>1. temp[p] = "whole" /\ docOf[p] \in Admissible /\ pc[p] = "renameDoc"
    BY <1>6 DEF RenameDoc, TempInv, DocInv
  <2>2. PathInv'
    <3>1. SUFFICES ASSUME NEW q \in Archiver, pc'[q] \in Writing
                   PROVE  files'[Path(q)] \in {NoDoc, docOf[q]}
      BY <1>6 DEF RenameDoc, PathInv, Path
    <3>2. q # p /\ pc[q] \in Writing /\ docOf[q] \in Admissible
      BY <1>6, <3>1 DEF RenameDoc, Writing, DocInv
    <3>3. NoSharedIdentity
      BY <3>2 DEF Serial
    <3>4. CASE Path(q) = Path(p)
      <4>1. docOf[q] = docOf[p]
        BY <2>1, <3>2, <3>3, <3>4 DEF NoSharedIdentity, Path
      <4> QED
        BY <1>6, <2>1, <3>2, <3>4, <4>1 DEF RenameDoc, Landed, PathInv
    <3>5. CASE Path(q) # Path(p)
      BY <1>6, <1>d, <3>2, <3>5 DEF RenameDoc, PathInv, Writing
    <3> QED
      BY <3>4, <3>5
  <2>3. FiledInv'
    <3>1. SUFFICES ASSUME NEW q \in Archiver, pc'[q] \in Indexing
                   PROVE  files'[Path(q)] = docOf[q]
      BY <1>6 DEF RenameDoc, FiledInv, Path
    <3>2. CASE q # p
      BY <1>6, <1>f, <1>d, <3>1, <3>2 DEF RenameDoc, FiledInv, Indexing
    <3>3. CASE q = p
      BY <1>6, <1>d, <2>1, <3>1, <3>3 DEF RenameDoc, Landed, Indexing
    <3> QED
      BY <3>2, <3>3
  <2>4. CopyInv' /\ IndexSound'
    BY <1>6, <1>f, <1>r, <1>c DEF RenameDoc, CopyInv, IndexSound
  <2> QED
    BY <1>0, <2>2, <2>3, <2>4
<1>7. ASSUME NEW p \in Archiver, LoadIndex(p) PROVE SoundInv'
  BY <1>0, <1>7 DEF LoadIndex, RowOf, PathInv, FiledInv, CopyInv, IndexSound,
     Path, Writing, Indexing
<1>8. ASSUME NEW p \in Archiver, WriteIndex(p) PROVE SoundInv'
  BY <1>0, <1>8 DEF WriteIndex, WriteTemp, PathInv, FiledInv, CopyInv,
     IndexSound, Path, Writing, Indexing
<1>9. ASSUME NEW p \in Archiver, RenameIndex(p) PROVE SoundInv'
  BY <1>0, <1>9 DEF RenameIndex, Landed, TempInv, PathInv, FiledInv, CopyInv,
     IndexSound, Path, Writing, Indexing
<1>10. ASSUME NEW p \in Archiver, ReadError(p) PROVE SoundInv'
  BY <1>0, <1>10 DEF ReadError, PathInv, FiledInv, CopyInv, IndexSound, Path,
     Writing, Indexing
<1>11. ASSUME NEW p \in Archiver, Crash(p) PROVE SoundInv'
  BY <1>0, <1>11 DEF Crash, PathInv, FiledInv, CopyInv, IndexSound, Path,
     Writing, Indexing
<1>12. ASSUME NEW p \in Archiver, Restart(p) PROVE SoundInv'
  BY <1>0, <1>12 DEF Restart, PathInv, FiledInv, CopyInv, IndexSound, Path,
     Writing, Indexing
<1> QED
  BY <1>1, <1>2, <1>3, <1>4, <1>5, <1>6, <1>7, <1>8, <1>9, <1>10, <1>11,
     <1>12 DEF Next

\* An empty directory is sound.
LEMMA SoundInit == Init => SoundInv
  BY WholeInit
     DEF Init, SoundInv, PathInv, FiledInv, CopyInv, IndexSound, Writing,
         Indexing

\* With archivers that do not meet, on the path or at all, the index is sound for good.
LEMMA SoundAlways ==
  ASSUME Serial \/ NoSharedIdentity
  PROVE  Spec => []SoundInv
  BY SoundInit, SoundStep, PTL DEF Spec

\* No row is ever ahead of its file or beside another document, however
\* archivers interleave, fail and die, as long as they do not overlap or do
\* not share an identity.
THEOREM IndexAlwaysSound ==
  ASSUME Serial \/ NoSharedIdentity
  PROVE  Spec => []IndexSound
<1>1. SoundInv => IndexSound
  BY DEF SoundInv
<1> QED
  BY <1>1, SoundAlways, PTL

\* Under the same condition the archive is append-only: no step replaces or
\* removes a document once it is filed.
THEOREM ArchiveIsAppendOnly ==
  ASSUME Serial \/ NoSharedIdentity
  PROVE  Spec => FiledIsNeverReplaced
<1>1. SoundInv /\ [Next]_vars =>
        [\A r \in RunId : files[r] # NoDoc => files'[r] = files[r]]_vars
  BY FilesStep DEF SoundInv
<1> QED
  BY <1>1, SoundAlways, PTL DEF Spec, FiledIsNeverReplaced

-----------------------------------------------------------------------------
\* One archiver at a time: the copy of the index about to be written misses
\* no row of the index.
CompleteInv ==
  /\ SoundInv
  /\ \A p \in Archiver :
       pc[p] \in {"writeIndex", "renameIndex"} =>
         rows[p] = index \cup {RowOf(docOf[p])}
  /\ AckedIsListed

\* Of one archiver no step loses a row that was acknowledged or is about to be.
LEMMA CompleteStep ==
  ASSUME CompleteInv, Serial, [Next]_vars
  PROVE  CompleteInv'
<1>0. SoundInv'
  BY SoundStep DEF CompleteInv
<1> USE DEF CompleteInv, AckedIsListed, SoundInv, WholeInv, TypeOK, Goto,
      SetTemp
<1>1. CASE UNCHANGED vars
  BY <1>0, <1>1 DEF vars
<1>2. ASSUME NEW p \in Archiver, RenameIndex(p) PROVE CompleteInv'
  <2>1. temp[p] = "whole" /\ rows[p] = index \cup {RowOf(docOf[p])}
    BY <1>2 DEF RenameIndex, TempInv
  <2>2. \A q \in Archiver : pc'[q] \notin {"writeIndex", "renameIndex"}
    BY <1>2 DEF RenameIndex, Serial
  <2> QED
    BY <1>0, <1>2, <2>1, <2>2 DEF RenameIndex, Landed
<1>3. ASSUME NEW p \in Archiver, LoadIndex(p) PROVE CompleteInv'
  <2>1. ASSUME Listed(Path(p), index) PROVE RowOf(docOf[p]) \in index
    <3>1. PICK row \in index : row.runId = Path(p)
      BY <2>1 DEF Listed
    <3>2. row \in Row
      BY DEF FilesAreWhole
    <3>3. row.digest = docOf[p]
      BY <1>3, <3>1 DEF IndexSound, FiledInv, LoadIndex, Indexing
    <3> QED
      BY <3>1, <3>2, <3>3 DEF Row, RowOf, Path
  <2> QED
    BY <1>0, <1>3, <2>1 DEF LoadIndex
<1>4. ASSUME NEW p \in Archiver,
             \/ \E d \in Doc : Begin(p, d)
             \/ Exists(p) \/ Compare(p) \/ WriteDoc(p) \/ RenameDoc(p)
             \/ WriteIndex(p) \/ ReadError(p) \/ Crash(p) \/ Restart(p)
      PROVE  CompleteInv'
  <2>1. index' = index /\ acked' = acked /\ rows' = rows
    BY <1>4 DEF Begin, Exists, Compare, WriteDoc, WriteIndex, WriteTemp,
       RenameDoc, ReadError, Crash, Restart
  <2>2. \A q \in Archiver :
          pc'[q] \in {"writeIndex", "renameIndex"} =>
            pc[q] \in {"writeIndex", "renameIndex"} /\ docOf'[q] = docOf[q]
    BY <1>4 DEF Begin, Exists, Compare, WriteDoc, WriteIndex, WriteTemp,
       RenameDoc, ReadError, Crash, Restart
  <2> QED
    BY <1>0, <2>1, <2>2 DEF RowOf
<1> QED
  BY <1>1, <1>2, <1>3, <1>4 DEF Next

\* Of one archiver the acknowledged documents stay listed.
LEMMA CompleteAlways ==
  ASSUME Serial
  PROVE  Spec => []CompleteInv
<1>1. Init => CompleteInv
  BY SoundInit DEF Init, CompleteInv, AckedIsListed
<1> QED
  BY <1>1, CompleteStep, PTL DEF Spec

\* One archiver at a time: what a call acknowledged is listed for good, across
\* crashes and errors of later calls.
THEOREM AcknowledgedIsListed ==
  ASSUME Serial
  PROVE  Spec => []AckedIsListed
<1>1. CompleteInv => AckedIsListed
  BY DEF CompleteInv
<1> QED
  BY <1>1, CompleteAlways, PTL

-----------------------------------------------------------------------------
\* A step of one archiver at a time is a step of the append-only store, or
\* leaves it alone.
LEMMA StoreStep ==
  ASSUME CompleteInv, Serial, [Next]_vars
  PROVE  [Store!Next]_(Store!vars)
<1> USE DEF CompleteInv, SoundInv, WholeInv, TypeOK
<1>1. ASSUME NEW p \in Archiver, RenameDoc(p)
      PROVE  [Store!Next]_(Store!vars)
  <2>1. /\ temp[p] = "whole" /\ docOf[p] \in Admissible /\ index' = index
        /\ files[Path(p)] \in {NoDoc, docOf[p]}
    BY <1>1 DEF RenameDoc, TempInv, DocInv, PathInv, Writing
  <2>2. CASE files' = files
    BY <2>1, <2>2 DEF Store!vars
  <2>3. CASE files' = [files EXCEPT ![Path(p)] = docOf[p]] /\ files' # files
    <3>1. files[RunIdOf[docOf[p]]] = NoDoc
      BY <2>1, <2>3 DEF Path
    <3>2. Store!File(docOf[p])
      BY <2>1, <2>3, <3>1 DEF Store!File, Path
    <3> QED
      BY <2>1, <3>2 DEF Store!Next
  <2> QED
    BY <1>1, <2>1, <2>2, <2>3 DEF RenameDoc, Landed
<1>2. ASSUME NEW p \in Archiver, RenameIndex(p)
      PROVE  [Store!Next]_(Store!vars)
  <2>1. /\ temp[p] = "whole" /\ docOf[p] \in Admissible /\ files' = files
        /\ rows[p] = index \cup {RowOf(docOf[p])}
        /\ files[RunIdOf[docOf[p]]] = docOf[p]
    BY <1>2 DEF RenameIndex, TempInv, DocInv, FiledInv, Indexing, Path
  <2>2. CASE index' = index
    BY <2>1, <2>2 DEF Store!vars
  <2>3. CASE index' = rows[p] /\ index' # index
    <3>1. Store!List(docOf[p])
      BY <2>1, <2>3 DEF Store!List, Store!RowOf, RowOf
    <3> QED
      BY <2>1, <3>1 DEF Store!Next
  <2> QED
    BY <1>2, <2>1, <2>2, <2>3 DEF RenameIndex, Landed
<1>3. ASSUME \A p \in Archiver : ~RenameDoc(p) /\ ~RenameIndex(p)
      PROVE  files' = files /\ index' = index
  BY <1>3 DEF Next, vars, Begin, Exists, Compare, WriteDoc, WriteIndex,
     WriteTemp, LoadIndex, ReadError, Crash, Restart
<1> QED
  BY <1>1, <1>2, <1>3 DEF Store!vars

\* With one archiver at a time, temporary files, errors and crashes are
\* invisible to a reader: the directory is the append-only store.
THEOREM Refinement ==
  ASSUME Serial
  PROVE  Spec => ImplementsStore
<1>1. Init => Store!Init
  BY DEF Init, Store!Init
<1>2. CompleteInv /\ [Next]_vars => [Store!Next]_(Store!vars)
  BY StoreStep
<1> QED
  BY <1>1, <1>2, CompleteAlways, PTL DEF Spec, ImplementsStore, Store!Spec

-----------------------------------------------------------------------------
(* Documents, from the build to the archive. *)

Fields ==
  {"startedAt", "profile", "runner", "measurement", "cells", "invariants", "replicate",
   "provenance", "invocation", "runId", "combinedAt", "integrity"}

IsDoc(doc) == DOMAIN doc = Fields /\ doc = [x \in Fields |-> doc[x]]

IsPaper(p) ==
  /\ DOMAIN p = {"doc", "honest", "of"} /\ p = [x \in {"doc", "honest", "of"} |-> p[x]]
  /\ p.honest \in BOOLEAN /\ IsDoc(p.doc)
  /\ p.honest => p.doc.provenance.emulated = Probe(host)

\* A filed document is an admitted one, sealed.
IsSealed(p) ==
  \E doc : /\ IsDoc(doc) /\ p.doc = Seal(doc, 1)
           /\ Admit(doc) = {} /\ HasCanonicalText(doc)

PaperInv ==
  /\ host \in Host
  /\ paper # Null => IsPaper(paper)
  /\ \A p \in filed : IsPaper(p) /\ IsSealed(p)

-----------------------------------------------------------------------------
(* Documents. *)

\* Writing one field of a record.
LEMMA WriteField ==
  ASSUME NEW D, NEW f, DOMAIN f = D, f = [x \in D |-> f[x]], NEW a \in D, NEW v
  PROVE  [f EXCEPT ![a] = v] = [x \in D |-> IF x = a THEN v ELSE f[x]]
OBVIOUS

\* Writing one field of a document leaves the others.
LEMMA SetField ==
  ASSUME NEW doc, IsDoc(doc), NEW x \in Fields, NEW v
  PROVE  LET e == [doc EXCEPT ![x] = v]
         IN  /\ IsDoc(e) /\ e[x] = v
             /\ \A y \in Fields \ {x} : e[y] = doc[y]
             /\ e = [y \in Fields |-> IF y = x THEN v ELSE doc[y]]
<1> DEFINE e == [doc EXCEPT ![x] = v]
<1>1. e = [y \in Fields |-> IF y = x THEN v ELSE doc[y]]
  BY SMT DEF IsDoc
<1> HIDE DEF e
<1>2. IsDoc(e)
  BY <1>1, Zenon DEF IsDoc
<1>3. e[x] = v /\ \A y \in Fields \ {x} : e[y] = doc[y]
  BY <1>1, Zenon
<1> QED BY <1>1, <1>2, <1>3 DEF e

\* One document is the other but for one field.
Writes(doc, e, x) == \E v : e = [doc EXCEPT ![x] = v]

\* So the other fields are its own.
LEMMA WritesOne ==
  ASSUME NEW doc, IsDoc(doc), NEW e, NEW x \in Fields, Writes(doc, e, x)
  PROVE  IsDoc(e) /\ \A y \in Fields \ {x} : e[y] = doc[y]
<1>1. PICK v : e = [doc EXCEPT ![x] = v]
  BY Zenon DEF Writes
<1> DEFINE f == [doc EXCEPT ![x] = v]
<1>2. f = [y \in Fields |-> IF y = x THEN v ELSE doc[y]]
  BY SMT DEF IsDoc
<1>3. e = f
  BY <1>1, Zenon
<1> HIDE DEF f
<1>4. IsDoc(e)
  BY <1>2, <1>3, Zenon DEF IsDoc
<1>5. \A y \in Fields \ {x} : e[y] = doc[y]
  BY <1>2, <1>3, Zenon
<1> QED BY <1>4, <1>5

\* Sealing touches the seal and its time, and nothing that is sealed or admitted.
LEMMA SealKeeps ==
  ASSUME NEW doc, IsDoc(doc), NEW now
  PROVE  LET s == Seal(doc, now)
         IN  /\ IsDoc(s)
             /\ s.integrity = Digests(doc) /\ s.combinedAt = now
             /\ \A x \in Fields \ {"integrity", "combinedAt"} : s[x] = doc[x]
<1> DEFINE s == Seal(doc, now)
<1>1. s = [x \in Fields |-> IF x = "combinedAt" THEN now
                            ELSE IF x = "integrity" THEN Digests(doc) ELSE doc[x]]
  <2> DEFINE d == [doc EXCEPT !.integrity = Digests(doc)]
  <2>1. {"integrity", "combinedAt"} \subseteq Fields
    BY DEF Fields
  <2>2. IsDoc(d) /\ d = [y \in Fields |-> IF y = "integrity" THEN Digests(doc) ELSE doc[y]]
    BY <2>1, SetField
  <2>3. s = [d EXCEPT !.combinedAt = now]
    BY Zenon DEF Seal
  <2> HIDE DEF d, s
  <2>4. s = [y \in Fields |-> IF y = "combinedAt" THEN now ELSE d[y]]
    BY <2>1, <2>2, <2>3, SetField
  <2> QED BY <2>2, <2>4, Zenon
<1> HIDE DEF s
<1>2. IsDoc(s)
  BY <1>1, Zenon DEF IsDoc
<1>3. "integrity" \in Fields /\ "combinedAt" \in Fields /\ "combinedAt" # "integrity"
  BY DEF Fields
<1>4. s.integrity = Digests(doc) /\ s.combinedAt = now
  BY <1>1, <1>3, SMT
<1>5. \A x \in Fields \ {"integrity", "combinedAt"} : s[x] = doc[x]
  BY <1>1, SMT
<1> QED BY <1>2, <1>4, <1>5 DEF s

\* The evidence of a document is all of it but two fields.
LEMMA EvidenceOf ==
  ASSUME NEW d, IsDoc(d)
  PROVE  Evidence(d) = [x \in Fields |-> IF x \in {"integrity", "combinedAt"} THEN Null ELSE d[x]]
<1> DEFINE e == [d EXCEPT !.integrity = Null]
<1>1. {"integrity", "combinedAt"} \subseteq Fields
  BY DEF Fields
<1>2. IsDoc(e) /\ e = [y \in Fields |-> IF y = "integrity" THEN Null ELSE d[y]]
  BY <1>1, SetField
<1>3. Evidence(d) = [e EXCEPT !.combinedAt = Null]
  BY Zenon DEF Evidence
<1> HIDE DEF e
<1>4. Evidence(d) = [y \in Fields |-> IF y = "combinedAt" THEN Null ELSE e[y]]
  BY <1>1, <1>2, <1>3, SetField
<1> QED BY <1>2, <1>4, SMT

\* A sealed document has the digests of the one that was sealed.
LEMMA SealDigests ==
  ASSUME NEW doc, IsDoc(doc), NEW now
  PROVE  Digests(Seal(doc, now)) = Digests(doc)
<1> DEFINE s == Seal(doc, now)
<1>1. /\ IsDoc(s)
      /\ \A x \in Fields \ {"integrity", "combinedAt"} : s[x] = doc[x]
  BY SealKeeps
<1>2. s.cells = doc.cells /\ s.runner = doc.runner /\ s.measurement = doc.measurement
  BY <1>1, SMT DEF Fields
<1>3. ASSUME NEW d, IsDoc(d)
      PROVE  Evidence(d) = [x \in Fields |-> IF x \in {"integrity", "combinedAt"} THEN Null ELSE d[x]]
  BY <1>3, EvidenceOf
<1> HIDE DEF s
<1>4. Evidence(s) = Evidence(doc)
  <2>1. \A x \in Fields : (IF x \in {"integrity", "combinedAt"} THEN Null ELSE s[x])
                          = (IF x \in {"integrity", "combinedAt"} THEN Null ELSE doc[x])
    BY <1>1, SMT
  <2>2. Evidence(s) = [x \in Fields |-> IF x \in {"integrity", "combinedAt"} THEN Null ELSE s[x]]
    BY <1>1, <1>3
  <2>3. Evidence(doc) = [x \in Fields |-> IF x \in {"integrity", "combinedAt"} THEN Null ELSE doc[x]]
    BY <1>3
  <2> QED BY <2>1, <2>2, <2>3, Zenon
<1>5. Digests(s) = Digests(doc)
  BY <1>2, <1>4, Zenon DEF Digests
<1> QED BY <1>5 DEF s

\* It is refused for the same things.
LEMMA SealAdmit ==
  ASSUME NEW doc, IsDoc(doc), NEW now
  PROVE  /\ Admit(Seal(doc, now)) = Admit(doc)
         /\ HasCanonicalText(Seal(doc, now)) = HasCanonicalText(doc)
<1> DEFINE s == Seal(doc, now)
<1>1. \A x \in Fields \ {"integrity", "combinedAt"} : s[x] = doc[x]
  BY SealKeeps
<1> HIDE DEF s
<1>2. /\ s.provenance = doc.provenance /\ s.cells = doc.cells /\ s.invocation = doc.invocation
      /\ s.measurement = doc.measurement /\ s.profile = doc.profile /\ s.replicate = doc.replicate
  BY <1>1, SMT DEF Fields
<1>3. CheckSourceTrees(s) = CheckSourceTrees(doc)
  BY <1>2, Zenon DEF CheckSourceTrees
<1>4. CheckInvocationAndReps(s) = CheckInvocationAndReps(doc)
  BY <1>2, Zenon DEF CheckInvocationAndReps
<1>5. CheckCells(s) = CheckCells(doc)
  BY <1>2, Zenon DEF CheckCells
<1>6. CheckProfileWalk(s) = CheckProfileWalk(doc)
  BY <1>2, Zenon DEF CheckProfileWalk
<1>7. Admit(s) = Admit(doc)
  BY <1>2, <1>3, <1>4, <1>5, <1>6, Zenon DEF Admit
<1>8. HasCanonicalText(s) = HasCanonicalText(doc)
  BY <1>2, Zenon DEF HasCanonicalText
<1> QED BY <1>7, <1>8 DEF s

Kinds ==
  {"cells", "outcome", "runner", "measurement", "native", "host", "scenarios", "unsealed", "stamp"}

\* The field a kind of edit writes into.
FieldOf(kind) ==
  IF kind \in {"cells", "outcome"} THEN "cells"
  ELSE IF kind \in {"native", "host"} THEN "provenance"
  ELSE IF kind = "scenarios" THEN "invocation"
  ELSE IF kind = "unsealed" THEN "integrity"
  ELSE IF kind = "stamp" THEN "combinedAt"
  ELSE kind

\* A hand edit writes into one field.
LEMMA EditWrites ==
  ASSUME NEW doc,
         NEW kind \in Kinds
  PROVE  Writes(doc, Edited(doc, kind), FieldOf(kind))
<1>1. /\ kind = "cells" => FieldOf(kind) = "cells"
      /\ kind = "outcome" => FieldOf(kind) = "cells"
      /\ kind = "runner" => FieldOf(kind) = "runner"
      /\ kind = "measurement" => FieldOf(kind) = "measurement"
      /\ kind = "native" => FieldOf(kind) = "provenance"
      /\ kind = "host" => FieldOf(kind) = "provenance"
      /\ kind = "scenarios" => FieldOf(kind) = "invocation"
      /\ kind = "unsealed" => FieldOf(kind) = "integrity"
      /\ kind = "stamp" => FieldOf(kind) = "combinedAt"
  BY DEF FieldOf
<1>2. CASE kind = "cells"
  <2>1. Edited(doc, kind) = [doc EXCEPT !.cells = [doc.cells EXCEPT ![1].samples = @ + 1]]
    BY <1>2, SMT DEF Edited
  <2> QED BY <1>1, <1>2, <2>1, Zenon DEF Writes
<1>3. CASE kind = "outcome"
  <2>1. Edited(doc, kind) = [doc EXCEPT !.cells[1].outcome = "ok", !.cells[1].attested = TRUE]
    BY <1>3, SMT DEF Edited
  <2>2. PICK cells : Edited(doc, kind) = [doc EXCEPT !.cells = cells]
    BY <2>1, Zenon
  <2> QED BY <1>1, <1>3, <2>2, Zenon DEF Writes
<1>4. CASE kind = "runner"
  <2>1. Edited(doc, kind) = [doc EXCEPT !.runner = "another"]
    BY <1>4, SMT DEF Edited
  <2> QED BY <1>1, <1>4, <2>1, Zenon DEF Writes
<1>5. CASE kind = "measurement"
  <2>1. Edited(doc, kind) = [doc EXCEPT !.measurement = [doc.measurement EXCEPT !.reps = 3]]
    BY <1>5, SMT DEF Edited
  <2> QED BY <1>1, <1>5, <2>1, Zenon DEF Writes
<1>6. CASE kind = "native"
  <2>1. Edited(doc, kind) = [doc EXCEPT !.provenance = [doc.provenance EXCEPT !.emulated = "false"]]
    BY <1>6, SMT DEF Edited
  <2> QED BY <1>1, <1>6, <2>1, Zenon DEF Writes
<1>7. CASE kind = "host"
  <2>1. Edited(doc, kind) = [doc EXCEPT !.provenance = [doc.provenance EXCEPT !.cpuModel = Null]]
    BY <1>7, SMT DEF Edited
  <2> QED BY <1>1, <1>7, <2>1, Zenon DEF Writes
<1>8. CASE kind = "scenarios"
  <2>1. Edited(doc, kind) = [doc EXCEPT !.invocation = [doc.invocation EXCEPT !.scenarios = {"all"}]]
    BY <1>8, SMT DEF Edited
  <2> QED BY <1>1, <1>8, <2>1, Zenon DEF Writes
<1>9. CASE kind = "unsealed"
  <2>1. Edited(doc, kind) = [doc EXCEPT !.integrity = Null]
    BY <1>9, SMT DEF Edited
  <2> QED BY <1>1, <1>9, <2>1, Zenon DEF Writes
<1>10. CASE kind = "stamp"
  <2>1. Edited(doc, kind) = [doc EXCEPT !.combinedAt = Null]
    BY <1>10, SMT DEF Edited
  <2> QED BY <1>1, <1>10, <2>1, Zenon DEF Writes
<1> QED BY <1>2, <1>3, <1>4, <1>5, <1>6, <1>7, <1>8, <1>9, <1>10 DEF Kinds

\* And the others stay.
LEMMA EditKeeps ==
  ASSUME NEW doc, IsDoc(doc),
         NEW kind \in Kinds
  PROVE  /\ IsDoc(Edited(doc, kind)) /\ FieldOf(kind) \in Fields
         /\ \A x \in Fields \ {FieldOf(kind)} : Edited(doc, kind)[x] = doc[x]
<1> DEFINE x == FieldOf(kind)
           e == Edited(doc, kind)
<1>1. Writes(doc, e, x)
  BY EditWrites
<1>2. x \in Fields
  BY DEF FieldOf, Fields, Kinds
<1> HIDE DEF x, e
<1>3. IsDoc(e) /\ \A y \in Fields \ {x} : e[y] = doc[y]
  BY <1>1, <1>2, WritesOne
<1> QED BY <1>2, <1>3 DEF e, x

\* What a sweep writes is a document with the block of its host, the cells and
\* the invocation of its sweep.
LEMMA WrittenIsDoc ==
  ASSUME NEW profile, NEW report, NEW allowDirty
  PROVE  LET w == Written(profile, report, allowDirty)
             block == Block(binary.stamps, host, allowDirty)
         IN  /\ IsDoc(w) /\ w.provenance = block /\ w.provenance.emulated = Probe(host)
             /\ w.invocation = Invocation /\ w.measurement = [reps |-> 2] /\ w.integrity = Null
             /\ w.cells = StampDirty([i \in DOMAIN report.rows |-> FromReport(report.rows[i])], block)
<1> DEFINE w == Written(profile, report, allowDirty)
           block == Block(binary.stamps, host, allowDirty)
           cells == [i \in DOMAIN report.rows |-> FromReport(report.rows[i])]
           stamped == StampDirty(cells, block)
           table == InvariantTable(cells)
           noise == Replicate(report)
           doc == [startedAt |-> sweeps, profile |-> profile, runner |-> "libviprs-storage",
                   measurement |-> [reps |-> 2], cells |-> stamped,
                   invariants |-> table, replicate |-> noise,
                   provenance |-> block, invocation |-> Invocation, runId |-> Null,
                   combinedAt |-> Null, integrity |-> Null]
<1>1. w = WithRunId(doc)
  BY Zenon DEF Written
<1>2. block.emulated = Probe(host)
  BY SMT DEF Block
<1> HIDE DEF w, block, cells, stamped, table, noise
<1>3. /\ DOMAIN doc = Fields /\ doc = [x \in Fields |-> doc[x]]
      /\ doc.provenance = block /\ doc.invocation = Invocation /\ doc.cells = stamped
      /\ doc.measurement = [reps |-> 2] /\ doc.integrity = Null
  BY SMT DEF Fields
<1> HIDE DEF doc
<1>4. {"runId", "provenance", "invocation", "measurement", "cells", "integrity"} \subseteq Fields
  BY DEF Fields
<1>5. IsDoc(w) /\ \A x \in Fields \ {"runId"} : w[x] = doc[x]
  <2>1. Writes(doc, w, "runId")
    BY <1>1, Zenon DEF WithRunId, Writes
  <2>2. IsDoc(doc)
    BY <1>3 DEF IsDoc
  <2> QED BY <1>4, <2>1, <2>2, WritesOne
<1>6. /\ w.provenance = block /\ w.invocation = Invocation /\ w.cells = stamped
      /\ w.measurement = [reps |-> 2] /\ w.integrity = Null
  BY <1>3, <1>4, <1>5, SMT
<1> QED BY <1>2, <1>5, <1>6, Zenon DEF w, block, stamped, cells

-----------------------------------------------------------------------------
(* The invariant. *)

\* There is no document at first.
LEMMA PaperInit == ASSUME ProvenanceAssumption, PaperAssumption, InitPaper PROVE PaperInv
<1>1. PICK start \in Starts : host = start.host
  BY DEF InitPaper
<1>2. host \in Host
  BY <1>1, SMT DEF PaperAssumption, ProvenanceAssumption
<1> QED BY <1>2 DEF InitPaper, PaperInv

\* A paper is what it is whatever happens to the trees.
LEMMA HostStays == ASSUME PaperInv, UNCHANGED <<host, paper, filed>> PROVE PaperInv'
BY Zenon DEF PaperInv, IsPaper, IsSealed, IsDoc, Admit, HasCanonicalText, Seal, Digests, Evidence

\* What was filed stays as it was while host and archive do.
LEMMA FiledStay ==
  ASSUME PaperInv, UNCHANGED <<host, filed>>
  PROVE  (host \in Host /\ \A p \in filed : IsPaper(p) /\ IsSealed(p))'
BY Zenon DEF PaperInv, IsPaper, IsSealed, IsDoc

\* A sweep writes a document.
LEMMA PaperSweep == ASSUME PaperInv, Sweep PROVE PaperInv'
<1>1. PICK profile, report, allowDirty :
        paper' = [doc |-> Written(profile, report, allowDirty), honest |-> TRUE, of |-> binary.of]
  BY Zenon DEF Sweep
<1>2. UNCHANGED <<host, filed>>
  BY DEF Sweep
<1> DEFINE w == Written(profile, report, allowDirty)
<1>3. IsDoc(w) /\ w.provenance.emulated = Probe(host)
  BY WrittenIsDoc
<1> HIDE DEF w
<1>4. /\ DOMAIN paper' = {"doc", "honest", "of"}
      /\ paper' = [x \in {"doc", "honest", "of"} |-> paper'[x]]
      /\ paper'.honest = TRUE /\ paper'.doc = w
  BY <1>1, SMT DEF w
<1>5. IsPaper(paper')
  BY <1>3, <1>4, Zenon DEF IsPaper
<1>6. IsPaper(paper)'
  BY <1>2, <1>5, Zenon DEF IsPaper, IsDoc
<1> QED BY <1>2, <1>6, FiledStay DEF PaperInv

\* A hand edits the document: it is another one, and no longer what was measured.
LEMMA EditedPaper ==
  ASSUME PaperAssumption, PaperInv, HandEdit
  PROVE  /\ DOMAIN paper' = {"doc", "honest", "of"}
         /\ paper' = [x \in {"doc", "honest", "of"} |-> paper'[x]]
         /\ paper'.honest = FALSE /\ IsDoc(paper'.doc) /\ UNCHANGED <<host, filed>>
<1>1. PICK kind \in Edits :
        /\ paper' = [paper EXCEPT !.doc = Edited(@, kind), !.honest = FALSE]
        /\ UNCHANGED <<host, filed>>
  BY Zenon DEF HandEdit
<1>2. IsPaper(paper)
  BY DEF HandEdit, PaperInv
<1>3. IsDoc(Edited(paper.doc, kind))
  BY <1>2, EditKeeps DEF Kinds, PaperAssumption, IsPaper
<1> DEFINE doc == Edited(paper.doc, kind)
<1>4. paper' = [[paper EXCEPT !.doc = doc] EXCEPT !.honest = FALSE]
  BY <1>1, Zenon
<1> HIDE DEF doc
<1>5. paper' = [x \in {"doc", "honest", "of"} |->
                  IF x = "honest" THEN FALSE ELSE IF x = "doc" THEN doc ELSE paper[x]]
  <2> DEFINE e == [paper EXCEPT !.doc = doc]
  <2>1. /\ DOMAIN e = {"doc", "honest", "of"}
        /\ e = [x \in {"doc", "honest", "of"} |-> IF x = "doc" THEN doc ELSE paper[x]]
    BY <1>2, SMT DEF IsPaper
  <2>2. paper' = [e EXCEPT !.honest = FALSE]
    BY <1>4
  <2> HIDE DEF e
  <2>3. paper' = [x \in {"doc", "honest", "of"} |-> IF x = "honest" THEN FALSE ELSE e[x]]
    <3>1. e = [x \in {"doc", "honest", "of"} |-> e[x]]
      BY <2>1, Zenon
    <3> QED BY <2>1, <2>2, <3>1, WriteField
  <2> QED BY <2>1, <2>3, Zenon
<1>6. /\ DOMAIN paper' = {"doc", "honest", "of"}
      /\ paper' = [x \in {"doc", "honest", "of"} |-> paper'[x]]
      /\ paper'.honest = FALSE /\ paper'.doc = doc
  BY <1>5, SMT
<1> QED BY <1>1, <1>3, <1>6, Zenon DEF doc

\* Its fields are there still.
LEMMA PaperEdit == ASSUME PaperAssumption, PaperInv, HandEdit PROVE PaperInv'
<1>1. IsPaper(paper)'
  BY EditedPaper, Zenon DEF IsPaper, IsDoc
<1> QED BY <1>1, EditedPaper, FiledStay DEF PaperInv

\* A filed document is taken up again.
LEMMA PaperCopy == ASSUME PaperInv, TakeCopy PROVE PaperInv'
<1>1. IsPaper(paper')
  BY DEF TakeCopy, PaperInv
<1>2. UNCHANGED <<host, filed>>
  BY DEF TakeCopy
<1>3. IsPaper(paper)'
  BY <1>1, <1>2, Zenon DEF IsPaper, IsDoc
<1> QED BY <1>2, <1>3, FiledStay DEF PaperInv

\* What is filed is the document at hand, sealed.
LEMMA SealedPaper ==
  ASSUME IsPaper(paper)
  PROVE  LET sealed == [paper EXCEPT !.doc = Seal(@, 1)]
         IN  /\ DOMAIN sealed = {"doc", "honest", "of"}
             /\ sealed = [x \in {"doc", "honest", "of"} |-> sealed[x]]
             /\ sealed.honest = paper.honest /\ sealed.doc = Seal(paper.doc, 1)
<1> DEFINE sealed == [paper EXCEPT !.doc = Seal(@, 1)]
<1>1. sealed = [x \in {"doc", "honest", "of"} |-> IF x = "doc" THEN Seal(paper.doc, 1) ELSE paper[x]]
  BY SMT DEF IsPaper
<1> HIDE DEF sealed
<1>2. /\ DOMAIN sealed = {"doc", "honest", "of"}
      /\ sealed = [x \in {"doc", "honest", "of"} |-> sealed[x]]
      /\ sealed.honest = paper.honest /\ sealed.doc = Seal(paper.doc, 1)
  BY <1>1, SMT
<1> QED BY <1>2 DEF sealed

\* Filing adds that, of a document that is admitted, or nothing.
LEMMA PaperArchive == ASSUME PaperInv, ArchiveIt PROVE PaperInv'
<1> DEFINE sealed == [paper EXCEPT !.doc = Seal(@, 1)]
<1>1. paper # Null /\ paper' = Null /\ UNCHANGED host
  BY DEF ArchiveIt
<1>2. filed' = filed \/ (filed' = filed \cup {sealed} /\ Archivable(paper.doc))
  BY Zenon DEF ArchiveIt
<1>3. CASE filed' = filed
  BY <1>1, <1>3, FiledStay DEF PaperInv
<1>4. CASE filed' = filed \cup {sealed} /\ Archivable(paper.doc)
  <2>1. IsPaper(paper)
    BY <1>1 DEF PaperInv
  <2>2. Admit(paper.doc) = {} /\ HasCanonicalText(paper.doc)
    BY <1>4, Zenon DEF Archivable, AdmitText
  <2>3. /\ DOMAIN sealed = {"doc", "honest", "of"}
        /\ sealed = [x \in {"doc", "honest", "of"} |-> sealed[x]]
        /\ sealed.honest = paper.honest /\ sealed.doc = Seal(paper.doc, 1)
    BY <2>1, SealedPaper
  <2> HIDE DEF sealed
  <2>4. /\ IsDoc(Seal(paper.doc, 1))
        /\ Seal(paper.doc, 1).provenance = paper.doc.provenance
    <3>1. "provenance" \in Fields \ {"integrity", "combinedAt"}
      BY DEF Fields
    <3> QED BY <2>1, <3>1, SealKeeps DEF IsPaper
  <2>5. IsPaper(sealed)
    BY <2>1, <2>3, <2>4, Zenon DEF IsPaper
  <2>6. IsSealed(sealed)
    BY <2>1, <2>2, <2>3, Zenon DEF IsSealed, IsPaper
  <2>7. \A p \in filed' : IsPaper(p) /\ IsSealed(p)
    BY <1>4, <2>5, <2>6 DEF PaperInv
  <2>8. (\A p \in filed : IsPaper(p) /\ IsSealed(p))'
    BY <1>1, <2>7, Zenon DEF IsPaper, IsSealed, IsDoc
  <2> QED BY <1>1, <2>8 DEF PaperInv
<1> QED BY <1>2, <1>3, <1>4

\* Every step in the life of a document, and every stutter, keeps the invariant.
LEMMA PaperNext ==
  ASSUME ProvenanceAssumption, PaperAssumption, PaperInv, [NextPaper]_pvars PROVE PaperInv'
<1>1. CASE UNCHANGED pvars
  BY <1>1, HostStays DEF pvars
<1>2. CASE \E t \in Tree : EditTree(t) \/ CommitTree(t) \/ SwitchTree(t)
  <2>1. UNCHANGED <<host, paper, filed>>
    BY <1>2, Zenon DEF EditTree, CommitTree, SwitchTree, Change
  <2> QED BY <2>1, HostStays
<1>3. CASE Build
  BY <1>3, HostStays DEF Build
<1> QED BY <1>1, <1>2, <1>3, PaperSweep, PaperEdit, PaperCopy, PaperArchive DEF NextPaper

\* The invariant holds in every reachable state.
LEMMA PaperSafe == SpecPaper => []PaperInv
<1>1. InitPaper => PaperInv
  BY PaperInit, ProvenanceAssumption, PaperAssumption
<1>2. PaperInv /\ [NextPaper]_pvars => PaperInv'
  BY PaperNext, ProvenanceAssumption, PaperAssumption
<1> QED BY <1>1, <1>2, PTL DEF SpecPaper

-----------------------------------------------------------------------------
\* The probe says "native" only of a host that is, whatever of it can be read.
LEMMA ProbeIsTrue == ASSUME host \in Host, Probe(host) = "false" PROVE ~host.translated
<1>1. MapsEvidence(host) = "native" \/ DaemonEvidence(host) = "native"
  <2>1. BinfmtEvidence(host) # "native" /\ UnameEvidence(host) # "native"
    BY SMT DEF BinfmtEvidence, UnameEvidence
  <2>2. "native" \in {MapsEvidence(host), BinfmtEvidence(host), DaemonEvidence(host), UnameEvidence(host)}
    BY SMT DEF Probe
  <2> QED BY <2>1, <2>2
<1>2. host.maps = "clean" \/ host.daemon = "same"
  BY <1>1, SMT DEF MapsEvidence, DaemonEvidence, Host
<1> QED BY <1>2, SMT DEF Host

\* admit() and the probe of src/emulation.rs: no run that was not edited by hand
\* is in the archive from a host that translated its instructions.
THEOREM NothingTranslatedIsFiled == SpecPaper => []FiledIsNative
<1>1. PaperInv => FiledIsNative
  <2> SUFFICES ASSUME PaperInv, NEW p \in filed, p.honest PROVE ~host.translated
    BY DEF FiledIsNative
  <2>1. PICK doc : IsDoc(doc) /\ p.doc = Seal(doc, 1) /\ Admit(doc) = {}
    BY Zenon DEF PaperInv, IsSealed
  <2>2. CheckEmulation(p.doc.provenance) = {}
    <3>1. Admit(p.doc) = {}
      BY <2>1, SealAdmit
    <3> QED BY <3>1, Zenon DEF Admit
  <2>3. p.doc.provenance.emulated = "false"
    BY <2>2, SMT DEF CheckEmulation
  <2> QED BY <2>3, ProbeIsTrue DEF PaperInv, IsPaper
<1> QED BY <1>1, PaperSafe, PTL

\* seal() and verify() of src/storage/integrity.rs: what was filed, by whatever
\* hand it went through before, verifies, is admitted again and keeps its
\* digests when it is sealed again.  None is not a record of digests.
THEOREM FiledStandsForGood ==
  ASSUME \A d : Digests(d) # Null
  PROVE  SpecPaper => []FiledStands
<1>1. PaperInv => FiledStands
  <2> SUFFICES ASSUME PaperInv, NEW p \in filed
               PROVE  /\ VerifyOk(p.doc) /\ AdmitText(p.doc) = {}
                      /\ Seal(p.doc, 2).integrity = p.doc.integrity
    BY DEF FiledStands
  <2>1. PICK doc : IsDoc(doc) /\ p.doc = Seal(doc, 1) /\ Admit(doc) = {} /\ HasCanonicalText(doc)
    BY Zenon DEF PaperInv, IsSealed
  <2>2. p.doc.integrity = Digests(p.doc) /\ IsDoc(p.doc)
    BY <2>1, SealKeeps, SealDigests
  <2>3. Moved(p.doc) = {}
    BY <2>2, Zenon DEF Moved
  <2>4. VerifyOk(p.doc)
    BY <2>2, <2>3 DEF VerifyOk
  <2>5. Admit(p.doc) = {} /\ HasCanonicalText(p.doc)
    BY <2>1, SealAdmit
  <2>6. AdmitText(p.doc) = {}
    BY <2>4, <2>5, Zenon DEF AdmitText, IntegrityRefusals
  <2>7. Seal(p.doc, 2).integrity = p.doc.integrity
    BY <2>2, SealKeeps
  <2> QED BY <2>4, <2>6, <2>7
<1> QED BY <1>1, PaperSafe, PTL

-----------------------------------------------------------------------------
(* What an edit moves. *)

\* The digests of a document, block by block.
LEMMA DigestsOf ==
  ASSUME NEW d
  PROVE  /\ DOMAIN Digests(d) = {"cells", "runners", "measurements", "document"}
         /\ Digests(d)["cells"] = <<d.cells>> /\ Digests(d)["runners"] = <<d.runner>>
         /\ Digests(d)["measurements"] = <<d.measurement>>
         /\ Digests(d)["document"] = <<Evidence(d)>>
BY SMT DEF Digests

\* An edit that shows in the evidence of a sealed document moves the block it
\* writes into and the whole document, and no other.
LEMMA EditMoves ==
  ASSUME NEW doc, IsDoc(doc), doc.integrity = Digests(doc), Digests(doc) # Null,
         NEW kind \in Kinds \ {"unsealed", "stamp"}, Evidence(Edited(doc, kind)) # Evidence(doc)
  PROVE  LET e == Edited(doc, kind)
             x == FieldOf(kind)
         IN  /\ AdmitText(e) # {}
             /\ Moved(e) = (IF x = "cells" THEN {"cells"} ELSE IF x = "runner" THEN {"runners"}
                            ELSE IF x = "measurement" THEN {"measurements"} ELSE {})
                           \cup {"document"}
<1> DEFINE e == Edited(doc, kind)
           x == FieldOf(kind)
<1>1. x \in {"cells", "runner", "measurement", "provenance", "invocation"}
  BY SMT DEF FieldOf, Kinds
<1>2. IsDoc(e) /\ \A y \in Fields \ {x} : e[y] = doc[y]
  BY EditKeeps
<1> HIDE DEF e, x
<1>3. {"cells", "runner", "measurement", "provenance", "invocation", "integrity"} \subseteq Fields
  BY DEF Fields
<1>4. e.integrity = Digests(doc)
  BY <1>1, <1>2, <1>3, SMT
<1>5. e[x] # doc[x]
  <2> SUFFICES ASSUME e[x] = doc[x] PROVE Evidence(e) = Evidence(doc)
    BY Zenon DEF e
  <2>1. \A y \in Fields : e[y] = doc[y]
    BY <1>2
  <2>2. \A y \in Fields : (IF y \in {"integrity", "combinedAt"} THEN Null ELSE e[y])
                          = (IF y \in {"integrity", "combinedAt"} THEN Null ELSE doc[y])
    BY <2>1
  <2>3. Evidence(e) = [y \in Fields |-> IF y \in {"integrity", "combinedAt"} THEN Null ELSE e[y]]
    BY <1>2, EvidenceOf
  <2>4. Evidence(doc) = [y \in Fields |-> IF y \in {"integrity", "combinedAt"} THEN Null ELSE doc[y]]
    BY EvidenceOf
  <2> QED BY <2>2, <2>3, <2>4, Zenon
<1>6. /\ <<e.cells>> # <<doc.cells>> <=> x = "cells"
      /\ <<e.runner>> # <<doc.runner>> <=> x = "runner"
      /\ <<e.measurement>> # <<doc.measurement>> <=> x = "measurement"
      /\ <<Evidence(e)>> # <<Evidence(doc)>>
  <2>1. /\ e.cells # doc.cells <=> x = "cells"
        /\ e.runner # doc.runner <=> x = "runner"
        /\ e.measurement # doc.measurement <=> x = "measurement"
    BY <1>1, <1>2, <1>3, <1>5, SMT
  <2>2. Evidence(e) # Evidence(doc)
    BY Zenon DEF e
  <2>3. \A a, b : <<a>> = <<b>> <=> a = b
    BY SMT
  <2> QED BY <2>1, <2>2, <2>3, Zenon
<1>7. Moved(e) = {b \in {"cells", "runners", "measurements", "document"} :
                    Digests(doc)[b] # Digests(e)[b]}
  BY <1>4, DigestsOf, Zenon DEF Moved
<1>8. /\ "cells" \in Moved(e) <=> x = "cells"
      /\ "runners" \in Moved(e) <=> x = "runner"
      /\ "measurements" \in Moved(e) <=> x = "measurement"
      /\ "document" \in Moved(e)
      /\ Moved(e) \subseteq {"cells", "runners", "measurements", "document"}
  <2> DEFINE a(b) == Digests(doc)[b]
             c(b) == Digests(e)[b]
  <2>1. /\ a("cells") = <<doc.cells>> /\ a("runners") = <<doc.runner>>
        /\ a("measurements") = <<doc.measurement>> /\ a("document") = <<Evidence(doc)>>
        /\ c("cells") = <<e.cells>> /\ c("runners") = <<e.runner>>
        /\ c("measurements") = <<e.measurement>> /\ c("document") = <<Evidence(e)>>
    BY DigestsOf
  <2>2. Moved(e) = {b \in {"cells", "runners", "measurements", "document"} : a(b) # c(b)}
    BY <1>7
  <2> HIDE DEF a, c
  <2> QED BY <1>6, <2>1, <2>2, Zenon
<1>9. Moved(e) = (IF x = "cells" THEN {"cells"} ELSE IF x = "runner" THEN {"runners"}
                  ELSE IF x = "measurement" THEN {"measurements"} ELSE {}) \cup {"document"}
  <2> DEFINE M == Moved(e)
  <2>1. /\ "cells" \in M <=> x = "cells"
        /\ "runners" \in M <=> x = "runner"
        /\ "measurements" \in M <=> x = "measurement"
        /\ "document" \in M
        /\ M \subseteq {"cells", "runners", "measurements", "document"}
    BY <1>8
  <2> HIDE DEF M
  <2>2. M = (IF x = "cells" THEN {"cells"} ELSE IF x = "runner" THEN {"runners"}
             ELSE IF x = "measurement" THEN {"measurements"} ELSE {}) \cup {"document"}
    <3> DEFINE N == (IF x = "cells" THEN {"cells"} ELSE IF x = "runner" THEN {"runners"}
                     ELSE IF x = "measurement" THEN {"measurements"} ELSE {}) \cup {"document"}
    <3>1. /\ "cells" \in N <=> x = "cells"
          /\ "runners" \in N <=> x = "runner"
          /\ "measurements" \in N <=> x = "measurement"
          /\ "document" \in N
          /\ N \subseteq {"cells", "runners", "measurements", "document"}
      BY SMT
    <3> HIDE DEF N
    <3>2. \A b \in {"cells", "runners", "measurements", "document"} : b \in M <=> b \in N
      BY <2>1, <3>1, SMT
    <3> DEFINE D == {"cells", "runners", "measurements", "document"}
    <3>3. M \subseteq D /\ N \subseteq D /\ \A b \in D : b \in M <=> b \in N
      BY <2>1, <3>1, <3>2
    <3> HIDE DEF D
    <3>4. M = N
      BY <3>3
    <3> QED BY <3>4 DEF N
  <2> QED BY <2>2 DEF M
<1>10. AdmitText(e) # {}
  <2>1. ~VerifyOk(e)
    BY <1>8, Zenon DEF VerifyOk
  <2>2. IntegrityRefusals(e) = {"integrity"}
    BY <1>4, <2>1, Zenon DEF IntegrityRefusals
  <2> QED BY <2>2, Zenon DEF AdmitText
<1> QED BY <1>9, <1>10, Zenon DEF e, x

\* verify() of src/storage/integrity.rs: whatever was filed, an edit of it that
\* shows is refused and named.  None is not a record of digests.
THEOREM EditsAreNamed ==
  ASSUME \A d : Digests(d) # Null
  PROVE  SpecPaper => []EditIsNamed
<1>1. PaperInv => EditIsNamed
  <2> SUFFICES ASSUME PaperInv, NEW p \in filed, NEW kind \in Edits \ {"unsealed", "stamp"},
                      Evidence(Edited(p.doc, kind)) # Evidence(p.doc)
               PROVE  LET e == Edited(p.doc, kind)
                          block == CASE kind \in {"cells", "outcome"} -> {"cells"}
                                     [] kind = "runner" -> {"runners"}
                                     [] kind = "measurement" -> {"measurements"}
                                     [] OTHER -> {}
                      IN  AdmitText(e) # {} /\ Moved(e) = block \cup {"document"}
    BY Zenon DEF EditIsNamed
  <2> DEFINE doc == p.doc
             e == Edited(doc, kind)
             x == FieldOf(kind)
             named == IF x = "cells" THEN {"cells"} ELSE IF x = "runner" THEN {"runners"}
                      ELSE IF x = "measurement" THEN {"measurements"} ELSE {}
             block == CASE kind \in {"cells", "outcome"} -> {"cells"}
                        [] kind = "runner" -> {"runners"}
                        [] kind = "measurement" -> {"measurements"}
                        [] OTHER -> {}
  <2>1. doc.integrity = Digests(doc) /\ IsDoc(doc)
    <3>1. PICK d : IsDoc(d) /\ p.doc = Seal(d, 1)
      BY Zenon DEF PaperInv, IsSealed
    <3> QED BY <3>1, SealKeeps, SealDigests
  <2>2. kind \in Kinds \ {"unsealed", "stamp"}
    BY PaperAssumption DEF PaperAssumption, Kinds
  <2>3. AdmitText(e) # {} /\ Moved(e) = named \cup {"document"}
    BY <2>1, <2>2, EditMoves
  <2>4. block = named
    <3> HIDE DEF e, doc
    <3> QED BY <2>2, SMT DEF FieldOf, Kinds
  <2> HIDE DEF named, block, e
  <2>5. AdmitText(e) # {} /\ Moved(e) = block \cup {"document"}
    BY <2>3, <2>4
  <2> QED BY <2>5, Zenon DEF block, e
<1> QED BY <1>1, PaperSafe, PTL

-----------------------------------------------------------------------------
(* What is warned of and what is refused. *)

\* What capture_for_document() answers where it has something to look at.
BlockOk(b) ==
  /\ b.dirty \in BOOLEAN \cup {Null} /\ b.libraryDirty \in BOOLEAN \cup {Null}
  /\ b.debugAssertions \in BOOLEAN
  /\ b.buildProfile = IF b.debugAssertions THEN "debug" ELSE "release"
  /\ b.cpuModel # Null /\ b.fsType # Null

\* A document as a sweep wrote it, sealed or not: its block, its invocation, its
\* repetitions, and the dirt of its trees on every cell.
AsSwept(doc) ==
  /\ BlockOk(doc.provenance)
  /\ doc.invocation = Invocation /\ doc.measurement = [reps |-> 2]
  /\ \A i \in DOMAIN doc.cells : doc.cells[i].reps = doc.cells[i].minReps /\ doc.cells[i].reps \in Nat
  /\ TRUE \in {doc.provenance.dirty, doc.provenance.libraryDirty} =>
       \A i \in DOMAIN doc.cells : doc.cells[i].dirty = TRUE

\* The trees, the stamps of the binary built from them and the honest documents.
SweptInv ==
  /\ trees \in [Tree -> Trees]
  /\ binary # Null => \A t \in Tree : binary.stamps.trees[t].dirty \in BOOLEAN \cup {Null}
  /\ paper # Null /\ paper.honest => AsSwept(paper.doc)
  /\ \A p \in filed : p.honest => AsSwept(p.doc)

\* What is warned of.
LEMMA WarnedOf ==
  ASSUME NEW b, BlockOk(b)
  PROVE  /\ "emulated" \in Warnings(b) <=> b.emulated # "false"
         /\ "unstamped" \in Warnings(b) <=>
              Null \in {b.commit, b.dirty, b.libraryCommit, b.libraryDirty}
         /\ "dirty" \in Warnings(b) => TRUE \in {b.dirty, b.libraryDirty}
         /\ TRUE \in {b.dirty, b.libraryDirty} => Warnings(b) \cap {"dirty", "unstamped"} # {}
         /\ "debug-build" \in Warnings(b) <=> b.debugAssertions = TRUE
         /\ "tmpfs" \in Warnings(b) <=> b.fsType = "tmpfs" /\ ~b.declaredTmpfs
         /\ Warnings(b) \subseteq {"emulated", "unstamped", "dirty", "off-main", "debug-build", "tmpfs"}
<1> DEFINE h == TreeWarnings(b.commit, b.dirty)
           l == TreeWarnings(b.libraryCommit, b.libraryDirty)
           E == IF b.emulated = "false" THEN {} ELSE {"emulated"}
           O == IF b.mainRelation = "at-main" THEN {} ELSE {"off-main"}
           D == IF b.debugAssertions THEN {"debug-build"} ELSE {}
           T == IF b.fsType = "tmpfs" /\ ~b.declaredTmpfs THEN {"tmpfs"} ELSE {}
<1>1. Warnings(b) = E \cup h \cup l \cup O \cup D \cup T
  BY DEF Warnings
<1>2. /\ h \subseteq {"unstamped", "dirty"} /\ l \subseteq {"unstamped", "dirty"}
      /\ "unstamped" \in h <=> Null \in {b.commit, b.dirty}
      /\ "unstamped" \in l <=> Null \in {b.libraryCommit, b.libraryDirty}
      /\ "dirty" \in h => b.dirty = TRUE
      /\ "dirty" \in l => b.libraryDirty = TRUE
      /\ b.dirty = TRUE => h # {}
      /\ b.libraryDirty = TRUE => l # {}
  <2>1. ASSUME NEW c, NEW d \in BOOLEAN \cup {Null}
        PROVE  /\ TreeWarnings(c, d) \subseteq {"unstamped", "dirty"}
               /\ "unstamped" \in TreeWarnings(c, d) <=> Null \in {c, d}
               /\ "dirty" \in TreeWarnings(c, d) => d = TRUE
               /\ d = TRUE => TreeWarnings(c, d) # {}
    <3>1. CASE c = Null \/ d = Null
      <4>1. TreeWarnings(c, d) = {"unstamped"} /\ Null \in {c, d}
        BY <3>1, Zenon DEF TreeWarnings
      <4> QED BY <4>1
    <3>2. CASE ~(c = Null \/ d = Null) /\ d = TRUE
      <4>1. TreeWarnings(c, d) = {"dirty"} /\ Null \notin {c, d}
        BY <3>2, Zenon DEF TreeWarnings
      <4> QED BY <3>2, <4>1
    <3>3. CASE ~(c = Null \/ d = Null) /\ d = FALSE
      <4>1. TreeWarnings(c, d) = {} /\ Null \notin {c, d}
        BY <3>3, Zenon DEF TreeWarnings
      <4>2. d # TRUE
        BY <3>3
      <4> QED BY <4>1, <4>2
    <3> QED BY <3>1, <3>2, <3>3
  <2> QED BY <2>1 DEF BlockOk
<1>3. /\ E \subseteq {"emulated"} /\ ("emulated" \in E <=> b.emulated # "false")
      /\ O \subseteq {"off-main"}
      /\ D \subseteq {"debug-build"} /\ ("debug-build" \in D <=> b.debugAssertions = TRUE)
      /\ T \subseteq {"tmpfs"} /\ ("tmpfs" \in T <=> b.fsType = "tmpfs" /\ ~b.declaredTmpfs)
  BY DEF BlockOk
<1> HIDE DEF h, l, E, O, D, T
<1> QED BY <1>1, <1>2, <1>3

\* The warnings before a sweep are refusals after it, and the other way round.
LEMMA PreviewOf ==
  ASSUME PaperAssumption, NEW doc, AsSwept(doc), doc.integrity = Null
  PROVE  LET warned == Warnings(doc.provenance)
                         \ ({"off-main"} \cup IF doc.provenance.allowDirty THEN {"dirty"} ELSE {})
             sound == CheckCells(doc) = {} /\ CheckProfileWalk(doc) = {}
         IN  /\ warned # {} => AdmitText(doc) # {}
             /\ (warned = {} /\ sound) => AdmitText(doc) \subseteq {"perturbing-rustflags"}
<1> DEFINE b == doc.provenance
           spared == {"off-main"} \cup IF b.allowDirty THEN {"dirty"} ELSE {}
           warned == Warnings(b) \ spared
           sound == CheckCells(doc) = {} /\ CheckProfileWalk(doc) = {}
           dirt == TRUE \in {b.dirty, b.libraryDirty}
<1>1. IntegrityRefusals(doc) = {} /\ AdmitText(doc) = Admit(doc)
  BY Zenon DEF IntegrityRefusals, AdmitText
<1>2. BlockOk(b)
  BY DEF AsSwept
<1>3. /\ "off-main" \in spared /\ spared \subseteq {"off-main", "dirty"}
      /\ "dirty" \in spared <=> b.allowDirty
  OBVIOUS
<1>4. /\ CheckSourceTrees(doc) # {} <=>
           \/ Null \in {b.commit, b.libraryCommit} \/ Null \in {b.dirty, b.libraryDirty}
           \/ dirt /\ ~b.allowDirty
           \/ dirt /\ b.allowDirty /\ \E i \in DOMAIN doc.cells : doc.cells[i].dirty # TRUE
  BY Zenon DEF CheckSourceTrees
<1>5. ASSUME NEW w \in warned PROVE Admit(doc) # {}
  <2>1. CASE w = "emulated"
    <3>1. CheckEmulation(b) # {}
      BY <1>2, <2>1, WarnedOf DEF CheckEmulation
    <3> QED BY <3>1, Zenon DEF Admit
  <2>2. CASE w = "unstamped"
    <3>1. CheckSourceTrees(doc) # {}
      BY <1>2, <1>4, <2>2, WarnedOf
    <3> QED BY <3>1, Zenon DEF Admit
  <2>3. CASE w = "dirty"
    <3>1. dirt /\ ~b.allowDirty
      BY <1>2, <1>3, <2>3, WarnedOf
    <3>2. CheckSourceTrees(doc) # {}
      BY <1>4, <3>1, Zenon
    <3> QED BY <3>2, Zenon DEF Admit
  <2>4. CASE w = "debug-build"
    <3>1. b.debugAssertions = TRUE
      BY <1>2, <2>4, WarnedOf
    <3>2. "debug-build" \in CheckBuild(b)
      BY <3>1 DEF CheckBuild
    <3> QED BY <3>2, Zenon DEF Admit
  <2>5. CASE w = "tmpfs"
    <3>1. b.fsType = "tmpfs" /\ ~b.declaredTmpfs /\ b.fsType # Null
      BY <1>2, <2>5, WarnedOf DEF BlockOk
    <3>2. "tmpfs" \in CheckFilesystem(b)
      BY <3>1 DEF CheckFilesystem
    <3> QED BY <3>2, Zenon DEF Admit
  <2> QED BY <1>2, <1>3, <2>1, <2>2, <2>3, <2>4, <2>5, WarnedOf
<1>6. ASSUME warned = {}, sound PROVE Admit(doc) \subseteq {"perturbing-rustflags"}
  <2>0. /\ "emulated" \notin Warnings(b) /\ "unstamped" \notin Warnings(b)
        /\ "debug-build" \notin Warnings(b) /\ "tmpfs" \notin Warnings(b)
        /\ "dirty" \in Warnings(b) => b.allowDirty
    <3>1. \A w \in Warnings(b) : w \in spared
      BY <1>6
    <3> HIDE DEF spared
    <3> QED BY <1>3, <3>1
  <2>1. CheckEmulation(b) = {} /\ CheckHostAndArch(b) = {}
    BY <1>2, <2>0, WarnedOf DEF BlockOk, CheckEmulation, CheckHostAndArch
  <2>2. CheckSourceTrees(doc) = {}
    <3>1. Null \notin {b.commit, b.dirty, b.libraryCommit, b.libraryDirty}
      BY <1>2, <2>0, WarnedOf
    <3>2. dirt => b.allowDirty
      <4>1. dirt => Warnings(b) \cap {"dirty", "unstamped"} # {}
        BY <1>2, WarnedOf
      <4> HIDE DEF dirt
      <4> QED BY <2>0, <4>1
    <3>3. dirt => \A i \in DOMAIN doc.cells : doc.cells[i].dirty = TRUE
      BY DEF AsSwept
    <3> QED BY <1>4, <3>1, <3>2, <3>3, Zenon
  <2>3. CheckBuild(b) \subseteq {"perturbing-rustflags"}
    <3>1. b.debugAssertions = FALSE
      BY <1>2, <2>0, WarnedOf DEF BlockOk
    <3>2. b.buildProfile = "release"
      BY <1>2, <3>1 DEF BlockOk
    <3> QED BY <3>1, <3>2 DEF CheckBuild
  <2>4. CheckFilesystem(b) = {}
    <3>1. ~(b.fsType = "tmpfs" /\ ~b.declaredTmpfs) /\ b.fsType # Null
      BY <1>2, <2>0, WarnedOf DEF BlockOk
    <3> QED BY <3>1 DEF CheckFilesystem
  <2>5. CheckInvocationAndReps(doc) = {}
    <3>1. doc.invocation = Invocation /\ doc.measurement.reps = 2 /\ Invocation # Null /\ Null # 2
      BY DEF AsSwept, PaperAssumption
    <3>2. Invocation.scenarios # {} /\ "all" \notin Invocation.scenarios /\ Invocation.reps = 2
      BY DEF Invocation
    <3>3. ~\E i \in DOMAIN doc.cells : doc.cells[i].reps < doc.cells[i].minReps
      BY DEF AsSwept
    <3> QED BY <3>1, <3>2, <3>3, Zenon DEF CheckInvocationAndReps
  <2> QED BY <1>6, <2>1, <2>2, <2>3, <2>4, <2>5 DEF Admit
<1> HIDE DEF warned, sound
<1>7. /\ warned # {} => AdmitText(doc) # {}
      /\ (warned = {} /\ sound) => AdmitText(doc) \subseteq {"perturbing-rustflags"}
  BY <1>1, <1>5, <1>6
<1> QED BY <1>7 DEF warned, sound

\* No commit, branch or edit makes a tree something else.
LEMMA TreesAreTrees ==
  ASSUME ProvenanceAssumption, trees \in [Tree -> Trees],
         NEW t \in Tree, EditTree(t) \/ CommitTree(t) \/ SwitchTree(t)
  PROVE  trees' \in [Tree -> Trees]
<1>1. trees[t] \in Trees
  OBVIOUS
<1>2. CASE EditTree(t)
  <2>1. [trees[t] EXCEPT !.edited = TRUE] \in Trees
    BY <1>1 DEF Trees
  <2> QED BY <1>2, <2>1 DEF EditTree, Change
<1>3. CASE CommitTree(t)
  <2>1. trees[t].commit + 1 \in 1..MaxCommit
    BY <1>1, <1>3 DEF CommitTree, Trees, ProvenanceAssumption
  <2>2. [trees[t] EXCEPT !.edited = FALSE, !.commit = @ + 1] \in Trees
    BY <1>1, <2>1 DEF Trees
  <2> QED BY <1>3, <2>2 DEF CommitTree, Change
<1>4. CASE SwitchTree(t)
  <2>1. PICK c \in 1..MaxCommit :
          trees' = [trees EXCEPT ![t] = [trees[t] EXCEPT
                      !.head = IF @ = "main" THEN "topic" ELSE "main", !.commit = c]]
    BY <1>4 DEF SwitchTree, Change
  <2>2. [trees[t] EXCEPT !.head = IF @ = "main" THEN "topic" ELSE "main", !.commit = c] \in Trees
    BY <1>1 DEF Trees
  <2> QED BY <2>1, <2>2
<1> QED BY <1>2, <1>3, <1>4

\* What is stamped of a tree's dirt is an answer or none.
LEMMA StampsAreAnswers ==
  ASSUME NEW w, NEW h, NEW t \in Tree
  PROVE  Stamps(w, h).trees[t].dirty \in BOOLEAN \cup {Null}
<1>1. Stamps(w, h).trees[t].dirty = Dirty(w[t], FALSE)
  <2> DEFINE g(x) == GitTreeState(x)
  <2>1. Stamps(w, h).trees = [x \in Tree |-> g(w[x])]
    BY SMT DEF Stamps
  <2>2. \A x : g(x).dirty = Dirty(x, FALSE)
    BY SMT DEF GitTreeState
  <2> HIDE DEF g
  <2> QED BY <2>1, <2>2
<1> QED BY <1>1, Zenon DEF Dirty

\* The block of a host that a binary with such stamps writes.
LEMMA BlockIsOk ==
  ASSUME PaperAssumption, NEW stamps, NEW h \in Host, NEW allowDirty,
         \A t \in Tree : stamps.trees[t].dirty \in BOOLEAN \cup {Null}
  PROVE  BlockOk(Block(stamps, h, allowDirty))
<1> DEFINE b == Block(stamps, h, allowDirty)
<1>1. /\ b.dirty = Stamped(stamps)["harness"].dirty /\ b.libraryDirty = Stamped(stamps)["library"].dirty
      /\ b.debugAssertions = h.debug /\ b.buildProfile = IF h.debug THEN "debug" ELSE "release"
      /\ b.cpuModel = CpuModel(h) /\ b.fsType = FsTypeName(h)
  BY SMT DEF Block
<1>2. \A t \in Tree : Stamped(stamps)[t].dirty = stamps.trees[t].dirty
  BY SMT DEF Stamped
<1>3. "harness" \in Tree /\ "library" \in Tree
  BY DEF Tree
<1>4. h.debug \in BOOLEAN
  BY DEF Host
<1>5. CpuModel(h) # Null /\ FsTypeName(h) # Null
  BY DEF CpuModel, FsTypeName, PaperAssumption
<1> HIDE DEF b
<1>6. b.dirty \in BOOLEAN \cup {Null} /\ b.libraryDirty \in BOOLEAN \cup {Null}
  BY <1>1, <1>2, <1>3
<1>7. BlockOk(b)
  BY <1>1, <1>4, <1>5, <1>6, Zenon DEF BlockOk
<1> QED BY <1>7 DEF b

\* A row declares its repetitions twice.
LEMMA ReportedRow ==
  ASSUME NEW r
  PROVE  LET c == FromReport(r)
         IN  /\ {"reps", "minReps", "dirty"} \subseteq DOMAIN c /\ c = [x \in DOMAIN c |-> c[x]]
             /\ c.reps = r.declared /\ c.minReps = r.declared
<1> DEFINE reason == r.outcome # "ok"
           median == IF r.walked = Null THEN Null ELSE Walk[r.walked] + 1
           confidence == IF r.samples < r.declared THEN "low" ELSE "high"
           c == FromReport(r)
<1>1. c = [backend |-> r.backend, outcome |-> r.outcome, reason |-> reason,
           attested |-> r.attested, samples |-> r.samples, reps |-> r.declared,
           minReps |-> r.declared, median |-> median, fact |-> r.fact, dirty |-> Null,
           confidence |-> confidence]
  BY Zenon DEF FromReport
<1> HIDE DEF reason, median, confidence, c
<1>2. /\ {"reps", "minReps", "dirty"} \subseteq DOMAIN c /\ c = [x \in DOMAIN c |-> c[x]]
      /\ c.reps = r.declared /\ c.minReps = r.declared
  BY <1>1, SMT
<1> QED BY <1>2 DEF c

\* A sweep writes such a document.
LEMMA SweptIsSwept ==
  ASSUME PaperAssumption, PaperInv, SweptInv, binary # Null,
         NEW profile, NEW report \in Reports, NEW allowDirty
  PROVE  AsSwept(Written(profile, report, allowDirty))
<1> DEFINE w == Written(profile, report, allowDirty)
           block == Block(binary.stamps, host, allowDirty)
           cells == [i \in DOMAIN report.rows |-> FromReport(report.rows[i])]
           dirt == TRUE \in {block.dirty, block.libraryDirty}
<1>1. /\ w.provenance = block /\ w.invocation = Invocation /\ w.measurement = [reps |-> 2]
      /\ w.cells = StampDirty(cells, block)
  BY WrittenIsDoc
<1>2. BlockOk(block)
  BY BlockIsOk DEF PaperInv, SweptInv
<1> HIDE DEF w, block
<1>3. DOMAIN w.cells = DOMAIN report.rows
  BY <1>1 DEF StampDirty
<1>4. ASSUME NEW i \in DOMAIN report.rows
      PROVE  /\ w.cells[i].reps = w.cells[i].minReps /\ w.cells[i].reps \in Nat
             /\ dirt => w.cells[i].dirty = TRUE
  <2> DEFINE c == cells[i]
  <2>1. w.cells[i] = [c EXCEPT !.dirty = IF TRUE \in {block.dirty, block.libraryDirty} THEN TRUE ELSE @]
    BY <1>1 DEF StampDirty
  <2>2. /\ {"reps", "minReps", "dirty"} \subseteq DOMAIN c /\ c = [x \in DOMAIN c |-> c[x]]
        /\ c.reps = report.rows[i].declared /\ c.minReps = report.rows[i].declared
    BY ReportedRow
  <2>3. report.rows[i].declared \in Nat
    BY DEF PaperAssumption
  <2> HIDE DEF c
  <2> DEFINE D == DOMAIN c
             value == IF TRUE \in {block.dirty, block.libraryDirty} THEN TRUE ELSE c.dirty
  <2>4. w.cells[i] = [c EXCEPT !.dirty = value]
    BY <2>1, Zenon
  <2>5. c = [x \in D |-> c[x]] /\ {"reps", "minReps", "dirty"} \subseteq D
    BY <2>2
  <2>6. dirt => value = TRUE
    BY Zenon
  <2> HIDE DEF value, D
  <2>7. w.cells[i] = [x \in D |-> IF x = "dirty" THEN value ELSE c[x]]
    BY <2>4, <2>5, WriteField DEF D
  <2>8. w.cells[i].reps = c.reps /\ w.cells[i].minReps = c.minReps /\ w.cells[i].dirty = value
    BY <2>5, <2>7, SMT
  <2> QED BY <2>2, <2>3, <2>6, <2>8
<1>5. AsSwept(w)
  BY <1>1, <1>2, <1>3, <1>4, Zenon DEF AsSwept
<1> QED BY <1>5 DEF w

\* Sealing leaves it one.
LEMMA SealSwept ==
  ASSUME NEW doc, IsDoc(doc), AsSwept(doc), NEW now
  PROVE  AsSwept(Seal(doc, now))
<1> DEFINE s == Seal(doc, now)
<1>1. \A x \in Fields \ {"integrity", "combinedAt"} : s[x] = doc[x]
  BY SealKeeps
<1> HIDE DEF s
<1>2. /\ s.provenance = doc.provenance /\ s.cells = doc.cells /\ s.invocation = doc.invocation
      /\ s.measurement = doc.measurement
  BY <1>1, SMT DEF Fields
<1>3. AsSwept(s)
  BY <1>2, Zenon DEF AsSwept
<1> QED BY <1>3 DEF s

\* At first there is no binary, and no document.
LEMMA SweptInit == ASSUME PaperAssumption, InitPaper PROVE SweptInv
<1>1. PICK start \in Starts : trees = start.trees
  BY DEF InitPaper
<1>2. trees \in [Tree -> Trees]
  BY <1>1, SMT DEF PaperAssumption
<1> QED BY <1>2 DEF InitPaper, SweptInv

\* Every step keeps documents as they were swept, or no longer calls them honest.
LEMMA SweptNext ==
  ASSUME ProvenanceAssumption, PaperAssumption, PaperInv, SweptInv, [NextPaper]_pvars
  PROVE  SweptInv'
<1>1. ASSUME UNCHANGED <<trees, binary>>,
             paper' # Null /\ paper'.honest => AsSwept(paper'.doc),
             \A p \in filed' : p.honest => AsSwept(p.doc)
      PROVE  SweptInv'
  BY <1>1, Zenon DEF SweptInv, AsSwept, BlockOk, Invocation
<1>2. ASSUME UNCHANGED <<paper, filed>>, trees' \in [Tree -> Trees],
             binary' # Null => \A t \in Tree : binary'.stamps.trees[t].dirty \in BOOLEAN \cup {Null}
      PROVE  SweptInv'
  BY <1>2, Zenon DEF SweptInv, AsSwept, BlockOk, Invocation
<1>3. CASE UNCHANGED pvars
  BY <1>1, <1>3 DEF pvars, SweptInv
<1>4. CASE \E t \in Tree : EditTree(t) \/ CommitTree(t) \/ SwitchTree(t)
  <2>1. trees' \in [Tree -> Trees]
    BY <1>4, TreesAreTrees DEF SweptInv
  <2>2. UNCHANGED <<binary, paper, filed>>
    BY <1>4, Zenon DEF EditTree, CommitTree, SwitchTree, Change
  <2> QED BY <1>2, <2>1, <2>2 DEF SweptInv
<1>5. CASE Build
  <2>1. UNCHANGED <<trees, paper, filed>>
    BY <1>5 DEF Build
  <2>2. binary'.stamps = Stamps(trees, host) \/ (binary # Null /\ binary'.stamps = binary.stamps)
    BY <1>5 DEF Build
  <2>3. \A t \in Tree : binary'.stamps.trees[t].dirty \in BOOLEAN \cup {Null}
    BY <2>2, StampsAreAnswers DEF SweptInv
  <2> QED BY <1>2, <2>1, <2>3 DEF SweptInv
<1>6. CASE Sweep
  <2>1. PICK profile \in DOMAIN Walk, report \in Reports, allowDirty \in BOOLEAN :
          paper' = [doc |-> Written(profile, report, allowDirty), honest |-> TRUE, of |-> binary.of]
    BY <1>6, Zenon DEF Sweep
  <2>2. binary # Null /\ UNCHANGED <<trees, binary, filed>>
    BY <1>6 DEF Sweep
  <2> DEFINE w == Written(profile, report, allowDirty)
  <2>3. AsSwept(w)
    BY <2>2, SweptIsSwept
  <2> HIDE DEF w
  <2>4. paper'.doc = w
    BY <2>1, SMT DEF w
  <2> QED BY <1>1, <2>2, <2>3, <2>4 DEF SweptInv
<1>7. CASE HandEdit
  <2>1. paper'.honest = FALSE /\ UNCHANGED filed
    BY <1>7, EditedPaper
  <2>2. UNCHANGED <<trees, binary>>
    BY <1>7 DEF HandEdit
  <2> QED BY <1>1, <2>1, <2>2 DEF SweptInv
<1>8. CASE TakeCopy
  <2>1. paper' \in filed /\ UNCHANGED <<trees, binary, filed>>
    BY <1>8 DEF TakeCopy
  <2> QED BY <1>1, <2>1 DEF SweptInv
<1>9. CASE ArchiveIt
  <2> DEFINE sealed == [paper EXCEPT !.doc = Seal(@, 1)]
  <2>1. paper # Null /\ paper' = Null /\ UNCHANGED <<trees, binary>> /\ filed' \subseteq filed \cup {sealed}
    BY <1>9, Zenon DEF ArchiveIt
  <2>2. IsPaper(paper)
    BY <2>1 DEF PaperInv
  <2>3. sealed.honest = paper.honest /\ sealed.doc = Seal(paper.doc, 1)
    BY <2>2, SealedPaper
  <2> HIDE DEF sealed
  <2>4. sealed.honest => AsSwept(sealed.doc)
    BY <2>1, <2>2, <2>3, SealSwept DEF SweptInv, IsPaper
  <2> QED BY <1>1, <2>1, <2>4 DEF SweptInv
<1> QED BY <1>3, <1>4, <1>5, <1>6, <1>7, <1>8, <1>9 DEF NextPaper

\* document_provenance_warnings() and admit(): for every host, tree and sweep, what
\* is warned of before a sweep is what is refused after it.
THEOREM WarningsAreRefusals == SpecPaper => []PreviewDecides
<1> DEFINE Both == PaperInv /\ SweptInv
<1>1. InitPaper => Both
  BY PaperInit, SweptInit, ProvenanceAssumption, PaperAssumption
<1>2. Both /\ [NextPaper]_pvars => Both'
  <2>1. Both /\ [NextPaper]_pvars => PaperInv'
    BY PaperNext, ProvenanceAssumption, PaperAssumption
  <2>2. Both /\ [NextPaper]_pvars => SweptInv'
    BY SweptNext, ProvenanceAssumption, PaperAssumption
  <2> QED BY <2>1, <2>2
<1>3. Both => PreviewDecides
  <2> SUFFICES ASSUME SweptInv, paper # Null, paper.honest, paper.doc.integrity = Null
               PROVE  PreviewDecides
    BY DEF PreviewDecides
  <2>1. AsSwept(paper.doc)
    BY DEF SweptInv
  <2> QED BY <2>1, PreviewOf, PaperAssumption, Zenon DEF PreviewDecides
<1> QED BY <1>1, <1>2, <1>3, PTL DEF SpecPaper
=============================================================================
