-------------------------------- MODULE Paper ------------------------------
(***************************************************************************)
(* The life of a document: a binary is built from two source trees, a      *)
(* sweep writes a document (src/storage/document.rs), the document may be  *)
(* edited by hand, and storage-aggregate checks, seals, files and verifies *)
(* it (src/storage/archive.rs, src/storage/integrity.rs).                  *)
(*                                                                         *)
(* A digest is the value it is taken over: sha256 is taken to tell any two *)
(* values apart, and the canonical text to be one for each value.          *)
(***************************************************************************)
EXTENDS Provenance, SequencesExt

CONSTANTS
  Reports,     \* sweeps: what their children report in the order of the rows, and their noise
  Walk,        \* profile -> tiles a read row walks
  Edits,       \* kinds of hand edits
  Starts,      \* the trees and hosts a build may start from: [trees, host]
  MaxChanges,  \* bound: changes of the trees, by host
  MaxSweeps    \* bound: sweeps

\* The command line as the document records it: the scenarios it resolved to.
Invocation == [argv |-> "argv", scenarios |-> {"generate", "open"}, reps |-> 2]

ASSUME PaperAssumption ==
  /\ Starts \subseteq [trees : [Tree -> Trees], host : Hosts]
  /\ Walk \in [{"ci", "full"} -> Nat] /\ MaxChanges \in [Hosts -> Nat] /\ MaxSweeps \in Nat
  /\ \A r \in Reports : \A i \in DOMAIN r.rows :
       r.rows[i].samples \in Nat /\ r.rows[i].declared \in Nat
  /\ \A r \in Reports : r.noise \in {Null, "plain", "residue"}
  /\ Edits \subseteq {"cells", "outcome", "runner", "measurement", "native", "host",
                   "scenarios", "unsealed", "stamp"}
  /\ Null # "unknown" /\ Null # Invocation /\ Null \notin Nat

VARIABLES
  trees,   \* the source trees
  host,    \* the host
  binary,  \* the built binary, or Null: its stamps, what the build script saw, and what
           \* was really compiled
  changes, \* changes of the trees so far (bound)
  sweeps,  \* sweeps so far: the clock, in seconds
  paper,   \* the document at hand, or Null: [doc, honest, of]
  filed    \* the documents in the archive, as papers
pvars == <<trees, host, binary, changes, sweeps, paper, filed>>

-----------------------------------------------------------------------------
(* Rows. *)

\* DocumentCell::from_report(), then what the sweep knows of the artefact.  A
\* row of requests says how many its walk made: its child's walk and one more.
FromReport(r) ==
  [backend |-> r.backend, outcome |-> r.outcome, reason |-> r.outcome # "ok",
   attested |-> r.attested, samples |-> r.samples, reps |-> r.declared, minReps |-> r.declared,
   median |-> IF r.walked = Null THEN Null ELSE Walk[r.walked] + 1,
   fact |-> r.fact, dirty |-> Null,
   confidence |-> IF r.samples < r.declared THEN "low" ELSE "high"]

\* rebuild_invariant_table(): the first cell of a backend that has a value.
InvariantTable(cells) ==
  {[library |-> cells[i].backend, value |-> cells[i].fact] :
     i \in {k \in DOMAIN cells : cells[k].fact # Null
              /\ \A j \in 1..(k - 1) : cells[j].backend # cells[k].backend \/ cells[j].fact = Null}}

\* Mutant of StampDirty: the library's dirt does not reach the cells.
StampDirty_Harness(cells, block) ==
  [i \in DOMAIN cells |-> [cells[i] EXCEPT !.dirty = IF block.dirty = TRUE THEN TRUE ELSE @]]

\* stamp_dirty_from_provenance(): the dirt of either tree travels with every cell.
StampDirty(cells, block) ==
  [i \in DOMAIN cells |->
     [cells[i] EXCEPT !.dirty = IF TRUE \in {block.dirty, block.libraryDirty} THEN TRUE ELSE @]]

\* run_id(): the second it started in, the library's commit and the bucket of
\* its host.  Without a commit there is none.
run_id(doc) ==
  IF doc.startedAt = Null \/ doc.provenance.libraryCommit = Null THEN Null
  ELSE <<doc.startedAt, doc.provenance.libraryCommit,
         doc.provenance.cpuModel, doc.provenance.fsType, doc.provenance.emulated>>

WithRunId(doc) == [doc EXCEPT !.runId = run_id(doc)]

\* block_for_cell(): the floors over the placements of the replicate cell, or
\* None below five of them.  They are percentages that nothing floors: those of
\* medians that agree are zero or the residue of their rounding.
Replicate(report) == report.noise

\* run_sweep(): the cells, the table, the provenance, then the two stamps.
Written(profile, report, allowDirty) ==
  LET cells == [i \in DOMAIN report.rows |-> FromReport(report.rows[i])]
      block == Block(binary.stamps, host, allowDirty)
      doc == [startedAt |-> sweeps, profile |-> profile, runner |-> "libviprs-storage",
              measurement |-> [reps |-> 2], cells |-> StampDirty(cells, block),
              invariants |-> InvariantTable(cells), replicate |-> Replicate(report),
              provenance |-> block, invocation |-> Invocation, runId |-> Null,
              combinedAt |-> Null, integrity |-> Null]
  IN  WithRunId(doc)

-----------------------------------------------------------------------------
(* src/storage/integrity.rs. *)

\* Numbers outside the range both languages print alike have no canonical text.
HasCanonicalText(doc) == doc.replicate # "residue"

\* Mutant of Evidence: the time of sealing is part of what is sealed.
Evidence_CombinedAt(doc) == [doc EXCEPT !.integrity = Null]

\* document_evidence(): all but the seal and the time it was set.
Evidence(doc) == [doc EXCEPT !.integrity = Null, !.combinedAt = Null]

\* Mutant of Digests: the runner is looked up under a key no document has.
Digests_Runners(doc) ==
  [cells |-> <<doc.cells>>, runners |-> <<Null>>, measurements |-> <<doc.measurement>>,
   document |-> <<Evidence(doc)>>]

Digests(doc) ==
  [cells |-> <<doc.cells>>, runners |-> <<doc.runner>>, measurements |-> <<doc.measurement>>,
   document |-> <<Evidence(doc)>>]

\* verify(): the blocks whose stated digest no longer holds.
Moved(doc) == {b \in DOMAIN doc.integrity : doc.integrity[b] # Digests(doc)[b]}
VerifyOk(doc) == doc.integrity # Null /\ Moved(doc) = {}

Seal(doc, now) == [doc EXCEPT !.integrity = Digests(doc), !.combinedAt = now]

-----------------------------------------------------------------------------
(* src/storage/archive.rs: admit_text().  A refusal is its code. *)

CheckEmulation(b) == IF b.emulated = "false" THEN {} ELSE {"emulated"}

CheckHostAndArch(b) == IF b.cpuModel = Null THEN {"host-arch"} ELSE {}

CheckSourceTrees(doc) ==
  LET b == doc.provenance
      dirty == TRUE \in {b.dirty, b.libraryDirty}
  IN  (IF Null \in {b.commit, b.libraryCommit} THEN {"commit"} ELSE {})
        \cup (IF Null \in {b.dirty, b.libraryDirty} THEN {"dirty"} ELSE {})
        \cup (IF dirty /\ ~b.allowDirty THEN {"dirty-not-allowed"} ELSE {})
        \cup (IF dirty /\ b.allowDirty /\ \E i \in DOMAIN doc.cells : doc.cells[i].dirty # TRUE
              THEN {"dirty-not-stamped"} ELSE {})

CheckBuild(b) ==
  (IF b.debugAssertions = FALSE /\ b.buildProfile = "release" THEN {} ELSE {"debug-build"})
    \cup (IF b.rustflags = "perturbing" THEN {"perturbing-rustflags"} ELSE {})

CheckFilesystem(b) ==
  CASE b.fsType = Null -> {"filesystem"}
    [] b.fsType = "tmpfs" /\ ~b.declaredTmpfs -> {"tmpfs"}
    [] OTHER -> {}

CheckInvocationAndReps(doc) ==
  IF doc.invocation = Null THEN {"invocation"}
  ELSE (IF doc.invocation.scenarios = {} \/ "all" \in doc.invocation.scenarios
        THEN {"scenarios-unresolved"} ELSE {})
         \cup (IF doc.invocation.reps = Null \/ doc.invocation.reps # doc.measurement.reps
                  \/ \E i \in DOMAIN doc.cells : doc.cells[i].reps < doc.cells[i].minReps
               THEN {"reps-disagree"} ELSE {})

CheckCells(doc) ==
  IF doc.cells = <<>> THEN {"no-cells"}
  ELSE UNION {IF c.outcome = "ok"
              THEN IF c.attested = TRUE THEN {} ELSE {"unattested-cell"}
              ELSE IF c.reason THEN {} ELSE {"outcome-without-reason"} : c \in ToSet(doc.cells)}

\* A row of requests has the count of the profile the document names.
CheckProfileWalk(doc) ==
  IF \E c \in ToSet(doc.cells) : c.median # Null /\ c.median # Walk[doc.profile] + 1
  THEN {"profile-walk-mismatch"} ELSE {}

Admit(doc) ==
  CheckEmulation(doc.provenance) \cup CheckHostAndArch(doc.provenance) \cup CheckSourceTrees(doc)
    \cup CheckBuild(doc.provenance) \cup CheckFilesystem(doc.provenance)
    \cup CheckInvocationAndReps(doc) \cup CheckCells(doc) \cup CheckProfileWalk(doc)

\* A document without a seal is one that was never sealed; a seal must hold.
IntegrityRefusals(doc) ==
  IF doc.integrity = Null \/ (HasCanonicalText(doc) /\ VerifyOk(doc)) THEN {} ELSE {"integrity"}

AdmitText(doc) == Admit(doc) \cup IntegrityRefusals(doc)

\* archive_text() would file it, or finds it filed: its digest must be the
\* stated one of the file of that name, if there is one.
Archivable(doc) ==
  /\ AdmitText(doc) = {} /\ run_id(doc) # Null /\ HasCanonicalText(doc)
  /\ \A p \in filed : run_id(p.doc) = run_id(doc) => p.doc.integrity.document = Digests(doc).document

-----------------------------------------------------------------------------
(* Steps. *)

Change(t, tree) ==
  /\ changes < MaxChanges[host]
  /\ trees' = [trees EXCEPT ![t] = tree] /\ changes' = changes + 1
  /\ UNCHANGED <<host, binary, sweeps, paper, filed>>

\* Somebody edits a tracked file that is not one of the few watched, commits, or
\* checks the other branch out.
EditTree(t) == ~trees[t].edited /\ Change(t, [trees[t] EXCEPT !.edited = TRUE])

CommitTree(t) ==
  /\ trees[t].edited /\ trees[t].commit < MaxCommit /\ Readable(trees[t])
  /\ Change(t, [trees[t] EXCEPT !.edited = FALSE, !.commit = @ + 1])

SwitchTree(t) ==
  /\ Readable(trees[t]) /\ ~trees[t].edited
  /\ \E c \in 1..MaxCommit :
       Change(t, [trees[t] EXCEPT !.head = IF @ = "main" THEN "topic" ELSE "main", !.commit = c])

\* cargo build: what is compiled is what is there; the build script only runs
\* again if something it asked cargo to watch has changed.
Build ==
  LET seen == Watched(trees, host)
      of == [t \in Tree |-> [commit |-> trees[t].commit, edited |-> trees[t].edited]]
  IN  /\ binary' = [stamps |-> IF binary # Null /\ binary.seen = seen THEN binary.stamps
                               ELSE Stamps(trees, host),
                    seen |-> seen, of |-> of]
      /\ binary' # binary
      /\ UNCHANGED <<trees, host, changes, sweeps, paper, filed>>

Sweep ==
  /\ binary # Null /\ sweeps < MaxSweeps
  /\ sweeps' = sweeps + 1
  /\ \E profile \in DOMAIN Walk, report \in Reports, allowDirty \in BOOLEAN :
       paper' = [doc |-> Written(profile, report, allowDirty), honest |-> TRUE, of |-> binary.of]
  /\ UNCHANGED <<trees, host, binary, changes, filed>>

\* A document after an edit of that kind.
Edited(doc, kind) ==
  CASE kind = "cells" -> [doc EXCEPT !.cells[1].samples = @ + 1]
    [] kind = "outcome" -> [doc EXCEPT !.cells[1].outcome = "ok", !.cells[1].attested = TRUE]
    [] kind = "runner" -> [doc EXCEPT !.runner = "another"]
    [] kind = "measurement" -> [doc EXCEPT !.measurement.reps = 3]
    [] kind = "native" -> [doc EXCEPT !.provenance.emulated = "false"]
    [] kind = "host" -> [doc EXCEPT !.provenance.cpuModel = Null]
    [] kind = "scenarios" -> [doc EXCEPT !.invocation.scenarios = {"all"}]
    [] kind = "unsealed" -> [doc EXCEPT !.integrity = Null]
    [] kind = "stamp" -> [doc EXCEPT !.combinedAt = Null]

HandEdit ==
  /\ paper # Null /\ paper.honest
  /\ \E kind \in Edits :
       /\ kind \in {"cells", "outcome"} => paper.doc.cells # <<>>
       /\ paper' = [paper EXCEPT !.doc = Edited(@, kind), !.honest = FALSE]
  /\ UNCHANGED <<trees, host, binary, changes, sweeps, filed>>

\* A copy of an archived run.
TakeCopy ==
  /\ paper = Null
  /\ \E p \in filed : paper' = p
  /\ UNCHANGED <<trees, host, binary, changes, sweeps, filed>>

\* storage-aggregate --archive, on the document at hand.
ArchiveIt ==
  /\ paper # Null
  /\ filed' = IF Archivable(paper.doc) /\ \A p \in filed : run_id(p.doc) # run_id(paper.doc)
              THEN filed \cup {[paper EXCEPT !.doc = Seal(@, 1)]} ELSE filed
  /\ paper' = Null
  /\ UNCHANGED <<trees, host, binary, changes, sweeps>>

InitPaper ==
  /\ \E start \in Starts : trees = start.trees /\ host = start.host
  /\ binary = Null /\ changes = 0 /\ sweeps = 0 /\ paper = Null /\ filed = {}

NextPaper ==
  \/ \E t \in Tree : EditTree(t) \/ CommitTree(t) \/ SwitchTree(t)
  \/ Build \/ Sweep \/ HandEdit \/ TakeCopy \/ ArchiveIt

SpecPaper == InitPaper /\ [][NextPaper]_pvars

-----------------------------------------------------------------------------
\* A run in the archive was not instruction-translated, however little of the
\* host could be read (emulation.rs and the first gate of admit()).
FiledIsNative == \A p \in filed : p.honest => ~host.translated

\* The warnings before a sweep and the refusals after it are about the same
\* runs: what --provenance warns of is refused, but for a core that is off its
\* main and dirt that was allowed; and a run whose cells are sound is refused
\* for nothing else, but for the flags it was built with.
PreviewDecides ==
  (paper # Null /\ paper.honest /\ paper.doc.integrity = Null) =>
    LET doc == paper.doc
        warned == Warnings(doc.provenance)
                    \ ({"off-main"} \cup IF doc.provenance.allowDirty THEN {"dirty"} ELSE {})
        sound == CheckCells(doc) = {} /\ CheckProfileWalk(doc) = {}
    IN  /\ warned # {} => AdmitText(doc) # {}
        /\ (warned = {} /\ sound) => AdmitText(doc) \subseteq {"perturbing-rustflags"}

\* What was filed still verifies, is admitted again, and sealed again at
\* another time has the same digests.
FiledStands ==
  \A p \in filed :
    /\ VerifyOk(p.doc) /\ AdmitText(p.doc) = {}
    /\ Seal(p.doc, 2).integrity = p.doc.integrity

\* Any edit of a filed document but of its seal is refused at the door, and the
\* block that moved is named beside the document.
EditIsNamed ==
  \A p \in filed, kind \in Edits \ {"unsealed", "stamp"} :
    LET e == Edited(p.doc, kind)
        block == CASE kind \in {"cells", "outcome"} -> {"cells"}
                   [] kind = "runner" -> {"runners"}
                   [] kind = "measurement" -> {"measurements"}
                   [] OTHER -> {}
    IN  Evidence(e) # Evidence(p.doc) =>
          AdmitText(e) # {} /\ Moved(e) = block \cup {"document"}

\* The commit and the dirt of an archived run are those of the library that was
\* compiled into it ("so this run cannot be tied to a source tree" is refused).
StampedIsMeasured ==
  \A p \in filed : p.honest =>
    /\ p.doc.provenance.libraryCommit = p.of["library"].commit
    /\ p.doc.provenance.libraryDirty = p.of["library"].edited
=============================================================================
