------------------------------- MODULE Import -------------------------------
(***************************************************************************)
(* tools/publish/import-run.mjs as a process: read the document, the       *)
(* archive index of its family and the history, act on the refusals, read  *)
(* the baseline, and rewrite the history in place.  The archive grows      *)
(* meanwhile, the process may die or fail to write at any point, and an    *)
(* operator commits the history or checks the committed one out again.     *)
(***************************************************************************)
EXTENDS Importer, FiniteSets

VARIABLES
  listed,    \* family -> the rows of archive/<family>/index.json
  history,   \* history.json: a sequence of entries, or Torn
  committed, \* the history in the last commit
  step,      \* what the importer does next
  doc,       \* the document it was given
  dry,       \* --dry-run
  baseline,  \* --baseline: "none", a file that "exists", or one that is "missing"
  why,       \* the refusals collected so far
  seen,      \* the history as it was read
  imported   \* <<family, id>> of the runs some call wrote (history variable)

ivars == <<listed, history, committed, step, doc, dry, baseline, why, seen, imported>>

archive == <<listed, committed>>
call == <<doc, dry, baseline>>

Steps == {"idle", "index", "history", "baseline", "open", "write"}

Name(d) == <<d.family, d.id>>

InitImport ==
  /\ listed = [f \in Family |-> {}]
  /\ history = <<>> /\ committed = <<>>
  /\ step = "idle"
  /\ doc \in Doc /\ dry = FALSE /\ baseline = "none"
  /\ why = {} /\ seen = <<>> /\ imported = {}

-----------------------------------------------------------------------------
\* A call begins.
Begin ==
  /\ step = "idle" /\ step' = "index"
  /\ doc' \in Doc
  /\ dry' \in BOOLEAN
  /\ baseline' \in {"none", "exists", "missing"}
  /\ why' = {} /\ seen' = <<>>
  /\ UNCHANGED <<archive, history, imported>>

\* The gates on the document alone, and its row in the archive index.
ReadIndex ==
  /\ step = "index" /\ step' = "history"
  /\ why' = (doc.faults \cap {"import"}) \cup IndexRefusals(doc, listed[doc.family])
  /\ UNCHANGED <<archive, call, history, seen, imported>>

\* The history, the invariants that moved, and the decision.
ReadHistory ==
  /\ step = "history"
  /\ seen' = Readable(history)
  /\ why' = why \cup HistoryRefusals(doc, history)
  /\ step' = IF why' = {} THEN "baseline" ELSE "idle"
  /\ UNCHANGED <<archive, call, history, imported>>

\* The baseline, after the decision; a dry run ends here.
ReadBaseline ==
  /\ step = "baseline"
  /\ why' = why \cup {"no baseline" : b \in {baseline} \cap {"missing"}}
  /\ step' = IF dry THEN "idle" ELSE "open"
  /\ UNCHANGED <<archive, call, history, seen, imported>>

\* writeFileSync opens the file, which empties it ...
OpenHistory ==
  /\ step = "open" /\ step' = "write"
  /\ history' = Torn
  /\ UNCHANGED <<archive, call, why, seen, imported>>

\* ... and writes what was read with this run's entry in it.
WriteHistory ==
  /\ step = "write" /\ step' = "idle"
  /\ history' = Kept(seen, Entry(doc))
  /\ imported' = imported \cup {Name(doc)}
  /\ UNCHANGED <<archive, call, why, seen>>

\* The process dies, or a read, the baseline's parse or the write throws.
Die ==
  /\ step # "idle" /\ step' = "idle"
  /\ UNCHANGED <<archive, call, history, why, seen, imported>>

\* storage-aggregate --archive files a document it admits, once.
FileRun(d) ==
  /\ "check" \notin d.faults
  /\ ~\E row \in listed[d.family] : row.id = d.id
  /\ listed' = [listed EXCEPT ![d.family] = @ \cup {RowOf(d)}]
  /\ UNCHANGED <<history, committed, step, call, why, seen, imported>>

\* The operator commits a history that is whole ...
Commit ==
  /\ step = "idle" /\ history # Torn
  /\ committed' = history
  /\ UNCHANGED <<listed, history, step, call, why, seen, imported>>

\* ... or goes back to the committed one.
Checkout ==
  /\ step = "idle"
  /\ history' = committed
  /\ imported' = imported \cap {Name(e) : e \in Range(committed)}
  /\ UNCHANGED <<archive, step, call, why, seen>>

NextImport ==
  \/ Begin \/ ReadIndex \/ ReadHistory \/ ReadBaseline
  \/ OpenHistory \/ WriteHistory \/ Die
  \/ \E d \in Doc : FileRun(d)
  \/ Commit \/ Checkout

SpecImport == InitImport /\ [][NextImport]_ivars

-----------------------------------------------------------------------------
\* Whatever was edited, faked or filed under the same id, an entry the page
\* draws from is of a document its family's archive lists with that digest.
EntriesAreArchived ==
  history # Torn =>
    \A e \in Range(history) : RowOf(e) \in listed[e.family]

\* Whatever order runs of one commit are imported, re-imported or restored in,
\* no two in the history disagree about an invariant that cannot change.
InvariantsAgree == history # Torn => NoneMoved(history)

\* A history is in capture order with one entry a run, also when old runs are
\* imported late and runs are imported again.
HistoryInOrder ==
  history # Torn => OneEntryPerId(history) /\ Chronological(history)

\* What the page is drawn from is the archive's, one entry for a run, in order.
HistoryIsOfTheArchive == EntriesAreArchived /\ HistoryInOrder

\* A run once imported has its entry in the history until somebody checks an
\* older one out, or a run of another family is imported under the same run id
\* (two sweeps started in one second derive one): no other import drops it, and
\* a history a crash left torn is not taken for an empty one and built upon.
ImportedRunStays ==
  history # Torn =>
    \A n \in imported : \E e \in Range(history) :
      e.id = n[2] /\ (e.family = n[1] \/ Name(e) \in imported)

\* The header's "0 imported, 1 refused": a call that recorded a refusal does not
\* go on to write the history.
RefusedIsNotWritten == step \in {"open", "write"} => why = {}
=============================================================================
