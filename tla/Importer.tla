----------------------------- MODULE Importer -----------------------------
(***************************************************************************)
(* What tools/publish/import-run.mjs decides and computes, apart from when *)
(* it reads and writes: the refusals a document earns against the archive  *)
(* index and the history, and the history that holds its entry.            *)
(*                                                                         *)
(* A document is a record                                                  *)
(*   family   the family it names                                          *)
(*   id       the run id it derives (startedAt, commit, host bucket)       *)
(*   digest   its `document` digest                                        *)
(*   at       finishedAt, which orders the history                         *)
(*   tree     the two commits, of the library and of the harness           *)
(*   fs       filesystem type and mount source                             *)
(*   inv      the invariant rows: a function from key to value             *)
(*   faults   what the gates that look at the document alone find in it:   *)
(*            "check" stands for a refusal of storage-aggregate, "import"  *)
(*            for one of the importer's (emulated, dirty, unattested, ...) *)
(* and an entry of the history is its document without the faults.         *)
(***************************************************************************)
EXTENDS Naturals, Sequences, SequencesExt, Sifting

CONSTANTS
  Exact,        \* invariant keys exact within a commit
  FsDependent,  \* invariant keys exact within a commit on one filesystem
  Torn,         \* a file of which only a part was written
  Family,       \* the families the config knows
  Doc           \* the documents there are

RowOf(d) == [id |-> d.id, digest |-> d.digest]

Entry(d) ==
  [family |-> d.family, id |-> d.id, digest |-> d.digest, at |-> d.at,
   tree |-> d.tree, fs |-> d.fs, inv |-> d.inv]

Row == {RowOf(d) : d \in Doc}
EntryOf == {Entry(d) : d \in Doc}

\* What is left of a torn file is no index and no history.
ASSUME ImporterAssumption ==
  /\ \A d \in Doc : d.family \in Family /\ d.at \in Nat
  /\ \A d \in Doc : d.faults \subseteq {"check", "import"}
  /\ Torn \notin Seq(EntryOf) /\ \A rows \in SUBSET Row : Torn # rows

-----------------------------------------------------------------------------
\* Mutant of IndexRefusals: a row for the run id is enough.
IndexRefusals_AnyDigest(d, index) ==
  IF index = Torn THEN {"index not JSON", "not archived"}
  ELSE IF \E row \in index : row.id = d.id THEN {} ELSE {"not archived"}

\* The document has to be the one its family's archive index lists under the
\* run id it derives.
IndexRefusals(d, index) ==
  IF index = Torn THEN {"index not JSON", "not archived"}
  ELSE IF ~\E row \in index : row.id = d.id THEN {"not archived"}
  ELSE IF RowOf(d) \in index THEN {} ELSE {"digest differs"}

\* Whether a row of two runs of one tree has to have one value.
Comparable(a, b, key) ==
  /\ a.tree = b.tree
  /\ key \in DOMAIN a.inv \cap DOMAIN b.inv
  /\ \/ key \in Exact
     \/ key \in FsDependent /\ a.fs = b.fs

\* Two runs disagree about an invariant that cannot change.
Moved(a, b) ==
  \E key \in Exact \cup FsDependent :
    Comparable(a, b, key) /\ a.inv[key] # b.inv[key]

\* Mutant of HistoryRefusals: the last entry is the only prior.
HistoryRefusals_LastOnly(d, history) ==
  IF history = Torn THEN {"history not JSON"}
  ELSE IF history # <<>> /\ Last(history).id # d.id /\ Moved(Last(history), d)
       THEN {"moved"} ELSE {}

\* Mutant of HistoryRefusals: an unreadable history counts as an empty one.
HistoryRefusals_TornIsEmpty(d, history) ==
  IF history # Torn /\ \E e \in Range(history) : e.id # d.id /\ Moved(e, d)
  THEN {"moved"} ELSE {}

\* No entry of another run of the same tree may have had another value.
HistoryRefusals(d, history) ==
  IF history = Torn THEN {"history not JSON"}
  ELSE IF \E e \in Range(history) : e.id # d.id /\ Moved(e, d)
       THEN {"moved"} ELSE {}

\* Every reason is collected before any is acted on.
Refusals(d, index, history) ==
  (d.faults \cap {"import"})
    \cup IndexRefusals(d, index) \cup HistoryRefusals(d, history)

-----------------------------------------------------------------------------
\* What a history that was read counts as: `[]` when it does not parse.
Readable(history) == IF history = Torn THEN <<>> ELSE history

\* The history with the entry of this run replaced: other runs keep their
\* place, and the entry goes behind those captured no later.  (The code sorts
\* all of it; what it reads is sorted, because this is all that writes it.)
Kept(history, entry) ==
  LET others == {e \in Range(history) : e.id # entry.id}
  IN  Sifted(history, {e \in others : e.at <= entry.at})
        \o <<entry>>
        \o Sifted(history, {e \in others : e.at > entry.at})

-----------------------------------------------------------------------------
(* Properties of a history. *)

\* One entry for a run id.
OneEntryPerId(history) ==
  \A i, j \in DOMAIN history : history[i].id = history[j].id => i = j

\* Entries are in the order they were captured in.
Chronological(history) ==
  \A i, j \in DOMAIN history : i < j => history[i].at <= history[j].at

\* No two entries of one tree disagree about an invariant that cannot change.
NoneMoved(history) ==
  \A i, j \in DOMAIN history : i # j => ~Moved(history[i], history[j])
=============================================================================
