------------------------------ MODULE Capture ------------------------------
(***************************************************************************)
(* tools/capture.py: copy the repository's history and archives to a       *)
(* staging directory and to the machine that measures, capture, check,     *)
(* archive and verify one family after another there, import each into the *)
(* staged history, and only then copy the staged files over the            *)
(* repository's, one after another.                                        *)
(*                                                                         *)
(* Any number of captures may be in flight; each measures documents of its *)
(* own.  A gate may also refuse without a reason of the document's (killed *)
(* by the OOM killer), a step may raise, and the process may die.          *)
(***************************************************************************)
EXTENDS Importer, FiniteSets

CONSTANTS
  Captures,  \* invocations of capture.py
  Families,  \* args.families, in order
  NoDoc      \* a family not archived

\* A sweep may produce any of the documents of the families asked for.  One
\* machine sweeps one family after another, so that no two families' sweeps start
\* in one second and derive one run id.
ASSUME CaptureAssumption ==
  /\ Families \in Seq(Family) /\ IsInjective(Families) /\ Families # <<>>
  /\ Range(Families) = Family
  /\ NoDoc \notin Doc
  /\ \A d, e \in Doc : d.family # e.family => d.id # e.id

VARIABLES
  repo,      \* the files of the repository the page is drawn from
  staging,   \* capture -> its staging directory
  away,      \* capture -> the archives on the machine that measures
  pc,        \* capture -> what it does next
  turn,      \* capture -> position in Families
  run,       \* capture -> family -> the document archived, or NoDoc
  refused,   \* capture -> whether a refusal was recorded
  inRepo,    \* capture -> whether it has copied anything over the repository
  copied,    \* capture -> <<family, row>> of the documents it has copied there
  cut,       \* capture -> <<family, row>> of the one whose copy broke off, or NoDoc
  measured   \* documents some sweep has produced

copies == <<inRepo, copied, cut>>

vars == <<repo, staging, away, pc, turn, run, refused, copies, measured>>

\* A set of published files: the sealed documents of every family, those of
\* which only a part is there, its index, and the history.
Empty == [files |-> [f \in Family |-> {}], torn |-> [f \in Family |-> {}],
          index |-> [f \in Family |-> {}], history |-> <<>>]

\* The documents of a family that are there, whole or not.
There(s, f) == s.files[f] \cup s.torn[f]

PC == {"snapshot", "settle", "sweep", "check", "archive", "verify", "retrieve",
       "import", "decide", "documents", "index", "history",
       "published", "refused", "failed"}

Ended == {"published", "refused", "failed"}

Here(c) == Families[turn[c]]

Goto(c, next) == pc' = [pc EXCEPT ![c] = next]

\* To the next family at `first`, or past the last one to `after`.
NextFamily(c, first, after) ==
  IF turn[c] < Len(Families)
  THEN turn' = [turn EXCEPT ![c] = @ + 1] /\ Goto(c, first)
  ELSE turn' = [turn EXCEPT ![c] = 1] /\ Goto(c, after)

Init ==
  /\ repo = Empty
  /\ staging = [c \in Captures |-> Empty]
  /\ away = [c \in Captures |-> Empty]
  /\ pc = [c \in Captures |-> "snapshot"]
  /\ turn = [c \in Captures |-> 1]
  /\ run = [c \in Captures |-> [f \in Family |-> NoDoc]]
  /\ refused = [c \in Captures |-> FALSE]
  /\ inRepo = [c \in Captures |-> FALSE]
  /\ copied = [c \in Captures |-> {}]
  /\ cut = [c \in Captures |-> NoDoc]
  /\ measured = {}

-----------------------------------------------------------------------------
\* Mutant of Snapshot: the staged history starts empty.
Snapshot_NoHistory(c) ==
  /\ pc[c] = "snapshot"
  /\ Goto(c, "settle")
  /\ staging' = [staging EXCEPT ![c] = [repo EXCEPT !.history = <<>>]]
  /\ away' = [away EXCEPT ![c] = repo]
  /\ UNCHANGED <<repo, turn, run, refused, copies, measured>>

\* The history and the archives are copied, and the archives pushed.
Snapshot(c) ==
  /\ pc[c] = "snapshot"
  /\ Goto(c, "settle")
  /\ staging' = [staging EXCEPT ![c] = repo]
  /\ away' = [away EXCEPT ![c] = repo]
  /\ UNCHANGED <<repo, turn, run, refused, copies, measured>>

\* settle(): the machine goes quiet, or Refused ends the capture.
Settle(c) ==
  /\ pc[c] = "settle"
  /\ \E next \in {"sweep", "refused"} : Goto(c, next)
  /\ UNCHANGED <<repo, staging, away, turn, run, refused, copies, measured>>

\* capture_family(): a sweep produces a document nobody has seen yet.
Sweep(c) ==
  /\ pc[c] = "sweep"
  /\ Goto(c, "check")
  /\ \E d \in Doc \ measured :
       /\ d.family = Here(c)
       /\ run' = [run EXCEPT ![c][Here(c)] = d]
       /\ measured' = measured \cup {d}
  /\ UNCHANGED <<repo, staging, away, turn, refused, copies>>

\* A gate that refuses: the reason is recorded, the family has no run id, and
\* the next family is captured all the same.
Refuse(c) ==
  /\ refused' = [refused EXCEPT ![c] = TRUE]
  /\ run' = [run EXCEPT ![c][Here(c)] = NoDoc]
  /\ NextFamily(c, "settle", "import")
  /\ UNCHANGED <<repo, staging, away, copies, measured>>

\* storage-aggregate --check
Check(c) ==
  /\ pc[c] = "check"
  /\ \/ Refuse(c)
     \/ /\ "check" \notin run[c][Here(c)].faults
        /\ Goto(c, "archive")
        /\ UNCHANGED <<repo, staging, away, turn, run, refused, copies, measured>>

\* storage-aggregate --archive: the document is filed and listed, unless its run
\* id is taken or the index does not parse.
Archive(c) ==
  LET d == run[c][Here(c)]
      f == Here(c)
  IN  /\ pc[c] = "archive"
      /\ \/ Refuse(c)
         \/ /\ away[c].index[f] # Torn
            /\ ~\E row \in There(away[c], f) : row.id = d.id
            /\ Goto(c, "verify")
            /\ away' = [away EXCEPT ![c].files[f] = @ \cup {RowOf(d)},
                                    ![c].index[f] = @ \cup {RowOf(d)}]
            /\ UNCHANGED <<repo, staging, turn, run, refused, copies, measured>>

\* storage-aggregate --verify
Verify(c) ==
  /\ pc[c] = "verify"
  /\ \/ Refuse(c)
     \/ /\ RowOf(run[c][Here(c)]) \in away[c].files[Here(c)]
        /\ Goto(c, "retrieve")
        /\ UNCHANGED <<repo, staging, away, turn, run, refused, copies, measured>>

\* The sealed document and the index are brought back to staging.
Retrieve(c) ==
  LET f == Here(c)
  IN  /\ pc[c] = "retrieve"
      /\ staging' = [staging EXCEPT ![c].files[f] = @ \cup {RowOf(run[c][f])},
                                    ![c].index[f] = away[c].index[f]]
      /\ NextFamily(c, "settle", "import")
      /\ UNCHANGED <<repo, away, run, refused, copies, measured>>

\* import_family() on the staged history, for a family that was archived.
Import(c) ==
  LET d == run[c][Here(c)]
      s == staging[c]
  IN  /\ pc[c] = "import"
      /\ \/ /\ d # NoDoc
            /\ Refusals(d, s.index[Here(c)], s.history) = {}
            /\ staging' = [staging EXCEPT ![c].history = Kept(@, Entry(d))]
            /\ UNCHANGED <<run, refused>>
         \/ /\ d # NoDoc
            /\ run' = [run EXCEPT ![c][Here(c)] = NoDoc]
            /\ refused' = [refused EXCEPT ![c] = TRUE]
            /\ UNCHANGED staging
         \/ d = NoDoc /\ UNCHANGED <<staging, run, refused>>
      /\ NextFamily(c, "import", "decide")
      /\ UNCHANGED <<repo, away, copies, measured>>

\* Mutant of Decide: whatever was imported is published.
Decide_AnyImported(c) ==
  /\ pc[c] = "decide"
  /\ Goto(c, IF \A f \in Family : run[c][f] = NoDoc THEN "refused" ELSE "documents")
  /\ UNCHANGED <<repo, staging, away, turn, run, refused, copies, measured>>

\* Every family asked for has been imported and no refusal was recorded, or
\* nothing is published.
Decide(c) ==
  /\ pc[c] = "decide"
  /\ Goto(c, IF (\A f \in Family : run[c][f] # NoDoc) /\ ~refused[c]
             THEN "documents" ELSE "refused")
  /\ UNCHANGED <<repo, staging, away, turn, run, refused, copies, measured>>

-----------------------------------------------------------------------------
(* publish(): copyfile() of one named file after another, also of those that *)
(* have not changed.  One that raises has truncated its target.              *)

\* The repository with the document of a row written, or torn.
Written(f, row, torn) ==
  [repo EXCEPT !.files[f] = IF torn THEN @ \ {row} ELSE @ \cup {row},
               !.torn[f] = IF torn THEN @ \cup {row} ELSE @ \ {row}]

\* The documents of the family at hand that are still to be copied.
ToCopy(c) == {row \in There(staging[c], Here(c)) : <<Here(c), row>> \notin copied[c]}

\* Mutant of CopyDocument: the index is copied after the first document.
CopyDocument_First(c) ==
  /\ pc[c] = "documents"
  /\ inRepo' = [inRepo EXCEPT ![c] = TRUE]
  /\ \E row \in ToCopy(c) :
       /\ repo' = Written(Here(c), row, row \in staging[c].torn[Here(c)])
       /\ copied' = [copied EXCEPT ![c] = @ \cup {<<Here(c), row>>}]
       /\ Goto(c, "index")
  /\ UNCHANGED <<staging, away, turn, run, refused, cut, measured>>

\* One document; a family's index comes after all of them.
CopyDocument(c) ==
  LET f == Here(c)
  IN  /\ pc[c] = "documents"
      /\ inRepo' = [inRepo EXCEPT ![c] = TRUE]
      /\ \E row \in ToCopy(c) :
           \/ /\ repo' = Written(f, row, row \in staging[c].torn[f])
              /\ copied' = [copied EXCEPT ![c] = @ \cup {<<f, row>>}]
              /\ Goto(c, IF ToCopy(c) = {row} THEN "index" ELSE "documents")
              /\ UNCHANGED cut
           \/ /\ repo' = Written(f, row, TRUE)
              /\ cut' = [cut EXCEPT ![c] = <<f, row>>]
              /\ Goto(c, "failed")
              /\ UNCHANGED copied
      /\ UNCHANGED <<staging, away, turn, run, refused, measured>>

CopyIndex(c) ==
  LET f == Here(c)
  IN  /\ pc[c] = "index"
      /\ \/ /\ repo' = [repo EXCEPT !.index[f] = staging[c].index[f]]
            /\ NextFamily(c, "documents", "history")
         \/ /\ repo' = [repo EXCEPT !.index[f] = Torn]
            /\ Goto(c, "failed")
            /\ UNCHANGED turn
      /\ UNCHANGED <<staging, away, run, refused, copies, measured>>

CopyHistory(c) ==
  /\ pc[c] = "history"
  /\ \/ /\ repo' = [repo EXCEPT !.history = staging[c].history]
        /\ Goto(c, "published")
     \/ /\ repo' = [repo EXCEPT !.history = Torn]
        /\ Goto(c, "failed")
  /\ UNCHANGED <<staging, away, turn, run, refused, copies, measured>>

\* A step of the capture raises, or the process dies; the temporary directory
\* goes, and the repository stays as it is.
Fail(c) ==
  /\ pc[c] \notin Ended
  /\ Goto(c, "failed")
  /\ UNCHANGED <<repo, staging, away, turn, run, refused, copies, measured>>

Next ==
  \E c \in Captures :
    \/ Snapshot(c) \/ Settle(c) \/ Sweep(c)
    \/ Check(c) \/ Archive(c) \/ Verify(c) \/ Retrieve(c)
    \/ Import(c) \/ Decide(c)
    \/ CopyDocument(c) \/ CopyIndex(c) \/ CopyHistory(c)
    \/ Fail(c)

\* One capture after another.
OneAtATime ==
  \A c, other \in Captures :
    pc[c] # pc'[c] => other = c \/ pc[other] \in Ended \cup {"snapshot"}

Spec == Init /\ [][Next]_vars

SerialSpec == Init /\ [][Next /\ OneAtATime]_vars

-----------------------------------------------------------------------------
\* At every moment, also between two copies of a publication and after one that
\* broke off, a whole index lists only documents that are there, and those are
\* whole but for the one each copy that broke off has torn, listed or not; an
\* entry of a whole history is listed by the index of its family, if that is
\* whole, and agrees with every other about the invariants that cannot change.
RepoIsCitable ==
  /\ \A f \in Family : repo.index[f] # Torn => repo.index[f] \subseteq There(repo, f)
  /\ \A f \in Family : \A row \in repo.torn[f] :
       \E c \in Captures : pc[c] = "failed" /\ cut[c] = <<f, row>>
  /\ repo.history # Torn =>
       \A e \in Range(repo.history) :
         repo.index[e.family] # Torn => RowOf(e) \in repo.index[e.family]
  /\ repo.history # Torn => NoneMoved(repo.history)

\* Nothing reaches the repository from a capture one family of which was
\* refused, by whichever gate and with or without a reason.
EveryFamilyBeforeTheRepo ==
  \A c \in Captures : inRepo[c] => \A f \in Family : run[c][f] # NoDoc

\* What a capture published stays: later captures, published, refused or broken
\* off, drop neither its entries nor its rows.
PublishedStays ==
  \A c \in Captures : \A f \in Family :
    pc[c] = "published" =>
      /\ repo.history # Torn => Entry(run[c][f]) \in Range(repo.history)
      /\ repo.index[f] # Torn => RowOf(run[c][f]) \in repo.index[f]
=============================================================================
