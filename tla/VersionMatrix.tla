--------------------------- MODULE VersionMatrix ---------------------------
(***************************************************************************)
(* src/version_matrix.rs and the history it appends to (src/lib.rs).  A    *)
(* matrix driver checks each release out into a worktree, rebuilds the     *)
(* harness against it, runs the isolated suite (src/harness.rs) and        *)
(* appends a snapshot to benchmark_history.json; a report run (report.rs)  *)
(* measures the core it was built with and appends the same way.  Steps of *)
(* drivers interleave, any git, cargo or file operation may fail, and a    *)
(* driver may be killed between two of them.                               *)
(***************************************************************************)
EXTENDS Integers, Sequences, FiniteSets

CONSTANTS
  Matrix,      \* version_matrix processes
  Report,      \* report processes
  Ref,         \* commits of the core crate
  Sibling,     \* the commit checked out in ../libviprs
  VersionOf,   \* commit -> the version in its manifest
  Named,       \* the commits whose package is called `libviprs`
  RefsOf,      \* matrix process -> the commits it was asked for
  Family,      \* families of engines
  FamilyOf,    \* process -> the family it measures
  Cell,        \* the cells of the suite
  Before,      \* whoever appended the history there is to begin with
  Past,        \* that history, or Unreadable
  Sessions,    \* which drivers somebody runs, and whether one after the other
  Unreadable,  \* a history file that does not parse
  NoExe        \* no harness binary at its path

Driver == Matrix \cup Report

Exe == [linked : Ref, stamped : Ref, sha : BOOLEAN]

Snapshot(by) ==
  [by : by, nth : Nat, ref : Ref, linked : Ref, sha : BOOLEAN, family : Family,
   runs : SUBSET Cell]

ASSUME MatrixAssumption ==
  /\ Matrix \cap Report = {}
  /\ Sibling \in Ref /\ Named \subseteq Ref
  /\ DOMAIN VersionOf = Ref
  /\ RefsOf \in [Matrix -> Seq(Ref) \ {<<>>}]
  /\ FamilyOf \in [Driver -> Family]
  /\ NoExe \notin Exe
  /\ Before \notin Driver
  /\ Unreadable \notin Seq(Snapshot(Driver \cup {Before}))
  /\ Past \subseteq Seq(Snapshot({Before})) \cup {Unreadable}
  /\ \A h \in Past : h # Unreadable => \A i, j \in DOMAIN h : h[i].family = h[j].family
  /\ Sessions \subseteq [drivers : SUBSET Driver, serial : BOOLEAN]

VARIABLES
  session,     \* the drivers that run, and whether one at a time
  history,     \* content of benchmark_history.json (absent is <<>>)
  pc,          \* driver -> what it does next
  nth,         \* driver -> the version it is at
  snap,        \* driver -> the snapshot it is about to append
  loaded,      \* driver -> the history it read, with its snapshot appended
  temp,        \* driver -> its temporary history file
  exe,         \* driver -> the harness binary in its target directory
  outcomes,    \* driver -> what became of each version so far
  exit,        \* driver -> its exit code, -1 before it has one
  dirs,        \* worktrees on disk, as <<driver, version>>
  registered,  \* worktrees in the core repository's registry
  stuck        \* worktrees whose removal failed (history)

vars == <<session, history, pc, nth, snap, loaded, temp, exe, outcomes, exit,
          dirs, registered, stuck>>

trees == <<dirs, registered, stuck>>

Outcome == {"appended", "skipped", "refused"}

Goto(p, next) == pc' = [pc EXCEPT ![p] = next]

\* The commit a driver is at; a report run has only its own.
RefAt(p) == IF p \in Report THEN Sibling ELSE RefsOf[p][nth[p]]

Blank(p) ==
  [by |-> p, nth |-> 1, ref |-> Sibling, linked |-> Sibling, sha |-> TRUE,
   family |-> FamilyOf[p], runs |-> {}]

Init ==
  /\ session \in Sessions
  /\ history \in Past
  /\ pc = [p \in Driver |-> "idle"]
  /\ nth = [p \in Driver |-> 1]
  /\ snap = [p \in Driver |-> Blank(p)]
  /\ loaded = [p \in Driver |-> <<>>]
  /\ temp = [p \in Driver |-> "none"]
  /\ exe = [p \in Driver |-> NoExe]
  /\ outcomes = [p \in Driver |-> <<>>]
  /\ exit = [p \in Driver |-> -1]
  /\ dirs = {} /\ registered = {} /\ stuck = {}

\* A version is over: what became of it is noted, and its worktree is dropped.
Close(p, outcome) ==
  /\ outcomes' = [outcomes EXCEPT ![p] = Append(@, outcome)]
  /\ Goto(p, IF p \in Report THEN "end" ELSE "drop")

-----------------------------------------------------------------------------
\* main(): the matrix reads the history first and does not start on one it
\* cannot read; a report run measures the binary it is.
Start(p) ==
  /\ pc[p] = "idle"
  /\ \/ /\ p \in Report
        /\ Goto(p, "suite")
        /\ exe' = [exe EXCEPT ![p] = [linked |-> Sibling, stamped |-> Sibling, sha |-> TRUE]]
        /\ UNCHANGED exit
     \/ /\ p \in Matrix /\ history # Unreadable
        /\ Goto(p, "checkout") /\ UNCHANGED <<exe, exit>>
     \/ /\ p \in Matrix
        /\ Goto(p, "done") /\ exit' = [exit EXCEPT ![p] = 2] /\ UNCHANGED exe
  /\ UNCHANGED <<history, nth, snap, loaded, temp, outcomes, trees>>

\* git worktree add
Checkout(p) ==
  /\ pc[p] = "checkout"
  /\ \/ /\ dirs' = dirs \cup {<<p, nth[p]>>}
        /\ registered' = registered \cup {<<p, nth[p]>>}
        /\ Goto(p, "resolve") /\ UNCHANGED outcomes
     \/ Close(p, "skipped") /\ UNCHANGED <<dirs, registered>>
  /\ UNCHANGED <<history, nth, snap, loaded, temp, exe, exit, stuck>>

\* Mutant of Resolve: the guard is armed after the commit is resolved.
Resolve_Unguarded(p) ==
  /\ pc[p] = "resolve"
  /\ \/ Goto(p, "clear") /\ UNCHANGED <<outcomes, nth>>
     \/ /\ outcomes' = [outcomes EXCEPT ![p] = Append(@, "skipped")]
        /\ nth' = [nth EXCEPT ![p] = @ + 1]
        /\ Goto(p, IF nth[p] < Len(RefsOf[p]) THEN "checkout" ELSE "end")
  /\ UNCHANGED <<history, snap, loaded, temp, exe, exit, trees>>

\* git rev-parse, with the worktree's guard armed
Resolve(p) ==
  /\ pc[p] = "resolve"
  /\ \/ Goto(p, "clear") /\ UNCHANGED outcomes
     \/ Close(p, "skipped")
  /\ UNCHANGED <<history, nth, snap, loaded, temp, exe, exit, trees>>

\* A tree that is not the core crate is not built; the binary of the version
\* before is removed, if that can be.
Clear(p) ==
  /\ pc[p] = "clear"
  /\ \/ /\ RefAt(p) \in Named
        /\ exe' \in {exe, [exe EXCEPT ![p] = NoExe]}
        /\ Goto(p, "cargo") /\ UNCHANGED outcomes
     \/ RefAt(p) \notin Named /\ Close(p, "skipped") /\ UNCHANGED exe
  /\ UNCHANGED <<history, nth, snap, loaded, temp, exit, trees>>

\* cargo links the worktree, or ../libviprs when the override does not apply.
Linked(ref) == IF ref \in Named THEN ref ELSE Sibling

\* cargo build fails, or leaves a new binary (whose stamp may be that of an
\* earlier version, or lack the SHA), or whatever was there.
Cargo(p) ==
  /\ pc[p] = "cargo"
  /\ \/ /\ \E i \in 1..nth[p], sha \in BOOLEAN :
             exe' = [exe EXCEPT ![p] = [linked |-> Linked(RefAt(p)),
                                        stamped |-> RefsOf[p][i], sha |-> sha]]
        /\ Goto(p, "identify") /\ UNCHANGED outcomes
     \/ exe[p] # NoExe /\ Goto(p, "identify") /\ UNCHANGED <<exe, outcomes>>
     \/ Close(p, "skipped") /\ UNCHANGED exe
  /\ UNCHANGED <<history, nth, snap, loaded, temp, exit, trees>>

\* Mutant of SaysItIs: the version is the identity.
SaysItIs_ByVersion(built, ref) == VersionOf[built.stamped] = VersionOf[ref]

\* The stamp names the version asked for and, if it has a SHA, the commit.
SaysItIs(built, ref) ==
  /\ VersionOf[built.stamped] = VersionOf[ref]
  /\ built.sha => built.stamped = ref

\* harness_core_identity(): the binary is asked what it was built against.
Identify(p) ==
  /\ pc[p] = "identify"
  /\ \/ SaysItIs(exe[p], RefAt(p)) /\ Goto(p, "suite") /\ UNCHANGED outcomes
     \/ Close(p, "skipped")
  /\ UNCHANGED <<history, nth, snap, loaded, temp, exe, exit, trees>>

\* run_isolated_suite(): a cell is in the result if any of its children
\* answered.
Suite(p) ==
  /\ pc[p] = "suite" /\ Goto(p, "load")
  /\ \E answered \in SUBSET Cell :
       snap' = [snap EXCEPT ![p] =
                  [by |-> p, nth |-> nth[p], ref |-> RefAt(p), linked |-> exe[p].linked,
                   sha |-> exe[p].sha, family |-> FamilyOf[p], runs |-> answered]]
  /\ UNCHANGED <<history, nth, loaded, temp, exe, outcomes, exit, trees>>

\* Mutant of OfOneFamily: a bare push.
OfOneFamily_Unchecked(snapshots, s) == TRUE

OfOneFamily(snapshots, s) ==
  \A i \in DOMAIN snapshots : snapshots[i].family = s.family

\* load_history() and push_snapshot(): nothing is appended to a history that
\* cannot be read, or that is another family's.
Load(p) ==
  /\ pc[p] = "load"
  /\ \/ /\ history # Unreadable /\ OfOneFamily(history, snap[p])
        /\ loaded' = [loaded EXCEPT ![p] = Append(history, snap[p])]
        /\ Goto(p, "writeTemp") /\ UNCHANGED outcomes
     \/ Close(p, "skipped") /\ UNCHANGED loaded
     \/ /\ history # Unreadable /\ ~OfOneFamily(history, snap[p])
        /\ Close(p, IF p \in Report THEN "refused" ELSE "skipped") /\ UNCHANGED loaded
  /\ UNCHANGED <<history, nth, snap, temp, exe, exit, trees>>

\* save_history(): the temporary file of a failed write stays ...
WriteTemp(p) ==
  /\ pc[p] = "writeTemp"
  /\ \/ temp' = [temp EXCEPT ![p] = "whole"] /\ Goto(p, "rename") /\ UNCHANGED outcomes
     \/ temp' \in {temp, [temp EXCEPT ![p] = "part"]} /\ Close(p, "skipped")
  /\ UNCHANGED <<history, nth, snap, loaded, exe, exit, trees>>

\* Mutant of Rename: a failed rename is reported as appended.
Rename_IgnoresError(p) ==
  /\ pc[p] = "rename" /\ history' \in {history, loaded[p]} /\ Close(p, "appended")
  /\ temp' = [temp EXCEPT ![p] = "none"]
  /\ UNCHANGED <<nth, snap, loaded, exe, exit, trees>>

\* ... and that of a failed rename does not.
Rename(p) ==
  /\ pc[p] = "rename"
  /\ \/ history' = loaded[p] /\ Close(p, "appended")
     \/ UNCHANGED history /\ Close(p, "skipped")
  /\ temp' = [temp EXCEPT ![p] = "none"]
  /\ UNCHANGED <<nth, snap, loaded, exe, exit, trees>>

\* Drop of CoreWorktree: git removes the worktree, or else its directory is
\* deleted; then the registry is pruned of what is gone from the disk, also of
\* other drivers' leavings.
Drop(p) ==
  /\ pc[p] = "drop"
  /\ \E gone, byGit, pruned \in BOOLEAN :
       LET w == <<p, nth[p]>>
       IN  /\ byGit => gone
           /\ dirs' = IF gone THEN dirs \ {w} ELSE dirs
           /\ registered' = (IF byGit THEN registered \ {w} ELSE registered)
                             \cap (IF pruned THEN dirs' ELSE registered)
           /\ stuck' = IF gone /\ (byGit \/ pruned) THEN stuck ELSE stuck \cup {w}
  /\ nth' = [nth EXCEPT ![p] = @ + 1]
  /\ Goto(p, IF nth[p] < Len(RefsOf[p]) THEN "checkout" ELSE "end")
  /\ UNCHANGED <<history, snap, loaded, temp, exe, outcomes, exit>>

Became(p, outcome) == \E i \in DOMAIN outcomes[p] : outcomes[p][i] = outcome

ExitCode(p) ==
  CASE p \in Report -> IF Became(p, "refused") THEN 3 ELSE 0
    [] ~Became(p, "appended") -> 1
    [] Became(p, "skipped") -> 3
    [] OTHER -> 0

\* The target directory is removed, if it can be, and main() returns.
End(p) ==
  /\ pc[p] = "end" /\ Goto(p, "done")
  /\ exe' \in {exe, [exe EXCEPT ![p] = NoExe]}
  /\ exit' = [exit EXCEPT ![p] = ExitCode(p)]
  /\ UNCHANGED <<history, nth, snap, loaded, temp, outcomes, trees>>

Crash(p) ==
  /\ pc[p] \notin {"idle", "done", "dead"} /\ Goto(p, "dead")
  /\ UNCHANGED <<history, nth, snap, loaded, temp, exe, outcomes, exit, trees>>

Step(p) ==
  \/ Start(p) \/ Checkout(p) \/ Resolve(p) \/ Clear(p) \/ Cargo(p) \/ Identify(p)
  \/ Suite(p) \/ Load(p) \/ WriteTemp(p) \/ Rename(p) \/ Drop(p) \/ End(p) \/ Crash(p)

AtRest(p) == pc[p] \in {"idle", "done", "dead"}

Next ==
  \E p \in session.drivers :
    /\ session.serial => \A q \in session.drivers \ {p} : AtRest(q)
    /\ Step(p)
    /\ UNCHANGED session

Spec == Init /\ [][Next]_vars

-----------------------------------------------------------------------------
\* The matrix was asked before for what the snapshot's stamp can tell it by: its
\* commit or, where the stamp has no SHA, a commit of its version.
AskedBefore(s) ==
  \E i \in 1..(s.nth - 1) :
    LET earlier == RefsOf[s.by][i]
    IN  /\ VersionOf[earlier] = VersionOf[s.ref]
        /\ s.sha => earlier = s.ref

\* A snapshot's numbers are of the commit it names: not of the binary the
\* version before left in the target directory, not of ../libviprs.  Where the
\* same matrix was asked for a like version before, they may be of a version
\* between the two, whose stamp was stale and whose binary would not go.
NamedForItsCore ==
  history # Unreadable =>
    \A i \in DOMAIN history :
      LET s == history[i]
      IN  s.by \in Driver => s.linked = s.ref \/ AskedBefore(s)

\* A history is one family's, whoever appends to it.
OneFamily ==
  history # Unreadable =>
    \A i, j \in DOMAIN history : history[i].family = history[j].family

InHistory(p, n) ==
  /\ history # Unreadable
  /\ \E i \in DOMAIN history : history[i].by = p /\ history[i].nth = n

\* What a driver says is so: a version was appended exactly if its snapshot is in
\* the history, a matrix that gets to its end has tried every version, however
\* many could not be built, and one that exits with 0 appended every one - where
\* no other driver runs beside it: of two that do, the one that renames last
\* drops what the other appended.
OutcomesAreTrue ==
  session.serial =>
    /\ \A p \in Driver : \A n \in DOMAIN outcomes[p] :
         outcomes[p][n] = "appended" <=> InHistory(p, n)
    /\ \A p \in Matrix : pc[p] = "end" => Len(outcomes[p]) = Len(RefsOf[p])
    /\ \A p \in Matrix :
         exit[p] = 0 => \A n \in DOMAIN RefsOf[p] : InHistory(p, n)

\* A worktree outlives its version only if its driver was killed or removing it
\* failed, whichever step the version ended at.
NoWorktreeLeft ==
  \A w \in dirs \cup registered :
    \/ w \in stuck
    \/ pc[w[1]] = "dead"
    \/ w[2] = nth[w[1]] /\ ~AtRest(w[1])
=============================================================================
