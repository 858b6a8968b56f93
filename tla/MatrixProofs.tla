---------------------------- MODULE MatrixProofs ---------------------------
(***************************************************************************)
(* The version matrix, for any number of matrix and report processes at    *)
(* once, over any commits: a history stays one family's (FamilyInv), a     *)
(* version's worktree goes with it (TreeInv), and a snapshot's numbers are *)
(* of the commit it names (CoreInv). Where one process runs after the      *)
(* other, what each says it appended is in the history and nothing else is *)
(* (SerialInv). CountInv keeps a driver's outcomes in step with the        *)
(* version it is at, KindInv what the files hold.                          *)
(*                                                                         *)
(* The suite it runs (Harness), for any sizes, plans, concurrencies,       *)
(* repetitions and faults: the scratch directory holds what killed         *)
(* children left and the pyramids of the reference at work (LeftInv); the  *)
(* turns left are the tail of a round robin, of which the samples count    *)
(* what is gone (TurnInv); the gate has spoken of the rows it is asked of  *)
(* (GateInv); and a row has the verdict of its own check, of a reference   *)
(* that is as planned while nothing went wrong (ScoresInv).                *)
(***************************************************************************)
EXTENDS VersionMatrix, Harness, SequenceProofs

\* Where a matrix has a worktree and still means to drop it.
Building ==
  {"resolve", "clear", "cargo", "identify", "suite", "load", "writeTemp", "rename", "drop"}

PC == Building \cup {"idle", "checkout", "end", "done", "dead"}

\* The steps a report run never takes.
Trees == {"checkout", "resolve", "clear", "cargo", "identify", "drop"}

Typed ==
  /\ session.drivers \subseteq Driver
  /\ pc \in [Driver -> PC] /\ nth \in [Driver -> Nat]
  /\ \A p \in Report : pc[p] \notin Trees

\* A worktree is its version's as long as that one is at work.
Owned(w) ==
  /\ w \in Matrix \X Nat
  /\ \/ w \in stuck
     \/ pc[w[1]] = "dead"
     \/ w[2] = nth[w[1]] /\ pc[w[1]] \in Building

TreeInv == Typed /\ \A w \in dirs \cup registered : Owned(w)

-----------------------------------------------------------------------------
\* Where a driver goes after a version, and what that leaves as it is.
LEMMA Closes ==
  ASSUME MatrixAssumption, Typed, NEW p \in Driver, NEW outcome, Close(p, outcome)
  PROVE  /\ pc' \in [Driver -> PC]
         /\ p \in Report => pc'[p] = "end"
         /\ p \in Matrix => pc'[p] \in Building
         /\ \A q \in Driver \ {p} : pc'[q] = pc[q]
<1>1. pc' = [pc EXCEPT ![p] = IF p \in Report THEN "end" ELSE "drop"]
  BY Zenon DEF Close, Goto
<1>2. p \in Matrix => p \notin Report
  BY Zenon DEF MatrixAssumption
<1> QED BY <1>1, <1>2, SMT DEF Typed, PC, Building

\* A step within a version keeps its worktree owned; one of a report run has
\* none to keep.
LEMMA Within ==
  ASSUME MatrixAssumption, TreeInv, NEW p \in Driver, pc[p] \in Building,
         pc' \in [Driver -> PC],
         \A q \in Driver \ {p} : pc'[q] = pc[q],
         p \in Matrix => pc'[p] \in Building,
         p \in Report => pc'[p] \in {"load", "writeTemp", "rename", "end"},
         UNCHANGED <<session, nth, dirs, registered, stuck>>
  PROVE  TreeInv'
<1>1. Typed'
  BY SMT DEF TreeInv, Typed, Trees, Driver
<1>2. ASSUME NEW w \in dirs \cup registered PROVE Owned(w)'
  <2>1. Owned(w)
    BY DEF TreeInv
  <2>2. w[1] \in Driver /\ w[1] \in Matrix
    BY <2>1 DEF Owned, Driver
  <2>3. CASE w[1] = p
    BY <2>1, <2>2, <2>3, SMT DEF Owned, Building
  <2>4. CASE w[1] # p
    BY <2>1, <2>2, <2>4 DEF Owned
  <2> QED BY <2>3, <2>4
<1> QED BY <1>1, <1>2 DEF TreeInv

\* No worktree is there at first.
LEMMA TreeInit == ASSUME MatrixAssumption, Init PROVE TreeInv
<1>1. session.drivers \subseteq Driver
  BY Zenon DEF Init, MatrixAssumption
<1>2. nth \in [Driver -> Nat] /\ pc \in [Driver -> {"idle"}]
  BY SMT DEF Init
<1>3. Typed
  BY <1>1, <1>2, SMT DEF Typed, PC, Trees, Driver
<1>4. dirs \cup registered = {}
  BY DEF Init
<1> QED BY <1>3, <1>4 DEF TreeInv

\* The steps between the checkout and the suite.
LEMMA TreeBuild ==
  ASSUME MatrixAssumption, TreeInv, NEW p \in Driver,
         UNCHANGED session, Resolve(p) \/ Clear(p) \/ Cargo(p) \/ Identify(p)
  PROVE  TreeInv'
<1>1. pc[p] \in Building /\ p \in Matrix
  BY SMT DEF Resolve, Clear, Cargo, Identify, Building, TreeInv, Typed, Trees, Driver
<1>2. UNCHANGED <<nth, dirs, registered, stuck>>
  BY DEF Resolve, Clear, Cargo, Identify, trees
<1>3. CASE \E outcome : Close(p, outcome)
  <2>1. p \notin Report
    BY <1>1 DEF MatrixAssumption
  <2>2. pc' \in [Driver -> PC] /\ pc'[p] \in Building /\ \A q \in Driver \ {p} : pc'[q] = pc[q]
    BY <1>1, <1>3, Closes DEF TreeInv
  <2> QED BY <1>1, <1>2, <2>1, <2>2, Within
<1>4. CASE \E next \in {"clear", "cargo", "identify", "suite"} : Goto(p, next)
  <2>1. pc' \in [Driver -> PC] /\ pc'[p] \in Building /\ \A q \in Driver \ {p} : pc'[q] = pc[q]
    BY <1>4, SMT DEF Goto, TreeInv, Typed, PC, Building
  <2>2. p \notin Report
    BY <1>1 DEF MatrixAssumption
  <2> QED BY <1>1, <1>2, <2>1, <2>2, Within
<1>5. (\E outcome : Close(p, outcome)) \/ \E next \in {"clear", "cargo", "identify", "suite"} : Goto(p, next)
  BY Zenon DEF Resolve, Clear, Cargo, Identify
<1> QED BY <1>3, <1>4, <1>5

\* The steps between the suite and the end of a version.
LEMMA TreeAppend ==
  ASSUME MatrixAssumption, TreeInv, NEW p \in Driver,
         UNCHANGED session, Suite(p) \/ Load(p) \/ WriteTemp(p) \/ Rename(p)
  PROVE  TreeInv'
<1>1. pc[p] \in Building
  BY SMT DEF Suite, Load, WriteTemp, Rename, Building
<1>2. UNCHANGED <<nth, dirs, registered, stuck>>
  BY DEF Suite, Load, WriteTemp, Rename, trees
<1>3. CASE \E outcome : Close(p, outcome)
  <2>1. /\ pc' \in [Driver -> PC] /\ \A q \in Driver \ {p} : pc'[q] = pc[q]
        /\ p \in Report => pc'[p] = "end"
        /\ p \in Matrix => pc'[p] \in Building
    BY <1>3, Closes DEF TreeInv
  <2> QED BY <1>1, <1>2, <2>1, Within
<1>4. CASE \E next \in {"load", "writeTemp", "rename"} : Goto(p, next)
  <2>1. /\ pc' \in [Driver -> PC] /\ pc'[p] \in {"load", "writeTemp", "rename"}
        /\ pc'[p] \in Building /\ \A q \in Driver \ {p} : pc'[q] = pc[q]
    BY <1>4, SMT DEF Goto, TreeInv, Typed, PC, Building
  <2> QED BY <1>1, <1>2, <2>1, Within
<1>5. (\E outcome : Close(p, outcome)) \/ \E next \in {"load", "writeTemp", "rename"} : Goto(p, next)
  BY Zenon DEF Suite, Load, WriteTemp, Rename
<1> QED BY <1>3, <1>4, <1>5

\* A worktree is made for the version at hand.
LEMMA TreeCheckout ==
  ASSUME MatrixAssumption, TreeInv, NEW p \in Driver, UNCHANGED session, Checkout(p)
  PROVE  TreeInv'
<1>1. p \in Matrix /\ pc[p] = "checkout"
  BY SMT DEF Checkout, TreeInv, Typed, Trees, Driver
<1>2. nth' = nth /\ stuck' = stuck
  BY DEF Checkout
<1>3. p \notin Report
  BY <1>1 DEF MatrixAssumption
<1>4. pc' \in [Driver -> PC] /\ pc'[p] \in Building /\ \A q \in Driver \ {p} : pc'[q] = pc[q]
  <2>1. CASE Goto(p, "resolve")
    BY <2>1, SMT DEF Goto, TreeInv, Typed, PC, Building
  <2>2. CASE Close(p, "skipped")
    BY <1>1, <2>2, Closes DEF TreeInv
  <2> QED BY <2>1, <2>2 DEF Checkout
<1>5. Typed'
  <2>1. pc'[p] \in Building
    BY <1>4
  <2>2. \A q \in Report : q # p /\ q \in Driver
    BY <1>3 DEF Driver
  <2> QED BY <1>2, <1>4, <2>2 DEF TreeInv, Typed
<1>6. dirs' \cup registered' \subseteq dirs \cup registered \cup {<<p, nth[p]>>}
  BY Zenon DEF Checkout
<1>7. ASSUME NEW w \in dirs' \cup registered' PROVE Owned(w)'
  <2>1. CASE w = <<p, nth[p]>>
    <3>1. nth[p] \in Nat /\ w \in Matrix \X Nat /\ w[1] = p /\ w[2] = nth[p]
      BY <1>1, <2>1 DEF TreeInv, Typed, Driver
    <3> QED BY <1>2, <1>4, <3>1 DEF Owned
  <2>2. CASE w \in dirs \cup registered
    <3>1. Owned(w) /\ w[1] \in Driver
      BY <2>2 DEF TreeInv, Owned, Driver
    <3>2. CASE w[1] = p
      BY <1>1, <1>2, <3>1, <3>2, SMT DEF Owned, Building
    <3>3. CASE w[1] # p
      BY <1>2, <1>4, <3>1, <3>3 DEF Owned
    <3> QED BY <3>2, <3>3
  <2> QED BY <1>6, <2>1, <2>2
<1> QED BY <1>5, <1>7 DEF TreeInv

\* The guard removes the worktree of its version from the disk and from the
\* registry, or that is one whose removal failed.
LEMMA TreeDrop ==
  ASSUME MatrixAssumption, TreeInv, NEW p \in Driver, UNCHANGED session, Drop(p)
  PROVE  TreeInv'
<1> DEFINE mine == <<p, nth[p]>>
<1>1. p \in Matrix /\ pc[p] = "drop"
  BY SMT DEF Drop, TreeInv, Typed, Trees, Driver
<1>2. p \notin Report
  BY <1>1 DEF MatrixAssumption
<1>3. /\ dirs' \subseteq dirs /\ registered' \subseteq registered
      /\ stuck \subseteq stuck'
      /\ mine \in dirs' \cup registered' => mine \in stuck'
  BY Zenon DEF Drop
<1>4. /\ pc' \in [Driver -> PC] /\ nth' \in [Driver -> Nat]
      /\ pc'[p] \in {"checkout", "end"}
      /\ \A q \in Driver \ {p} : pc'[q] = pc[q] /\ nth'[q] = nth[q]
  BY SMT DEF Drop, Goto, TreeInv, Typed, PC
<1>5. Typed'
  <2>1. \A q \in Report : q \in Driver \ {p}
    BY <1>2 DEF Driver
  <2> QED BY <1>4, <2>1, Zenon DEF TreeInv, Typed
<1>6. ASSUME NEW w \in dirs' \cup registered' PROVE Owned(w)'
  <2>1. Owned(w) /\ w[1] \in Driver /\ w[1] \in Matrix
    BY <1>3 DEF TreeInv, Owned, Driver
  <2>2. CASE w[1] # p
    BY <1>3, <1>4, <2>1, <2>2 DEF Owned
  <2>3. CASE w[1] = p /\ w \in stuck
    BY <1>3, <2>1, <2>3 DEF Owned
  <2>4. CASE w[1] = p /\ w \notin stuck
    <3>1. w[2] = nth[p]
      BY <1>1, <2>1, <2>4, SMT DEF Owned
    <3>2. w = mine
      BY <2>1, <2>4, <3>1, SMT DEF Owned
    <3> QED BY <1>3, <2>1, <3>2 DEF Owned
  <2> QED BY <2>2, <2>3, <2>4
<1> QED BY <1>5, <1>6 DEF TreeInv

\* A driver that starts, ends or is killed has no version at hand, or dies.
LEMMA TreeRest ==
  ASSUME MatrixAssumption, TreeInv, NEW p \in Driver, UNCHANGED session,
         Start(p) \/ End(p) \/ Crash(p)
  PROVE  TreeInv'
<1>1. UNCHANGED <<nth, dirs, registered, stuck>>
  BY DEF Start, End, Crash, trees
<1>2. /\ pc' \in [Driver -> PC]
      /\ \A q \in Driver \ {p} : pc'[q] = pc[q]
      /\ pc'[p] = "dead" \/ pc[p] \notin Building
      /\ p \in Report => pc'[p] \notin Trees
  <2>1. p \in Report => p \notin Matrix
    BY Zenon DEF MatrixAssumption
  <2>2. PICK next \in {"suite", "checkout", "done", "dead"} :
          /\ Goto(p, next)
          /\ next = "dead" \/ pc[p] \in {"idle", "end"}
          /\ next = "checkout" => p \in Matrix
    BY Zenon DEF Start, End, Crash
  <2> QED BY <2>1, <2>2, SMT DEF Goto, TreeInv, Typed, PC, Building, Trees
<1>3. pc[p] = "dead" => pc'[p] = "dead"
  BY SMT DEF Start, End, Crash
<1>4. Typed'
  BY <1>1, <1>2, SMT DEF TreeInv, Typed, Driver
<1>5. ASSUME NEW w \in dirs \cup registered PROVE Owned(w)'
  <2>1. Owned(w) /\ w[1] \in Driver
    BY DEF TreeInv, Owned, Driver
  <2> QED BY <1>1, <1>2, <1>3, <2>1, SMT DEF Owned
<1> QED BY <1>1, <1>4, <1>5 DEF TreeInv

\* Every step of every driver keeps each worktree with the version that owns it.
LEMMA TreeNext == ASSUME MatrixAssumption, TreeInv, [Next]_vars PROVE TreeInv'
<1>1. CASE UNCHANGED vars
  BY <1>1 DEF vars, TreeInv, Typed, Owned
<1>2. ASSUME NEW p \in Driver, UNCHANGED session, Step(p) PROVE TreeInv'
  BY <1>2, TreeBuild, TreeAppend, TreeCheckout, TreeDrop, TreeRest DEF Step
<1>3. CASE Next
  <2>1. PICK p \in session.drivers : Step(p) /\ UNCHANGED session
    BY <1>3, Zenon DEF Next
  <2>2. p \in Driver
    BY DEF TreeInv, Typed
  <2> QED BY <1>2, <2>1, <2>2
<1> QED BY <1>1, <1>3

\* Dropping a CoreWorktree and every early return of run_matrix(): whichever step
\* a version ends at, on whatever interleaving, its worktree and the registry's
\* entry go with it.
THEOREM WorktreesAreDropped == Spec => []NoWorktreeLeft
<1>1. Init => TreeInv
  BY TreeInit, MatrixAssumption
<1>2. TreeInv /\ [Next]_vars => TreeInv'
  BY TreeNext, MatrixAssumption
<1>3. TreeInv => NoWorktreeLeft
  BY SMT DEF TreeInv, Owned, NoWorktreeLeft, AtRest, Building
<1> QED BY <1>1, <1>2, <1>3, PTL DEF Spec

-----------------------------------------------------------------------------
(* Families. *)

\* A history, of one family.
OfOne(h) ==
  /\ \E S : h \in Seq(S)
  /\ \A i, j \in DOMAIN h : h[i].family = h[j].family

PerDriver(f) == f = [p \in Driver |-> f[p]]

\* What a driver is about to put in the place of the history is of one family,
\* also if the history has changed since it was read.
FamilyInv ==
  /\ PerDriver(loaded) /\ PerDriver(pc)
  /\ history # Unreadable => OfOne(history)
  /\ \A p \in Driver : pc[p] \in {"writeTemp", "rename"} => OfOne(loaded[p])

\* One snapshot more of the same family.
LEMMA AppendOfOne ==
  ASSUME NEW h, OfOne(h), NEW s, OfOneFamily(h, s)
  PROVE  OfOne(Append(h, s))
<1>1. PICK S : h \in Seq(S)
  BY DEF OfOne
<1> DEFINE T == S \cup {s}
           g == Append(h, s)
<1>2. h \in Seq(T) /\ s \in T
  <2>1. Len(h) \in Nat /\ DOMAIN h = 1..Len(h) /\ h \in [1..Len(h) -> S]
    BY <1>1, LenProperties
  <2>2. h \in [1..Len(h) -> T]
    BY <2>1
  <2> QED BY <2>1, <2>2, SeqDef
<1>3. /\ g \in Seq(T) /\ DOMAIN g = 1..(Len(h) + 1) /\ Len(h) \in Nat /\ DOMAIN h = 1..Len(h)
      /\ \A i \in 1..Len(h) : g[i] = h[i]
      /\ g[Len(h) + 1] = s
  BY <1>2, AppendProperties, LenProperties
<1> HIDE DEF g, T
<1>4. \A i \in DOMAIN g : g[i].family = s.family
  <2>1. \A i \in 1..(Len(h) + 1) : i \in 1..Len(h) \/ i = Len(h) + 1
    BY <1>3, SMT
  <2> QED BY <1>3, <2>1 DEF OfOneFamily
<1>5. OfOne(g)
  BY <1>3, <1>4, Zenon DEF OfOne
<1> QED BY <1>5 DEF g

\* The history that is found is no driver's.
LEMMA Found ==
  ASSUME MatrixAssumption, Init, history # Unreadable
  PROVE  /\ history \in Seq(Snapshot({Before}))
         /\ \A i \in DOMAIN history : history[i].by \notin Driver
<1>1. history \in Seq(Snapshot({Before}))
  BY DEF Init, MatrixAssumption
<1>2. ASSUME NEW i \in DOMAIN history PROVE history[i] \in Snapshot({Before})
  <2>1. i \in 1..Len(history)
    BY <1>1, LenProperties
  <2> QED BY <1>1, <2>1, ElementOfSeq
<1>3. \A s \in Snapshot({Before}) : s.by = Before
  BY DEF Snapshot
<1> QED BY <1>1, <1>2, <1>3 DEF MatrixAssumption

\* The history that is found is of one family, or cannot be read.
LEMMA FamilyInit == ASSUME MatrixAssumption, Init PROVE FamilyInv
<1>1. history # Unreadable => OfOne(history)
  <2>1. history # Unreadable => \A i, j \in DOMAIN history : history[i].family = history[j].family
    BY Zenon DEF Init, MatrixAssumption
  <2> QED BY <2>1, Found, Zenon DEF OfOne
<1>2. \A p \in Driver : pc[p] = "idle"
  BY DEF Init
<1>3. PerDriver(loaded) /\ PerDriver(pc)
  BY Zenon DEF Init, PerDriver
<1> QED BY <1>1, <1>2, <1>3, SMT DEF FamilyInv

\* The steps that neither read nor write the history.
LEMMA FamilyStays ==
  ASSUME FamilyInv, NEW p \in Driver, NEW next,
         pc' = [pc EXCEPT ![p] = next],
         next \in {"writeTemp", "rename"} => pc[p] \in {"writeTemp", "rename"},
         UNCHANGED <<history, loaded>>
  PROVE  FamilyInv'
<1>1. PerDriver(pc) /\ PerDriver(loaded) /\ loaded' = loaded /\ history' = history
  BY SMT DEF FamilyInv
<1>2. PerDriver(pc') /\ pc'[p] = next /\ \A q \in Driver \ {p} : pc'[q] = pc[q]
  BY <1>1 DEF PerDriver
<1>3. \A q \in Driver : pc'[q] \in {"writeTemp", "rename"} => OfOne(loaded[q])
  <2>1. ASSUME NEW q \in Driver, pc'[q] \in {"writeTemp", "rename"} PROVE pc[q] \in {"writeTemp", "rename"}
    BY <1>2, <2>1, Zenon
  <2> QED BY <2>1, Zenon DEF FamilyInv
<1> QED BY <1>1, <1>2, <1>3, Zenon DEF FamilyInv

\* A version that is over is past its rename.
LEMMA FamilyCloses ==
  ASSUME FamilyInv, NEW p \in Driver, NEW outcome, Close(p, outcome),
         UNCHANGED <<history, loaded>>
  PROVE  FamilyInv'
<1> DEFINE next == IF p \in Report THEN "end" ELSE "drop"
<1>1. pc' = [pc EXCEPT ![p] = next]
  BY Zenon DEF Close, Goto
<1>2. next \notin {"writeTemp", "rename"}
  OBVIOUS
<1> HIDE DEF next
<1> QED BY <1>1, <1>2, FamilyStays

\* The steps of one driver.
LEMMA FamilyStep == ASSUME FamilyInv, NEW p \in Driver, Step(p) PROVE FamilyInv'
<1>1. ASSUME Start(p) \/ Checkout(p) \/ Resolve(p) \/ Clear(p) \/ Cargo(p) \/ Identify(p)
               \/ Suite(p) \/ Drop(p) \/ End(p) \/ Crash(p)
      PROVE  FamilyInv'
  <2>1. UNCHANGED <<history, loaded>>
    BY <1>1, Zenon DEF Start, Checkout, Resolve, Clear, Cargo, Identify, Suite, Drop, End, Crash
  <2>2. \/ \E outcome : Close(p, outcome)
        \/ \E next \in {"suite", "checkout", "resolve", "clear", "cargo", "identify", "load",
                        "end", "done", "dead"} : Goto(p, next)
    <3>1. CASE Drop(p)
      <4>1. Goto(p, IF nth[p] < Len(RefsOf[p]) THEN "checkout" ELSE "end")
        BY <3>1, Zenon DEF Drop
      <4> QED BY <4>1, Zenon
    <3>2. CASE Start(p) \/ Checkout(p) \/ Resolve(p) \/ Clear(p)
      BY <3>2, Zenon DEF Start, Checkout, Resolve, Clear
    <3>3. CASE Cargo(p) \/ Identify(p) \/ Suite(p) \/ End(p) \/ Crash(p)
      BY <3>3, Zenon DEF Cargo, Identify, Suite, End, Crash
    <3> QED BY <1>1, <3>1, <3>2, <3>3
  <2>3. CASE \E outcome : Close(p, outcome)
    BY <2>1, <2>3, FamilyCloses
  <2>4. ASSUME NEW next \in {"suite", "checkout", "resolve", "clear", "cargo", "identify", "load",
                             "end", "done", "dead"}, Goto(p, next)
        PROVE  FamilyInv'
    <3>1. next \notin {"writeTemp", "rename"}
      OBVIOUS
    <3>2. pc' = [pc EXCEPT ![p] = next]
      BY <2>4 DEF Goto
    <3> QED BY <2>1, <3>1, <3>2, FamilyStays
  <2> QED BY <2>2, <2>3, <2>4
<1>2. CASE Load(p)
  <2>1. history' = history
    BY <1>2 DEF Load
  <2>2. CASE /\ history # Unreadable /\ OfOneFamily(history, snap[p])
             /\ loaded' = [loaded EXCEPT ![p] = Append(history, snap[p])]
             /\ Goto(p, "writeTemp")
    <3> DEFINE h == Append(history, snap[p])
    <3>1. OfOne(h)
      BY <2>2, AppendOfOne DEF FamilyInv
    <3>2. loaded' = [loaded EXCEPT ![p] = h] /\ pc' = [pc EXCEPT ![p] = "writeTemp"]
      BY <2>2, Zenon DEF Goto
    <3> HIDE DEF h
    <3>3. PerDriver(loaded) /\ PerDriver(pc)
      BY Zenon DEF FamilyInv
    <3>4. PerDriver(loaded') /\ loaded'[p] = h
          /\ \A q \in Driver \ {p} : loaded'[q] = loaded[q]
      BY <3>2, <3>3 DEF PerDriver
    <3>5. PerDriver(pc') /\ \A q \in Driver \ {p} : pc'[q] = pc[q]
      BY <3>2, <3>3 DEF PerDriver
    <3>6. \A q \in Driver : pc'[q] \in {"writeTemp", "rename"} => OfOne(loaded'[q])
      BY <3>1, <3>4, <3>5, Zenon DEF FamilyInv
    <3> QED BY <2>1, <3>4, <3>5, <3>6, Zenon DEF FamilyInv
  <2>3. CASE UNCHANGED loaded /\ \E outcome : Close(p, outcome)
    BY <2>1, <2>3, FamilyCloses
  <2> QED BY <1>2, <2>2, <2>3, Zenon DEF Load
<1>3. CASE WriteTemp(p)
  <2>1. pc[p] = "writeTemp" /\ UNCHANGED <<history, loaded>>
    BY <1>3 DEF WriteTemp
  <2>2. PICK next : pc' = [pc EXCEPT ![p] = next]
    BY <1>3, Zenon DEF WriteTemp, Close, Goto
  <2> QED BY <2>1, <2>2, FamilyStays
<1>4. CASE Rename(p)
  <2>1. pc[p] = "rename" /\ UNCHANGED loaded /\ history' \in {history, loaded[p]}
    BY <1>4, Zenon DEF Rename
  <2>2. PICK outcome : Close(p, outcome)
    BY <1>4, Zenon DEF Rename
  <2>3. pc' = [pc EXCEPT ![p] = IF p \in Report THEN "end" ELSE "drop"]
    BY <2>2, Zenon DEF Close, Goto
  <2>4. PerDriver(pc)
    BY Zenon DEF FamilyInv
  <2>5. PerDriver(pc') /\ \A q \in Driver \ {p} : pc'[q] = pc[q]
    BY <2>3, <2>4 DEF PerDriver
  <2>6. \A q \in Driver : pc'[q] \in {"writeTemp", "rename"} => OfOne(loaded[q])
    BY <2>1, <2>5, Zenon DEF FamilyInv
  <2>7. history' # Unreadable => OfOne(history')
    BY <2>1, Zenon DEF FamilyInv
  <2> QED BY <2>1, <2>5, <2>6, <2>7, Zenon DEF FamilyInv
<1> QED BY <1>1, <1>2, <1>3, <1>4 DEF Step

\* Every step of every driver, and every stutter, keeps the history of one family.
LEMMA FamilyNext == ASSUME MatrixAssumption, TreeInv, FamilyInv, [Next]_vars PROVE FamilyInv'
<1>1. CASE UNCHANGED vars
  <2>1. history' = history /\ loaded' = loaded /\ pc' = pc
    BY <1>1 DEF vars
  <2> QED BY <2>1, Zenon DEF FamilyInv
<1>2. CASE Next
  <2>1. PICK p \in session.drivers : Step(p)
    BY <1>2, Zenon DEF Next
  <2>2. p \in Driver
    BY DEF TreeInv, Typed
  <2> QED BY <2>1, <2>2, FamilyStep
<1> QED BY <1>1, <1>2

\* push_snapshot(): however many matrices and reports of however many families
\* append to one file, and whichever rename comes last, the file is of one family.
THEOREM FamiliesNeverMix == Spec => []OneFamily
<1>1. Init => TreeInv /\ FamilyInv
  BY TreeInit, FamilyInit, MatrixAssumption
<1>2. TreeInv /\ FamilyInv /\ [Next]_vars => (TreeInv /\ FamilyInv)'
  BY TreeNext, FamilyNext, MatrixAssumption
<1>3. FamilyInv => OneFamily
  BY Zenon DEF FamilyInv, OneFamily, OfOne
<1> QED BY <1>1, <1>2, <1>3, PTL DEF Spec

-----------------------------------------------------------------------------
(* Versions: which one a driver is at, and what it has noted of the others. *)

\* Where a driver has not yet noted what became of the version it is at.
Working == {"idle", "checkout", "resolve", "clear", "cargo", "identify", "suite", "load",
            "writeTemp", "rename"}

\* One outcome for each version that is over, none else; a driver that exits
\* with 0 has appended them all.
InStep(p) ==
  /\ nth[p] \in Nat \ {0} /\ outcomes[p] \in Seq(Outcome)
  /\ pc[p] \in Working => Len(outcomes[p]) = nth[p] - 1
  /\ p \in Report /\ pc[p] \in Working => nth[p] = 1
  /\ p \in Matrix =>
       /\ pc[p] \in Working => nth[p] <= Len(RefsOf[p])
       /\ pc[p] = "drop" => Len(outcomes[p]) = nth[p] /\ nth[p] <= Len(RefsOf[p])
       /\ pc[p] = "end" => Len(outcomes[p]) = Len(RefsOf[p])
       /\ outcomes[p] \in Seq({"appended", "skipped"})
       /\ exit[p] = 0 =>
            /\ pc[p] = "done" /\ Len(outcomes[p]) = Len(RefsOf[p])
            /\ \A i \in DOMAIN outcomes[p] : outcomes[p][i] = "appended"

CountInv ==
  /\ PerDriver(nth) /\ PerDriver(outcomes) /\ PerDriver(exit)
  /\ \A p \in Driver : InStep(p)

-----------------------------------------------------------------------------
(* Cores: what the numbers of a snapshot are of. *)

\* A binary of a matrix links a version it built, and its stamp is of that one or
\* of an earlier one.
Built(p) ==
  \E j \in 1..nth[p] : \E i \in 1..j :
    exe[p].linked = RefsOf[p][j] /\ exe[p].stamped = RefsOf[p][i]

Fine(s) == s.linked = s.ref \/ AskedBefore(s)

\* The snapshot a driver is about to measure.
Measured(p) ==
  [by |-> p, nth |-> nth[p], ref |-> RefAt(p), linked |-> exe[p].linked, sha |-> exe[p].sha]

AllFine(h) ==
  /\ \E S : h \in Seq(S)
  /\ \A i \in DOMAIN h : h[i].by \in Driver => Fine(h[i])

Cores(p) ==
  /\ p \in Matrix => exe[p] = NoExe \/ Built(p)
  /\ pc[p] = "cargo" => RefAt(p) \in Named
  /\ pc[p] \in {"identify", "suite"} => exe[p] # NoExe
  /\ pc[p] = "suite" => Fine(Measured(p))
  /\ pc[p] = "load" => Fine(snap[p])
  /\ pc[p] \in {"writeTemp", "rename"} => AllFine(loaded[p])

CoreInv ==
  /\ PerDriver(exe) /\ PerDriver(snap)
  /\ \A p \in Driver : Cores(p)
  /\ history # Unreadable => AllFine(history)

-----------------------------------------------------------------------------
(* Outcomes, where one driver runs after the other. *)

Entry == Snapshot(Driver \cup {Before})

\* What is in the harness directory, what was measured and what was read are of
\* their kind.
Kinds(p) ==
  /\ exe[p] \in Exe \cup {NoExe}
  /\ snap[p] \in Snapshot(Driver)
  /\ pc[p] \in {"writeTemp", "rename"} => loaded[p] \in Seq(Entry)

KindInv == history \in Seq(Entry) \cup {Unreadable} /\ \A p \in Driver : Kinds(p)

Filed(h, p, n) == \E i \in DOMAIN h : h[i].by = p /\ h[i].nth = n

\* What the driver appends is its own, and what it read is still the history.
Owner(p) ==
  /\ pc[p] \in {"load", "writeTemp", "rename"} => snap[p].by = p /\ snap[p].nth = nth[p]
  /\ pc[p] \in {"writeTemp", "rename"} =>
       history # Unreadable /\ loaded[p] = Append(history, snap[p])

Told(p) ==
  \A n \in Nat : InHistory(p, n) <=> n \in DOMAIN outcomes[p] /\ outcomes[p][n] = "appended"

SerialInv ==
  session.serial =>
    /\ \A p \in Driver \ session.drivers : AtRest(p)
    /\ \A p, q \in Driver : AtRest(p) \/ AtRest(q) \/ p = q
    /\ \A p \in Driver : Owner(p) /\ Told(p)

-----------------------------------------------------------------------------
\* One more entry at the end.
LEMMA Appended ==
  ASSUME NEW S, NEW h \in Seq(S), NEW x
  PROVE  LET g == Append(h, x)
         IN  /\ g \in Seq(S \cup {x}) /\ Len(h) \in Nat /\ Len(g) = Len(h) + 1
             /\ DOMAIN h = 1..Len(h) /\ DOMAIN g = 1..(Len(h) + 1)
             /\ \A i \in 1..Len(h) : g[i] = h[i]
             /\ g[Len(h) + 1] = x
<1> DEFINE T == S \cup {x}
<1>1. h \in Seq(T) /\ x \in T
  <2>1. Len(h) \in Nat /\ DOMAIN h = 1..Len(h) /\ h \in [1..Len(h) -> S]
    BY LenProperties
  <2>2. h \in [1..Len(h) -> T]
    BY <2>1
  <2> QED BY <2>1, <2>2, SeqDef
<1> HIDE DEF T
<1>2. Append(h, x) \in Seq(T)
  BY <1>1, AppendProperties
<1> QED BY <1>1, <1>2, AppendProperties, LenProperties DEF T

\* The shapes of a step: a version is over, is taken further, is given up with
\* the whole run, or has its worktree dropped, or the run is over.
Ends(p, outcome) ==
  /\ Close(p, outcome) /\ outcome \in Outcome
  /\ outcome = "refused" => p \in Report
  /\ pc[p] \in Working
  /\ IF outcome = "appended" THEN pc[p] = "rename" /\ history' = loaded[p]
                             ELSE history' = history
  /\ UNCHANGED <<nth, exit>>

Goes(p, next) ==
  /\ Goto(p, next) /\ pc[p] \in Working /\ next \in Working
  /\ UNCHANGED <<history, nth, outcomes, exit>>

Leaves(p) ==
  /\ \E next \in {"done", "dead"} : Goto(p, next)
  /\ pc[p] \notin {"done", "dead"}
  /\ exit' \in {exit, [exit EXCEPT ![p] = 2]}
  /\ UNCHANGED <<history, nth, outcomes>>

\* Every step has one of the shapes.
LEMMA Shapes ==
  ASSUME NEW p \in Driver, Step(p)
  PROVE  \/ \E outcome : Ends(p, outcome)
         \/ \E next : Goes(p, next)
         \/ Leaves(p) \/ Drop(p) \/ End(p)
<1> USE DEF Ends, Goes, Leaves, Working, Outcome
<1>1. CASE Start(p)
  BY <1>1, Zenon DEF Start
<1>2. CASE Checkout(p)
  BY <1>2, Zenon DEF Checkout
<1>3. CASE Resolve(p) \/ Clear(p)
  BY <1>3, Zenon DEF Resolve, Clear
<1>4. CASE Cargo(p) \/ Identify(p)
  BY <1>4, Zenon DEF Cargo, Identify
<1>5. CASE Suite(p)
  BY <1>5, Zenon DEF Suite
<1>6. CASE Load(p)
  <2>1. CASE Close(p, IF p \in Report THEN "refused" ELSE "skipped")
    <3> DEFINE outcome == IF p \in Report THEN "refused" ELSE "skipped"
    <3>1. outcome \in Outcome /\ (outcome = "refused" => p \in Report) /\ outcome # "appended"
      OBVIOUS
    <3>2. Close(p, outcome) /\ pc[p] = "load" /\ UNCHANGED <<history, nth, exit>>
      BY <1>6, <2>1, Zenon DEF Load
    <3> HIDE DEF outcome
    <3> QED BY <3>1, <3>2, Zenon
  <2>2. CASE ~Close(p, IF p \in Report THEN "refused" ELSE "skipped")
    BY <1>6, <2>2, Zenon DEF Load
  <2> QED BY <2>1, <2>2
<1>7. CASE WriteTemp(p)
  BY <1>7, Zenon DEF WriteTemp
<1>8. CASE Rename(p)
  BY <1>8, Zenon DEF Rename
<1>9. CASE Crash(p)
  BY <1>9, Zenon DEF Crash
<1> QED BY <1>1, <1>2, <1>3, <1>4, <1>5, <1>6, <1>7, <1>8, <1>9 DEF Step

\* A driver whose entries stay counts as it did.
LEMMA CountsSame ==
  ASSUME NEW q \in Driver, InStep(q),
         nth'[q] = nth[q], outcomes'[q] = outcomes[q], exit'[q] = exit[q], pc'[q] = pc[q]
  PROVE  InStep(q)'
<1>1. nth'[q] \in Nat \ {0} /\ outcomes'[q] \in Seq(Outcome)
  BY DEF InStep
<1> QED BY <1>1 DEF InStep

\* Nothing is over at first.
LEMMA CountInit == ASSUME MatrixAssumption, Init PROVE CountInv
<1>1. PerDriver(nth) /\ PerDriver(outcomes) /\ PerDriver(exit)
  BY Zenon DEF Init, PerDriver
<1>2. ASSUME NEW p \in Driver PROVE InStep(p)
  <2>1. nth[p] = 1 /\ outcomes[p] = <<>> /\ exit[p] = -1 /\ pc[p] = "idle"
    BY <1>2 DEF Init
  <2>2. Len(<<>>) = 0 /\ <<>> \in Seq(Outcome) /\ <<>> \in Seq({"appended", "skipped"})
    BY EmptySeq
  <2>3. p \in Matrix => Len(RefsOf[p]) \in Nat /\ Len(RefsOf[p]) >= 1
    <3>1. p \in Matrix => RefsOf[p] \in Seq(Ref) /\ RefsOf[p] # <<>>
      BY DEF MatrixAssumption
    <3> QED BY <3>1, EmptySeq, LenProperties, SMT
  <2>4. exit[p] # 0
    BY <2>1, SMT
  <2>5. nth[p] \in Nat \ {0} /\ Len(outcomes[p]) = nth[p] - 1
    BY <2>1, <2>2, SMT
  <2>6. pc[p] # "drop" /\ pc[p] # "end"
    BY <2>1
  <2> QED BY <2>1, <2>2, <2>3, <2>4, <2>5, <2>6, SMT DEF InStep
<1> QED BY <1>1, <1>2 DEF CountInv

\* A version that is over is counted.
LEMMA CountEnds ==
  ASSUME MatrixAssumption, TreeInv, CountInv, NEW p \in Driver, NEW outcome, Ends(p, outcome)
  PROVE  /\ PerDriver(outcomes') /\ InStep(p)'
         /\ Len(outcomes'[p]) = nth[p] /\ outcomes'[p][nth[p]] = outcome
         /\ \A i \in 1..(nth[p] - 1) : outcomes'[p][i] = outcomes[p][i]
         /\ DOMAIN outcomes'[p] = 1..nth[p] /\ DOMAIN outcomes[p] = 1..(nth[p] - 1)
         /\ \A q \in Driver \ {p} : outcomes'[q] = outcomes[q]
<1>1. /\ nth[p] \in Nat \ {0} /\ Len(outcomes[p]) = nth[p] - 1 /\ outcomes[p] \in Seq(Outcome)
      /\ p \in Matrix => nth[p] <= Len(RefsOf[p]) /\ outcomes[p] \in Seq({"appended", "skipped"})
  BY DEF CountInv, InStep, Ends
<1>2. outcomes' = [outcomes EXCEPT ![p] = Append(outcomes[p], outcome)]
  BY Zenon DEF Ends, Close
<1>3. /\ PerDriver(outcomes') /\ outcomes'[p] = Append(outcomes[p], outcome)
      /\ \A q \in Driver \ {p} : outcomes'[q] = outcomes[q]
  <2> DEFINE g == Append(outcomes[p], outcome)
  <2>1. outcomes' = [outcomes EXCEPT ![p] = g] /\ PerDriver(outcomes)
    BY <1>2 DEF CountInv
  <2> HIDE DEF g
  <2>2. PerDriver(outcomes') /\ outcomes'[p] = g /\ \A q \in Driver \ {p} : outcomes'[q] = outcomes[q]
    BY <2>1 DEF PerDriver
  <2> QED BY <2>2 DEF g
<1>4. /\ Len(outcomes'[p]) = nth[p] /\ outcomes'[p][nth[p]] = outcome
      /\ \A i \in 1..(nth[p] - 1) : outcomes'[p][i] = outcomes[p][i]
      /\ DOMAIN outcomes'[p] = 1..nth[p] /\ DOMAIN outcomes[p] = 1..(nth[p] - 1)
      /\ outcomes'[p] \in Seq(Outcome \cup {outcome})
  <2> DEFINE g == Append(outcomes[p], outcome)
  <2>1. /\ g \in Seq(Outcome \cup {outcome})
        /\ Len(g) = Len(outcomes[p]) + 1
        /\ DOMAIN outcomes[p] = 1..Len(outcomes[p]) /\ DOMAIN g = 1..(Len(outcomes[p]) + 1)
        /\ \A i \in 1..Len(outcomes[p]) : g[i] = outcomes[p][i]
        /\ g[Len(outcomes[p]) + 1] = outcome
    BY <1>1, Appended
  <2>2. Len(outcomes[p]) + 1 = nth[p]
    BY <1>1, SMT
  <2> HIDE DEF g
  <2>3. outcomes'[p] = g
    BY <1>3 DEF g
  <2> QED BY <1>1, <2>1, <2>2, <2>3
<1>5. outcome \in Outcome /\ (p \in Matrix => outcome \in {"appended", "skipped"})
  <2>1. p \in Matrix => p \notin Report
    BY DEF MatrixAssumption
  <2> QED BY <2>1 DEF Ends, Outcome
<1>6. outcomes'[p] \in Seq(Outcome)
  <2>1. Outcome \cup {outcome} = Outcome
    BY <1>5
  <2> QED BY <1>4, <2>1
<1>7. p \in Matrix => outcomes'[p] \in Seq({"appended", "skipped"})
  <2> SUFFICES ASSUME p \in Matrix PROVE outcomes'[p] \in Seq({"appended", "skipped"})
    OBVIOUS
  <2>1. Append(outcomes[p], outcome) \in Seq({"appended", "skipped"} \cup {outcome})
    BY <1>1, Appended
  <2>2. {"appended", "skipped"} \cup {outcome} = {"appended", "skipped"}
    BY <1>5
  <2> QED BY <1>3, <2>1, <2>2
<1>8. pc'[p] = IF p \in Report THEN "end" ELSE "drop"
  <2>1. pc' = [pc EXCEPT ![p] = IF p \in Report THEN "end" ELSE "drop"]
    BY Zenon DEF Ends, Close, Goto
  <2> QED BY <2>1 DEF TreeInv, Typed
<1>9. p \in Matrix => exit'[p] # 0
  BY SMT DEF CountInv, InStep, Ends, Working
<1>10. nth'[p] = nth[p]
  BY DEF Ends
<1>11. p \in Matrix => p \notin Report
  BY DEF MatrixAssumption
<1>12. InStep(p)'
  <2>1. pc'[p] \notin Working
    BY <1>8, SMT DEF Working
  <2>2. p \in Matrix => pc'[p] = "drop"
    BY <1>8, <1>11
  <2> QED BY <1>1, <1>4, <1>6, <1>7, <1>9, <1>10, <2>1, <2>2 DEF InStep
<1> QED BY <1>3, <1>4, <1>12

\* Every step keeps the count.
LEMMA CountStep ==
  ASSUME MatrixAssumption, TreeInv, CountInv, NEW p \in Driver, Step(p)
  PROVE  CountInv'
<1>1. /\ PerDriver(nth) /\ PerDriver(outcomes) /\ PerDriver(exit)
      /\ \A q \in Driver : InStep(q)
      /\ pc \in [Driver -> PC]
  BY DEF CountInv, TreeInv, Typed
<1>2. SUFFICES /\ PerDriver(nth') /\ PerDriver(outcomes') /\ PerDriver(exit')
               /\ InStep(p)'
               /\ \A q \in Driver \ {p} : /\ nth'[q] = nth[q] /\ outcomes'[q] = outcomes[q]
                                          /\ exit'[q] = exit[q] /\ pc'[q] = pc[q]
  BY <1>1, <1>2, CountsSame DEF CountInv
<1>3. ASSUME NEW next, Goto(p, next) PROVE pc'[p] = next /\ \A q \in Driver \ {p} : pc'[q] = pc[q]
  BY <1>1, <1>3, Zenon DEF Goto
<1>4. p \in Matrix => p \notin Report
  BY DEF MatrixAssumption
<1>5. InStep(p)
  BY <1>1
<1>6. CASE \E outcome : Ends(p, outcome)
  <2>1. PICK outcome : Ends(p, outcome)
    BY <1>6
  <2>2. PerDriver(outcomes') /\ InStep(p)' /\ \A q \in Driver \ {p} : outcomes'[q] = outcomes[q]
    BY <2>1, CountEnds
  <2>3. nth' = nth /\ exit' = exit
    BY <2>1 DEF Ends
  <2>4. \A q \in Driver \ {p} : pc'[q] = pc[q]
    BY <1>3, <2>1, Zenon DEF Ends, Close
  <2> QED BY <1>1, <2>2, <2>3, <2>4
<1>7. CASE \E next : Goes(p, next)
  <2>1. PICK next : Goes(p, next)
    BY <1>7
  <2>2. /\ nth' = nth /\ outcomes' = outcomes /\ exit' = exit
        /\ pc'[p] \in Working /\ pc[p] \in Working /\ \A q \in Driver \ {p} : pc'[q] = pc[q]
    BY <1>3, <2>1, Zenon DEF Goes
  <2>3. pc'[p] \notin {"drop", "end", "done"} /\ pc[p] # "done"
    BY <2>2, SMT DEF Working
  <2>4. InStep(p)'
    BY <1>5, <2>2, <2>3 DEF InStep
  <2> QED BY <1>1, <2>2, <2>4
<1>8. CASE Leaves(p)
  <2>1. /\ nth' = nth /\ outcomes' = outcomes
        /\ pc'[p] \in {"done", "dead"} /\ \A q \in Driver \ {p} : pc'[q] = pc[q]
        /\ pc[p] # "done"
    BY <1>3, <1>8, Zenon DEF Leaves
  <2>2. /\ PerDriver(exit') /\ exit'[p] \in {exit[p], 2}
        /\ \A q \in Driver \ {p} : exit'[q] = exit[q]
    BY <1>1, <1>8 DEF Leaves, PerDriver
  <2>3. pc'[p] \notin Working /\ pc'[p] # "drop" /\ pc'[p] # "end"
    BY <2>1, SMT DEF Working
  <2>4. p \in Matrix => exit'[p] # 0
    BY <1>5, <2>1, <2>2, SMT DEF InStep
  <2>5. InStep(p)'
    BY <1>5, <2>1, <2>3, <2>4 DEF InStep
  <2> QED BY <1>1, <2>1, <2>2, <2>5
<1>9. CASE Drop(p)
  <2>1. /\ outcomes' = outcomes /\ exit' = exit /\ pc[p] = "drop"
        /\ nth' = [nth EXCEPT ![p] = nth[p] + 1]
        /\ Goto(p, IF nth[p] < Len(RefsOf[p]) THEN "checkout" ELSE "end")
    BY <1>9, Zenon DEF Drop
  <2>2. PerDriver(nth') /\ nth'[p] = nth[p] + 1 /\ \A q \in Driver \ {p} : nth'[q] = nth[q]
    BY <1>1, <2>1 DEF PerDriver
  <2>3. p \in Matrix
    BY <2>1, SMT DEF TreeInv, Typed, Trees, Driver
  <2>4. /\ Len(outcomes[p]) = nth[p] /\ nth[p] <= Len(RefsOf[p]) /\ nth[p] \in Nat \ {0}
        /\ exit[p] # 0
    BY <1>5, <2>1, <2>3 DEF InStep
  <2>5. Len(RefsOf[p]) \in Nat
    BY <2>3, LenProperties DEF MatrixAssumption
  <2>6. pc'[p] = IF nth[p] < Len(RefsOf[p]) THEN "checkout" ELSE "end"
    BY <1>3, <2>1
  <2>7. /\ pc'[p] \in Working => Len(outcomes[p]) = nth'[p] - 1 /\ nth'[p] <= Len(RefsOf[p])
        /\ pc'[p] # "drop"
        /\ pc'[p] = "end" => Len(outcomes[p]) = Len(RefsOf[p])
        /\ nth'[p] \in Nat \ {0}
    <3>1. CASE nth[p] < Len(RefsOf[p])
      <4>1. pc'[p] = "checkout"
        BY <2>6, <3>1
      <4> QED BY <2>2, <2>4, <2>5, <3>1, <4>1, SMT
    <3>2. CASE ~(nth[p] < Len(RefsOf[p]))
      <4>1. pc'[p] = "end" /\ "end" \notin Working
        BY <2>6, <3>2 DEF Working
      <4>2. nth'[p] \in Nat \ {0} /\ Len(outcomes[p]) = Len(RefsOf[p])
        BY <2>2, <2>4, <2>5, <3>2, SMT
      <4> QED BY <4>1, <4>2
    <3> QED BY <3>1, <3>2
  <2>8. InStep(p)'
    BY <1>4, <1>5, <2>1, <2>3, <2>4, <2>7 DEF InStep
  <2> QED BY <1>1, <1>3, <2>1, <2>2, <2>8
<1>10. CASE End(p)
  <2>1. /\ nth' = nth /\ outcomes' = outcomes /\ pc[p] = "end"
        /\ exit' = [exit EXCEPT ![p] = ExitCode(p)]
        /\ Goto(p, "done")
    BY <1>10, Zenon DEF End
  <2>2. PerDriver(exit') /\ exit'[p] = ExitCode(p) /\ \A q \in Driver \ {p} : exit'[q] = exit[q]
    BY <1>1, <2>1 DEF PerDriver
  <2>3. pc'[p] = "done"
    BY <1>3, <2>1
  <2>4. ASSUME p \in Matrix, exit'[p] = 0
        PROVE  /\ Len(outcomes[p]) = Len(RefsOf[p])
               /\ \A i \in DOMAIN outcomes[p] : outcomes[p][i] = "appended"
    <3>1. ~Became(p, "skipped")
      <4> SUFFICES ASSUME Became(p, "skipped") PROVE ExitCode(p) # 0
        BY <2>2, <2>4
      <4>1. CASE Became(p, "appended")
        BY <1>4, <2>4, <4>1, SMT DEF ExitCode
      <4>2. CASE ~Became(p, "appended")
        BY <1>4, <2>4, <4>2, SMT DEF ExitCode
      <4> QED BY <4>1, <4>2
    <3>2. outcomes[p] \in Seq({"appended", "skipped"}) /\ Len(outcomes[p]) = Len(RefsOf[p])
      BY <1>5, <2>1, <2>4 DEF InStep
    <3>3. ASSUME NEW i \in DOMAIN outcomes[p] PROVE outcomes[p][i] \in {"appended", "skipped"}
      BY <3>2, ElementOfSeq, LenProperties
    <3> QED BY <3>1, <3>2, <3>3 DEF Became
  <2>5. pc'[p] \notin Working /\ pc'[p] # "drop" /\ pc'[p] # "end"
    BY <2>3, SMT DEF Working
  <2>6. InStep(p)'
    BY <1>5, <2>1, <2>3, <2>4, <2>5 DEF InStep
  <2> QED BY <1>1, <1>3, <2>1, <2>2, <2>6
<1> QED BY <1>6, <1>7, <1>8, <1>9, <1>10, Shapes

\* So does a stutter.
LEMMA CountNext == ASSUME MatrixAssumption, TreeInv, CountInv, [Next]_vars PROVE CountInv'
<1>1. CASE UNCHANGED vars
  <2>1. nth' = nth /\ outcomes' = outcomes /\ exit' = exit /\ pc' = pc
    BY <1>1 DEF vars
  <2> QED BY <2>1, CountsSame DEF CountInv
<1>2. CASE Next
  <2>1. PICK p \in session.drivers : Step(p)
    BY <1>2, Zenon DEF Next
  <2>2. p \in Driver
    BY DEF TreeInv, Typed
  <2> QED BY <2>1, <2>2, CountStep
<1> QED BY <1>1, <1>2

-----------------------------------------------------------------------------
\* A step of a driver leaves what the others have alone.
LEMMA OthersStay ==
  ASSUME TreeInv, FamilyInv, CountInv, CoreInv, NEW p \in Driver, Step(p)
  PROVE  /\ PerDriver(exe') /\ PerDriver(snap')
         /\ \A q \in Driver \ {p} :
              /\ pc'[q] = pc[q] /\ nth'[q] = nth[q] /\ exe'[q] = exe[q]
              /\ snap'[q] = snap[q] /\ loaded'[q] = loaded[q] /\ outcomes'[q] = outcomes[q]
<1> USE DEF Close, Goto
<1>1. /\ PerDriver(exe) /\ PerDriver(snap) /\ PerDriver(loaded) /\ PerDriver(nth) /\ PerDriver(pc)
      /\ PerDriver(outcomes)
  BY DEF CoreInv, CountInv, FamilyInv
<1>2. \E x : pc' = [pc EXCEPT ![p] = x]
  <2>1. CASE Drop(p)
    BY <2>1, Zenon DEF Drop
  <2>2. CASE Start(p) \/ Checkout(p) \/ Resolve(p) \/ Clear(p) \/ Cargo(p) \/ Identify(p)
    BY <2>2, Zenon DEF Start, Checkout, Resolve, Clear, Cargo, Identify
  <2>3. CASE Suite(p) \/ Load(p) \/ WriteTemp(p) \/ Rename(p) \/ End(p) \/ Crash(p)
    BY <2>3, Zenon DEF Suite, Load, WriteTemp, Rename, End, Crash
  <2> QED BY <2>1, <2>2, <2>3 DEF Step
<1>3. nth' = nth \/ \E x : nth' = [nth EXCEPT ![p] = x]
  BY Zenon DEF Step, Start, Checkout, Resolve, Clear, Cargo, Identify, Suite, Load, WriteTemp,
               Rename, Drop, End, Crash
<1>4. exe' = exe \/ \E x : exe' = [exe EXCEPT ![p] = x]
  BY Zenon DEF Step, Start, Checkout, Resolve, Clear, Cargo, Identify, Suite, Load, WriteTemp,
               Rename, Drop, End, Crash
<1>5. snap' = snap \/ \E x : snap' = [snap EXCEPT ![p] = x]
  BY Zenon DEF Step, Start, Checkout, Resolve, Clear, Cargo, Identify, Suite, Load, WriteTemp,
               Rename, Drop, End, Crash
<1>6. loaded' = loaded \/ \E x : loaded' = [loaded EXCEPT ![p] = x]
  BY Zenon DEF Step, Start, Checkout, Resolve, Clear, Cargo, Identify, Suite, Load, WriteTemp,
               Rename, Drop, End, Crash
<1>7. outcomes' = outcomes \/ \E x : outcomes' = [outcomes EXCEPT ![p] = x]
  <2>1. CASE \E outcome : Ends(p, outcome)
    <3>1. PICK outcome : Ends(p, outcome)
      BY <2>1
    <3>2. outcomes' = [outcomes EXCEPT ![p] = Append(outcomes[p], outcome)]
      BY <3>1, Zenon DEF Ends
    <3> QED BY <3>2
  <2>2. CASE ~\E outcome : Ends(p, outcome)
    BY <2>2, Shapes, Zenon DEF Goes, Leaves, Drop, End
  <2> QED BY <2>1, <2>2
<1>8. \A q \in Driver \ {p} : pc'[q] = pc[q]
  BY <1>1, <1>2 DEF PerDriver
<1>9. \A q \in Driver \ {p} : nth'[q] = nth[q]
  BY <1>1, <1>3 DEF PerDriver
<1>10. PerDriver(exe') /\ \A q \in Driver \ {p} : exe'[q] = exe[q]
  BY <1>1, <1>4 DEF PerDriver
<1>11. PerDriver(snap') /\ \A q \in Driver \ {p} : snap'[q] = snap[q]
  BY <1>1, <1>5 DEF PerDriver
<1>12. \A q \in Driver \ {p} : loaded'[q] = loaded[q]
  BY <1>1, <1>6 DEF PerDriver
<1>13. \A q \in Driver \ {p} : outcomes'[q] = outcomes[q]
  BY <1>1, <1>7 DEF PerDriver
<1> QED BY <1>8, <1>9, <1>10, <1>11, <1>12, <1>13

\* What a snapshot's numbers are of is in what it says, not in what it measured.
LEMMA FineSame ==
  ASSUME NEW s, NEW u, Fine(s), u.by = s.by, u.nth = s.nth, u.ref = s.ref,
         u.linked = s.linked, u.sha = s.sha
  PROVE  Fine(u)
BY Zenon DEF Fine, AskedBefore

\* One snapshot more.
LEMMA AppendFine ==
  ASSUME NEW h, AllFine(h), NEW s, Fine(s)
  PROVE  AllFine(Append(h, s))
<1>1. PICK S : h \in Seq(S)
  BY DEF AllFine
<1> DEFINE g == Append(h, s)
<1>2. /\ g \in Seq(S \cup {s}) /\ Len(h) \in Nat
      /\ DOMAIN h = 1..Len(h) /\ DOMAIN g = 1..(Len(h) + 1)
      /\ \A i \in 1..Len(h) : g[i] = h[i]
      /\ g[Len(h) + 1] = s
  BY <1>1, Appended
<1> HIDE DEF g
<1>3. ASSUME NEW i \in DOMAIN g, g[i].by \in Driver PROVE Fine(g[i])
  <2>1. i \in 1..Len(h) \/ i = Len(h) + 1
    BY <1>2, SMT
  <2>2. CASE i \in 1..Len(h)
    BY <1>2, <1>3, <2>2 DEF AllFine
  <2>3. CASE i = Len(h) + 1
    BY <1>2, <2>3
  <2> QED BY <2>1, <2>2, <2>3
<1>4. AllFine(g)
  BY <1>2, <1>3, Zenon DEF AllFine
<1> QED BY <1>4 DEF g

\* A driver whose entries stay has what it had.
LEMMA CoresSame ==
  ASSUME NEW q \in Driver, Cores(q), pc'[q] = pc[q], nth'[q] = nth[q], exe'[q] = exe[q],
         snap'[q] = snap[q], loaded'[q] = loaded[q]
  PROVE  Cores(q)'
<1>1. RefAt(q)' = RefAt(q)
  BY DEF RefAt
<1>2. Measured(q)' = Measured(q)
  BY <1>1 DEF Measured
<1>3. Fine(Measured(q))' = Fine(Measured(q)) /\ Fine(snap[q])' = Fine(snap[q])
  <2>1. Fine(Measured(q)') = Fine(Measured(q)) /\ Fine(snap'[q]) = Fine(snap[q])
    BY <1>2
  <2> QED BY <2>1 DEF Fine, AskedBefore
<1>4. Built(q)' = Built(q)
  BY DEF Built
<1>5. AllFine(loaded[q])' = AllFine(loaded[q])
  BY DEF AllFine, Fine, AskedBefore
<1> QED BY <1>1, <1>3, <1>4, <1>5 DEF Cores

\* A binary stays what it was, or goes, while its driver moves on.
LEMMA BuiltKept ==
  ASSUME NEW p \in Matrix, exe[p] = NoExe \/ Built(p), exe'[p] = NoExe \/ exe'[p] = exe[p],
         nth[p] \in Nat, nth'[p] \in {nth[p], nth[p] + 1}
  PROVE  exe'[p] = NoExe \/ Built(p)'
<1>1. CASE exe'[p] = exe[p] /\ Built(p)
  <2>1. PICK j \in 1..nth[p] : \E i \in 1..j : exe[p].linked = RefsOf[p][j] /\ exe[p].stamped = RefsOf[p][i]
    BY <1>1 DEF Built
  <2>1a. PICK i \in 1..j : exe[p].linked = RefsOf[p][j] /\ exe[p].stamped = RefsOf[p][i]
    BY <2>1
  <2>2. j \in 1..nth'[p]
    BY SMT
  <2> QED BY <1>1, <2>1a, <2>2 DEF Built
<1> QED BY <1>1

\* The stamp a binary answers with is its version's or that of one before it: if
\* the answer fits, the binary is of the version or that was asked for before.
LEMMA IdentifyFine ==
  ASSUME MatrixAssumption, NEW p \in Matrix, nth[p] \in Nat, Built(p), SaysItIs(exe[p], RefAt(p))
  PROVE  Fine(Measured(p))
<1> DEFINE s == Measured(p)
<1>1. PICK j \in 1..nth[p] : \E i \in 1..j : exe[p].linked = RefsOf[p][j] /\ exe[p].stamped = RefsOf[p][i]
  BY DEF Built
<1>1a. PICK i \in 1..j : exe[p].linked = RefsOf[p][j] /\ exe[p].stamped = RefsOf[p][i]
  BY <1>1
<1>2. RefAt(p) = RefsOf[p][nth[p]]
  BY Zenon DEF RefAt, MatrixAssumption
<1>3. /\ s.by = p /\ s.nth = nth[p] /\ s.ref = RefAt(p) /\ s.linked = exe[p].linked
      /\ s.sha = exe[p].sha
  BY DEF Measured
<1> HIDE DEF s
<1>4. CASE j = nth[p]
  BY <1>1a, <1>2, <1>3, <1>4 DEF Fine, s
<1>5. CASE j # nth[p]
  <2>1. i \in 1..(nth[p] - 1)
    BY <1>5, SMT
  <2>2. VersionOf[RefsOf[p][i]] = VersionOf[s.ref] /\ (s.sha => RefsOf[p][i] = s.ref)
    BY <1>1a, <1>3, Zenon DEF SaysItIs
  <2> QED BY <1>3, <2>1, <2>2, Zenon DEF Fine, AskedBefore, s
<1> QED BY <1>4, <1>5

\* What cargo leaves anew links the version at hand.
LEMMA CargoBuilds ==
  ASSUME MatrixAssumption, NEW p \in Matrix, PerDriver(exe), RefAt(p) \in Named,
         nth[p] \in Nat \ {0}, nth[p] <= Len(RefsOf[p]), nth'[p] = nth[p],
         NEW i \in 1..nth[p], NEW sha \in BOOLEAN,
         exe' = [exe EXCEPT ![p] = [linked |-> Linked(RefAt(p)), stamped |-> RefsOf[p][i], sha |-> sha]]
  PROVE  exe'[p] # NoExe /\ Built(p)'
<1> DEFINE x == [linked |-> Linked(RefAt(p)), stamped |-> RefsOf[p][i], sha |-> sha]
<1>1. exe'[p] = x
  <2> HIDE DEF x
  <2>1. exe' = [exe EXCEPT ![p] = x]
    BY DEF x
  <2>2. p \in Driver
    BY DEF Driver
  <2> QED BY <2>1, <2>2 DEF PerDriver
<1>2. RefAt(p) = RefsOf[p][nth[p]] /\ Linked(RefAt(p)) = RefAt(p)
  BY Zenon DEF RefAt, Linked, MatrixAssumption
<1>3. x.linked = RefsOf[p][nth[p]] /\ x.stamped = RefsOf[p][i]
  BY <1>2
<1>4. x # NoExe
  <2>1. RefsOf[p] \in Seq(Ref)
    BY DEF MatrixAssumption
  <2>2. nth[p] \in 1..Len(RefsOf[p]) /\ i \in 1..Len(RefsOf[p])
    BY <2>1, LenProperties, SMT
  <2>3. RefsOf[p][nth[p]] \in Ref /\ RefsOf[p][i] \in Ref
    BY <2>1, <2>2, ElementOfSeq
  <2>4. x \in Exe
    BY <1>2, <2>3 DEF Exe
  <2> QED BY <2>4 DEF MatrixAssumption
<1> HIDE DEF x
<1>5. nth[p] \in 1..nth'[p] /\ i \in 1..nth[p]
  BY SMT
<1>6. Built(p)'
  BY <1>1, <1>3, <1>5 DEF Built
<1> QED BY <1>1, <1>4, <1>6

\* Where a driver's own snapshot is not at stake, only its binary is.
LEMMA CoresRest ==
  ASSUME NEW p \in Driver, p \in Matrix => exe'[p] = NoExe \/ Built(p)',
         pc'[p] \notin {"cargo", "identify", "suite", "load", "writeTemp", "rename"}
  PROVE  Cores(p)'
BY DEF Cores

\* A driver that takes its version further measures what it built and appends
\* what it measured.
LEMMA CoresGo ==
  ASSUME MatrixAssumption, TreeInv, FamilyInv, CountInv, CoreInv, NEW p \in Driver,
         Start(p) \/ Checkout(p) \/ Resolve(p) \/ Clear(p) \/ Cargo(p) \/ Identify(p)
           \/ Suite(p) \/ Load(p) \/ WriteTemp(p),
         NEW next, Goes(p, next)
  PROVE  Cores(p)'
<1>1. /\ Cores(p) /\ InStep(p) /\ PerDriver(exe) /\ PerDriver(snap) /\ PerDriver(loaded)
      /\ pc \in [Driver -> PC]
  BY DEF CoreInv, CountInv, FamilyInv, TreeInv, Typed
<1>2. /\ pc'[p] = next /\ nth'[p] = nth[p] /\ pc[p] \in Working /\ nth[p] \in Nat \ {0}
      /\ p \in Matrix => nth[p] <= Len(RefsOf[p])
  BY <1>1, Zenon DEF Goes, Goto, InStep
<1>3. RefAt(p)' = RefAt(p)
  BY <1>2 DEF RefAt
<1>4. p \in Report => p \notin Matrix
  BY DEF MatrixAssumption
<1>5. p \notin Report => p \in Matrix
  BY DEF Driver
<1>6. ASSUME exe'[p] = exe[p] \/ exe'[p] = NoExe PROVE p \in Matrix => exe'[p] = NoExe \/ Built(p)'
  <2>1. nth[p] \in Nat /\ nth'[p] \in {nth[p], nth[p] + 1}
    BY <1>2
  <2> QED BY <1>1, <1>6, <2>1, BuiltKept DEF Cores
<1>gone. \A x : Goto(p, x) => next = x
  BY <1>1, <1>2, Zenon DEF Goto
<1>open. ~\E outcome : Close(p, outcome)
  <2>1. "end" \notin Working /\ "drop" \notin Working
    BY DEF Working
  <2>2. next \in Working
    BY DEF Goes
  <2> QED BY <1>gone, <2>1, <2>2, Zenon DEF Close
<1>7. CASE Start(p)
  <2>1. CASE p \in Report
    <3>1. next = "suite" /\ exe' = [exe EXCEPT ![p] = [linked |-> Sibling, stamped |-> Sibling, sha |-> TRUE]]
      BY <1>4, <1>7, <2>1, <1>1, <1>2, SMT DEF Start, Goto, Working
    <3> DEFINE x == [linked |-> Sibling, stamped |-> Sibling, sha |-> TRUE]
    <3>2. exe'[p] = x
      <4> HIDE DEF x
      <4>1. exe' = [exe EXCEPT ![p] = x]
        BY <3>1 DEF x
      <4> QED BY <1>1, <4>1 DEF PerDriver
    <3>3. RefAt(p)' = Sibling /\ exe'[p] # NoExe
      <4>1. x \in Exe
        BY DEF Exe, MatrixAssumption
      <4> QED BY <2>1, <3>2, <4>1, Zenon DEF RefAt, MatrixAssumption
    <3>4. Fine(Measured(p)')
      BY <3>2, <3>3 DEF Fine, Measured
    <3>5. Fine(Measured(p))'
      BY <3>4 DEF Fine, AskedBefore
    <3> QED BY <1>2, <1>4, <2>1, <3>1, <3>3, <3>5, SMT DEF Cores
  <2>2. CASE p \notin Report
    <3>1. next = "checkout" /\ exe' = exe
      <4>1. "done" \notin Working /\ next \in Working
        BY DEF Working, Goes
      <4> QED BY <1>7, <1>gone, <2>2, <4>1, Zenon DEF Start
    <3> QED BY <1>2, <1>6, <3>1, CoresRest
  <2> QED BY <2>1, <2>2
<1>8. CASE Checkout(p) \/ Resolve(p)
  <2>1. next \in {"resolve", "clear"} /\ exe' = exe
    BY <1>8, <1>gone, <1>open, Zenon DEF Checkout, Resolve
  <2> QED BY <1>2, <1>6, <2>1, CoresRest
<1>9. CASE Clear(p)
  <2>1. next = "cargo" /\ RefAt(p) \in Named /\ exe' \in {exe, [exe EXCEPT ![p] = NoExe]}
    BY <1>9, <1>gone, <1>open, Zenon DEF Clear
  <2>2. exe'[p] = exe[p] \/ exe'[p] = NoExe
    BY <1>1, <2>1 DEF PerDriver
  <2> QED BY <1>2, <1>3, <1>6, <2>1, <2>2 DEF Cores
<1>10. CASE Cargo(p)
  <2>1. /\ next = "identify" /\ pc[p] = "cargo"
        /\ \/ \E i \in 1..nth[p], sha \in BOOLEAN :
                exe' = [exe EXCEPT ![p] = [linked |-> Linked(RefAt(p)),
                                           stamped |-> RefsOf[p][i], sha |-> sha]]
           \/ exe[p] # NoExe /\ exe' = exe
    BY <1>10, <1>gone, <1>open, Zenon DEF Cargo
  <2>2. p \in Matrix
    BY <1>5, <2>1, SMT DEF TreeInv, Typed, Trees
  <2>3. RefAt(p) \in Named
    BY <1>1, <2>1 DEF Cores
  <2>4. exe'[p] # NoExe /\ (exe'[p] = NoExe \/ Built(p)')
    <3>1. CASE exe[p] # NoExe /\ exe' = exe
      BY <1>6, <2>2, <3>1
    <3>2. ASSUME NEW i \in 1..nth[p], NEW sha \in BOOLEAN,
                 exe' = [exe EXCEPT ![p] = [linked |-> Linked(RefAt(p)),
                                            stamped |-> RefsOf[p][i], sha |-> sha]]
          PROVE  exe'[p] # NoExe /\ Built(p)'
      BY <1>1, <1>2, <2>2, <2>3, <3>2, CargoBuilds
    <3> QED BY <2>1, <3>1, <3>2
  <2> QED BY <1>2, <2>1, <2>4, SMT DEF Cores
<1>11. CASE Identify(p)
  <2>1. next = "suite" /\ pc[p] = "identify" /\ SaysItIs(exe[p], RefAt(p)) /\ exe' = exe
    BY <1>11, <1>gone, <1>open, Zenon DEF Identify
  <2>2. p \in Matrix
    BY <1>5, <2>1, SMT DEF TreeInv, Typed, Trees
  <2>3. Fine(Measured(p))
    BY <1>1, <1>2, <2>1, <2>2, IdentifyFine DEF Cores
  <2>4. Measured(p)' = Measured(p)
    BY <1>2, <1>3, <2>1 DEF Measured
  <2>5. Fine(Measured(p))'
    <3>1. Fine(Measured(p)')
      BY <2>3, <2>4
    <3> QED BY <3>1 DEF Fine, AskedBefore
  <2>6. exe'[p] # NoExe
    BY <1>1, <2>1 DEF Cores
  <2> QED BY <1>2, <1>6, <2>1, <2>5, <2>6, SMT DEF Cores
<1>12. CASE Suite(p)
  <2>1. /\ next = "load" /\ pc[p] = "suite" /\ exe' = exe
        /\ \E answered \in SUBSET Cell :
             snap' = [snap EXCEPT ![p] =
                        [by |-> p, nth |-> nth[p], ref |-> RefAt(p), linked |-> exe[p].linked,
                         sha |-> exe[p].sha, family |-> FamilyOf[p], runs |-> answered]]
    BY <1>1, <1>2, <1>12, Zenon DEF Suite, Goto
  <2>2. PICK answered :
          snap' = [snap EXCEPT ![p] =
                     [by |-> p, nth |-> nth[p], ref |-> RefAt(p), linked |-> exe[p].linked,
                      sha |-> exe[p].sha, family |-> FamilyOf[p], runs |-> answered]]
    BY <2>1
  <2> DEFINE x == [by |-> p, nth |-> nth[p], ref |-> RefAt(p), linked |-> exe[p].linked,
                   sha |-> exe[p].sha, family |-> FamilyOf[p], runs |-> answered]
             y == Measured(p)
  <2>3. snap'[p] = x
    <3> HIDE DEF x
    <3>1. snap' = [snap EXCEPT ![p] = x]
      BY <2>2 DEF x
    <3> QED BY <1>1, <3>1 DEF PerDriver
  <2>4. x.by = y.by /\ x.nth = y.nth /\ x.ref = y.ref /\ x.linked = y.linked /\ x.sha = y.sha
    BY DEF Measured
  <2>5. Fine(y)
    BY <1>1, <2>1 DEF Cores
  <2> HIDE DEF x, y
  <2>6. Fine(snap'[p])
    BY <2>3, <2>4, <2>5, FineSame
  <2>7. Fine(snap[p])'
    BY <2>6 DEF Fine, AskedBefore
  <2> QED BY <1>2, <1>6, <2>1, <2>7, SMT DEF Cores
<1>13. CASE Load(p)
  <2>2. /\ pc[p] = "load" /\ exe' = exe /\ history # Unreadable
        /\ loaded' = [loaded EXCEPT ![p] = Append(history, snap[p])]
        /\ Goto(p, "writeTemp")
    BY <1>13, <1>open, Zenon DEF Load
  <2>3. next = "writeTemp"
    BY <1>gone, <2>2
  <2> DEFINE h == Append(history, snap[p])
  <2>4. AllFine(h)
    BY <1>1, <2>2, AppendFine DEF CoreInv, Cores
  <2>5. loaded'[p] = h
    <3> HIDE DEF h
    <3>1. loaded' = [loaded EXCEPT ![p] = h]
      BY <2>2 DEF h
    <3> QED BY <1>1, <3>1 DEF PerDriver
  <2> HIDE DEF h
  <2>6. AllFine(loaded[p])'
    <3>1. AllFine(loaded'[p])
      BY <2>4, <2>5
    <3> QED BY <3>1 DEF AllFine, Fine, AskedBefore
  <2> QED BY <1>2, <1>6, <2>2, <2>3, <2>6, SMT DEF Cores
<1>14. CASE WriteTemp(p)
  <2>2. pc[p] = "writeTemp" /\ exe' = exe /\ loaded' = loaded /\ Goto(p, "rename")
    BY <1>14, <1>open, Zenon DEF WriteTemp
  <2>3. next = "rename"
    BY <1>gone, <2>2
  <2>4. AllFine(loaded[p])'
    <3>1. AllFine(loaded'[p])
      BY <1>1, <2>2 DEF Cores
    <3> QED BY <3>1 DEF AllFine, Fine, AskedBefore
  <2> QED BY <1>2, <1>6, <2>2, <2>3, <2>4, SMT DEF Cores
<1> QED BY <1>7, <1>8, <1>9, <1>10, <1>11, <1>12, <1>13, <1>14

\* So does one that is through with its version, or with the run.
LEMMA CoresEnd ==
  ASSUME MatrixAssumption, TreeInv, FamilyInv, CountInv, CoreInv, NEW p \in Driver,
         Step(p), (\E outcome : Ends(p, outcome)) \/ Leaves(p) \/ Drop(p) \/ End(p)
  PROVE  Cores(p)'
<1>1. /\ Cores(p) /\ InStep(p) /\ PerDriver(exe) /\ PerDriver(nth) /\ pc \in [Driver -> PC]
  BY DEF CoreInv, CountInv, TreeInv, Typed
<1>2. exe' = exe \/ exe' = [exe EXCEPT ![p] = NoExe]
  <2>1. CASE \E outcome : Ends(p, outcome)
    <3>1. \E outcome : Close(p, outcome)
      BY <2>1 DEF Ends
    <3>2. pc'[p] \in {"end", "drop"}
      BY <1>1, <3>1, Zenon DEF Close, Goto
    <3>3. ASSUME NEW x, Goto(p, x), x \notin {"end", "drop"} PROVE FALSE
      BY <1>1, <3>2, <3>3, Zenon DEF Goto
    <3>4. ~Start(p) /\ ~Crash(p) /\ ~Suite(p)
      BY <3>3, Zenon DEF Start, Crash, Suite
    <3>5. Cargo(p) => exe' = exe
      BY <3>3, Zenon DEF Cargo
    <3> QED BY <3>4, <3>5, Zenon DEF Step, Checkout, Resolve, Clear, Identify, Load, WriteTemp,
                                     Rename, Drop, End
  <2>2. CASE Leaves(p)
    <3>1. PICK next \in {"done", "dead"} : Goto(p, next)
      BY <2>2 DEF Leaves
    <3>2. pc'[p] \in {"done", "dead"}
      BY <1>1, <3>1, Zenon DEF Goto
    <3>3. ASSUME NEW x, Goto(p, x), x \notin {"done", "dead"} PROVE FALSE
      BY <1>1, <3>2, <3>3, Zenon DEF Goto
    <3>4. ~Cargo(p)
      BY <3>3, Zenon DEF Cargo, Close
    <3>5. Start(p) => exe' = exe
      BY <3>3, Zenon DEF Start
    <3> QED BY <3>4, <3>5, Zenon DEF Step, Checkout, Resolve, Clear, Identify, Suite, Load, WriteTemp,
                                     Rename, Drop, End, Crash
  <2>3. CASE Drop(p) \/ End(p)
    BY <2>3, Zenon DEF Drop, End
  <2> QED BY <2>1, <2>2, <2>3
<1>3. exe'[p] = exe[p] \/ exe'[p] = NoExe
  BY <1>1, <1>2 DEF PerDriver
<1>4. nth[p] \in Nat /\ nth'[p] \in {nth[p], nth[p] + 1}
  <2>1. nth' = nth \/ nth' = [nth EXCEPT ![p] = nth[p] + 1]
    BY Zenon DEF Ends, Leaves, Drop, End
  <2>2. nth'[p] \in {nth[p], nth[p] + 1}
    BY <1>1, <2>1 DEF PerDriver
  <2> QED BY <1>1, <2>2 DEF InStep
<1>5. pc'[p] \in {"end", "drop", "done", "dead", "checkout"}
  <2>1. CASE Drop(p)
    <3>1. Goto(p, IF nth[p] < Len(RefsOf[p]) THEN "checkout" ELSE "end")
      BY <2>1, Zenon DEF Drop
    <3> QED BY <1>1, <3>1, Zenon DEF Goto
  <2>2. CASE ~Drop(p)
    BY <1>1, <2>2, Zenon DEF Ends, Leaves, End, Close, Goto
  <2> QED BY <2>1, <2>2
<1>6. p \in Matrix => exe'[p] = NoExe \/ Built(p)'
  BY <1>1, <1>3, <1>4, BuiltKept DEF Cores
<1>7. pc'[p] \notin {"cargo", "identify", "suite", "load", "writeTemp", "rename"}
  BY <1>5, SMT
<1> QED BY <1>6, <1>7, CoresRest

\* No driver has anything at first, and what is there is not theirs.
LEMMA CoreInit == ASSUME MatrixAssumption, Init PROVE CoreInv
<1>1. PerDriver(exe) /\ PerDriver(snap)
  BY Zenon DEF Init, PerDriver
<1>2. ASSUME NEW p \in Driver PROVE Cores(p)
  <2>1. pc[p] = "idle" /\ exe[p] = NoExe
    BY DEF Init
  <2> QED BY <2>1, SMT DEF Cores
<1>3. history # Unreadable => AllFine(history)
  BY Found, Zenon DEF AllFine
<1> QED BY <1>1, <1>2, <1>3 DEF CoreInv

\* Every step keeps each driver's numbers those of its version.
LEMMA CoreStep ==
  ASSUME MatrixAssumption, TreeInv, FamilyInv, CountInv, CoreInv, NEW p \in Driver, Step(p)
  PROVE  CoreInv'
<1>1. \A q \in Driver : Cores(q)
  BY DEF CoreInv
<1>2. Cores(p)'
  <2>1. CASE (\E outcome : Ends(p, outcome)) \/ Leaves(p) \/ Drop(p) \/ End(p)
    BY <2>1, CoresEnd
  <2>2. ASSUME NEW next, Goes(p, next), ~Leaves(p), ~\E outcome : Ends(p, outcome), ~Drop(p), ~End(p)
        PROVE  Cores(p)'
    <3>1. ~Rename(p) /\ ~Crash(p)
      <4>1. Rename(p) => \E outcome : Close(p, outcome)
        BY Zenon DEF Rename
      <4>2. Crash(p) => Goto(p, "dead")
        BY DEF Crash
      <4>3. pc'[p] \in Working
        BY <2>2, Zenon DEF Goes, Goto, TreeInv, Typed
      <4>4. "dead" \notin Working /\ "end" \notin Working /\ "drop" \notin Working
        BY DEF Working
      <4> QED BY <4>1, <4>2, <4>3, <4>4, Zenon DEF Close, Goto, TreeInv, Typed
    <3> QED BY <2>2, <3>1, CoresGo DEF Step
  <2> QED BY <2>1, <2>2, Shapes
<1>3. \A q \in Driver \ {p} : Cores(q)'
  BY <1>1, OthersStay, CoresSame
<1>4. history' # Unreadable => AllFine(history')
  <2>1. history' = history \/ (pc[p] = "rename" /\ history' = loaded[p])
    BY Zenon DEF Step, Start, Checkout, Resolve, Clear, Cargo, Identify, Suite, Load, WriteTemp,
                 Rename, Drop, End, Crash
  <2>2. pc[p] = "rename" => AllFine(loaded[p])
    BY <1>1 DEF Cores
  <2> QED BY <2>1, <2>2 DEF CoreInv
<1>5. (history # Unreadable => AllFine(history))'
  BY <1>4 DEF AllFine, Fine, AskedBefore
<1> QED BY <1>2, <1>3, <1>5, OthersStay DEF CoreInv

\* So does a stutter.
LEMMA CoreNext ==
  ASSUME MatrixAssumption, TreeInv, FamilyInv, CountInv, CoreInv, [Next]_vars
  PROVE  CoreInv'
<1>1. CASE UNCHANGED vars
  <2>1. /\ pc' = pc /\ nth' = nth /\ exe' = exe /\ snap' = snap /\ loaded' = loaded
        /\ history' = history
    BY <1>1 DEF vars
  <2>2. \A q \in Driver : Cores(q)'
    BY <2>1, CoresSame DEF CoreInv
  <2>3. (history # Unreadable => AllFine(history))'
    BY <2>1 DEF CoreInv, AllFine, Fine, AskedBefore
  <2>4. (PerDriver(exe) /\ PerDriver(snap))'
    BY <2>1 DEF CoreInv, PerDriver
  <2> QED BY <2>2, <2>3, <2>4 DEF CoreInv
<1>2. CASE Next
  <2>1. PICK p \in session.drivers : Step(p)
    BY <1>2, Zenon DEF Next
  <2>2. p \in Driver
    BY DEF TreeInv, Typed
  <2> QED BY <2>1, <2>2, CoreStep
<1> QED BY <1>1, <1>2

\* All of it holds in every reachable state.
LEMMA Invariance == Spec => [](TreeInv /\ FamilyInv /\ CountInv /\ CoreInv)
<1>1. Init => TreeInv /\ FamilyInv /\ CountInv /\ CoreInv
  BY TreeInit, FamilyInit, CountInit, CoreInit, MatrixAssumption
<1>2. TreeInv /\ FamilyInv /\ CountInv /\ CoreInv /\ [Next]_vars
        => (TreeInv /\ FamilyInv /\ CountInv /\ CoreInv)'
  BY TreeNext, FamilyNext, CountNext, CoreNext, MatrixAssumption
<1> QED BY <1>1, <1>2, PTL DEF Spec

\* build_harness(): whatever cargo, git and the file system leave behind, on
\* whatever interleaving of drivers, a snapshot's numbers are of the commit it
\* names, or that matrix had asked before for one its stamp cannot tell from it.
THEOREM SnapshotsAreOfTheirCore == Spec => []NamedForItsCore
<1>1. CoreInv => NamedForItsCore
  BY Zenon DEF CoreInv, AllFine, Fine, NamedForItsCore
<1> QED BY <1>1, Invariance, PTL

-----------------------------------------------------------------------------
\* The commit a driver is at is one there is.
LEMMA RefIsRef ==
  ASSUME MatrixAssumption, NEW p \in Driver, InStep(p), pc[p] \in Working
  PROVE  RefAt(p) \in Ref /\ nth[p] \in Nat
         /\ \A i \in 1..nth[p] : p \in Matrix => RefsOf[p][i] \in Ref
<1>1. nth[p] \in Nat \ {0} /\ (p \in Matrix => nth[p] <= Len(RefsOf[p]))
  BY DEF InStep
<1>2. ASSUME p \in Matrix, NEW i \in 1..nth[p] PROVE RefsOf[p][i] \in Ref
  <2>1. RefsOf[p] \in Seq(Ref)
    BY <1>2 DEF MatrixAssumption
  <2>2. i \in 1..Len(RefsOf[p])
    BY <1>1, <1>2, <2>1, LenProperties, SMT
  <2> QED BY <2>1, <2>2, ElementOfSeq
<1>3. nth[p] \in 1..nth[p]
  BY <1>1, SMT
<1>4. RefAt(p) \in Ref
  BY <1>2, <1>3, Zenon DEF RefAt, MatrixAssumption, Driver
<1> QED BY <1>1, <1>2, <1>4

\* What is there at first is of its kind.
LEMMA KindInit == ASSUME MatrixAssumption, Init PROVE KindInv
<1>1. history \in Seq(Entry) \cup {Unreadable}
  <2>1. Snapshot({Before}) \subseteq Entry
    BY DEF Snapshot, Entry
  <2>2. Seq(Snapshot({Before})) \subseteq Seq(Entry)
    BY <2>1, SeqMonotonic
  <2> QED BY <2>2, Found
<1>2. ASSUME NEW p \in Driver PROVE Kinds(p)
  <2>1. Blank(p) \in Snapshot(Driver)
    BY DEF Blank, Snapshot, MatrixAssumption
  <2>2. exe[p] = NoExe /\ snap[p] = Blank(p) /\ pc[p] = "idle"
    BY DEF Init
  <2> QED BY <2>1, <2>2, SMT DEF Kinds
<1> QED BY <1>1, <1>2 DEF KindInv

\* A step leaves in the harness directory and in the snapshot what is of its kind.
LEMMA KindsMade ==
  ASSUME MatrixAssumption, TreeInv, FamilyInv, CountInv, CoreInv, KindInv, NEW p \in Driver, Step(p)
  PROVE  exe'[p] \in Exe \cup {NoExe} /\ snap'[p] \in Snapshot(Driver)
<1>1. /\ Kinds(p) /\ InStep(p) /\ Cores(p) /\ PerDriver(exe) /\ PerDriver(snap)
  BY DEF KindInv, CoreInv, CountInv
<1>2. CASE Start(p)
  <2>1. \/ exe' = [exe EXCEPT ![p] = [linked |-> Sibling, stamped |-> Sibling, sha |-> TRUE]]
        \/ exe' = exe
    BY <1>2, Zenon DEF Start
  <2>2. [linked |-> Sibling, stamped |-> Sibling, sha |-> TRUE] \in Exe
    BY DEF Exe, MatrixAssumption
  <2>3. exe'[p] \in Exe \cup {NoExe}
    BY <1>1, <2>1, <2>2, Zenon DEF Kinds, PerDriver
  <2> QED BY <1>1, <1>2, <2>3 DEF Kinds, Start
<1>3. CASE Cargo(p)
  <2>1. pc[p] = "cargo" /\ snap' = snap
    BY <1>3 DEF Cargo
  <2>2. p \in Matrix /\ pc[p] \in Working
    BY <2>1, SMT DEF TreeInv, Typed, Trees, Driver, Working
  <2>3. CASE exe' = exe
    BY <1>1, <2>1, <2>3 DEF Kinds
  <2>4. ASSUME NEW i \in 1..nth[p], NEW sha \in BOOLEAN,
               exe' = [exe EXCEPT ![p] = [linked |-> Linked(RefAt(p)),
                                          stamped |-> RefsOf[p][i], sha |-> sha]]
        PROVE  exe'[p] \in Exe
    <3>1. Linked(RefAt(p)) \in Ref /\ RefsOf[p][i] \in Ref
      BY <1>1, <2>2, RefIsRef DEF Linked, MatrixAssumption
    <3> DEFINE x == [linked |-> Linked(RefAt(p)), stamped |-> RefsOf[p][i], sha |-> sha]
    <3>2. x \in Exe
      BY <3>1 DEF Exe
    <3> HIDE DEF x
    <3>3. exe' = [exe EXCEPT ![p] = x]
      BY <2>4 DEF x
    <3> QED BY <1>1, <3>2, <3>3 DEF PerDriver
  <2>5. \/ exe' = exe
        \/ \E i \in 1..nth[p], sha \in BOOLEAN :
             exe' = [exe EXCEPT ![p] = [linked |-> Linked(RefAt(p)),
                                        stamped |-> RefsOf[p][i], sha |-> sha]]
    BY <1>3, Zenon DEF Cargo
  <2> QED BY <1>1, <2>1, <2>3, <2>4, <2>5 DEF Kinds
<1>4. CASE Suite(p)
  <2>1. PICK answered \in SUBSET Cell :
          snap' = [snap EXCEPT ![p] =
                     [by |-> p, nth |-> nth[p], ref |-> RefAt(p), linked |-> exe[p].linked,
                      sha |-> exe[p].sha, family |-> FamilyOf[p], runs |-> answered]]
    BY <1>4, Zenon DEF Suite
  <2>2. pc[p] = "suite" /\ exe' = exe /\ "suite" \in Working
    BY <1>4 DEF Suite, Working
  <2>3. exe[p] \in Exe
    BY <1>1, <2>2 DEF Kinds, Cores
  <2>4. exe[p].linked \in Ref /\ exe[p].sha \in BOOLEAN
    BY <2>3 DEF Exe
  <2>5. RefAt(p) \in Ref /\ nth[p] \in Nat /\ FamilyOf[p] \in Family
    BY <1>1, <2>2, RefIsRef DEF MatrixAssumption
  <2> DEFINE x == [by |-> p, nth |-> nth[p], ref |-> RefAt(p), linked |-> exe[p].linked,
                   sha |-> exe[p].sha, family |-> FamilyOf[p], runs |-> answered]
  <2>6. x \in Snapshot(Driver)
    BY <2>4, <2>5, Zenon DEF Snapshot
  <2> HIDE DEF x
  <2>7. snap' = [snap EXCEPT ![p] = x]
    BY <2>1 DEF x
  <2>8. snap'[p] = x
    BY <1>1, <2>7 DEF PerDriver
  <2> QED BY <1>1, <2>2, <2>6, <2>8 DEF Kinds
<1>5. CASE ~Start(p) /\ ~Cargo(p) /\ ~Suite(p)
  <2>1. snap' = snap /\ (exe' = exe \/ exe' = [exe EXCEPT ![p] = NoExe])
    BY <1>5, Zenon DEF Step, Checkout, Resolve, Clear, Identify, Load, WriteTemp, Rename, Drop,
                       End, Crash
  <2>2. exe'[p] = exe[p] \/ exe'[p] = NoExe
    BY <1>1, <2>1 DEF PerDriver
  <2> QED BY <1>1, <2>1, <2>2 DEF Kinds
<1> QED BY <1>2, <1>3, <1>4, <1>5

\* A history with one snapshot more is a history.
LEMMA KindStep ==
  ASSUME MatrixAssumption, TreeInv, FamilyInv, CountInv, CoreInv, KindInv, NEW p \in Driver, Step(p)
  PROVE  KindInv'
<1>1. /\ \A q \in Driver : Kinds(q)
      /\ PerDriver(loaded) /\ pc \in [Driver -> PC]
      /\ history \in Seq(Entry) \cup {Unreadable}
  BY DEF KindInv, FamilyInv, TreeInv, Typed
<1>2. history' \in Seq(Entry) \cup {Unreadable}
  <2>1. history' = history \/ (pc[p] = "rename" /\ history' = loaded[p])
    BY Zenon DEF Step, Start, Checkout, Resolve, Clear, Cargo, Identify, Suite, Load, WriteTemp,
                 Rename, Drop, End, Crash
  <2>2. pc[p] = "rename" => loaded[p] \in Seq(Entry)
    BY <1>1 DEF Kinds
  <2> QED BY <1>1, <2>1, <2>2
<1>3. ASSUME pc'[p] \in {"writeTemp", "rename"} PROVE loaded'[p] \in Seq(Entry)
  <2> DEFINE Late == {"writeTemp", "rename"}
  <2>1. \A x : Goto(p, x) => x \in Late
    BY <1>1, <1>3, Zenon DEF Goto
  <2>2. "suite" \notin Late /\ "checkout" \notin Late /\ "done" \notin Late /\ "dead" \notin Late
        /\ "resolve" \notin Late /\ "clear" \notin Late /\ "cargo" \notin Late
        /\ "identify" \notin Late /\ "load" \notin Late /\ "end" \notin Late /\ "drop" \notin Late
    OBVIOUS
  <2> HIDE DEF Late
  <2>3. \A outcome : ~Close(p, outcome)
    BY <2>1, <2>2, Zenon DEF Close
  <2>4. ~Start(p) /\ ~Checkout(p) /\ ~Resolve(p) /\ ~Clear(p) /\ ~Cargo(p) /\ ~Identify(p)
    BY <2>1, <2>2, <2>3, Zenon DEF Start, Checkout, Resolve, Clear, Cargo, Identify
  <2>5. ~Suite(p) /\ ~Rename(p) /\ ~Drop(p) /\ ~End(p) /\ ~Crash(p)
    BY <2>1, <2>2, <2>3, Zenon DEF Suite, Rename, Drop, End, Crash
  <2>6. CASE Load(p)
    <3>1. history # Unreadable /\ loaded' = [loaded EXCEPT ![p] = Append(history, snap[p])]
      BY <2>3, <2>6, Zenon DEF Load
    <3>2. history \in Seq(Entry) /\ snap[p] \in Entry
      BY <1>1, <3>1 DEF Kinds, Entry, Snapshot
    <3> DEFINE h == Append(history, snap[p])
    <3>3. h \in Seq(Entry)
      BY <3>2, AppendProperties
    <3> HIDE DEF h
    <3>4. loaded' = [loaded EXCEPT ![p] = h]
      BY <3>1 DEF h
    <3> QED BY <1>1, <3>3, <3>4 DEF PerDriver
  <2>7. CASE WriteTemp(p)
    BY <1>1, <2>7, SMT DEF WriteTemp, Kinds
  <2> QED BY <2>4, <2>5, <2>6, <2>7 DEF Step
<1>4. Kinds(p)'
  BY <1>3, KindsMade DEF Kinds
<1>5. \A q \in Driver \ {p} : Kinds(q)'
  BY <1>1, OthersStay DEF Kinds
<1> QED BY <1>2, <1>4, <1>5 DEF KindInv

\* So does a stutter.
LEMMA KindNext ==
  ASSUME MatrixAssumption, TreeInv, FamilyInv, CountInv, CoreInv, KindInv, [Next]_vars
  PROVE  KindInv'
<1>1. CASE UNCHANGED vars
  BY <1>1 DEF vars, KindInv, Kinds
<1>2. CASE Next
  <2>1. PICK p \in session.drivers : Step(p)
    BY <1>2, Zenon DEF Next
  <2>2. p \in Driver
    BY DEF TreeInv, Typed
  <2> QED BY <2>1, <2>2, KindStep
<1> QED BY <1>1, <1>2

-----------------------------------------------------------------------------
\* Nothing is appended at first, and what is there is not theirs.
LEMMA SerialInit == ASSUME MatrixAssumption, Init PROVE SerialInv
<1>1. ASSUME NEW p \in Driver PROVE AtRest(p) /\ Owner(p)
  BY SMT DEF Init, AtRest, Owner
<1>2. ASSUME NEW p \in Driver, NEW n \in Nat
      PROVE  ~InHistory(p, n) /\ n \notin DOMAIN outcomes[p]
  <2>1. outcomes[p] = <<>> /\ DOMAIN <<>> = {}
    BY EmptySeq DEF Init
  <2>2. history # Unreadable => \A i \in DOMAIN history : history[i].by \notin Driver
    BY Found
  <2> QED BY <2>1, <2>2 DEF InHistory
<1>3. ASSUME NEW p \in Driver PROVE Told(p)
  BY <1>2, <1>3 DEF Told
<1> QED BY <1>1, <1>3 DEF SerialInv

\* What is filed once one more snapshot is.
LEMMA AppendFiles ==
  ASSUME NEW h, AllFine(h), NEW s, NEW p, NEW n
  PROVE  Filed(Append(h, s), p, n) <=> (Filed(h, p, n) \/ (s.by = p /\ s.nth = n))
<1>1. PICK S : h \in Seq(S)
  BY DEF AllFine
<1> DEFINE g == Append(h, s)
<1>2. /\ Len(h) \in Nat /\ DOMAIN h = 1..Len(h) /\ DOMAIN g = 1..(Len(h) + 1)
      /\ \A i \in 1..Len(h) : g[i] = h[i]
      /\ g[Len(h) + 1] = s
  BY <1>1, Appended
<1> HIDE DEF g
<1>3. \A i \in DOMAIN g : i \in DOMAIN h \/ i = Len(h) + 1
  BY <1>2, SMT
<1>4. Len(h) + 1 \in DOMAIN g /\ \A i \in DOMAIN h : i \in DOMAIN g /\ g[i] = h[i]
  BY <1>2, SMT
<1>5. Filed(g, p, n) <=> (Filed(h, p, n) \/ (s.by = p /\ s.nth = n))
  BY <1>2, <1>3, <1>4, Zenon DEF Filed
<1> QED BY <1>5 DEF g

\* What a driver appends it has measured, and nobody appends between its reading
\* the history and its rename.
LEMMA OwnerKept ==
  ASSUME MatrixAssumption, TreeInv, FamilyInv, CountInv, CoreInv, NEW p \in Driver, Step(p), Owner(p)
  PROVE  Owner(p)'
<1>1. /\ PerDriver(snap) /\ PerDriver(loaded) /\ pc \in [Driver -> PC]
  BY DEF CoreInv, FamilyInv, TreeInv, Typed
<1>2. CASE pc'[p] \notin {"load", "writeTemp", "rename"}
  BY <1>2, SMT DEF Owner
<1>3. CASE pc'[p] \in {"load", "writeTemp", "rename"}
  <2> DEFINE Late == {"load", "writeTemp", "rename"}
  <2>1. \A x : Goto(p, x) => x \in Late
    BY <1>1, <1>3, Zenon DEF Goto
  <2>2. "suite" \notin Late /\ "checkout" \notin Late /\ "done" \notin Late /\ "dead" \notin Late
        /\ "resolve" \notin Late /\ "clear" \notin Late /\ "cargo" \notin Late
        /\ "identify" \notin Late /\ "end" \notin Late /\ "drop" \notin Late
    OBVIOUS
  <2> HIDE DEF Late
  <2>3. \A outcome : ~Close(p, outcome)
    BY <2>1, <2>2, Zenon DEF Close
  <2>4. ~Start(p) /\ ~Checkout(p) /\ ~Resolve(p) /\ ~Clear(p) /\ ~Cargo(p) /\ ~Identify(p)
    BY <2>1, <2>2, <2>3, Zenon DEF Start, Checkout, Resolve, Clear, Cargo, Identify
  <2>5. ~Rename(p) /\ ~Drop(p) /\ ~End(p) /\ ~Crash(p)
    BY <2>1, <2>2, <2>3, Zenon DEF Rename, Drop, End, Crash
  <2>6. CASE Suite(p)
    <3>1. PICK answered :
            snap' = [snap EXCEPT ![p] =
                       [by |-> p, nth |-> nth[p], ref |-> RefAt(p), linked |-> exe[p].linked,
                        sha |-> exe[p].sha, family |-> FamilyOf[p], runs |-> answered]]
      BY <2>6, Zenon DEF Suite
    <3> DEFINE x == [by |-> p, nth |-> nth[p], ref |-> RefAt(p), linked |-> exe[p].linked,
                     sha |-> exe[p].sha, family |-> FamilyOf[p], runs |-> answered]
    <3>2. x.by = p /\ x.nth = nth[p]
      OBVIOUS
    <3>3. snap' = [snap EXCEPT ![p] = x]
      BY <3>1
    <3> HIDE DEF x
    <3>4. snap'[p] = x
      BY <1>1, <3>3 DEF PerDriver
    <3>5. nth' = nth /\ Goto(p, "load")
      BY <2>6 DEF Suite
    <3>6. pc'[p] = "load"
      BY <1>1, <3>5, Zenon DEF Goto
    <3> QED BY <3>2, <3>4, <3>5, <3>6, SMT DEF Owner
  <2>7. CASE Load(p)
    <3>1. /\ history # Unreadable /\ pc[p] = "load"
          /\ loaded' = [loaded EXCEPT ![p] = Append(history, snap[p])]
          /\ UNCHANGED <<history, snap, nth>>
      BY <2>3, <2>7, Zenon DEF Load
    <3> DEFINE h == Append(history, snap[p])
    <3>2. loaded' = [loaded EXCEPT ![p] = h]
      BY <3>1
    <3> HIDE DEF h
    <3>3. loaded'[p] = h
      BY <1>1, <3>2 DEF PerDriver
    <3>4. snap[p].by = p /\ snap[p].nth = nth[p]
      BY <3>1 DEF Owner
    <3>5. snap'[p].by = p /\ snap'[p].nth = nth'[p]
      BY <3>1, <3>4
    <3>6. history' # Unreadable /\ loaded'[p] = Append(history', snap'[p])
      BY <3>1, <3>3 DEF h
    <3> QED BY <3>5, <3>6 DEF Owner
  <2>8. CASE WriteTemp(p)
    <3>1. pc[p] = "writeTemp" /\ UNCHANGED <<history, snap, nth, loaded>>
      BY <2>3, <2>8, Zenon DEF WriteTemp
    <3> QED BY <3>1, SMT DEF Owner
  <2> QED BY <2>4, <2>5, <2>6, <2>7, <2>8 DEF Step
<1> QED BY <1>2, <1>3

\* What is filed and what was told are the same, version for version.
LEMMA ToldKept ==
  ASSUME MatrixAssumption, TreeInv, FamilyInv, CountInv, CoreInv, KindInv, NEW p \in Driver, Step(p), Owner(p),
         NEW q \in Driver, Told(q)
  PROVE  Told(q)'
<1>1. CASE outcomes' = outcomes /\ history' = history
  BY <1>1 DEF Told, InHistory
<1>2. ASSUME NEW outcome, Ends(p, outcome) PROVE Told(q)'
  <2>1. /\ nth[p] \in Nat \ {0} /\ outcomes'[p][nth[p]] = outcome
        /\ \A i \in 1..(nth[p] - 1) : outcomes'[p][i] = outcomes[p][i]
        /\ DOMAIN outcomes'[p] = 1..nth[p] /\ DOMAIN outcomes[p] = 1..(nth[p] - 1)
        /\ \A r \in Driver \ {p} : outcomes'[r] = outcomes[r]
    <3>1. nth[p] \in Nat \ {0}
      BY DEF CountInv, InStep
    <3> QED BY <1>2, <3>1, CountEnds, Zenon
  <2>2. ASSUME NEW n \in Nat
        PROVE  (n \in DOMAIN outcomes'[q] /\ outcomes'[q][n] = "appended") <=>
                 \/ n \in DOMAIN outcomes[q] /\ outcomes[q][n] = "appended"
                 \/ outcome = "appended" /\ q = p /\ n = nth[p]
    <3>1. CASE q # p
      BY <2>1, <3>1
    <3>2. CASE q = p /\ n = nth[p]
      <4>1. n \in 1..nth[p] /\ n \notin 1..(nth[p] - 1)
        BY <2>1, <3>2, SMT
      <4> QED BY <2>1, <3>2, <4>1
    <3>3. CASE q = p /\ n # nth[p]
      <4>1. n \in 1..nth[p] <=> n \in 1..(nth[p] - 1)
        BY <2>1, <3>3, SMT
      <4> QED BY <2>1, <3>3, <4>1
    <3> QED BY <3>1, <3>2, <3>3
  <2>3. ASSUME NEW n \in Nat
        PROVE  InHistory(q, n)' <=> (InHistory(q, n) \/ (outcome = "appended" /\ q = p /\ n = nth[p]))
    <3>1. CASE outcome # "appended"
      BY <1>2, <3>1 DEF Ends, InHistory
    <3>2. CASE outcome = "appended"
      <4>1. pc[p] = "rename" /\ history' = loaded[p]
        BY <1>2, <3>2 DEF Ends
      <4>2. /\ history # Unreadable /\ loaded[p] = Append(history, snap[p])
            /\ snap[p].by = p /\ snap[p].nth = nth[p]
        BY <4>1 DEF Owner
      <4>3. AllFine(history)
        BY <4>2 DEF CoreInv
      <4>4. Filed(history', q, n) <=> (Filed(history, q, n) \/ (p = q /\ nth[p] = n))
        BY <4>1, <4>2, <4>3, AppendFiles
      <4>5. history' # Unreadable
        <5>1. loaded[p] \in Seq(Entry)
          BY <4>1, SMT DEF KindInv, Kinds
        <5>2. Unreadable \notin Seq(Entry)
          BY DEF MatrixAssumption, Entry
        <5> QED BY <4>1, <5>1, <5>2
      <4> QED BY <3>2, <4>2, <4>4, <4>5 DEF InHistory, Filed
    <3> QED BY <3>1, <3>2
  <2>4. \A n \in Nat : InHistory(q, n) <=> (n \in DOMAIN outcomes[q] /\ outcomes[q][n] = "appended")
    BY DEF Told
  <2>5. \A n \in Nat : InHistory(q, n)' <=> (n \in DOMAIN outcomes'[q] /\ outcomes'[q][n] = "appended")
    BY <2>2, <2>3, <2>4
  <2> QED BY <2>5 DEF Told
<1>3. CASE ~\E outcome : Ends(p, outcome)
  <2>1. outcomes' = outcomes /\ history' = history
    BY <1>3, Shapes, Zenon DEF Goes, Leaves, Drop, End
  <2> QED BY <1>1, <2>1
<1> QED BY <1>2, <1>3

-----------------------------------------------------------------------------
\* Where one driver runs after the other, the step of one finds the others at rest.
LEMMA SerialStep ==
  ASSUME MatrixAssumption, TreeInv, FamilyInv, CountInv, CoreInv, KindInv, SerialInv,
         session.serial, session' = session,
         NEW p \in session.drivers, Step(p), \A q \in session.drivers \ {p} : AtRest(q)
  PROVE  SerialInv'
<1>1. /\ p \in Driver /\ pc \in [Driver -> PC]
      /\ \A q \in Driver \ {p} : AtRest(q)
      /\ \A q \in Driver : Owner(q) /\ Told(q)
  BY DEF SerialInv, TreeInv, Typed
<1>2. ASSUME NEW q \in Driver \ {p} PROVE AtRest(q)' /\ Owner(q)'
  <2>1. pc'[q] = pc[q]
    BY <1>1, OthersStay
  <2>2. AtRest(q)'
    BY <1>1, <2>1 DEF AtRest
  <2>3. pc'[q] \notin {"load", "writeTemp", "rename"}
    BY <2>2, SMT DEF AtRest
  <2> QED BY <2>2, <2>3, SMT DEF Owner
<1>3. Owner(p)'
  BY <1>1, OwnerKept
<1>4. ASSUME NEW q \in Driver PROVE Told(q)'
  BY <1>1, ToldKept
<1>5. \A q \in Driver \ session.drivers : AtRest(q)'
  BY <1>2
<1>6. \A a, b \in Driver : AtRest(a)' \/ AtRest(b)' \/ a = b
  BY <1>2
<1> QED BY <1>2, <1>3, <1>4, <1>5, <1>6, Zenon DEF SerialInv

\* And so does a stutter.
LEMMA SerialNext ==
  ASSUME MatrixAssumption, TreeInv, FamilyInv, CountInv, CoreInv, KindInv, SerialInv, [Next]_vars
  PROVE  SerialInv'
<1>1. CASE UNCHANGED vars
  BY <1>1 DEF vars, SerialInv, AtRest, Owner, Told, InHistory
<1>2. CASE Next
  <2>1. PICK p \in session.drivers :
          /\ session.serial => \A q \in session.drivers \ {p} : AtRest(q)
          /\ Step(p) /\ session' = session
    BY <1>2, Zenon DEF Next
  <2>2. CASE session.serial
    BY <2>1, <2>2, SerialStep
  <2>3. CASE ~session.serial
    BY <2>1, <2>3 DEF SerialInv
  <2> QED BY <2>2, <2>3
<1> QED BY <1>1, <1>2

\* What the invariants say of the outcomes.
LEMMA SerialTells == ASSUME MatrixAssumption, CountInv, SerialInv PROVE OutcomesAreTrue
<1>1. ASSUME session.serial, NEW p \in Driver, NEW n \in DOMAIN outcomes[p]
      PROVE  (outcomes[p][n] = "appended") <=> InHistory(p, n)
  <2>1. n \in Nat
    BY LenProperties, SMT DEF CountInv, InStep
  <2> QED BY <1>1, <2>1, Zenon DEF SerialInv, Told
<1>2. ASSUME NEW p \in Matrix, pc[p] = "end" PROVE Len(outcomes[p]) = Len(RefsOf[p])
  BY <1>2 DEF CountInv, InStep, Driver
<1>3. ASSUME session.serial, NEW p \in Matrix, exit[p] = 0, NEW n \in DOMAIN RefsOf[p]
      PROVE  InHistory(p, n)
  <2>1. /\ p \in Driver /\ outcomes[p] \in Seq(Outcome) /\ Len(outcomes[p]) = Len(RefsOf[p])
        /\ \A i \in DOMAIN outcomes[p] : outcomes[p][i] = "appended"
    BY <1>3 DEF CountInv, InStep, Driver
  <2>2. RefsOf[p] \in Seq(Ref)
    BY DEF MatrixAssumption
  <2>3. n \in DOMAIN outcomes[p]
    BY <2>1, <2>2, LenProperties
  <2> QED BY <1>1, <1>3, <2>1, <2>3
<1> QED BY <1>1, <1>2, <1>3, Zenon DEF OutcomesAreTrue

\* run_matrix() and main(): whatever fails and wherever a driver is killed, where
\* one runs after the other a version is said to be appended exactly if its
\* snapshot is in the history, and exit code 0 says that of every version.
THEOREM OutcomesAreToldTrue == Spec => []OutcomesAreTrue
<1> DEFINE IInv == /\ TreeInv /\ FamilyInv /\ CountInv /\ CoreInv
                   /\ KindInv /\ SerialInv
<1>1. Init => IInv
  BY TreeInit, FamilyInit, CountInit, CoreInit, KindInit, SerialInit, MatrixAssumption
<1>2. IInv /\ [Next]_vars => IInv'
  BY TreeNext, FamilyNext, CountNext, CoreNext, KindNext, SerialNext, MatrixAssumption
<1>3. IInv => OutcomesAreTrue
  BY SerialTells, MatrixAssumption
<1> QED BY <1>1, <1>2, <1>3, PTL DEF Spec

-----------------------------------------------------------------------------
(* The suite: its shape, its scratch directory, its turns, gate and scores. *)

Phases == {"reference", "children", "scores", "report", "exit"}

References == [by : {"libvips", "monolithic"}, pyramid : Seq(AnyLevel)]

Positions(c, r) == (0..(c - 1)) \X (0..(r - 1))

\* A level is a function of the positions of some grid.
LEMMA LevelsHaveAShape ==
  ASSUME HarnessAssumption, NEW l \in AnyLevel
  PROVE  \E c, r \in Nat \ {0} :
           l \in [Positions(c, r) -> Tile] /\ [Positions(c, r) -> Tile] \subseteq AnyLevel
<1> DEFINE side(z, j) == Side(z, j)[1] \X Side(z, j)[2]
           levels(z) == UNION {[side(z, j) -> Tile] : j \in DOMAIN Plans[z]}
<1>1. AnyLevel = [{<<0, 0>>} -> Tile] \cup UNION {levels(z) : z \in DOMAIN Plans}
  BY DEF AnyLevel
<1>2. CASE l \in [{<<0, 0>>} -> Tile]
  <2>1. Positions(1, 1) = {<<0, 0>>}
    <3>1. 0..(1 - 1) = {0}
      BY SMT
    <3> QED BY <3>1 DEF Positions
  <2>2. [Positions(1, 1) -> Tile] \subseteq AnyLevel
    <3> HIDE DEF levels
    <3> QED BY <1>1, <2>1
  <2>3. 1 \in Nat \ {0}
    OBVIOUS
  <2> QED BY <1>2, <2>1, <2>2, <2>3
<1>3. ASSUME NEW z \in DOMAIN Plans, l \in levels(z)
      PROVE  \E c, r \in Nat \ {0} :
               l \in [Positions(c, r) -> Tile] /\ [Positions(c, r) -> Tile] \subseteq AnyLevel
  <2> HIDE DEF side
  <2>1. PICK j \in DOMAIN Plans[z] : l \in [side(z, j) -> Tile]
    BY <1>3
  <2>2. [side(z, j) -> Tile] \subseteq levels(z)
    OBVIOUS
  <2> HIDE DEF levels
  <2>3. [side(z, j) -> Tile] \subseteq AnyLevel
    BY <1>1, <2>2
  <2>4. Plans[z] \in Seq((Nat \ {0}) \X (Nat \ {0}))
    <3>1. Plans \in Seq(Seq((Nat \ {0}) \X (Nat \ {0})) \ {<<>>})
      BY DEF HarnessAssumption
    <3> QED BY <3>1, ElementOfSeq, LenProperties
  <2>5. Plans[z][j] \in (Nat \ {0}) \X (Nat \ {0})
    BY <2>4, ElementOfSeq, LenProperties
  <2>6. side(z, j) = Positions(Plans[z][j][1], Plans[z][j][2])
    BY DEF side, Side, Positions
  <2> QED BY <2>1, <2>3, <2>5, <2>6
<1>4. l \in [{<<0, 0>>} -> Tile] \/ \E z \in DOMAIN Plans : l \in levels(z)
  <2> HIDE DEF levels
  <2> QED BY <1>1
<1> QED BY <1>2, <1>3, <1>4, Zenon

\* The levels of a plan and of vips are levels.
LEMMA LevelsOfAPlan ==
  ASSUME HarnessAssumption, size \in DOMAIN Plans
  PROVE  /\ Planned \in Seq(AnyLevel) /\ FromVips \in Seq(AnyLevel)
         /\ Len(Planned) = Len(Plans[size]) /\ Len(Planned) \in Nat \ {0}
         /\ FromVips = <<Level(1, 1, "right")>> \o Planned
         /\ \A k \in 1..Len(Planned) : /\ Plans[size][k] \in (Nat \ {0}) \X (Nat \ {0})
                                       /\ Planned[k] = Level(Plans[size][k][1], Plans[size][k][2], "right")
<1> DEFINE n == Len(Plans[size])
<1>1. Plans[size] \in Seq((Nat \ {0}) \X (Nat \ {0})) /\ Plans[size] # <<>>
  <2>1. Plans \in Seq(Seq((Nat \ {0}) \X (Nat \ {0})) \ {<<>>})
    BY DEF HarnessAssumption
  <2> QED BY <2>1, ElementOfSeq, LenProperties
<1>2. n \in Nat \ {0} /\ DOMAIN Plans[size] = 1..n
  BY <1>1, EmptySeq, LenProperties
<1>3. ASSUME NEW k \in 1..n PROVE Plans[size][k] \in (Nat \ {0}) \X (Nat \ {0})
  BY <1>1, <1>2, ElementOfSeq
<1>4. ASSUME NEW k \in 1..n
      PROVE  Level(Plans[size][k][1], Plans[size][k][2], "right") \in AnyLevel
  <2>1. Level(Plans[size][k][1], Plans[size][k][2], "right")
          \in [Side(size, k)[1] \X Side(size, k)[2] -> Tile]
    BY DEF Level, Side, Tile
  <2> DEFINE side(z, j) == [Side(z, j)[1] \X Side(z, j)[2] -> Tile]
             levels(z) == UNION {side(z, j) : j \in DOMAIN Plans[z]}
             l == Level(Plans[size][k][1], Plans[size][k][2], "right")
  <2>2. AnyLevel = [{<<0, 0>>} -> Tile] \cup UNION {levels(z) : z \in DOMAIN Plans}
    BY DEF AnyLevel
  <2>3. k \in DOMAIN Plans[size] /\ l \in side(size, k)
    BY <1>2, <2>1
  <2> HIDE DEF side, l
  <2>4. l \in levels(size)
    BY <2>3
  <2> HIDE DEF levels
  <2>5. l \in AnyLevel
    BY <2>2, <2>4
  <2> QED BY <2>5 DEF l
<1>5. Planned = [k \in 1..n |-> Level(Plans[size][k][1], Plans[size][k][2], "right")]
  BY <1>2 DEF Planned
<1>6. Planned \in [1..n -> AnyLevel]
  BY <1>4, <1>5
<1>7. Planned \in Seq(AnyLevel) /\ Len(Planned) = n
  <2>1. Planned \in Seq(AnyLevel)
    <3>1. n \in Nat
      BY <1>2
    <3> HIDE DEF n
    <3> QED BY <1>6, <3>1, SeqDef
  <2>2. DOMAIN Planned = 1..n /\ DOMAIN Planned = 1..Len(Planned) /\ Len(Planned) \in Nat
    BY <1>5, <2>1, LenProperties
  <2> HIDE DEF n
  <2> QED BY <1>2, <2>1, <2>2, SMT
<1>8. Level(1, 1, "right") \in AnyLevel
  <2>1. (0..(1 - 1)) \X (0..(1 - 1)) = {<<0, 0>>}
    <3>1. 0..(1 - 1) = {0}
      BY SMT
    <3> QED BY <3>1
  <2>2. Level(1, 1, "right") \in [{<<0, 0>>} -> Tile]
    BY <2>1 DEF Level, Tile
  <2> QED BY <2>2 DEF AnyLevel
<1>9. FromVips \in Seq(AnyLevel)
  BY <1>7, <1>8, ConcatProperties DEF FromVips
<1> QED BY <1>2, <1>3, <1>5, <1>7, <1>9 DEF FromVips

\* A tile that comes out otherwise leaves a level a level.
LEMMA LevelsWritten ==
  ASSUME HarnessAssumption, NEW whole \in Seq(AnyLevel)
  PROVE  Written(whole) \subseteq Seq(AnyLevel)
<1>1. ASSUME NEW k \in DOMAIN whole, NEW p \in DOMAIN whole[k], NEW what \in Tile
      PROVE  But(whole, k, p, what) \in Seq(AnyLevel)
  <2> USE DEF But
  <2> DEFINE level == [whole[k] EXCEPT ![p] = what]
  <2>1. k \in 1..Len(whole)
    BY LenProperties
  <2>2. whole[k] \in AnyLevel
    BY <2>1, ElementOfSeq
  <2>3. PICK D : whole[k] \in [D -> Tile] /\ [D -> Tile] \subseteq AnyLevel
    BY <2>2, LevelsHaveAShape
  <2>4. level \in AnyLevel
    BY <2>3
  <2>5. But(whole, k, p, what) = [whole EXCEPT ![k] = level]
    OBVIOUS
  <2> HIDE DEF level
  <2> QED BY <2>1, <2>4, <2>5, ExceptSeq
<1>2. ASSUME NEW cand \in Written(whole) PROVE cand \in Seq(AnyLevel)
  <2>1. CASE cand = whole
    BY <2>1
  <2>2. CASE cand # whole
    <3>1. \E k \in DOMAIN whole : \E p \in DOMAIN whole[k] : \E what \in Tile :
            cand = But(whole, k, p, what)
      <4> DEFINE others(k) == {But(whole, k, p, what) : p \in DOMAIN whole[k], what \in Tile \ {"right"}}
      <4>1. cand \in UNION {others(k) : k \in DOMAIN whole}
        BY <2>2 DEF Written
      <4>2. PICK k \in DOMAIN whole : cand \in others(k)
        <5> HIDE DEF others
        <5> QED BY <4>1, Zenon
      <4> QED BY <4>2
    <3> QED BY <1>1, <3>1, Zenon
  <2> QED BY <2>1, <2>2
<1> QED BY <1>2
-----------------------------------------------------------------------------
(* What is left behind. *)

\* What every state of a suite is.
ShapeInv ==
  /\ family \in {"engines", "vips"} /\ size \in DOMAIN Plans
  /\ phase \in Phases
  /\ reference # Null => reference \in References
  /\ phase \notin {"children", "scores"} => reference = Null

\* Of the scratch directory, the pyramids of the reference's root come and go
\* with it, and the rest is what killed children left.
LeftInv ==
  /\ RootGone = orphans
  /\ \A t \in tmp : UnderRoot(t) => reference # Null

\* A reference that is built is one.
LEMMA ReferenceIsBuilt ==
  ASSUME HarnessAssumption, NullAssumption, size \in DOMAIN Plans, BuildReference
  PROVE  \/ reference' = Null /\ tmp' \in {tmp, RootGone}
         \/ reference' \in References /\ reference' # Null /\ tmp' = RootGone \cup {<<"equiv">>}
<1>1. /\ Written(FromVips) \subseteq Seq(AnyLevel)
      /\ Written(Planned) \subseteq Seq(AnyLevel)
  BY LevelsOfAPlan, LevelsWritten
<1>2. Null \notin References
  BY DEF NullAssumption, References
<1>3. CASE VipsReference
  <2>1. CASE \E pyramid \in Written(FromVips) :
               reference' = [by |-> "libvips", pyramid |-> pyramid] /\ tmp' = RootGone \cup {<<"equiv">>}
    BY <1>1, <1>2, <2>1, SMT DEF References
  <2> QED BY <1>3, <2>1, Zenon DEF VipsReference, NoReference
<1>4. CASE OwnReference
  <2>1. CASE \E pyramid \in Written(Planned) :
               reference' = [by |-> "monolithic", pyramid |-> pyramid] /\ tmp' = RootGone \cup {<<"equiv">>}
    BY <1>1, <1>2, <2>1, SMT DEF References
  <2> QED BY <1>4, <2>1, Zenon DEF OwnReference, NoReference
<1> QED BY <1>3, <1>4, Zenon DEF BuildReference

LEMMA ShapeStart == HarnessAssumption /\ SuiteInit => ShapeInv /\ LeftInv
<1> SUFFICES ASSUME HarnessAssumption, SuiteInit PROVE ShapeInv /\ LeftInv
  OBVIOUS
<1>1. 1 \in DOMAIN Plans
  <2>1. Plans \in Seq(Seq((Nat \ {0}) \X (Nat \ {0})) \ {<<>>}) /\ Plans # <<>>
    BY DEF HarnessAssumption
  <2>2. Len(Plans) \in Nat \ {0} /\ DOMAIN Plans = 1..Len(Plans)
    BY <2>1, EmptySeq, LenProperties
  <2> HIDE DEF HarnessAssumption, SuiteInit
  <2> QED BY <2>2, SMT
<1>2. family \in {"engines", "vips"}
  BY DEF SuiteInit, HarnessAssumption
<1> QED BY <1>1, <1>2 DEF SuiteInit, ShapeInv, LeftInv, Phases, RootGone

\* Every step keeps the shape of the state.
LEMMA ShapeStep ==
  ASSUME HarnessAssumption, NullAssumption, ShapeInv, SuiteNext
  PROVE  ShapeInv'
<1>1. CASE BuildReference
  <2>1. reference' # Null => reference' \in References
    BY ReferenceIsBuilt, <1>1 DEF ShapeInv
  <2> QED BY <1>1, <2>1 DEF BuildReference, ShapeInv, Phases, host
<1>2. CASE SpawnSingleCell
  BY <1>2 DEF SpawnSingleCell, ShapeInv, Phases, host
<1>3. CASE EndOfTurns
  BY <1>3 DEF EndOfTurns, ShapeInv, Phases, host
<1>4. CASE Unscored
  BY <1>4 DEF Unscored, Done, ShapeInv, Phases, host
<1>5. CASE Score
  BY <1>5, Zenon DEF Score, Done, ShapeInv, Phases, host
<1>6. CASE NextConfiguration
  <2>1. CASE conc < Len(Concurrency)
    BY <1>6, <2>1 DEF NextConfiguration, ShapeInv, Phases, host
  <2>2. CASE ~(conc < Len(Concurrency))
    <3>1. /\ family' = family /\ reference' = Null /\ phase' \in Phases
          /\ size' = size \/ (size < Len(Plans) /\ size' = size + 1)
      BY <1>6, <2>2 DEF NextConfiguration, Phases, host
    <3>2. Len(Plans) \in Nat /\ DOMAIN Plans = 1..Len(Plans)
      BY LenProperties DEF HarnessAssumption
    <3>3. size' \in DOMAIN Plans
      <4> DEFINE n == Len(Plans)
      <4>1. n \in Nat /\ size \in 1..n /\ (size' = size \/ (size < n /\ size' = size + 1))
        BY <3>1, <3>2 DEF ShapeInv
      <4> HIDE DEF n
      <4>2. size' \in 1..n
        BY <4>1, SMTT(30)
      <4> QED BY <3>2, <4>2 DEF n
    <3> QED BY <3>1, <3>3 DEF ShapeInv
  <2> QED BY <2>1, <2>2
<1>7. CASE WriteOutput
  BY <1>7 DEF WriteOutput, ShapeInv, Phases, host
<1>8. CASE AppendHistory
  BY <1>8 DEF AppendHistory, ShapeInv, Phases, host
<1> QED BY <1>1, <1>2, <1>3, <1>4, <1>5, <1>6, <1>7, <1>8, Zenon DEF SuiteNext

\* What a child leaves is not a pyramid of the reference's.
LEMMA ScratchIsApart ==
  ASSUME NEW e, NEW m, NEW t \in Scratch(e, m)
  PROVE  ~UnderRoot(t)
<1>1. t = <<"sink", e>> \/ t = <<"png">>
  BY DEF Scratch
<1> QED BY <1>1 DEF UnderRoot

LEMMA LeftStep ==
  ASSUME HarnessAssumption, NullAssumption, ShapeInv, LeftInv, SuiteNext
  PROVE  LeftInv'
<1>a. RootGone' = {t \in tmp' : ~UnderRoot(t)}
  BY DEF RootGone, UnderRoot
<1>b. LeftInv' <=> /\ {t \in tmp' : ~UnderRoot(t)} = orphans'
                   /\ \A t \in tmp' : UnderRoot(t) => reference' # Null
  BY <1>a DEF LeftInv, UnderRoot
<1>c. orphans = {t \in tmp : ~UnderRoot(t)} /\ RootGone = orphans
  BY DEF LeftInv, RootGone
<1>1. CASE BuildReference
  <2>1. reference = Null /\ orphans' = orphans
    BY <1>1 DEF BuildReference, ShapeInv
  <2>2. tmp = orphans
    BY <1>c, <2>1 DEF LeftInv
  <2>3. UnderRoot(<<"equiv">>)
    BY DEF UnderRoot
  <2>4. CASE reference' = Null /\ tmp' \in {tmp, RootGone}
    BY <1>b, <1>c, <2>1, <2>2, <2>4
  <2>5. CASE reference' # Null /\ tmp' = RootGone \cup {<<"equiv">>}
    <3> HIDE DEF UnderRoot
    <3>1. {t \in tmp' : ~UnderRoot(t)} = orphans
      BY <1>c, <2>3, <2>5
    <3> QED BY <1>b, <2>1, <2>5, <3>1
  <2> QED BY <1>1, <2>4, <2>5, ReferenceIsBuilt DEF ShapeInv
<1>2. CASE SpawnSingleCell
  <2>1. PICK killed \in BOOLEAN, reaped \in BOOLEAN :
          \E m \in RunSingleCell(Head(turns).engine) :
            /\ tmp' = ChildLeaves(Head(turns).engine, m, killed)
            /\ orphans' = IF killed THEN orphans \cup Scratch(Head(turns).engine, m) ELSE orphans \cap tmp'
    BY <1>2, Zenon DEF SpawnSingleCell
  <2>1a. PICK m \in RunSingleCell(Head(turns).engine) :
           /\ tmp' = ChildLeaves(Head(turns).engine, m, killed)
           /\ orphans' = IF killed THEN orphans \cup Scratch(Head(turns).engine, m) ELSE orphans \cap tmp'
    BY <2>1
  <2>2. reference' = reference
    BY <1>2, Zenon DEF SpawnSingleCell
  <2> DEFINE left == Scratch(Head(turns).engine, m)
  <2>3. \A t \in left : ~UnderRoot(t)
    BY ScratchIsApart
  <2> HIDE DEF left
  <2>4. CASE killed
    <3>1. tmp' = tmp \cup left /\ orphans' = orphans \cup left
      BY <2>1a, <2>4 DEF ChildLeaves, left
    <3> QED BY <1>b, <1>c, <2>2, <2>3, <3>1 DEF LeftInv
  <2>5. CASE ~killed
    <3>1. tmp' = tmp \ {t \in left : t = <<"png">>} /\ orphans' = orphans \cap tmp'
      BY <2>1a, <2>5 DEF ChildLeaves, left
    <3> QED BY <1>b, <1>c, <2>2, <3>1 DEF LeftInv
  <2> QED BY <2>4, <2>5
<1>3. CASE EndOfTurns
  <2>1. UNCHANGED <<tmp, orphans, reference>>
    BY <1>3 DEF EndOfTurns
  <2> QED BY <1>b, <1>c, <2>1 DEF LeftInv
<1>4. CASE Unscored
  <2>1. UNCHANGED <<tmp, orphans, reference>>
    BY <1>4 DEF Unscored, Done
  <2> QED BY <1>b, <1>c, <2>1 DEF LeftInv
<1>5. CASE Score
  <2> DEFINE dir == <<"cand", Head(toScore).engine, Head(toScore).conc>>
  <2>1. UNCHANGED <<orphans, reference>> /\ tmp' \in {tmp \cup {dir}, tmp \ {dir}}
    BY <1>5, Zenon DEF Score, Done
  <2>2. reference # Null
    BY <1>5, Zenon DEF Score, Scored
  <2>3. UnderRoot(dir)
    BY DEF UnderRoot
  <2> HIDE DEF dir, UnderRoot
  <2>4. {t \in tmp' : ~UnderRoot(t)} = {t \in tmp : ~UnderRoot(t)}
    BY <2>1, <2>3
  <2> QED BY <1>b, <1>c, <2>1, <2>2, <2>4
<1>6. CASE NextConfiguration
  <2>1. orphans' = orphans
    BY <1>6 DEF NextConfiguration
  <2>2. CASE UNCHANGED <<reference, tmp>>
    BY <1>b, <1>c, <2>1, <2>2 DEF LeftInv
  <2>3. CASE reference' = Null /\ tmp' = IF reference = Null THEN tmp ELSE RootGone
    <3>1. tmp' = RootGone
      BY <1>c, <2>3 DEF LeftInv
    <3> QED BY <1>b, <1>c, <2>1, <3>1
  <2> QED BY <1>6, <2>2, <2>3, Zenon DEF NextConfiguration
<1>7. CASE WriteOutput \/ AppendHistory
  <2>1. UNCHANGED <<tmp, orphans, reference>>
    BY <1>7 DEF WriteOutput, AppendHistory
  <2> QED BY <1>b, <1>c, <2>1 DEF LeftInv
<1> QED BY <1>1, <1>2, <1>3, <1>4, <1>5, <1>6, <1>7, Zenon DEF SuiteNext

\* NothingLeft (TempOutDir, EquivalenceReference::drop): for any sizes, levels and
\* deviations, between two sizes and in the end nothing is in the scratch
\* directory but what killed children left there.
THEOREM NothingStays == SuiteSpec => []NothingLeft
<1>1. SuiteInit => ShapeInv /\ LeftInv
  BY HarnessAssumption, ShapeStart
<1>2. ShapeInv /\ LeftInv /\ [SuiteNext]_suiteVars => (ShapeInv /\ LeftInv)'
  <2> SUFFICES ASSUME ShapeInv, LeftInv, [SuiteNext]_suiteVars
               PROVE  (ShapeInv /\ LeftInv)'
    OBVIOUS
  <2>1. CASE SuiteNext
    BY <2>1, HarnessAssumption, NullAssumption, ShapeStep, LeftStep
  <2>2. CASE UNCHANGED suiteVars
    BY <2>2 DEF suiteVars, ShapeInv, LeftInv, RootGone, UnderRoot
  <2> QED BY <2>1, <2>2
<1>3. ShapeInv /\ LeftInv => NothingLeft
  <2> SUFFICES ASSUME ShapeInv, LeftInv, phase \in {"reference", "report", "exit"} PROVE tmp = orphans
    BY DEF NothingLeft
  <2>1. reference = Null
    BY DEF ShapeInv
  <2> QED BY <2>1 DEF LeftInv, RootGone
<1> QED BY <1>1, <1>2, <1>3, PTL DEF SuiteSpec

-----------------------------------------------------------------------------
(* The turns. *)

Labels == {"monolithic", "streaming", "mapreduce", "libvips"}

Jobs == [engine : Labels, timed : BOOLEAN]

\* Three engines or four, no two of them the same.
LEMMA EnginesAre ==
  ASSUME family \in {"engines", "vips"}
  PROVE  /\ Engines \in Seq(Labels) /\ Len(Engines) \in {3, 4}
         /\ DOMAIN Engines = 1..Len(Engines)
         /\ Range(Engines) \subseteq Labels
         /\ \A i, j \in 1..Len(Engines) : Engines[i] = Engines[j] => i = j
<1> DEFINE own == <<"monolithic", "streaming", "mapreduce">>
<1>1. own \in Seq(Labels) /\ <<"libvips">> \in Seq(Labels)
  BY DEF Labels
<1>2. CASE family = "engines"
  <2>1. Engines = own
    BY <1>1, <1>2, ConcatEmptySeq DEF Engines, LIBVIPRS_ENGINES
  <2> QED BY <1>1, <2>1 DEF Range, Labels
<1>3. CASE family = "vips"
  <2>1. Engines = own \o <<"libvips">>
    BY <1>3 DEF Engines, LIBVIPRS_ENGINES
  <2>2. Len(own) = 3 /\ Len(<<"libvips">>) = 1
    OBVIOUS
  <2> DEFINE g == own \o <<"libvips">>
  <2>3. /\ g \in Seq(Labels) /\ Len(g) = 4
        /\ \A i \in 1..4 : g[i] = IF i <= 3 THEN own[i] ELSE <<"libvips">>[i - 3]
    <3> HIDE DEF own
    <3>1. /\ g \in Seq(Labels) /\ Len(g) = Len(own) + Len(<<"libvips">>)
          /\ \A i \in 1..(Len(own) + Len(<<"libvips">>)) :
               g[i] = IF i <= Len(own) THEN own[i] ELSE <<"libvips">>[i - Len(own)]
      BY <1>1, ConcatProperties
    <3> QED BY <2>2, <3>1
  <2>4. g[1] = "monolithic" /\ g[2] = "streaming" /\ g[3] = "mapreduce" /\ g[4] = "libvips"
    <3> HIDE DEF g
    <3> QED BY <2>3
  <2>5. DOMAIN g = 1..4
    <3> HIDE DEF g
    <3> QED BY <2>3, LenProperties
  <2>6. \A i, j \in 1..4 : g[i] = g[j] => i = j
    <3> HIDE DEF g
    <3>1. 1..4 = {1, 2, 3, 4}
      BY SMT
    <3> QED BY <2>4, <3>1
  <2>7. \A i \in 1..4 : g[i] \in Labels
    <3> HIDE DEF g
    <3> QED BY <2>3, ElementOfSeq
  <2> HIDE DEF g
  <2>8. Engines = g
    BY <2>1 DEF g
  <2>9. Range(g) \subseteq Labels
    BY <2>5, <2>7 DEF Range
  <2>10. Len(g) \in {3, 4}
    BY <2>3
  <2> HIDE DEF Labels
  <2> QED BY <2>3, <2>5, <2>6, <2>8, <2>9, <2>10
<1> QED BY <1>2, <1>3

Divides(x, n, q, r) == n \in {3, 4} /\ q \in Nat /\ r \in 0..(n - 1) /\ x = n * q + r

\* A number that is laps and a rest tells which.
LEMMA LapsAreToldApart ==
  ASSUME NEW n, NEW q, NEW r, NEW x, Divides(x, n, q, r)
  PROVE  x % n = r /\ x \div n = q
<1> USE DEF Divides
<1> DEFINE d == x \div n
           m == x % n
<1>1. x \in Nat /\ n \in Nat \ {0}
  OBVIOUS
<1>2. x = n * d + m /\ d \in Int /\ m \in 0..(n - 1)
  BY <1>1, DivMod
<1> HIDE DEF d, m
<1>3. d = q /\ m = r
  <2>1. CASE n = 3
    BY <1>2, <2>1, SMT
  <2>2. CASE n = 4
    BY <1>2, <2>2, SMT
  <2> QED BY <2>1, <2>2
<1> QED BY <1>3 DEF d, m

IsPlace(k, n, laps, i, e) ==
  n \in {3, 4} /\ laps \in Nat \ {0} /\ i \in 1..laps /\ e \in 1..n /\ k = (i - 1) * n + e

LEMMA PlaceInALap ==
  ASSUME NEW n, NEW laps, NEW i, NEW e, NEW k, IsPlace(k, n, laps, i, e)
  PROVE  k \in 1..(laps * n) /\ (k - 1) % n = e - 1 /\ (k - 1) \div n = i - 1
<1> USE DEF IsPlace
<1> DEFINE x == k - 1
           q == i - 1
           r == e - 1
<1>1. q \in Nat /\ r \in 0..(n - 1)
  OBVIOUS
<1>2. x = n * q + r
  <2>1. CASE n = 3
    BY <2>1
  <2>2. CASE n = 4
    BY <2>2
  <2> QED BY <2>1, <2>2
<1>3. x % n = r /\ x \div n = q
  <2> HIDE DEF x, q, r
  <2> QED BY <1>1, <1>2, LapsAreToldApart DEF Divides
<1>4. k \in 1..(laps * n)
  <2>1. CASE n = 3
    BY <2>1
  <2>2. CASE n = 4
    BY <2>2
  <2> QED BY <2>1, <2>2
<1> QED BY <1>3, <1>4

\* The k-th turn of the walk.
Turn(k) ==
  [engine |-> Engines[((k - 1) % Len(Engines)) + 1],
   timed |-> ((k - 1) \div Len(Engines)) + 1 > WarmUps]

AreCuts(cut, w, S, n, seqs) ==
  /\ w \in Seq(S) /\ n \in Nat \ {0} /\ cut \in [0..n -> 0..Len(w)]
  /\ cut[0] = 0 /\ \A i \in 1..n : cut[i - 1] <= cut[i]
  /\ Len(seqs) = n /\ \A i \in 1..n : seqs[i] = SubSeq(w, cut[i - 1] + 1, cut[i])

LEMMA CutsMakeTheWhole ==
  ASSUME NEW S, NEW w, NEW n, NEW cut, NEW seqs, AreCuts(cut, w, S, n, seqs)
  PROVE  FlattenSeq(seqs) = SubSeq(w, 1, cut[n])
BY PiecesMakeTheWhole DEF AreCuts

\* Turns goes through the engines again and again.
LEMMA TurnsGoRound ==
  ASSUME HarnessAssumption, family \in {"engines", "vips"}
  PROVE  /\ Turns \in Seq(Jobs)
         /\ Len(Turns) = (WarmUps + Iters) * Len(Engines)
         /\ \A k \in 1..Len(Turns) : Turns[k] = Turn(k)
<1> DEFINE n == Len(Engines)
           laps == WarmUps + Iters
           w == [k \in 1..(laps * n) |-> Turn(k)]
           cut == [i \in 0..laps |-> i * n]
           lap(i) == [e \in DOMAIN Engines |-> [engine |-> Engines[e], timed |-> i > WarmUps]]
           seqs == [i \in 1..laps |-> lap(i)]
<1>1. n \in {3, 4} /\ DOMAIN Engines = 1..n /\ Engines \in Seq(Labels)
  BY EnginesAre
<1>2. laps \in Nat \ {0}
  BY DEF HarnessAssumption
<1>3. laps * n \in Nat
  BY <1>1, <1>2
<1>4. ASSUME NEW k \in 1..(laps * n) PROVE Turn(k) \in Jobs
  <2>1. ((k - 1) % n) + 1 \in 1..n
    <3> HIDE DEF n, laps
    <3> QED BY <1>1, SMT
  <2>2. Engines[((k - 1) % n) + 1] \in Labels
    <3> DEFINE e == ((k - 1) % n) + 1
    <3>1. e \in 1..Len(Engines)
      BY <2>1
    <3> HIDE DEF e
    <3>2. Engines[e] \in Labels
      BY <1>1, <3>1, ElementOfSeq
    <3> QED BY <3>2 DEF e
  <2> QED BY <2>2 DEF Turn, Jobs
<1>5. w \in Seq(Jobs) /\ Len(w) = laps * n /\ DOMAIN w = 1..(laps * n)
  <2> DEFINE L == laps * n
  <2> HIDE DEF L
  <2>1. w = [k \in 1..L |-> Turn(k)] /\ L \in Nat /\ \A k \in 1..L : Turn(k) \in Jobs
    BY <1>3, <1>4 DEF L
  <2>2. w \in [1..L -> Jobs]
    BY <2>1
  <2> HIDE DEF w
  <2>3. w \in Seq(Jobs)
    BY <2>1, <2>2, SeqDef
  <2>4. Len(w) = L
    BY <2>1, <2>2, <2>3, LenProperties
  <2> QED BY <2>2, <2>3, <2>4 DEF L
<1>6. /\ cut \in [0..laps -> 0..Len(w)] /\ cut[0] = 0
      /\ \A i \in 1..laps : cut[i - 1] <= cut[i]
  <2>1. ASSUME NEW i \in 0..laps PROVE i * n \in 0..(laps * n)
    <3> HIDE DEF n, laps
    <3>1. CASE n = 3
      BY <1>2, <3>1, SMT
    <3>2. CASE n = 4
      BY <1>2, <3>2, SMT
    <3> QED BY <1>1, <3>1, <3>2
  <2>2. ASSUME NEW i \in 1..laps PROVE (i - 1) * n <= i * n /\ i - 1 \in 0..laps /\ i \in 0..laps
    <3> HIDE DEF n, laps
    <3>1. CASE n = 3
      BY <1>2, <3>1, SMT
    <3>2. CASE n = 4
      BY <1>2, <3>2, SMT
    <3> QED BY <1>1, <3>1, <3>2
  <2>3. 0 * n = 0 /\ 0 \in 0..laps
    <3> HIDE DEF n, laps
    <3> QED BY <1>1, <1>2, SMT
  <2> HIDE DEF n, laps, w
  <2> QED BY <1>5, <2>1, <2>2, <2>3
<1>7. ASSUME NEW i \in 1..laps PROVE seqs[i] = SubSeq(w, cut[i - 1] + 1, cut[i])
  <2> DEFINE a == (i - 1) * n
  <2>1. cut[i - 1] = a /\ cut[i] = a + n /\ a \in Nat /\ a + n <= laps * n
    <3>1. i - 1 \in 0..laps /\ i \in 0..laps
      BY <1>2
    <3>2. cut[i - 1] = (i - 1) * n /\ cut[i] = i * n
      BY <3>1
    <3> HIDE DEF n, laps, cut
    <3>3. CASE n = 3
      BY <1>2, <3>2, <3>3, SMT
    <3>4. CASE n = 4
      BY <1>2, <3>2, <3>4, SMT
    <3> QED BY <1>1, <3>3, <3>4
  <2>2. seqs[i] = lap(i) /\ DOMAIN lap(i) = 1..n
    BY <1>1
  <2>3. ASSUME NEW e \in 1..n PROVE w[a + e] = lap(i)[e]
    <3> DEFINE q == i - 1
               k == a + e
    <3>1. q \in Nat /\ a = q * n
      BY <1>2
    <3>2. k \in 1..(laps * n) /\ (k - 1) % n = e - 1 /\ (k - 1) \div n = q
      <4> HIDE DEF laps, n
      <4>1. k = (i - 1) * n + e
        OBVIOUS
      <4> HIDE DEF k
      <4>2. IsPlace(k, n, laps, i, e)
        BY <1>1, <1>2, <4>1 DEF IsPlace
      <4> QED BY <4>2, PlaceInALap
    <3>a. w[k] = Turn(k)
      <4> HIDE DEF k, laps
      <4> QED BY <3>2
    <3>3. w[a + e] = [engine |-> Engines[(e - 1) + 1], timed |-> (i - 1) + 1 > WarmUps]
      <4>1. Turn(k) = [engine |-> Engines[(e - 1) + 1], timed |-> q + 1 > WarmUps]
        <5> HIDE DEF k, q
        <5> QED BY <3>2 DEF Turn
      <4> HIDE DEF w
      <4> QED BY <3>a, <4>1
    <3>4. (e - 1) + 1 = e /\ (i - 1) + 1 = i
      <4> HIDE DEF n, laps
      <4> QED BY <1>1, <1>2, SMT
    <3>5. lap(i)[e] = [engine |-> Engines[e], timed |-> i > WarmUps]
      BY <2>2
    <3> HIDE DEF w, lap, a
    <3> QED BY <3>3, <3>4, <3>5
  <2> HIDE DEF w, cut, seqs
  <2> DEFINE piece == SubSeq(w, a + 1, a + n)
  <2>4. /\ piece \in Seq(Jobs) /\ Len(piece) = n
        /\ \A e \in 1..n : piece[e] = w[a + e]
    <3>1. \A k \in (a + 1)..(a + n) : w[k] \in Jobs
      <4>1. ASSUME NEW k \in (a + 1)..(a + n) PROVE k \in 1..Len(w)
        <5> HIDE DEF n, laps, a
        <5> QED BY <1>1, <1>5, <2>1, SMT
      <4> QED BY <1>5, <4>1, ElementOfSeq
    <3> HIDE DEF n, a
    <3>2. a + 1 \in Int /\ a + n \in Int /\ a + 1 <= a + n /\ (a + n) - (a + 1) + 1 = n
      BY <1>1, <2>1, SMT
    <3>3. Len(piece) = n /\ piece \in Seq(Jobs) /\ \A e \in 1..n : piece[e] = w[(a + 1) + e - 1]
      <4> DEFINE x == a + 1
                 y == a + n
      <4>1. \A k \in x..y : w[k] \in Jobs
        BY <3>1
      <4>2. x \in Int /\ y \in Int /\ x <= y /\ y - x + 1 = n /\ piece = SubSeq(w, x, y)
        BY <3>2
      <4> HIDE DEF x, y, piece
      <4>3. /\ SubSeq(w, x, y) \in Seq(Jobs)
            /\ Len(SubSeq(w, x, y)) = IF x <= y THEN y - x + 1 ELSE 0
            /\ \A e \in 1..(y - x + 1) : SubSeq(w, x, y)[e] = w[x + e - 1]
        BY <4>1, <4>2, SubSeqProperties, SMTT(30)
      <4>4. Len(piece) = n /\ piece \in Seq(Jobs) /\ \A e \in 1..n : piece[e] = w[x + e - 1]
        BY <4>2, <4>3
      <4> QED BY <4>4 DEF x
    <3>4. \A e \in 1..n : (a + 1) + e - 1 = a + e
      BY <1>1, <2>1, SMT
    <3> QED BY <3>3, <3>4
  <2>5. piece = lap(i)
    <3>1. piece \in [1..n -> Jobs]
      <4> HIDE DEF piece, n
      <4> QED BY <2>4, LenProperties
    <3>2. DOMAIN piece = 1..n /\ DOMAIN lap(i) = 1..n /\ \A e \in 1..n : piece[e] = lap(i)[e]
      <4> HIDE DEF piece, lap, n, a
      <4> QED BY <2>2, <2>3, <2>4, <3>1
    <3>3. lap(i) = [e \in 1..n |-> lap(i)[e]]
      BY <1>1
    <3> HIDE DEF piece, lap, n, a
    <3> QED BY <3>1, <3>2, <3>3
  <2> HIDE DEF piece, lap
  <2> QED BY <2>1, <2>2, <2>5 DEF piece
<1>8. Turns = FlattenSeq(seqs)
  BY DEF Turns
<1>9. FlattenSeq(seqs) = SubSeq(w, 1, cut[laps])
  <2>1. Len(seqs) = laps
    BY <1>2
  <2> HIDE DEF w, cut, seqs, laps, n
  <2>2. \A i \in 1..laps : seqs[i] = SubSeq(w, cut[i - 1] + 1, cut[i])
    BY <1>7
  <2>3. w \in Seq(Jobs)
    BY <1>5
  <2>4. cut \in [0..laps -> 0..Len(w)] /\ cut[0] = 0 /\ \A i \in 1..laps : cut[i - 1] <= cut[i]
    BY <1>6
  <2>5. laps \in Nat \ {0}
    BY <1>2
  <2>6. AreCuts(cut, w, Jobs, laps, seqs)
    BY <2>1, <2>2, <2>3, <2>4, <2>5 DEF AreCuts
  <2> QED BY <2>6, CutsMakeTheWhole
<1>10. Turns = w
  <2>1. cut[laps] = Len(w)
    <3>1. laps \in 0..laps
      BY <1>2
    <3> QED BY <1>5, <3>1
  <2> HIDE DEF w, cut, seqs
  <2> QED BY <1>5, <1>8, <1>9, <2>1, SubSeqFull
<1> HIDE DEF seqs, cut, lap
<1> QED BY <1>5, <1>10

IsRest(s, d) == s \in Seq(Jobs) /\ d \in Nat /\ \A i \in DOMAIN s : s[i] = Turn(d + i)

Of(e) == {t \in Jobs : t.engine = e}
Timed(e) == {t \in Jobs : t.engine = e /\ t.timed}

LEMMA TurnIs ==
  ASSUME NEW k
  PROVE  /\ Turn(k).engine = Engines[((k - 1) % Len(Engines)) + 1]
         /\ Turn(k).timed <=> ((k - 1) \div Len(Engines)) + 1 > WarmUps
<1> DEFINE e == Engines[((k - 1) % Len(Engines)) + 1]
           b == ((k - 1) \div Len(Engines)) + 1 > WarmUps
<1>1. Turn(k) = [engine |-> e, timed |-> b]
  BY Zenon DEF Turn
<1> HIDE DEF e, b
<1>2. Turn(k).engine = e /\ (Turn(k).timed <=> b)
  <2>1. Turn(k).engine = e
    BY <1>1
  <2>2. Turn(k).timed = b
    BY <1>1
  <2> QED BY <2>1, <2>2
<1> QED BY <1>2 DEF e, b

\* A map that takes different members to different ones is an injection.
LEMMA InjectionsAre ==
  ASSUME NEW S, NEW T, NEW f \in [S -> T], \A x, y \in S : f[x] = f[y] => x = y
  PROVE  f \in Injection(S, T)
BY DEF Injection, IsInjective

\* Which places an engine has in what is left of the walk.
LEMMA PlacesOf ==
  ASSUME family \in {"engines", "vips"}, NEW s, NEW d, IsRest(s, d), NEW i \in 1..Len(Engines)
  PROVE  /\ Len(s) \in Nat /\ DOMAIN s = 1..Len(s)
         /\ \A x \in 1..Len(s) : (d + x) - 1 \in Nat /\ s[x] = Turn(d + x)
         /\ Places(s, Of(Engines[i])) = {x \in 1..Len(s) : ((d + x) - 1) % Len(Engines) = i - 1}
<1> DEFINE n == Len(Engines)
<1>1. n \in {3, 4} /\ \A j, k \in 1..n : Engines[j] = Engines[k] => j = k
  BY EnginesAre
<1>2. s \in Seq(Jobs) /\ d \in Nat /\ Len(s) \in Nat /\ DOMAIN s = 1..Len(s)
  BY LenProperties DEF IsRest
<1>3. ASSUME NEW x \in 1..Len(s)
      PROVE  /\ (d + x) - 1 \in Nat /\ s[x] = Turn(d + x)
             /\ s[x] \in Of(Engines[i]) <=> ((d + x) - 1) % n = i - 1
  <2>1. s[x] = Turn(d + x) /\ s[x] \in Jobs
    BY <1>2, ElementOfSeq DEF IsRest
  <2> DEFINE y == (d + x) - 1
             m == y % n
  <2>2. y \in Nat /\ m \in 0..(n - 1) /\ m + 1 \in 1..n
    <3>1. y \in Nat
      BY <1>2
    <3> HIDE DEF y, n
    <3> QED BY <1>1, <3>1, SMT
  <2>3. s[x].engine = Engines[m + 1]
    <3>1. Turn(d + x).engine = Engines[(((d + x) - 1) % n) + 1]
      BY TurnIs
    <3> HIDE DEF n
    <3> QED BY <2>1, <3>1
  <2>4. s[x] \in Of(Engines[i]) <=> Engines[m + 1] = Engines[i]
    BY <2>1, <2>3 DEF Of
  <2> HIDE DEF m, n, y
  <2>5. Engines[m + 1] = Engines[i] <=> m + 1 = i
    BY <1>1, <2>2 DEF n
  <2>6. m + 1 = i <=> m = i - 1
    BY <1>1, <2>2, SMT DEF n
  <2> QED BY <2>1, <2>2, <2>4, <2>5, <2>6 DEF m, n, y
<1>4. Places(s, Of(Engines[i])) = {x \in 1..Len(s) : ((d + x) - 1) % n = i - 1}
  <2> HIDE DEF n
  <2> QED BY <1>2, <1>3 DEF Places
<1> QED BY <1>2, <1>3, <1>4

\* Whatever is left of the walk, no engine has more than one turn more in it than
\* another: all of its turns but the first come less than a lap behind one of the
\* other's.
LEMMA TurnsAreEven ==
  ASSUME family \in {"engines", "vips"}, NEW s, NEW d, IsRest(s, d),
         NEW i \in 1..Len(Engines), NEW j \in 1..Len(Engines)
  PROVE  HowMany(s, Of(Engines[i])) - HowMany(s, Of(Engines[j])) <= 1
<1> DEFINE n == Len(Engines)
           A == Places(s, Of(Engines[i]))
           B == Places(s, Of(Engines[j]))
           gap == IF i >= j THEN i - j ELSE n + i - j
           later == {x \in A : x > gap}
           before == [x \in later |-> x - gap]
<1>1. n \in {3, 4} /\ i \in 1..n /\ j \in 1..n
  BY EnginesAre
<1>2. /\ Len(s) \in Nat /\ d \in Nat
      /\ \A x \in 1..Len(s) : (d + x) - 1 \in Nat
      /\ A = {x \in 1..Len(s) : ((d + x) - 1) % n = i - 1}
      /\ B = {x \in 1..Len(s) : ((d + x) - 1) % n = j - 1}
  <2> HIDE DEF A, B
  <2>1. s \in Seq(Jobs) /\ d \in Nat
    BY DEF IsRest
  <2>2. /\ Len(s) \in Nat /\ \A x \in 1..Len(s) : (d + x) - 1 \in Nat
        /\ Places(s, Of(Engines[i])) = {x \in 1..Len(s) : ((d + x) - 1) % Len(Engines) = i - 1}
    BY PlacesOf
  <2>3. Places(s, Of(Engines[j])) = {x \in 1..Len(s) : ((d + x) - 1) % Len(Engines) = j - 1}
    BY PlacesOf
  <2> QED BY <2>1, <2>2, <2>3, Zenon DEF A, B
<1>3. gap \in 0..(n - 1)
  <2> HIDE DEF n
  <2> QED BY <1>1, SMT
<1> HIDE DEF n, A, B, gap
<1>4. ASSUME NEW x \in A, x > gap PROVE x - gap \in B
  <2> DEFINE y == (d + x) - 1
             q == y \div n
  <2>1. x \in 1..Len(s) /\ y \in Nat /\ y % n = i - 1
    BY <1>2
  <2>2. y = n * q + (i - 1) /\ q \in Int
    <3>1. n \in Nat \ {0}
      BY <1>1
    <3> HIDE DEF y
    <3>2. y = n * (y \div n) + (y % n) /\ y \div n \in Int
      BY <2>1, <3>1, DivMod
    <3> QED BY <2>1, <3>2
  <2>3. x - gap \in 1..Len(s)
    BY <1>2, <1>3, <1>4, <1>1, <2>1, SMT
  <2> DEFINE z == d + (x - gap) - 1
             lap == IF i >= j THEN q ELSE q - 1
  <2>4. z = y - gap /\ z \in Nat
    BY <1>1, <1>2, <1>3, <1>4, <2>1, SMT
  <2> HIDE DEF y, q, z
  <2>5. z = n * lap + (j - 1) /\ lap \in Nat
    <3>1. CASE n = 3
      BY <1>1, <2>2, <2>4, <3>1, SMT DEF gap
    <3>2. CASE n = 4
      BY <1>1, <2>2, <2>4, <3>2, SMT DEF gap
    <3> QED BY <1>1, <3>1, <3>2
  <2> HIDE DEF lap
  <2>6. j - 1 \in 0..(n - 1)
    BY <1>1, SMT
  <2> DEFINE r == j - 1
  <2>7. r \in 0..(n - 1) /\ z = n * lap + r
    BY <2>5, <2>6
  <2> HIDE DEF r
  <2>8. z % n = r
    <3>1. Divides(z, n, lap, r)
      BY <1>1, <2>5, <2>7 DEF Divides
    <3> QED BY <3>1, LapsAreToldApart
  <2> QED BY <1>2, <2>3, <2>8 DEF z, r
<1>5. IsFiniteSet(A) /\ IsFiniteSet(B)
  <2>1. s \in Seq(Jobs)
    BY DEF IsRest
  <2> QED BY <2>1, HowManyType DEF A, B
<1>6. before \in Injection(later, B)
  <2>1. \A x \in later : x \in Int
    BY <1>2
  <2>2. gap \in Int
    BY <1>1, <1>3
  <2>3. before \in [later -> B]
    BY <1>4
  <2>4. \A x, y \in later : before[x] = before[y] => x = y
    BY <2>1, <2>2
  <2> HIDE DEF before, later
  <2> QED BY <2>3, <2>4, InjectionsAre
<1>7. Cardinality(later) <= Cardinality(B)
  <2> HIDE DEF before, later
  <2> QED BY <1>5, <1>6, FS_Injection
<1>8. ASSUME NEW x \in A \ later, NEW y \in A \ later PROVE x = y
  <2> DEFINE a == (d + x) - 1
             b == (d + y) - 1
  <2>1. x \in 1..Len(s) /\ y \in 1..Len(s) /\ x <= gap /\ y <= gap
    BY <1>1, <1>2, <1>3
  <2>2. a \in Nat /\ b \in Nat /\ a % n = b % n
    BY <1>2
  <2>3. a < b + n /\ b < a + n
    BY <1>1, <1>2, <1>3, <2>1, SMT
  <2>4. n \in Nat \ {0}
    BY <1>1
  <2> HIDE DEF a, b
  <2>5. a = b
    BY <2>2, <2>3, <2>4, ModTells
  <2> QED BY <1>2, <2>1, <2>5, SMT DEF a, b
<1>9. Cardinality(A) <= Cardinality(later) + 1 /\ Cardinality(later) \in Nat
  <2>1. later \subseteq A
    OBVIOUS
  <2> HIDE DEF later
  <2>2. IsFiniteSet(later) /\ Cardinality(later) \in Nat
    BY <1>5, <2>1, FS_Subset, FS_CardinalityType
  <2>3. CASE A = later
    BY <2>2, <2>3
  <2>4. CASE A # later
    <3>1. PICK x : x \in A \ later
      BY <2>1, <2>4
    <3>2. A = later \cup {x}
      BY <1>8, <2>1, <3>1
    <3>3. Cardinality(later \cup {x}) = IF x \in later THEN Cardinality(later) ELSE Cardinality(later) + 1
      BY <2>2, FS_AddElement
    <3> QED BY <2>2, <3>1, <3>2, <3>3
  <2> QED BY <2>3, <2>4
<1>10. Cardinality(A) \in Nat /\ Cardinality(B) \in Nat
  BY <1>5, FS_CardinalityType
<1>11. HowMany(s, Of(Engines[i])) = Cardinality(A) /\ HowMany(s, Of(Engines[j])) = Cardinality(B)
  BY DEF HowMany, A, B
<1> HIDE DEF later
<1> QED BY <1>7, <1>9, <1>10, <1>11, SMT

\* At first an engine has as many timed turns as a cell has repetitions: no two of
\* them are in one lap.
LEMMA TimedTurns ==
  ASSUME HarnessAssumption, family \in {"engines", "vips"}, NEW e \in Range(Engines)
  PROVE  HowMany(Turns, Timed(e)) \in Nat /\ HowMany(Turns, Timed(e)) <= Iters
<1> DEFINE n == Len(Engines)
           laps == WarmUps + Iters
           A == Places(Turns, Timed(e))
           lap == [x \in A |-> (x - 1) \div n]
           B == WarmUps..(laps - 1)
<1>1. /\ n \in {3, 4} /\ n \in Nat \ {0} /\ DOMAIN Engines = 1..n
      /\ \A i, j \in 1..n : Engines[i] = Engines[j] => i = j
  <2>1. /\ n \in {3, 4} /\ DOMAIN Engines = 1..n
        /\ \A i, j \in 1..n : Engines[i] = Engines[j] => i = j
    BY EnginesAre
  <2> HIDE DEF n
  <2>2. n \in Nat \ {0}
    BY <2>1
  <2> QED BY <2>1, <2>2
<1>2. WarmUps \in Nat /\ Iters \in Nat \ {0} /\ laps \in Nat \ {0}
  BY DEF HarnessAssumption
<1>3. Turns \in Seq(Jobs) /\ Len(Turns) = laps * n /\ \A k \in 1..Len(Turns) : Turns[k] = Turn(k)
  BY TurnsGoRound
<1>4. DOMAIN Turns = 1..Len(Turns)
  BY <1>3, LenProperties
<1>5. PICK i \in 1..n : Engines[i] = e
  BY <1>1 DEF Range
<1>6. ASSUME NEW x \in A
      PROVE  /\ x - 1 \in Nat /\ (x - 1) % n = i - 1
             /\ (x - 1) \div n \in B
  <2> DEFINE y == x - 1
             q == y \div n
             m == y % n
  <2>1. x \in 1..(laps * n) /\ Turns[x] = Turn(x) /\ Turn(x).engine = e /\ Turn(x).timed
    BY <1>3, <1>4 DEF Places, Timed
  <2>2. y \in Nat /\ y < laps * n
    <3>1. laps * n \in Nat
      BY <1>1, <1>2
    <3> HIDE DEF n, laps
    <3> QED BY <2>1, <3>1, SMT
  <2>3. Engines[m + 1] = e /\ q + 1 > WarmUps
    <3>1. Turn(x).engine = Engines[((x - 1) % Len(Engines)) + 1]
          /\ (Turn(x).timed <=> ((x - 1) \div Len(Engines)) + 1 > WarmUps)
      BY TurnIs
    <3> QED BY <2>1, <3>1
  <2>4. y = n * q + m /\ q \in Int /\ m \in 0..(n - 1)
    <3> HIDE DEF y, n
    <3> QED BY <1>1, <2>2, DivMod
  <2> HIDE DEF q, m, y
  <2>5. m = i - 1
    <3> HIDE DEF n
    <3>1. m + 1 \in 1..n
      BY <1>1, <2>4, SMT
    <3>2. m + 1 = i
      BY <1>1, <1>5, <2>3, <3>1
    <3> QED BY <1>1, <2>4, <3>2, SMT
  <2>6. q <= laps - 1
    <3>1. CASE n = 3
      <4> HIDE DEF n
      <4>1. y = 3 * q + m /\ m \in 0..2 /\ y < 3 * laps
        BY <1>2, <2>2, <2>4, <3>1
      <4> HIDE DEF laps
      <4> QED BY <1>2, <2>4, <4>1, SMT
    <3>2. CASE n = 4
      <4> HIDE DEF n
      <4>1. y = 4 * q + m /\ m \in 0..3 /\ y < 4 * laps
        BY <1>2, <2>2, <2>4, <3>2
      <4> HIDE DEF laps
      <4> QED BY <1>2, <2>4, <4>1, SMT
    <3> QED BY <1>1, <3>1, <3>2
  <2>7. q >= WarmUps
    BY <1>2, <2>3, <2>4, SMT
  <2>8. q \in B
    <3> HIDE DEF laps
    <3> QED BY <1>2, <2>4, <2>6, <2>7, SMT
  <2> QED BY <2>2, <2>5, <2>8 DEF q, m, y
<1>7. ASSUME NEW x \in A, NEW y \in A, (x - 1) \div n = (y - 1) \div n PROVE x = y
  <2> DEFINE a == x - 1
             b == y - 1
  <2>1. a \in Nat /\ b \in Nat /\ a % n = b % n /\ a \div n = b \div n
    BY <1>6, <1>7
  <2>2. x \in Int /\ y \in Int
    BY <1>3, <1>4, LenProperties DEF Places
  <2> HIDE DEF n, a, b
  <2>3. a = n * (a \div n) + (a % n) /\ b = n * (b \div n) + (b % n)
    BY <1>1, <2>1, DivMod
  <2>4. a = b
    BY <2>1, <2>3
  <2> QED BY <2>2, <2>4, SMT DEF a, b
<1>8. lap \in Injection(A, B)
  <2>1. lap \in [A -> B] /\ \A x, y \in A : lap[x] = lap[y] => x = y
    <3> HIDE DEF A, B, n
    <3> QED BY <1>6, <1>7
  <2> HIDE DEF lap, A, B
  <2> QED BY <2>1, InjectionsAre
<1>9. IsFiniteSet(B) /\ Cardinality(B) = Iters
  <2>1. WarmUps \in Int /\ laps - 1 \in Int /\ ~(WarmUps > laps - 1) /\ (laps - 1) - WarmUps + 1 = Iters
    BY <1>2
  <2> HIDE DEF laps
  <2> QED BY <2>1, FS_Interval
<1>10. IsFiniteSet(A) /\ Cardinality(A) <= Iters /\ Cardinality(A) \in Nat
  <2> HIDE DEF A, B, lap
  <2> QED BY <1>8, <1>9, FS_Injection, FS_CardinalityType
<1>11. HowMany(Turns, Timed(e)) = Cardinality(A)
  BY DEF HowMany
<1> QED BY <1>10, <1>11

TurnInv ==
  /\ phase \in {"children", "scores"} =>
       /\ DOMAIN samples = Range(Engines)
       /\ \A e \in Range(Engines) : \E S : samples[e] \in Seq(S)
  /\ phase = "children" =>
       /\ \E d : IsRest(turns, d)
       /\ \A e \in Range(Engines) : Len(samples[e]) + HowMany(turns, Timed(e)) <= Iters

\* A configuration begins with all of its turns and no sample.
LEMMA TurnsBegin ==
  ASSUME HarnessAssumption, family \in {"engines", "vips"}, family' = family,
         turns' = Turns, samples' = [e \in Range(Engines) |-> <<>>]
  PROVE  TurnInv'
<1>1. Engines' = Engines
  BY DEF Engines, LIBVIPRS_ENGINES
<1>2. Turns \in Seq(Jobs) /\ \A k \in 1..Len(Turns) : Turns[k] = Turn(k)
  BY TurnsGoRound
<1>3. IsRest(Turns, 0)
  <2>1. DOMAIN Turns = 1..Len(Turns) /\ Len(Turns) \in Nat
    BY <1>2, LenProperties
  <2>2. \A k \in 1..Len(Turns) : 0 + k = k
    BY <2>1
  <2> QED BY <1>2, <2>1, <2>2 DEF IsRest
<1>4. IsRest(turns, 0)'
  BY <1>1, <1>3 DEF IsRest, Turn
<1>5. ASSUME NEW e \in Range(Engines)
      PROVE  samples'[e] = <<>> /\ HowMany(Turns, Timed(e)) \in Nat /\ HowMany(Turns, Timed(e)) <= Iters
  BY TimedTurns
<1>6. \A e \in Range(Engines) : Len(samples'[e]) + HowMany(turns', Timed(e)) <= Iters
  <2>1. Len(<<>>) = 0 /\ Iters \in Nat
    BY DEF HarnessAssumption
  <2> QED BY <1>5, <2>1
<1>7. DOMAIN samples' = Range(Engines) /\ \A e \in Range(Engines) : \E S : samples'[e] \in Seq(S)
  BY <1>5, EmptySeq
<1>8. Range(Engines)' = Range(Engines)
  BY <1>1
<1>9. (\E d : IsRest(turns, d))'
  BY <1>4
<1> QED BY <1>6, <1>7, <1>8, <1>9 DEF TurnInv, HowMany, Places, Timed

\* A child takes a turn, and leaves at most one sample, of a timed one.
LEMMA SpawnTakesATurn ==
  ASSUME ShapeInv, TurnInv, SpawnSingleCell
  PROVE  TurnInv'
<1> DEFINE job == Head(turns)
           e == job.engine
<1>1. turns # <<>> /\ turns' = Tail(turns) /\ phase = "children" /\ phase' = phase /\ family' = family
  BY Zenon DEF SpawnSingleCell, host
<1>2. \/ samples' = samples
      \/ job.timed /\ \E m : samples' = [samples EXCEPT ![e] = Append(@, m)]
  <2>1. PICK killed \in BOOLEAN, reaped \in BOOLEAN :
          \E m \in RunSingleCell(e) :
            LET answer == IF m = Null \/ ~reaped THEN m ELSE [m EXCEPT !.rss = "parent"]
            IN  samples' = IF job.timed /\ answer # Null
                           THEN [samples EXCEPT ![e] = Append(@, answer)] ELSE samples
    BY Zenon DEF SpawnSingleCell
  <2> QED BY <2>1
<1>3. Engines' = Engines
  BY <1>1 DEF Engines, LIBVIPRS_ENGINES
<1>4. PICK d : IsRest(turns, d)
  BY <1>1 DEF TurnInv
<1>5. turns \in Seq(Jobs) /\ d \in Nat /\ DOMAIN turns = 1..Len(turns) /\ Len(turns) \in Nat
  BY <1>4, LenProperties DEF IsRest
<1>6. /\ job \in Jobs /\ Tail(turns) \in Seq(Jobs) /\ Len(Tail(turns)) = Len(turns) - 1
      /\ \A i \in 1..Len(Tail(turns)) : Tail(turns)[i] = turns[i + 1]
      /\ DOMAIN Tail(turns) = 1..Len(Tail(turns))
  BY <1>1, <1>5, HeadTailProperties, LenProperties
<1>7. IsRest(turns, d + 1)'
  <2>1. ASSUME NEW i \in 1..Len(Tail(turns)) PROVE Tail(turns)[i] = Turn((d + 1) + i)
    <3>1. i + 1 \in 1..Len(turns) /\ d + (i + 1) = (d + 1) + i
      BY <1>5, <1>6
    <3> QED BY <1>4, <1>5, <1>6, <3>1 DEF IsRest
  <2>2. \A i \in 1..Len(Tail(turns)) : Turn((d + 1) + i)' = Turn((d + 1) + i)
    BY <1>3 DEF Turn
  <2>3. d + 1 \in Nat
    BY <1>5
  <2> QED BY <1>1, <1>6, <2>1, <2>2, <2>3 DEF IsRest
<1>8. ASSUME NEW f \in Range(Engines)
      PROVE  /\ \E S : samples'[f] \in Seq(S)
             /\ Len(samples'[f]) + HowMany(turns', Timed(f)) <= Iters
  <2>1. PICK S : samples[f] \in Seq(S)
    BY <1>1 DEF TurnInv
  <2> DEFINE l == Len(samples[f])
             h == HowMany(Tail(turns), Timed(f))
  <2>2. l \in Nat /\ h \in Nat /\ Iters \in Nat
    BY <1>6, <2>1, HarnessAssumption, LenProperties, HowManyType DEF HarnessAssumption
  <2>3. HowMany(turns, Timed(f)) = (IF job \in Timed(f) THEN 1 ELSE 0) + h
    BY <1>1, <1>5, HowManyInTail
  <2>4. l + HowMany(turns, Timed(f)) <= Iters
    BY <1>1 DEF TurnInv
  <2>5. CASE samples' = samples
    <3>1. l + h <= Iters
      <4> HIDE DEF l, h, job
      <4> QED BY <2>2, <2>3, <2>4
    <3> QED BY <1>1, <2>1, <2>5, <3>1
  <2>6. ASSUME job.timed, NEW m, samples' = [samples EXCEPT ![e] = Append(@, m)]
        PROVE  /\ \E Q : samples'[f] \in Seq(Q)
               /\ Len(samples'[f]) + HowMany(turns', Timed(f)) <= Iters
    <3>1. DOMAIN samples = Range(Engines)
      BY <1>1 DEF TurnInv
    <3>2. CASE f = e
      <4>1. samples'[f] = Append(samples[f], m)
        BY <2>6, <3>1, <3>2
      <4>2. samples[f] \in Seq(S \cup {m})
        BY <2>1, SeqMonotonic
      <4>3. samples'[f] \in Seq(S \cup {m}) /\ Len(samples'[f]) = l + 1
        BY <4>1, <4>2, AppendProperties
      <4>4. job \in Timed(f)
        BY <1>6, <2>6, <3>2 DEF Timed
      <4>5. (l + 1) + h <= Iters
        <5> HIDE DEF l, h, job
        <5> QED BY <2>2, <2>3, <2>4, <4>4
      <4> QED BY <1>1, <4>3, <4>5
    <3>3. CASE f # e
      <4>1. samples'[f] = samples[f]
        BY <2>6, <3>1, <3>3
      <4>2. l + h <= Iters
        <5> HIDE DEF l, h, job
        <5> QED BY <2>2, <2>3, <2>4
      <4> QED BY <1>1, <2>1, <4>1, <4>2
    <3> QED BY <3>2, <3>3
  <2> QED BY <1>2, <2>5, <2>6
<1>9. DOMAIN samples' = Range(Engines)
  BY <1>1, <1>2 DEF TurnInv
<1>10. Range(Engines)' = Range(Engines)
  BY <1>3
<1>11. (\E x : IsRest(turns, x))'
  BY <1>7
<1> QED BY <1>8, <1>9, <1>10, <1>11 DEF TurnInv, HowMany, Places, Timed

LEMMA TurnStep ==
  ASSUME HarnessAssumption, ShapeInv, TurnInv, SuiteNext
  PROVE  TurnInv'
<1>1. CASE BuildReference
  BY <1>1, TurnsBegin DEF BuildReference, host, ShapeInv
<1>2. CASE SpawnSingleCell
  BY <1>2, SpawnTakesATurn
<1>3. ASSUME UNCHANGED <<family, samples>>, phase' # "children", phase \in {"children", "scores"}
      PROVE  TurnInv'
  <2>1. Range(Engines)' = Range(Engines)
    BY <1>3 DEF Engines, LIBVIPRS_ENGINES
  <2> QED BY <1>3, <2>1 DEF TurnInv
<1>4. CASE EndOfTurns
  BY <1>3, <1>4 DEF EndOfTurns, host
<1>5. CASE Unscored
  BY <1>3, <1>5 DEF Unscored, Done, host
<1>6. CASE Score
  <2>1. UNCHANGED <<family, samples>> /\ phase = "scores" /\ phase' = phase
    BY <1>6, Zenon DEF Score, Done, host
  <2> QED BY <1>3, <2>1
<1>7. ASSUME phase' \notin {"children", "scores"} PROVE TurnInv'
  BY <1>7 DEF TurnInv
<1>8. CASE NextConfiguration
  <2>1. CASE conc < Len(Concurrency)
    BY <1>8, <2>1, TurnsBegin DEF NextConfiguration, host, ShapeInv
  <2>2. CASE ~(conc < Len(Concurrency))
    <3>1. phase' \notin {"children", "scores"}
      BY <1>8, <2>2 DEF NextConfiguration
    <3> QED BY <1>7, <3>1
  <2> QED BY <2>1, <2>2
<1>9. CASE WriteOutput \/ AppendHistory
  BY <1>7, <1>9 DEF WriteOutput, AppendHistory
<1> QED BY <1>1, <1>2, <1>4, <1>5, <1>6, <1>8, <1>9, Zenon DEF SuiteNext

\* TurnsAlternate (run_isolated_suite): in every state of the walk, for any number
\* of repetitions, no engine has more than one turn more to come than another, and
\* the samples an engine has and its timed turns to come are at most the repetitions.
THEOREM TurnsAreTaken == SuiteSpec => []TurnsAlternate
<1>1. SuiteInit => ShapeInv /\ TurnInv
  BY HarnessAssumption, ShapeStart DEF SuiteInit, TurnInv
<1>2. ShapeInv /\ TurnInv /\ [SuiteNext]_suiteVars => (ShapeInv /\ TurnInv)'
  <2> SUFFICES ASSUME ShapeInv, TurnInv, [SuiteNext]_suiteVars PROVE (ShapeInv /\ TurnInv)'
    OBVIOUS
  <2>1. CASE SuiteNext
    BY <2>1, HarnessAssumption, NullAssumption, ShapeStep, TurnStep
  <2>2. CASE UNCHANGED suiteVars
    BY <2>2 DEF suiteVars, ShapeInv, TurnInv, IsRest, Turn, Engines, LIBVIPRS_ENGINES
  <2> QED BY <2>1, <2>2
<1>3. ShapeInv /\ TurnInv => TurnsAlternate
  <2> SUFFICES ASSUME ShapeInv, TurnInv, phase = "children", NEW e \in Range(Engines), NEW f \in Range(Engines)
               PROVE  /\ Cardinality({i \in DOMAIN turns : turns[i].engine = e})
                         - Cardinality({i \in DOMAIN turns : turns[i].engine = f}) <= 1
                      /\ Len(samples[e]) + Cardinality({i \in DOMAIN turns : turns[i].engine = e /\ turns[i].timed}) <= Iters
    BY DEF TurnsAlternate
  <2>1. PICK d : IsRest(turns, d)
    BY DEF TurnInv
  <2>2. PICK i \in 1..Len(Engines), j \in 1..Len(Engines) : Engines[i] = e /\ Engines[j] = f
    BY EnginesAre DEF Range, ShapeInv
  <2>3. HowMany(turns, Of(e)) - HowMany(turns, Of(f)) <= 1
    BY <2>1, <2>2, TurnsAreEven DEF ShapeInv
  <2>4. \A x \in DOMAIN turns : turns[x] \in Jobs
    BY <2>1, ElementOfSeq, LenProperties DEF IsRest
  <2>5. ASSUME NEW g
        PROVE  /\ HowMany(turns, Of(g)) = Cardinality({x \in DOMAIN turns : turns[x].engine = g})
               /\ HowMany(turns, Timed(g)) = Cardinality({x \in DOMAIN turns : turns[x].engine = g /\ turns[x].timed})
    <3>1. Places(turns, Of(g)) = {x \in DOMAIN turns : turns[x].engine = g}
      BY <2>4 DEF Places, Of
    <3>2. Places(turns, Timed(g)) = {x \in DOMAIN turns : turns[x].engine = g /\ turns[x].timed}
      BY <2>4 DEF Places, Timed
    <3> QED BY <3>1, <3>2 DEF HowMany
  <2>6. Len(samples[e]) + HowMany(turns, Timed(e)) <= Iters
    BY DEF TurnInv
  <2> QED BY <2>3, <2>5, <2>6
<1> QED BY <1>1, <1>2, <1>3, PTL DEF SuiteSpec

-----------------------------------------------------------------------------
(* The gate. *)

Metric ==
  [by : Labels, wall : {1, 2}, rss : {"own", "parent"}, path : {"engine", "ffi", "cli"}, grid : Seq(Nat)]

\* How many tiles a level has is a number.
LEMMA CountsAre ==
  ASSUME HarnessAssumption, NEW pyramid \in Seq(AnyLevel)
  PROVE  Counts(pyramid) \in Seq(Nat) /\ Len(Counts(pyramid)) = Len(pyramid)
<1> DEFINE there(k) == {p \in DOMAIN pyramid[k] : pyramid[k][p] # "absent"}
           n == Len(pyramid)
<1>1. n \in Nat /\ DOMAIN pyramid = 1..n
  BY LenProperties
<1>2. ASSUME NEW k \in 1..n PROVE Cardinality(there(k)) \in Nat
  <2>1. pyramid[k] \in AnyLevel
    BY ElementOfSeq
  <2>2. PICK c \in Nat \ {0}, r \in Nat \ {0} : pyramid[k] \in [Positions(c, r) -> Tile]
    BY <2>1, LevelsHaveAShape
  <2>3. IsFiniteSet(Positions(c, r))
    <3>1. c - 1 \in Int /\ r - 1 \in Int /\ 0 \in Int
      OBVIOUS
    <3>2. IsFiniteSet(0..(c - 1)) /\ IsFiniteSet(0..(r - 1))
      <4> DEFINE x == c - 1
                 y == r - 1
      <4> HIDE DEF x, y
      <4>1. IsFiniteSet(0..x) /\ IsFiniteSet(0..y)
        BY <3>1, FS_Interval DEF x, y
      <4> QED BY <4>1 DEF x, y
    <3> QED BY <3>2, FS_Product DEF Positions
  <2>4. there(k) \in SUBSET Positions(c, r)
    BY <2>2
  <2> HIDE DEF there
  <2> QED BY <2>3, <2>4, FS_Subset, FS_CardinalityType
<1> DEFINE cs == [k \in 1..n |-> Cardinality(there(k))]
<1>3. Counts(pyramid) = cs
  BY <1>1 DEF Counts
<1>4. cs \in [1..n -> Nat]
  BY <1>2
<1> HIDE DEF n, cs
<1>5. cs \in Seq(Nat) /\ Len(cs) = n
  <2>1. cs \in Seq(Nat)
    BY <1>1, <1>4, SeqDef
  <2> QED BY <1>1, <1>4, <2>1, LenProperties
<1> QED BY <1>3, <1>5 DEF n

\* What a child says is a record of its kind, or nothing.
LEMMA ChildrenSayMetrics ==
  ASSUME HarnessAssumption, ShapeInv, NEW e \in Labels, NEW m \in RunSingleCell(e)
  PROVE  m = Null \/ m \in Metric
<1> DEFINE own == Counts(Planned)
           apex == Counts(FromVips)
<1>1. /\ own \in Seq(Nat) /\ own # <<>>
      /\ apex \in Seq(Nat) /\ Len(apex) \in Nat \ {0}
  <2>1. /\ Planned \in Seq(AnyLevel) /\ FromVips \in Seq(AnyLevel) /\ Len(Planned) \in Nat \ {0}
        /\ FromVips = <<Level(1, 1, "right")>> \o Planned
    BY LevelsOfAPlan DEF ShapeInv
  <2>2. own \in Seq(Nat) /\ Len(own) = Len(Planned) /\ apex \in Seq(Nat) /\ Len(apex) = Len(FromVips)
    BY <2>1, CountsAre
  <2>3. FromVips # <<>>
    <3>1. <<Level(1, 1, "right")>> \in Seq({Level(1, 1, "right")} \cup AnyLevel) /\ Planned \in Seq({Level(1, 1, "right")} \cup AnyLevel)
      BY <2>1, SeqMonotonic
    <3> HIDE DEF own, apex
    <3> QED BY <2>1, <3>1, ConcatSimplifications, EmptySeq
  <2>4. Len(FromVips) \in Nat \ {0}
    BY <2>1, <2>3, EmptySeq
  <2>5. own # <<>>
    BY <2>1, <2>2
  <2> QED BY <2>2, <2>4, <2>5
<1> HIDE DEF own, apex
<1>2. Tail(own) \in Seq(Nat) /\ [apex EXCEPT ![1] = 4] \in Seq(Nat)
  <2>1. 1 \in 1..Len(apex)
    BY <1>1
  <2> QED BY <1>1, <2>1, HeadTailProperties, ExceptSeq
<1>3. ASSUME NEW label \in Labels, NEW path \in {"engine", "ffi", "cli"}, NEW grid \in Seq(Nat)
      PROVE  Ran(label, path, grid) \subseteq Metric
  <2>1. \A g \in {grid, apex, Tail(own), [apex EXCEPT ![1] = 4]} : g \in Seq(Nat)
    BY <1>1, <1>2
  <2>2. \A w \in {1, 2} : \A g \in {grid, apex, Tail(own), [apex EXCEPT ![1] = 4]} :
          [by |-> label, wall |-> w, rss |-> "own", path |-> path, grid |-> g] \in Metric
    BY <2>1 DEF Metric
  <2>3. Ran(label, path, grid) =
          {[by |-> label, wall |-> w, rss |-> "own", path |-> path, grid |-> g] :
             w \in {1, 2}, g \in {grid, apex, Tail(own), [apex EXCEPT ![1] = 4]}}
    BY DEF Ran, own, apex
  <2> DEFINE grids == {grid, apex, Tail(own), [apex EXCEPT ![1] = 4]}
             said(w, g) == [by |-> label, wall |-> w, rss |-> "own", path |-> path, grid |-> g]
  <2>4. Ran(label, path, grid) = {said(w, g) : w \in {1, 2}, g \in grids}
    BY <2>3
  <2>5. \A w \in {1, 2} : \A g \in grids : said(w, g) \in Metric
    BY <2>2
  <2> HIDE DEF grids, said
  <2> QED BY <2>4, <2>5, SMTT(30)
<1>4. RunSingleCell(e) \subseteq {Null} \cup Metric
  <2>1. CASE e = "monolithic"
    BY <1>1, <1>3, <2>1 DEF RunSingleCell, BenchMonolithic, Labels, own
  <2>2. CASE e = "streaming"
    BY <1>1, <1>3, <2>2 DEF RunSingleCell, BenchStreaming, Labels, own
  <2>3. CASE e = "mapreduce"
    BY <1>1, <1>3, <2>3 DEF RunSingleCell, BenchMapreduce, Labels, own
  <2>4. CASE e = "libvips"
    BY <1>1, <1>3, <2>4 DEF RunSingleCell, BenchLibvips, BenchLibvipsInprocess, Labels, apex
  <2> QED BY <2>1, <2>2, <2>3, <2>4 DEF Labels
<1> QED BY <1>4

\* A sequence of samples has a k-th shortest wall time.
LEMMA WallIs ==
  ASSUME NEW s \in Seq(Metric), NEW k \in 1..Len(s)
  PROVE  Wall(s, k) \in {1, 2}
<1> DEFINE upto(w) == {i \in DOMAIN s : s[i].wall <= w}
           under(w) == {i \in DOMAIN s : s[i].wall < w}
           W == {s[i].wall : i \in DOMAIN s}
<1>1. /\ Len(s) \in Nat /\ DOMAIN s = 1..Len(s)
      /\ \A i \in DOMAIN s : s[i].wall \in {1, 2}
  <2>1. Len(s) \in Nat /\ DOMAIN s = 1..Len(s)
    BY LenProperties
  <2>2. \A i \in DOMAIN s : s[i] \in Metric
    BY <2>1, ElementOfSeq
  <2>3. \A m \in Metric : m.wall \in {1, 2}
    BY DEF Metric
  <2> QED BY <2>1, <2>2, <2>3
<1>2. W \subseteq {1, 2} /\ k \in Nat /\ k >= 1 /\ k <= Len(s)
  BY <1>1
<1>3. IsFiniteSet(DOMAIN s) /\ Cardinality(DOMAIN s) = Len(s)
  <2> DEFINE n == Len(s)
  <2> HIDE DEF n
  <2>1. n \in Int /\ 1 \in Int /\ (1 > n => n = 0) /\ n - 1 + 1 = n
    BY <1>1 DEF n
  <2>2. IsFiniteSet(1..n) /\ Cardinality(1..n) = IF 1 > n THEN 0 ELSE n - 1 + 1
    BY <2>1, FS_Interval
  <2> QED BY <1>1, <2>1, <2>2 DEF n
<1>4. under(1) = {} /\ upto(2) = DOMAIN s /\ upto(1) = under(2)
  BY <1>1, SMTT(30)
<1>5. Cardinality({}) = 0
  BY FS_EmptySet
<1>6. Cardinality(upto(1)) \in Nat
  <2>1. upto(1) \in SUBSET DOMAIN s
    OBVIOUS
  <2> HIDE DEF upto
  <2> QED BY <1>3, <2>1, FS_Subset, FS_CardinalityType
<1>7. \E w \in W : Cardinality(under(w)) < k /\ Cardinality(upto(w)) >= k
  <2>1. CASE Cardinality(upto(1)) >= k
    <3>1. upto(1) # {}
      <4> HIDE DEF upto
      <4>1. Cardinality(upto(1)) # 0
        BY <1>2, <1>6, <2>1
      <4> QED BY <1>5, <4>1
    <3>2. 1 \in W
      BY <1>1, <3>1
    <3> HIDE DEF W, upto, under
    <3>3. Cardinality(under(1)) < k
      BY <1>2, <1>4, <1>5
    <3> QED BY <2>1, <3>2, <3>3
  <2>2. CASE Cardinality(upto(1)) < k
    <3>1. upto(1) # DOMAIN s
      BY <1>2, <1>3, <2>2
    <3>2. 2 \in W
      BY <1>1, <3>1
    <3> HIDE DEF W, upto, under
    <3>3. Cardinality(under(2)) < k /\ Cardinality(upto(2)) >= k
      BY <1>2, <1>3, <1>4, <2>2
    <3> QED BY <3>2, <3>3
  <2>3. Cardinality(upto(1)) >= k \/ Cardinality(upto(1)) < k
    <3> HIDE DEF upto
    <3> QED BY <1>2, <1>6
  <2> HIDE DEF W, upto, under
  <2> QED BY <2>1, <2>2, <2>3
<1>8. Wall(s, k) \in W
  BY <1>7 DEF Wall
<1> QED BY <1>2, <1>8

\* The sample that stands for a row is one of the row's.
LEMMA RepresentativeIsOne ==
  ASSUME NEW s \in Seq(Metric), s # <<>>
  PROVE  Representative(s) \in Metric
<1> DEFINE n == Len(s)
           med == Median2(s)
           off(i) == Off(s[i], s)
           nearest(i) == \A j \in DOMAIN s : off(i) < off(j) \/ (off(i) = off(j) /\ i <= j)
<1>1. n \in Nat \ {0} /\ DOMAIN s = 1..n /\ \A i \in 1..n : s[i] \in Metric
  BY EmptySeq, LenProperties, ElementOfSeq
<1>2. med \in Nat
  <2> DEFINE a == (n + 1) \div 2
             b == (n \div 2) + 1
  <2>1. a \in 1..n /\ b \in 1..n
    <3> HIDE DEF n
    <3> QED BY <1>1, SMT
  <2>2. Wall(s, a) \in {1, 2} /\ Wall(s, b) \in {1, 2}
    <3> HIDE DEF a, b
    <3> QED BY <2>1, WallIs
  <2> QED BY <2>2 DEF Median2
<1>3. ASSUME NEW i \in 1..n PROVE off(i) \in Nat
  <2>1. s[i].wall \in Nat
    BY <1>1, SMTT(30) DEF Metric
  <2> HIDE DEF n
  <2> QED BY <1>2, <2>1 DEF Off
<1> HIDE DEF off, med
<1>4. PICK v \in {off(i) : i \in 1..n} : \A x \in {off(i) : i \in 1..n} : v <= x
  <2> DEFINE V == {off(i) : i \in 1..n}
  <2>1. V \in SUBSET Nat
    <3> HIDE DEF n
    <3> QED BY <1>3
  <2>2. off(1) \in V
    BY <1>1
  <2> HIDE DEF V
  <2>3. \E v \in V : \A x \in V : v <= x
    BY <2>1, <2>2, Least
  <2> QED BY <2>3 DEF V
<1> HIDE DEF n
<1>5. PICK i \in {j \in 1..n : off(j) = v} : \A j \in {l \in 1..n : off(l) = v} : i <= j
  <2> DEFINE J == {j \in 1..n : off(j) = v}
  <2>1. J \in SUBSET Nat /\ J # {}
    BY <1>1, <1>4
  <2> HIDE DEF J
  <2>2. \E i \in J : \A j \in J : i <= j
    BY <2>1, Least
  <2> QED BY <2>2 DEF J
<1>6. nearest(i)
  <2>1. ASSUME NEW j \in 1..n PROVE off(i) < off(j) \/ (off(i) = off(j) /\ i <= j)
    <3>1. off(i) = v /\ v <= off(j) /\ off(i) \in Nat /\ off(j) \in Nat
      BY <1>3, <1>4, <1>5
    <3>2. CASE off(j) = v
      BY <1>5, <3>1, <3>2
    <3>3. CASE off(j) # v
      BY <3>1, <3>3
    <3> QED BY <3>2, <3>3
  <2> QED BY <1>1, <2>1
<1>7. Representative(s) = s[CHOOSE x \in DOMAIN s : nearest(x)]
  BY Zenon DEF Representative, off
<1>8. (CHOOSE x \in DOMAIN s : nearest(x)) \in DOMAIN s
  <2>1. i \in DOMAIN s
    BY <1>1, <1>5
  <2> HIDE DEF nearest
  <2> QED BY <1>6, <2>1
<1> QED BY <1>1, <1>7, <1>8

\* A configuration the gate says nothing of did the same work.
SameWork(cell) ==
  \A r \in Range(cell), s \in Range(cell) :
    r.rep.grid # <<>> /\ s.rep.grid # <<>> =>
      \/ r.rep.grid = s.rep.grid
      \/ r.engine = "libvips" /\ r.rep.grid = <<1>> \o s.rep.grid
      \/ s.engine = "libvips" /\ s.rep.grid = <<1>> \o r.rep.grid

\* An apex on top of a pyramid is that.
LEMMA ApexIsOnTop ==
  ASSUME NEW g \in Seq(Nat), NEW ref, g # <<>>, IsApexExtended(ref, g)
  PROVE  g = <<1>> \o ref
<1>1. g[1] = 1 /\ Tail(g) = ref
  BY DEF IsApexExtended
<1>2. ref \in Seq(Nat) /\ Len(ref) = Len(g) - 1 /\ \A i \in 1..Len(ref) : ref[i] = g[i + 1]
  BY <1>1, HeadTailProperties
<1>3. Len(g) \in Nat \ {0}
  BY EmptySeq
<1>4. <<1>> \in Seq(Nat) /\ Len(<<1>>) = 1 /\ <<1>>[1] = 1
  OBVIOUS
<1> DEFINE h == <<1>> \o ref
<1>5. /\ h \in Seq(Nat) /\ Len(h) = 1 + Len(ref)
      /\ \A i \in 1..(1 + Len(ref)) : h[i] = IF i <= 1 THEN <<1>>[i] ELSE ref[i - 1]
  BY <1>2, <1>4, ConcatProperties
<1> HIDE DEF h
<1>6. Len(h) = Len(g)
  BY <1>2, <1>3, <1>5
<1>7. ASSUME NEW i \in 1..Len(g) PROVE g[i] = h[i]
  <2>1. CASE i = 1
    BY <1>1, <1>2, <1>3, <1>4, <1>5, <2>1
  <2>2. CASE i # 1
    <3>1. i - 1 \in 1..Len(ref) /\ (i - 1) + 1 = i /\ i \in 1..(1 + Len(ref)) /\ ~(i <= 1)
      BY <1>2, <1>3, <2>2
    <3> QED BY <1>2, <1>5, <3>1
  <2> QED BY <2>1, <2>2
<1>8. g = h
  BY <1>5, <1>6, <1>7, SeqEqual
<1> QED BY <1>8 DEF h

LEMMA SilenceMeansSameWork ==
  ASSUME NEW C, NEW cell \in Seq(C), \A r \in C : r.rep.grid \in Seq(Nat), Unequal(cell) = {}
  PROVE  SameWork(cell)
<1> DEFINE gridded == Sifted(cell, {r \in Range(cell) : r.rep.grid # <<>>})
           own == Sifted(gridded, {r \in Range(gridded) : r.engine # "libvips"})
           ref == IF own # <<>> THEN own[1].rep.grid ELSE gridded[1].rep.grid
           odd == {r.engine : r \in {g \in Range(gridded) :
                     /\ g.rep.grid # ref
                     /\ ~(g.engine = "libvips" /\ IsApexExtended(ref, g.rep.grid))}}
<1>1. Unequal(cell) = IF gridded = <<>> THEN {} ELSE odd
  BY Zenon DEF Unequal
<1>2. Range(gridded) = Range(cell) \cap {r \in Range(cell) : r.rep.grid # <<>>}
  <2> DEFINE P == {r \in Range(cell) : r.rep.grid # <<>>}
  <2> HIDE DEF P
  <2>1. Pairwise(cell, C \X C)
    BY ElementOfSeq, LenProperties DEF Pairwise
  <2>2. Range(Sifted(cell, P)) = Range(cell) \cap P
    BY <2>1, SiftKeeps
  <2> QED BY <2>2 DEF P
<1> HIDE DEF gridded, ref
<1>3. \A r \in Range(cell) : r.rep.grid \in Seq(Nat)
  BY ElementOfSeq, LenProperties DEF Range
<1>4. ASSUME NEW r \in Range(cell), r.rep.grid # <<>>
      PROVE  \/ r.rep.grid = ref
             \/ r.engine = "libvips" /\ r.rep.grid = <<1>> \o ref
  <2>1. r \in Range(gridded)
    BY <1>2, <1>4
  <2>2. gridded # <<>>
    BY <2>1 DEF Range
  <2>3. odd = {}
    BY <1>1, <2>2
  <2>4. ~(/\ r.rep.grid # ref
          /\ ~(r.engine = "libvips" /\ IsApexExtended(ref, r.rep.grid)))
    BY <2>1, <2>3
  <2> QED BY <1>3, <1>4, <2>4, ApexIsOnTop
<1> QED BY <1>4 DEF SameWork

\* A row before it is scored.
IsNew(r) == r.psnr = Null /\ r.from = <<>> /\ {"psnr", "from", "against"} \subseteq DOMAIN r

\* A row is an aggregate of samples its engine has.
LEMMA AggregatesAre ==
  ASSUME family \in {"engines", "vips"}, \A e \in Range(Engines) : samples[e] \in Seq(Metric)
  PROVE  \E C : Aggregated \in Seq(C) /\ \A r \in C : r.rep.grid \in Seq(Nat) /\ IsNew(r)
<1> DEFINE P == {e \in Range(Engines) : samples[e] # <<>>}
           heard == Sifted(Engines, P)
           C == {Aggregate(e) : e \in P}
<1>1. heard \in Seq(Labels) /\ Range(heard) = Range(Engines) \cap P
  <2> HIDE DEF P
  <2>1. Engines \in Seq(Labels)
    BY EnginesAre
  <2>2. Pairwise(Engines, Labels \X Labels)
    BY <2>1, ElementOfSeq, LenProperties DEF Pairwise
  <2> QED BY <2>1, <2>2, SiftKeeps
<1>2. Len(heard) \in Nat /\ DOMAIN heard = 1..Len(heard)
  BY <1>1, LenProperties
<1>3. \A i \in DOMAIN heard : heard[i] \in P
  BY <1>1 DEF Range
<1>4. Aggregated = [i \in DOMAIN heard |-> Aggregate(heard[i])]
  BY Zenon DEF Aggregated
<1>5. Aggregated \in Seq(C)
  <2> DEFINE n == Len(heard)
  <2>1. n \in Nat /\ DOMAIN heard = 1..n
    BY <1>2
  <2> HIDE DEF n, heard, P
  <2>2. \A i \in 1..n : Aggregate(heard[i]) \in C
    BY <1>3, <2>1
  <2> HIDE DEF C
  <2>3. Aggregated \in [1..n -> C]
    BY <1>4, <2>1, <2>2
  <2> QED BY <2>1, <2>3, SeqDef
<1>6. ASSUME NEW e \in P PROVE Aggregate(e).rep.grid \in Seq(Nat)
  <2>1. Aggregate(e).rep = Representative(samples[e])
    BY DEF Aggregate
  <2>2. Representative(samples[e]) \in Metric
    BY <1>6, RepresentativeIsOne
  <2> QED BY <2>1, <2>2 DEF Metric
<1>7. ASSUME NEW e \in P PROVE IsNew(Aggregate(e))
  BY DEF Aggregate, IsNew
<1> QED BY <1>5, <1>6, <1>7

\* The samples are metrics, and what the gate spoke of is what it would speak of now.
GateInv ==
  /\ phase \in {"children", "scores"} =>
       DOMAIN samples = Range(Engines) /\ \A e \in Range(Engines) : samples[e] \in Seq(Metric)
  /\ phase = "scores" => warned = Unequal(Aggregated)

LEMMA GateBegins ==
  ASSUME family' = family, samples' = [e \in Range(Engines) |-> <<>>], phase' # "scores"
  PROVE  GateInv'
<1>1. Range(Engines)' = Range(Engines)
  BY DEF Engines, LIBVIPRS_ENGINES
<1>2. DOMAIN samples' = Range(Engines) /\ \A e \in Range(Engines) : samples'[e] = <<>>
  OBVIOUS
<1>3. <<>> \in Seq(Metric)
  BY EmptySeq
<1> QED BY <1>1, <1>2, <1>3 DEF GateInv, Metric, Labels

LEMMA SamplesAreMetrics ==
  ASSUME HarnessAssumption, ShapeInv, TurnInv, GateInv, SpawnSingleCell
  PROVE  GateInv'
<1> DEFINE job == Head(turns)
           e == job.engine
           answer(m, reaped) == IF m = Null \/ ~reaped THEN m ELSE [m EXCEPT !.rss = "parent"]
<1>1. turns # <<>> /\ phase = "children" /\ phase' = phase /\ family' = family
  BY Zenon DEF SpawnSingleCell, host
<1>2. PICK killed \in BOOLEAN, reaped \in BOOLEAN :
        \E m \in RunSingleCell(e) :
          samples' = IF job.timed /\ answer(m, reaped) # Null
                     THEN [samples EXCEPT ![e] = Append(@, answer(m, reaped))] ELSE samples
  BY Zenon DEF SpawnSingleCell
<1>3. PICK m \in RunSingleCell(e) :
        samples' = IF job.timed /\ answer(m, reaped) # Null
                   THEN [samples EXCEPT ![e] = Append(@, answer(m, reaped))] ELSE samples
  BY <1>2
<1>4. e \in Labels
  <2>1. PICK d : IsRest(turns, d)
    BY <1>1 DEF TurnInv
  <2>2. job \in Jobs
    BY <1>1, <2>1, HeadTailProperties DEF IsRest
  <2> QED BY <2>2 DEF Jobs
<1>5. m = Null \/ m \in Metric
  BY <1>4, ChildrenSayMetrics
<1>6. answer(m, reaped) # Null => answer(m, reaped) \in Metric
  <2>1. CASE m = Null
    BY <2>1
  <2>2. CASE m # Null
    <3>1. m \in Metric /\ [m EXCEPT !.rss = "parent"] \in Metric
      BY <1>5, <2>2 DEF Metric
    <3> QED BY <2>2, <3>1
  <2> QED BY <2>1, <2>2
<1> HIDE DEF answer
<1>7. DOMAIN samples = Range(Engines) /\ \A f \in Range(Engines) : samples[f] \in Seq(Metric)
  BY <1>1 DEF GateInv
<1>8. DOMAIN samples' = DOMAIN samples
  BY <1>3
<1>9. ASSUME NEW f \in Range(Engines) PROVE samples'[f] \in Seq(Metric)
  <2>1. CASE samples' = samples
    BY <1>7, <2>1
  <2>2. CASE /\ answer(m, reaped) # Null
             /\ samples' = [samples EXCEPT ![e] = Append(@, answer(m, reaped))]
    <3>1. CASE f = e
      <4>1. samples'[f] = Append(samples[f], answer(m, reaped))
        BY <1>7, <2>2, <3>1
      <4> QED BY <1>6, <1>7, <2>2, <4>1, AppendProperties
    <3>2. CASE f # e
      BY <1>7, <2>2, <3>2
    <3> QED BY <3>1, <3>2
  <2> QED BY <1>3, <2>1, <2>2
<1>10. Range(Engines)' = Range(Engines)
  BY <1>1 DEF Engines, LIBVIPRS_ENGINES
<1> QED BY <1>1, <1>7, <1>8, <1>9, <1>10 DEF GateInv, Metric, Labels

LEMMA GateStep ==
  ASSUME HarnessAssumption, ShapeInv, TurnInv, GateInv, SuiteNext
  PROVE  GateInv'
<1>1. CASE BuildReference
  BY <1>1, GateBegins DEF BuildReference, host
<1>2. CASE SpawnSingleCell
  BY <1>2, SamplesAreMetrics
<1>3. ASSUME UNCHANGED <<family, samples, size, conc>>, phase \in {"children", "scores"}, phase' = "scores",
             warned' = Unequal(Aggregated)
      PROVE  GateInv'
  <2>1. Engines' = Engines
    BY <1>3 DEF Engines, LIBVIPRS_ENGINES
  <2>2. Aggregated' = Aggregated
    BY <1>3, <2>1 DEF Aggregated, Aggregate
  <2>3. Unequal(Aggregated)' = Unequal(Aggregated)
    BY <2>2 DEF Unequal
  <2> QED BY <1>3, <2>1, <2>3 DEF GateInv, Metric, Labels
<1>4. CASE EndOfTurns
  <2>1. /\ UNCHANGED <<family, samples, size, conc>> /\ phase = "children" /\ phase' = "scores"
        /\ warned' = Unequal(Aggregated)
    BY <1>4, Zenon DEF EndOfTurns, host
  <2> QED BY <1>3, <2>1
<1>5. CASE Unscored
  <2>1. UNCHANGED <<family, samples, size, conc, warned>> /\ phase = "scores" /\ phase' = phase
    BY <1>5, Zenon DEF Unscored, Done, host
  <2> QED BY <1>3, <2>1 DEF GateInv
<1>6. CASE Score
  <2>1. UNCHANGED <<family, samples, size, conc, warned>> /\ phase = "scores" /\ phase' = phase
    BY <1>6, Zenon DEF Score, Done, host
  <2> QED BY <1>3, <2>1 DEF GateInv
<1>7. ASSUME phase' \notin {"children", "scores"} PROVE GateInv'
  BY <1>7 DEF GateInv
<1>8. CASE NextConfiguration
  <2>1. CASE conc < Len(Concurrency)
    BY <1>8, <2>1, GateBegins DEF NextConfiguration, host
  <2>2. CASE ~(conc < Len(Concurrency))
    <3>1. phase' \notin {"children", "scores"}
      BY <1>8, <2>2 DEF NextConfiguration
    <3> QED BY <1>7, <3>1
  <2> QED BY <2>1, <2>2
<1>9. CASE WriteOutput \/ AppendHistory
  BY <1>7, <1>9 DEF WriteOutput, AppendHistory
<1> QED BY <1>1, <1>2, <1>4, <1>5, <1>6, <1>8, <1>9, Zenon DEF SuiteNext

SuiteInv == ShapeInv /\ TurnInv /\ GateInv

LEMMA SuiteIsKept == SuiteSpec => []SuiteInv
<1>1. SuiteInit => SuiteInv
  BY HarnessAssumption, ShapeStart DEF SuiteInit, SuiteInv, TurnInv, GateInv
<1>2. SuiteInv /\ [SuiteNext]_suiteVars => SuiteInv'
  <2> SUFFICES ASSUME SuiteInv, [SuiteNext]_suiteVars PROVE SuiteInv'
    OBVIOUS
  <2>1. CASE SuiteNext
    BY <2>1, HarnessAssumption, NullAssumption, ShapeStep, TurnStep, GateStep DEF SuiteInv
  <2>2. CASE UNCHANGED suiteVars
    <3>1. ShapeInv'
      BY <2>2 DEF SuiteInv, suiteVars, ShapeInv
    <3>2. TurnInv'
      BY <2>2 DEF SuiteInv, suiteVars, TurnInv, IsRest, Turn, Engines, LIBVIPRS_ENGINES
    <3>3. Range(Engines)' = Range(Engines) /\ Unequal(Aggregated)' = Unequal(Aggregated)
      BY <2>2, SMTT(30) DEF suiteVars, Engines, LIBVIPRS_ENGINES, Aggregated, Aggregate, Unequal
    <3>4. GateInv'
      BY <2>2, <3>3 DEF SuiteInv, suiteVars, GateInv
    <3> QED BY <3>1, <3>2, <3>4 DEF SuiteInv
  <2> QED BY <2>1, <2>2
<1> QED BY <1>1, <1>2, PTL DEF SuiteSpec

\* GateIsSound (check_output_equivalence): whatever its children reported, a
\* configuration the gate is silent of has one pyramid from all of the engines
\* that left tiles, but for an apex of one tile on libvips'.
THEOREM SilenceIsEquality == SuiteSpec => []GateIsSound
<1>1. SuiteInv => GateIsSound
  <2> SUFFICES ASSUME SuiteInv, phase = "scores", warned = {}
               PROVE  SameWork(Aggregated)
    BY Zenon DEF GateIsSound, SameWork
  <2>1. Unequal(Aggregated) = {}
    BY DEF SuiteInv, GateInv
  <2>2. PICK C : Aggregated \in Seq(C) /\ \A r \in C : r.rep.grid \in Seq(Nat)
    BY AggregatesAre DEF SuiteInv, GateInv, ShapeInv
  <2> QED BY <2>1, <2>2, SilenceMeansSameWork
<1> QED BY <1>1, SuiteIsKept, PTL

-----------------------------------------------------------------------------
(* The scores. *)

\* The greatest of a set of numbers that has a bound, and of two.
LEMMA GreatestIs ==
  ASSUME NEW n \in Nat, NEW S, S \subseteq 0..n, S # {}
  PROVE  Max(S) \in S /\ \A x \in S : Max(S) >= x
<1> DEFINE T == {n - x : x \in S}
<1>1. T \in SUBSET Nat /\ T # {}
  <2>1. \A x \in S : n - x \in Nat
    <3> SUFFICES ASSUME NEW x \in S PROVE n - x \in Nat
      OBVIOUS
    <3>1. x \in 0..n
      OBVIOUS
    <3> QED BY <3>1, SMT
  <2> QED BY <2>1
<1>2. PICK m \in T : \A t \in T : m <= t
  <2> HIDE DEF T
  <2> QED BY <1>1, Least
<1>3. PICK x \in S : m = n - x
  BY <1>2
<1>4. \A y \in S : x >= y
  <2>1. ASSUME NEW y \in S PROVE x >= y
    <3>1. n - y \in T /\ x \in Int /\ y \in Int
      OBVIOUS
    <3>2. n - x <= n - y
      BY <1>2, <1>3, <3>1
    <3> QED BY <3>1, <3>2, SMT
  <2> QED BY <2>1
<1> QED BY <1>4 DEF Max

LEMMA GreaterOfTwo == ASSUME NEW x \in Nat PROVE Max({1, x}) \in Nat \ {0}
<1> DEFINE n == IF x >= 1 THEN x ELSE 1
           S == {1, x}
<1>1. n \in Nat /\ S \subseteq 0..n /\ S # {} /\ 1 \in S
  OBVIOUS
<1> HIDE DEF n
<1>2. Max(S) \in S /\ Max(S) >= 1
  <2> HIDE DEF S
  <2> QED BY <1>1, GreatestIs
<1> QED BY <1>2

LEMMA SmallerOfTwo ==
  ASSUME NEW x \in Nat, NEW y \in Nat PROVE Min({x, y}) = IF x <= y THEN x ELSE y
<1> DEFINE S == {x, y}
           m == IF x <= y THEN x ELSE y
<1>1. m \in S /\ \A z \in S : m <= z
  OBVIOUS
<1>2. Min(S) \in S /\ \A z \in S : Min(S) <= z
  <2> HIDE DEF m
  <2> QED BY <1>1 DEF Min
<1>3. Min(S) <= m /\ m <= Min(S)
  BY <1>1, <1>2
<1> DEFINE l == Min(S)
<1>4. l \in Int /\ m \in Int
  BY <1>2
<1> HIDE DEF m, l, S
<1>5. l = m
  BY <1>3, <1>4 DEF l
<1> QED BY <1>5 DEF l, m, S

LEMMA LeastIs ==
  ASSUME NEW S \in SUBSET Nat, S # {} PROVE Min(S) \in S
<1>1. \E m \in S : \A n \in S : m <= n
  BY Least
<1> QED BY <1>1 DEF Min

\* In a finite set of numbers there is one that has so many below it.
LEMMA RankIs ==
  ASSUME NEW S \in SUBSET Nat, IsFiniteSet(S), NEW n \in Nat, n < Cardinality(S)
  PROVE  \E k \in S : Cardinality({j \in S : j < k}) = n
<1> DEFINE under(k) == {j \in S : j < k}
           T == {m \in Nat : m < Cardinality(S) => \E k \in S : Cardinality(under(k)) = m}
<1>a. Cardinality(S) \in Nat
  BY FS_CardinalityType
<1>b. \A k : IsFiniteSet(under(k)) /\ Cardinality(under(k)) \in Nat
  <2>1. \A k : under(k) \in SUBSET S
    OBVIOUS
  <2> HIDE DEF under
  <2> QED BY <2>1, FS_Subset, FS_CardinalityType
<1>c. Cardinality({}) = 0 /\ IsFiniteSet({})
  BY FS_EmptySet
<1>1. 0 \in T
  <2> SUFFICES ASSUME 0 < Cardinality(S) PROVE \E k \in S : Cardinality(under(k)) = 0
    OBVIOUS
  <2>1. S # {}
    BY <1>c
  <2>2. PICK k \in S : \A j \in S : k <= j
    BY <2>1, Least
  <2>3. under(k) = {}
    <3> SUFFICES ASSUME NEW j \in under(k) PROVE FALSE
      BY Zenon
    <3>1. j \in S /\ j < k /\ j \in Int /\ k \in Int
      OBVIOUS
    <3>2. k <= j
      BY <2>2, <3>1
    <3> QED BY <3>1, <3>2, SMT
  <2> HIDE DEF under
  <2> QED BY <1>c, <2>3
<1>2. ASSUME NEW m \in Nat, m \in T PROVE m + 1 \in T
  <2> SUFFICES ASSUME m + 1 < Cardinality(S) PROVE \E k \in S : Cardinality(under(k)) = m + 1
    OBVIOUS
  <2>1. PICK k \in S : Cardinality(under(k)) = m
    BY <1>a, <1>2
  <2> DEFINE above == {j \in S : j > k}
             upto == under(k) \cup {k}
  <2>2. k \notin under(k) /\ k \in Nat
    OBVIOUS
  <2>3. IsFiniteSet(upto) /\ Cardinality(upto) = m + 1
    <3> HIDE DEF under
    <3> QED BY <1>b, <2>1, <2>2, FS_AddElement
  <2>4. above # {}
    <3> SUFFICES ASSUME above = {} PROVE FALSE
      OBVIOUS
    <3>1. S = upto
      <4>1. ASSUME NEW j \in S PROVE j \in upto
        <5>1. ~(j > k) /\ j \in Int /\ k \in Int
          BY <2>2
        <5>2. j < k \/ j = k
          BY <5>1, SMT
        <5> QED BY <5>2
      <4>2. upto \subseteq S
        OBVIOUS
      <4> HIDE DEF upto
      <4> QED BY <4>1, <4>2
    <3> HIDE DEF upto
    <3> QED BY <1>a, <2>3, <3>1
  <2>5. PICK l \in above : \A j \in above : l <= j
    <3>1. above \in SUBSET Nat
      OBVIOUS
    <3> HIDE DEF above
    <3> QED BY <2>4, <3>1, Least
  <2>6. under(l) = upto
    <3>1. \A j \in S : j < l <=> j < k \/ j = k
      BY <2>2, <2>5
    <3> QED BY <2>5, <3>1
  <2> HIDE DEF under, upto
  <2> QED BY <2>3, <2>5, <2>6
<1> HIDE DEF T
<1>3. n \in T
  BY <1>1, <1>2, NatInd
<1> QED BY <1>3 DEF T

\* The extent of what is there is within the level, and is all of it when
\* everything is there.
LEMMA GridIs ==
  ASSUME NEW c \in Nat \ {0}, NEW r \in Nat \ {0}, NEW l \in [Positions(c, r) -> Tile]
  PROVE  /\ Grid(l) \in (0..c) \X (0..r)
         /\ l = Level(c, r, "right") => Grid(l) = <<c, r>>
<1> DEFINE there == {p \in DOMAIN l : l[p] # "absent"}
           X == {0} \cup {p[1] + 1 : p \in there}
           Y == {0} \cup {p[2] + 1 : p \in there}
<1>1. DOMAIN l = (0..(c - 1)) \X (0..(r - 1))
  BY DEF Positions
<1>2. \A p \in there : p[1] \in 0..(c - 1) /\ p[2] \in 0..(r - 1)
  BY <1>1
<1>3. X \subseteq 0..c /\ Y \subseteq 0..r /\ 0 \in X /\ 0 \in Y
  <2> HIDE DEF there
  <2> QED BY <1>2
<1>4. Grid(l) = <<Max(X), Max(Y)>>
  BY DEF Grid
<1>5. /\ Max(X) \in X /\ \A x \in X : Max(X) >= x
      /\ Max(Y) \in Y /\ \A y \in Y : Max(Y) >= y
  <2> HIDE DEF X, Y
  <2> QED BY <1>3, GreatestIs
<1>6. ASSUME l = Level(c, r, "right") PROVE Grid(l) = <<c, r>>
  <2> DEFINE last == <<c - 1, r - 1>>
  <2>1. last \in DOMAIN l /\ l[last] = "right"
    <3>1. last \in (0..(c - 1)) \X (0..(r - 1))
      OBVIOUS
    <3> HIDE DEF last
    <3> QED BY <1>1, <1>6, <3>1 DEF Level
  <2>2. last \in there
    <3> HIDE DEF last
    <3> QED BY <2>1
  <2>3. last[1] + 1 = c /\ last[2] + 1 = r
    OBVIOUS
  <2>4. c \in X /\ r \in Y
    <3> HIDE DEF last, there
    <3> QED BY <2>2, <2>3
  <2> DEFINE a == Max(X)
             b == Max(Y)
  <2>5. a \in 0..c /\ b \in 0..r /\ a >= c /\ b >= r
    <3> HIDE DEF X, Y
    <3> QED BY <1>3, <1>5, <2>4
  <2> HIDE DEF a, b
  <2>6. a = c /\ b = r
    BY <2>5
  <2> HIDE DEF X, Y
  <2> QED BY <1>4, <2>6 DEF a, b
<1> DEFINE a == Max(X)
           b == Max(Y)
<1>7. a \in 0..c /\ b \in 0..r /\ Grid(l) = <<a, b>>
  <2> HIDE DEF X, Y
  <2> QED BY <1>3, <1>4, <1>5
<1> HIDE DEF a, b
<1>8. Grid(l) \in (0..c) \X (0..r)
  BY <1>7
<1> QED BY <1>6, <1>8

\* The levels both pyramids have under the full one and that have several tiles.
Several(ref, cand) ==
  {k \in Shared(ref, cand) : Grid(Down(cand, k))[1] * Grid(Down(cand, k))[2] > 1}

LEMMA SharedAre ==
  ASSUME NEW C, NEW ref \in Seq(C), NEW cand \in Seq(C)
  PROVE  /\ Shared(ref, cand) \in SUBSET Nat /\ IsFiniteSet(Shared(ref, cand))
         /\ \A k : k \in Shared(ref, cand) <=>
              /\ k \in 1..(Len(cand) - 1) /\ k < Len(ref)
              /\ Grid(Down(ref, k)) = Grid(Down(cand, k))
<1> DEFINE m == Len(ref)
           n == Len(cand)
           l == Min({m, n})
           same(k) == Grid(Down(ref, k)) = Grid(Down(cand, k))
<1>1. m \in Nat /\ n \in Nat
  BY LenProperties
<1>2. Shared(ref, cand) = {k \in 1..(l - 1) : same(k)}
  BY DEF Shared
<1> HIDE DEF m, n, same
<1>3. l = IF m <= n THEN m ELSE n
  BY <1>1, SmallerOfTwo
<1> HIDE DEF l
<1>4. l \in Nat /\ 1..(l - 1) \in SUBSET Nat
  BY <1>1, <1>3
<1>5. IsFiniteSet(1..(l - 1))
  BY <1>4, FS_Interval
<1>6. \A k : k \in 1..(l - 1) <=> k \in 1..(n - 1) /\ k < m
  BY <1>1, <1>3
<1>7. Shared(ref, cand) \subseteq 1..(l - 1)
  BY <1>2
<1>8. IsFiniteSet(Shared(ref, cand))
  BY <1>5, <1>7, FS_Subset
<1>9. \A k : k \in Shared(ref, cand) <=> k \in 1..(n - 1) /\ k < m /\ same(k)
  BY <1>2, <1>6
<1> QED BY <1>4, <1>7, <1>8, <1>9 DEF m, n, same

\* The level that is compared is one they share, of several tiles if one has.
LEMMA MidLevelIs ==
  ASSUME NullAssumption, NEW C, NEW ref \in Seq(C), NEW cand \in Seq(C), Shared(ref, cand) # {}
  PROVE  /\ MidLevel(ref, cand) # Null /\ MidLevel(ref, cand) \in Shared(ref, cand)
         /\ Several(ref, cand) # {} => MidLevel(ref, cand) \in Several(ref, cand)
<1> DEFINE all == Shared(ref, cand)
           many == Several(ref, cand)
           mids == IF many # {} THEN many ELSE {Min(all)}
           half == Cardinality(mids) \div 2
<1>1. all \in SUBSET Nat /\ IsFiniteSet(all) /\ all # {}
  BY SharedAre
<1>2. many \subseteq all
  BY DEF Several
<1>3. mids \subseteq all /\ mids # {}
  <2> HIDE DEF all, many
  <2> QED BY <1>1, <1>2, LeastIs
<1>4. MidLevel(ref, cand) = CHOOSE k \in mids : Cardinality({j \in mids : j < k}) = half
  <2>1. mids = IF many # {} THEN many ELSE IF all = {} THEN {} ELSE {Min(all)}
    <3> HIDE DEF all, many
    <3> QED BY <1>1
  <2> DEFINE some == IF many # {} THEN many ELSE IF all = {} THEN {} ELSE {Min(all)}
  <2>2. MidLevel(ref, cand) = IF some = {} THEN Null
          ELSE CHOOSE k \in some : Cardinality({j \in some : j < k}) = Cardinality(some) \div 2
    BY Zenon DEF MidLevel, Several
  <2>3. some = mids
    <3> HIDE DEF all, many
    <3> QED BY <2>1
  <2> HIDE DEF some, mids
  <2> QED BY <1>3, <2>2, <2>3 DEF half
<1> HIDE DEF all
<1>5. mids \in SUBSET Nat /\ IsFiniteSet(mids)
  <2> HIDE DEF mids
  <2> QED BY <1>1, <1>3, FS_Subset
<1> HIDE DEF mids
<1>6. half \in Nat /\ half < Cardinality(mids)
  <2>1. Cardinality(mids) \in Nat \ {0}
    BY <1>3, <1>5, FS_CardinalityType, FS_EmptySet
  <2> QED BY <2>1
<1> HIDE DEF half
<1>7. \E k \in mids : Cardinality({j \in mids : j < k}) = half
  BY <1>5, <1>6, RankIs
<1>8. MidLevel(ref, cand) \in mids
  BY <1>4, <1>7
<1>9. many # {} => mids = many
  BY DEF mids
<1> HIDE DEF many
<1> QED BY <1>1, <1>3, <1>8, <1>9 DEF NullAssumption, many, all

\* The positions that are compared are of the level, and the first is.
LEMMA SampleIs ==
  ASSUME HarnessAssumption, NEW a \in Nat, NEW b \in Nat
  PROVE  /\ SampleOf(<<a, b>>) \subseteq Positions(a, b)
         /\ a # 0 /\ b # 0 => <<0, 0>> \in SampleOf(<<a, b>>)
<1> DEFINE total == a * b
           x == (total + MAX_SPOT_TILES - 1) \div MAX_SPOT_TILES
           stride == Max({1, x})
<1>1. SampleOf(<<a, b>>) = {p \in Positions(a, b) : (p[2] * a + p[1]) % stride = 0}
  BY DEF SampleOf, Positions
<1>2. x \in Nat
  <2>1. total \in Nat
    BY SMT
  <2> HIDE DEF total
  <2>2. MAX_SPOT_TILES \in Nat \ {0}
    BY DEF HarnessAssumption
  <2> DEFINE y == total + MAX_SPOT_TILES - 1
  <2>3. y \in Nat
    BY <2>1, <2>2, SMT
  <2> HIDE DEF y
  <2>4. y \div MAX_SPOT_TILES \in Nat
    <3> DEFINE n == MAX_SPOT_TILES
               q == y \div n
    <3>1. y = n * q + (y % n) /\ q \in Int /\ y % n \in 0..(n - 1) /\ n \in Nat \ {0}
      BY <2>2, <2>3, DivMod
    <3> HIDE DEF n, q
    <3>2. q >= 0
      <4> SUFFICES ASSUME q <= -1 PROVE FALSE
        BY <3>1, SMT
      <4> DEFINE z == n * q
                 r == y % n
      <4>1. z <= -n /\ z \in Int
        BY <3>1, SMT
      <4>2. y = z + r /\ r \in 0..(n - 1) /\ n \in Nat
        BY <3>1
      <4> HIDE DEF z, r
      <4> QED BY <2>3, <4>1, <4>2, SMT
    <3>3. q \in Nat
      BY <3>1, <3>2, SMT
    <3> QED BY <3>3 DEF q, n
  <2> QED BY <2>4 DEF y
<1> HIDE DEF x
<1>3. stride \in Nat \ {0}
  BY <1>2, GreaterOfTwo
<1> HIDE DEF stride
<1>4. ASSUME a # 0, b # 0 PROVE <<0, 0>> \in SampleOf(<<a, b>>)
  <2>1. 0 \in 0..(a - 1) /\ 0 \in 0..(b - 1)
    BY <1>4
  <2>2. <<0, 0>> \in Positions(a, b)
    BY <2>1 DEF Positions
  <2>3. (0 * a + 0) % stride = 0
    <3>1. 0 * a + 0 = 0
      BY SMT
    <3>2. 0 % stride = 0
      BY <1>3, SMT
    <3> QED BY <3>1, <3>2
  <2>4. (<<0, 0>>[2] * a + <<0, 0>>[1]) % stride = 0
    BY <2>3
  <2> QED BY <1>1, <2>2, <2>4
<1> QED BY <1>1, <1>4

LEMMA NoLevel == ASSUME NEW ref, NEW cand, Shared(ref, cand) = {} PROVE MidLevel(ref, cand) = Null
<1>1. {k \in Shared(ref, cand) : Grid(Down(cand, k))[1] * Grid(Down(cand, k))[2] > 1} = {}
  OBVIOUS
<1> QED BY <1>1, Zenon DEF MidLevel

\* What a check that passes has compared.
LEMMA SpotIsTrue ==
  ASSUME HarnessAssumption, NullAssumption, NEW ref \in Seq(AnyLevel), NEW cand \in Seq(AnyLevel),
         SpotCheck(ref, cand) = "pass"
  PROVE  \E k \in IF Several(ref, cand) # {} THEN Several(ref, cand) ELSE Shared(ref, cand) :
           SampleAgrees(Down(ref, k), Down(cand, k))
<1> DEFINE k == MidLevel(ref, cand)
           l == Down(cand, k)
           m == Down(ref, k)
           sample == SampleOf(Grid(l))
           pairs == {<<m[p], l[p]>> : p \in sample}
           compared == {ab \in pairs : Compared(ab[1], ab[2])}
           same == \A ab \in compared : ab[1] = ab[2] /\ ab[1] # "corrupt"
<1>1. SpotCheck(ref, cand) = IF k = Null \/ compared = {} THEN Null ELSE IF same THEN "pass" ELSE "fail"
  BY Zenon DEF SpotCheck
<1>2. k # Null /\ compared # {} /\ same
  <2> HIDE DEF k, compared, same
  <2> QED BY <1>1 DEF NullAssumption
<1>3. Shared(ref, cand) # {}
  BY <1>2, NoLevel
<1>4. /\ k \in Shared(ref, cand)
      /\ Several(ref, cand) # {} => k \in Several(ref, cand)
  BY <1>3, MidLevelIs
<1>5. l \in AnyLevel
  <2>1. k \in 1..(Len(cand) - 1)
    BY <1>4, SharedAre
  <2> DEFINE n == Len(cand)
  <2>2. n \in Nat
    BY LenProperties
  <2> HIDE DEF k
  <2>3. n - k \in 1..n
    <3> HIDE DEF n
    <3>1. k \in 1..(n - 1)
      BY <2>1 DEF n
    <3> QED BY <2>2, <3>1, SMT
  <2> QED BY <2>3, ElementOfSeq DEF Down
<1> HIDE DEF k, l, m
<1>6. PICK c, r \in Nat \ {0} : l \in [Positions(c, r) -> Tile]
  BY <1>5, LevelsHaveAShape
<1>7. PICK a \in 0..c, b \in 0..r : Grid(l) = <<a, b>>
  <2>1. Grid(l) \in (0..c) \X (0..r)
    BY <1>6, GridIs
  <2> QED BY <2>1
<1>8. \A p \in sample : l[p] \in Tile
  <2>1. sample \subseteq Positions(a, b)
    <3>1. a \in Nat /\ b \in Nat
      BY <1>6, <1>7
    <3>2. SampleOf(<<a, b>>) \subseteq Positions(a, b)
      BY <3>1, SampleIs
    <3> QED BY <1>7, <3>2
  <2>2. Positions(a, b) \subseteq Positions(c, r)
    <3>1. \A x \in Nat : \A z \in 0..x : 0..(z - 1) \subseteq 0..(x - 1)
      BY SMT
    <3>2. c \in Nat /\ r \in Nat
      BY <1>6
    <3>3. 0..(a - 1) \subseteq 0..(c - 1) /\ 0..(b - 1) \subseteq 0..(r - 1)
      BY <1>7, <3>1, <3>2
    <3> QED BY <3>3 DEF Positions
  <2> HIDE DEF sample
  <2> QED BY <1>6, <2>1, <2>2
<1> HIDE DEF sample
<1>9. \E p \in sample : "absent" \notin {l[p], m[p]}
  BY <1>2 DEF Compared
<1>10. ASSUME NEW p \in sample
       PROVE  {l[p], m[p]} \in {{"right"}, {"wrong"}} \/ "absent" \in {l[p], m[p]}
  <2>1. CASE m[p] = "absent" \/ l[p] = "absent"
    BY <2>1
  <2>2. CASE m[p] # "absent" /\ l[p] # "absent"
    <3>1. <<m[p], l[p]>> \in compared
      BY <2>2 DEF Compared
    <3>2. m[p] = l[p] /\ m[p] # "corrupt"
      <4> HIDE DEF compared
      <4> QED BY <1>2, <3>1
    <3>3. l[p] \in {"right", "wrong"}
      BY <1>8, <2>2, <3>2 DEF Tile
    <3> QED BY <3>2, <3>3
  <2> QED BY <2>1, <2>2
<1>11. SampleAgrees(m, l)
  BY <1>9, <1>10, Zenon DEF SampleAgrees, sample
<1> QED BY <1>4, <1>11, Zenon DEF l, m

\* An engine that did what it planned passes by a reference that did.
LEMMA SpotPasses ==
  ASSUME HarnessAssumption, NullAssumption, size \in DOMAIN Plans, Len(Planned) > 1,
         NEW ref \in {Planned, FromVips}
  PROVE  SpotCheck(ref, Planned) = "pass"
<1> DEFINE n == Len(Planned)
           k == MidLevel(ref, Planned)
<1>1. /\ Planned \in Seq(AnyLevel) /\ FromVips \in Seq(AnyLevel) /\ ref \in Seq(AnyLevel)
      /\ n \in Nat \ {0} /\ n > 1
  BY LevelsOfAPlan
<1>2. n <= Len(ref) /\ \A j \in 1..(n - 1) : Down(ref, j) = Down(Planned, j)
  <2>1. CASE ref = Planned
    BY <1>1, <2>1
  <2>2. CASE ref = FromVips
    <3> DEFINE top == <<Level(1, 1, "right")>>
               whole == Planned
    <3>1. FromVips = top \o whole
      BY DEF FromVips
    <3>2. whole \in Seq(AnyLevel) /\ n = Len(whole)
      BY <1>1
    <3> DEFINE D == AnyLevel \cup {Level(1, 1, "right")}
    <3>3. top \in Seq(D) /\ Len(top) = 1
      OBVIOUS
    <3>4. whole \in Seq(D)
      BY <3>2, LenProperties, ElementOfSeq, SeqDef
    <3> HIDE DEF top, whole, D
    <3>5. Len(ref) = 1 + n /\ \A i \in 1..(1 + n) : ref[i] = IF i <= 1 THEN top[i] ELSE whole[i - 1]
      <4>1. /\ Len(top \o whole) = Len(top) + Len(whole)
            /\ \A i \in 1..(Len(top) + Len(whole)) :
                 (top \o whole)[i] = IF i <= Len(top) THEN top[i] ELSE whole[i - Len(top)]
        BY <3>3, <3>4, ConcatProperties, ZenonT(40)
      <4> HIDE DEF n
      <4> QED BY <2>2, <3>1, <3>2, <3>3, <4>1
    <3>6. ASSUME NEW j \in 1..(n - 1) PROVE ref[Len(ref) - j] = whole[n - j]
      <4> DEFINE i == Len(ref) - j
      <4>1. i \in 1..(1 + n) /\ ~(i <= 1) /\ i - 1 = n - j
        <5>1. n \in Nat /\ j \in 1..(n - 1) /\ Len(ref) = 1 + n
          BY <1>1, <3>5
        <5> HIDE DEF n
        <5> QED BY <5>1, SMT
      <4> HIDE DEF i
      <4>2. ref[i] = whole[n - j]
        BY <3>5, <4>1
      <4> QED BY <4>2 DEF i
    <3>7. \A j \in 1..(n - 1) : Down(ref, j) = Down(whole, j)
      BY <3>2, <3>6 DEF Down
    <3> QED BY <1>1, <3>5, <3>7 DEF whole
  <2> QED BY <2>1, <2>2
<1>3. Shared(ref, Planned) # {}
  <2>1. 1 \in 1..(n - 1) /\ 1 < Len(ref)
    <3>1. Len(ref) \in Nat
      BY <1>1, LenProperties
    <3>2. n \in Nat /\ n > 1 /\ n <= Len(ref)
      BY <1>1, <1>2
    <3> HIDE DEF n
    <3> QED BY <3>1, <3>2, SMT
  <2>2. Grid(Down(ref, 1)) = Grid(Down(Planned, 1))
    BY <1>2, <2>1
  <2>3. 1 \in Shared(ref, Planned)
    BY <1>1, <2>1, <2>2, SharedAre
  <2> QED BY <2>3
<1>4. k # Null /\ k \in 1..(n - 1)
  <2>1. k # Null /\ k \in Shared(ref, Planned)
    BY <1>1, <1>3, MidLevelIs
  <2> QED BY <1>1, <2>1, SharedAre
<1> HIDE DEF k
<1> DEFINE l == Down(Planned, k)
           m == Down(ref, k)
           sample == SampleOf(Grid(l))
           pairs == {<<m[p], l[p]>> : p \in sample}
           compared == {ab \in pairs : Compared(ab[1], ab[2])}
           same == \A ab \in compared : ab[1] = ab[2] /\ ab[1] # "corrupt"
<1>5. SpotCheck(ref, Planned) = IF k = Null \/ compared = {} THEN Null ELSE IF same THEN "pass" ELSE "fail"
  BY Zenon DEF SpotCheck, k
<1>6. PICK c, r \in Nat \ {0} : l = Level(c, r, "right")
  <2>1. n - k \in 1..n
    <3>1. n \in Nat /\ k \in 1..(n - 1)
      BY <1>1, <1>4
    <3> HIDE DEF n
    <3> QED BY <3>1, SMT
  <2>2. l = Planned[n - k]
    BY DEF Down
  <2>3. \A j \in 1..n : /\ Plans[size][j] \in (Nat \ {0}) \X (Nat \ {0})
                        /\ Planned[j] = Level(Plans[size][j][1], Plans[size][j][2], "right")
    BY LevelsOfAPlan
  <2>4. Plans[size][n - k] \in (Nat \ {0}) \X (Nat \ {0})
    <3> HIDE DEF n
    <3> QED BY <2>1, <2>3
  <2>5. l = Level(Plans[size][n - k][1], Plans[size][n - k][2], "right")
    <3> HIDE DEF n
    <3> QED BY <2>1, <2>2, <2>3
  <2> QED BY <2>4, <2>5
<1>7. m = l
  BY <1>2, <1>4
<1> HIDE DEF l, m
<1>8. l \in [Positions(c, r) -> Tile] /\ \A p \in Positions(c, r) : l[p] = "right"
  BY <1>6 DEF Level, Positions, Tile
<1>9. Grid(l) = <<c, r>>
  BY <1>6, <1>8, GridIs
<1>10. sample \subseteq Positions(c, r) /\ <<0, 0>> \in sample
  BY <1>6, <1>9, SampleIs
<1> HIDE DEF sample
<1>11. \A ab \in pairs : ab = <<"right", "right">>
  BY <1>7, <1>8, <1>10
<1>12. <<"right", "right">> \in pairs
  BY <1>7, <1>8, <1>10
<1> HIDE DEF pairs
<1>13. compared # {} /\ same
  <2>1. Compared("right", "right")
    BY DEF Compared
  <2>2. <<"right", "right">> \in compared
    BY <1>12, <2>1
  <2>3. \A ab \in compared : ab = <<"right", "right">>
    BY <1>11
  <2> HIDE DEF compared
  <2>4. compared # {}
    BY <2>2
  <2>5. ASSUME NEW ab \in compared PROVE ab[1] = ab[2] /\ ab[1] # "corrupt"
    <3>1. ab = <<"right", "right">>
      BY <2>3
    <3>2. ab[1] = "right" /\ ab[2] = "right"
      BY <3>1
    <3> HIDE DEF compared
    <3> QED BY <3>2
  <2> QED BY <2>4, <2>5
<1> HIDE DEF compared, same
<1> QED BY <1>4, <1>5, <1>13

\* A row passes because its check did.
IsTold(row) ==
  row.psnr = "pass" => /\ row.from \in Seq(AnyLevel) /\ row.against \in Seq(AnyLevel)
                       /\ SpotCheck(row.against, row.from) = "pass"

Passes(row) == Len(row.from) > 1 => row.psnr = "pass"

\* Of the scores: what is to be scored is not, what is told is so, and without
\* a deviation the reference is as it was planned.
ScoresInv ==
  /\ faults \in Nat
  /\ \E C : toScore \in Seq(C) /\ \A r \in C : IsNew(r)
  /\ \E C : rows \in Seq(C) /\ \A r \in C : IsTold(r) /\ (faults = 0 => Passes(r))
  /\ faults = 0 /\ reference # Null => reference.pyramid \in {Planned, FromVips}

LEMMA WiderSeq == ASSUME NEW C, NEW D, C \subseteq D, NEW s \in Seq(C) PROVE s \in Seq(D)
  BY LenProperties, ElementOfSeq, SeqDef

\* A row that was not scored is told as it is, and one that was, as its check went.
LEMMA NewIsTold == ASSUME NullAssumption, NEW row, IsNew(row) PROVE IsTold(row) /\ Passes(row)
  BY DEF NullAssumption, IsNew, IsTold, Passes

LEMMA RowWith ==
  ASSUME NEW row, IsNew(row), NEW a, NEW b, NEW c
  PROVE  LET r == [row EXCEPT !.psnr = a, !.from = b, !.against = c]
         IN  r.psnr = a /\ r.from = b /\ r.against = c
BY DEF IsNew

LEMMA SpendIs ==
  ASSUME faults \in Nat, NEW n \in Nat, Spend(n)
  PROVE  faults' \in Nat /\ (faults' = 0 => faults = 0 /\ n = 0)
BY DEF Spend

\* A step that scores nothing.
LEMMA ScoresStay ==
  ASSUME ScoresInv, UNCHANGED <<toScore, rows>>, faults' \in Nat, faults' = 0 => faults = 0,
         reference' # Null => reference' = reference /\ size' = size
  PROVE  ScoresInv'
<1>1. \E C : toScore' \in Seq(C) /\ \A r \in C : IsNew(r)
  BY DEF ScoresInv
<1>2. PICK C : rows \in Seq(C) /\ \A r \in C : IsTold(r) /\ (faults = 0 => Passes(r))
  BY DEF ScoresInv
<1>3. rows' \in Seq(C) /\ \A r \in C : IsTold(r) /\ (faults' = 0 => Passes(r))
  BY <1>2
<1>4. size' = size => Planned' = Planned /\ FromVips' = FromVips
  BY DEF Planned, FromVips
<1>5. faults' = 0 /\ reference' # Null => reference'.pyramid \in {Planned', FromVips'}
  BY <1>4 DEF ScoresInv
<1> QED BY <1>1, <1>3, <1>5 DEF ScoresInv, IsNew, IsTold, Passes

\* A step that tells a row.
LEMMA RowTold ==
  ASSUME ScoresInv, toScore # <<>>, NEW row, Done(row), IsTold(row), faults' = 0 => Passes(row),
         faults' \in Nat, faults' = 0 => faults = 0
  PROVE  ScoresInv'
<1>1. PICK C : toScore \in Seq(C) /\ \A r \in C : IsNew(r)
  BY DEF ScoresInv
<1>2. toScore' \in Seq(C)
  BY <1>1, HeadTailProperties DEF Done
<1>3. PICK D : rows \in Seq(D) /\ \A r \in D : IsTold(r) /\ (faults = 0 => Passes(r))
  BY DEF ScoresInv
<1> DEFINE E == D \cup {row}
<1>4. rows \in Seq(E) /\ row \in E
  BY <1>3, WiderSeq
<1>5. rows' \in Seq(E)
  <2>1. rows' = Append(rows, row)
    BY DEF Done
  <2> HIDE DEF E
  <2> QED BY <1>4, <2>1, AppendProperties
<1>6. \A r \in E : IsTold(r) /\ (faults' = 0 => Passes(r))
  BY <1>3
<1>7. reference' = reference /\ size' = size
  BY DEF Done
<1>8. Planned' = Planned /\ FromVips' = FromVips
  BY <1>7 DEF Planned, FromVips
<1> QED BY <1>1, <1>2, <1>5, <1>6, <1>7, <1>8 DEF ScoresInv, IsNew, IsTold, Passes

LEMMA BuiltAsPlanned ==
  ASSUME faults \in Nat, BuildReference
  PROVE  /\ faults' \in Nat /\ (faults' = 0 => faults = 0)
         /\ faults' = 0 /\ reference' # Null => reference'.pyramid \in {Planned, FromVips}
<1>1. ASSUME NEW whole, NEW pyramid, NEW by, Spend(When(pyramid # whole)),
             reference' = [by |-> by, pyramid |-> pyramid]
      PROVE  faults' \in Nat /\ (faults' = 0 => faults = 0 /\ reference'.pyramid = whole)
  <2>1. When(pyramid # whole) \in Nat /\ (When(pyramid # whole) = 0 => pyramid = whole)
    BY DEF When
  <2> QED BY <1>1, <2>1, SpendIs
<1>2. ASSUME NEW n \in {0, 1}, Spend(n) PROVE faults' \in Nat /\ (faults' = 0 => faults = 0)
  BY <1>2, SpendIs
<1>3. CASE VipsReference
  <2>1. CASE (Spend(0) \/ Spend(1)) /\ reference' = Null
    BY <1>2, <2>1
  <2>2. CASE \E pyramid \in Written(FromVips) :
               Spend(When(pyramid # FromVips)) /\ reference' = [by |-> "libvips", pyramid |-> pyramid]
    BY <1>1, <2>2
  <2> QED BY <1>3, <2>1, <2>2, Zenon DEF VipsReference, NoReference
<1>4. CASE OwnReference
  <2>1. CASE Spend(1) /\ reference' = Null
    BY <1>2, <2>1
  <2>2. CASE \E pyramid \in Written(Planned) :
               Spend(When(pyramid # Planned)) /\ reference' = [by |-> "monolithic", pyramid |-> pyramid]
    BY <1>1, <2>2
  <2> QED BY <1>4, <2>1, <2>2, Zenon DEF OwnReference, NoReference
<1> QED BY <1>3, <1>4, Zenon DEF BuildReference

LEMMA ScoreIsTold ==
  ASSUME HarnessAssumption, NullAssumption, ShapeInv, ScoresInv, Score
  PROVE  ScoresInv'
<1> DEFINE row == Head(toScore)
           told(cand) == [row EXCEPT !.psnr = SpotCheck(reference.pyramid, cand),
                                     !.from = cand, !.against = reference.pyramid]
<1>1. toScore # <<>> /\ reference # Null
  BY Zenon DEF Score, Scored
<1>2. \/ Spend(1) /\ Done(row)
      \/ \E cand \in Written(Planned) : Spend(When(cand # Planned)) /\ Done(told(cand))
  BY Zenon DEF Score
<1>3. IsNew(row)
  BY <1>1, HeadTailProperties DEF ScoresInv
<1>4. faults \in Nat
  BY DEF ScoresInv
<1> HIDE DEF row
<1>5. CASE Spend(1) /\ Done(row)
  <2>1. faults' \in Nat /\ faults' # 0
    BY <1>4, <1>5, SpendIs
  <2> PICK w : w = row
    OBVIOUS
  <2>2. IsTold(w) /\ Passes(w) /\ Done(w)
    BY <1>3, <1>5, NewIsTold
  <2> QED BY <1>1, <2>1, <2>2, RowTold
<1>6. ASSUME NEW cand \in Written(Planned), Spend(When(cand # Planned)), Done(told(cand))
      PROVE  ScoresInv'
  <2> DEFINE r == told(cand)
             ref == reference.pyramid
  <2>1. ref \in Seq(AnyLevel) /\ cand \in Seq(AnyLevel)
    <3>1. ref \in Seq(AnyLevel)
      BY <1>1 DEF ShapeInv, References
    <3>2. Written(Planned) \subseteq Seq(AnyLevel)
      BY LevelsOfAPlan, LevelsWritten DEF ShapeInv
    <3> QED BY <3>1, <3>2
  <2>2. r.psnr = SpotCheck(ref, cand) /\ r.from = cand /\ r.against = ref
    <3> DEFINE verdict == SpotCheck(ref, cand)
    <3> HIDE DEF verdict, ref
    <3>1. [row EXCEPT !.psnr = verdict, !.from = cand, !.against = ref].psnr = verdict
      BY <1>3, RowWith
    <3>2. [row EXCEPT !.psnr = verdict, !.from = cand, !.against = ref].from = cand
      BY <1>3, RowWith
    <3>3. [row EXCEPT !.psnr = verdict, !.from = cand, !.against = ref].against = ref
      BY <1>3, RowWith
    <3> QED BY <3>1, <3>2, <3>3 DEF verdict, ref
  <2>3. When(cand # Planned) \in Nat /\ (When(cand # Planned) = 0 => cand = Planned)
    BY DEF When
  <2>4. faults' \in Nat /\ (faults' = 0 => faults = 0 /\ cand = Planned)
    BY <1>4, <1>6, <2>3, SpendIs
  <2>5. faults' = 0 /\ Len(cand) > 1 => SpotCheck(ref, cand) = "pass"
    <3>1. SUFFICES ASSUME faults' = 0, Len(cand) > 1 PROVE SpotCheck(ref, cand) = "pass"
      OBVIOUS
    <3>2. faults = 0 /\ cand = Planned
      BY <2>4, <3>1
    <3>3. ref \in {Planned, FromVips}
      BY <1>1, <3>2 DEF ScoresInv
    <3> QED BY <3>1, <3>2, <3>3, SpotPasses DEF ShapeInv
  <2> HIDE DEF r, ref
  <2> PICK w : w = r
    OBVIOUS
  <2>6. Done(w)
    BY <1>6 DEF r, ref
  <2>7. IsTold(w)
    BY <2>1, <2>2 DEF IsTold
  <2>8. (faults' = 0) => Passes(w)
    BY <2>2, <2>5 DEF Passes
  <2> QED BY <1>1, <2>4, <2>6, <2>7, <2>8, RowTold
<1> HIDE DEF told
<1> QED BY <1>2, <1>5, <1>6

LEMMA ScoresBegin == SuiteInit => ScoresInv
<1> SUFFICES ASSUME SuiteInit PROVE ScoresInv
  OBVIOUS
<1>1. <<>> \in Seq({})
  OBVIOUS
<1>2. faults = 0 /\ reference = Null /\ toScore = <<>> /\ rows = <<>>
  BY DEF SuiteInit
<1> PICK C : C = {}
  OBVIOUS
<1>3. toScore \in Seq(C) /\ \A r \in C : IsNew(r)
  BY <1>1, <1>2
<1>4. rows \in Seq(C) /\ \A r \in C : IsTold(r) /\ (faults = 0 => Passes(r))
  BY <1>1, <1>2
<1>5. faults \in Nat /\ reference = Null
  BY <1>2
<1> QED BY <1>3, <1>4, <1>5 DEF ScoresInv

LEMMA ScoresStep ==
  ASSUME HarnessAssumption, NullAssumption, ShapeInv, GateInv, ScoresInv, SuiteNext
  PROVE  ScoresInv'
<1>a. faults \in Nat
  BY DEF ScoresInv
<1>1. CASE BuildReference
  <2>1. /\ faults' \in Nat /\ (faults' = 0 => faults = 0)
        /\ faults' = 0 /\ reference' # Null => reference'.pyramid \in {Planned, FromVips}
    BY <1>a, <1>1, BuiltAsPlanned
  <2>2. UNCHANGED <<size, toScore, rows>>
    BY <1>1, Zenon DEF BuildReference
  <2>3. Planned' = Planned /\ FromVips' = FromVips
    BY <2>2 DEF Planned, FromVips
  <2>4. PICK C : rows \in Seq(C) /\ \A r \in C : IsTold(r) /\ (faults = 0 => Passes(r))
    BY DEF ScoresInv
  <2>5. rows' \in Seq(C) /\ \A r \in C : IsTold(r) /\ (faults' = 0 => Passes(r))
    BY <2>1, <2>2, <2>4
  <2>6. \E D : toScore' \in Seq(D) /\ \A r \in D : IsNew(r)
    BY <2>2 DEF ScoresInv
  <2> QED BY <2>1, <2>3, <2>5, <2>6 DEF ScoresInv, IsNew, IsTold, Passes
<1>2. CASE SpawnSingleCell
  <2>1. PICK killed \in BOOLEAN, reaped \in BOOLEAN :
          \E m \in RunSingleCell(Head(turns).engine) :
            Spend(Amiss(Head(turns).engine, m) + When(killed) + When(~reaped))
    BY <1>2, Zenon DEF SpawnSingleCell
  <2>2. PICK m : Spend(Amiss(Head(turns).engine, m) + When(killed) + When(~reaped))
    BY <2>1
  <2> DEFINE n == Amiss(Head(turns).engine, m)
  <2>3. n \in Nat
    <3>1. \A b : When(b) \in Nat
      BY DEF When
    <3> QED BY <3>1, SMTT(30) DEF Amiss
  <2>4. When(killed) \in Nat /\ When(~reaped) \in Nat
    BY DEF When
  <2>5. UNCHANGED <<toScore, rows, reference, size>>
    BY <1>2, Zenon DEF SpawnSingleCell
  <2> HIDE DEF n
  <2>6. n + When(killed) + When(~reaped) \in Nat
    BY <2>3, <2>4, SMTT(30)
  <2>7. faults' \in Nat /\ (faults' = 0 => faults = 0)
    BY <1>a, <2>2, <2>6, SpendIs DEF n
  <2> QED BY <2>5, <2>7, ScoresStay
<1>3. CASE EndOfTurns
  <2>1. PICK C : Aggregated \in Seq(C) /\ \A r \in C : r.rep.grid \in Seq(Nat) /\ IsNew(r)
    <3>1. phase = "children"
      BY <1>3, Zenon DEF EndOfTurns
    <3> QED BY <3>1, AggregatesAre DEF ShapeInv, GateInv
  <2>2. UNCHANGED <<rows, reference, size, faults>> /\ toScore' = Aggregated
    BY <1>3, Zenon DEF EndOfTurns
  <2>3. Planned' = Planned /\ FromVips' = FromVips
    BY <2>2 DEF Planned, FromVips
  <2>4. toScore' \in Seq(C) /\ \A r \in C : IsNew(r)
    BY <2>1, <2>2
  <2> QED BY <2>2, <2>3, <2>4 DEF ScoresInv, IsNew, IsTold, Passes
<1>4. CASE Unscored
  <2> PICK w : w = Head(toScore)
    OBVIOUS
  <2>1. toScore # <<>> /\ Done(w) /\ faults' = faults
    BY <1>4, Zenon DEF Unscored
  <2>2. IsNew(w)
    BY <2>1, HeadTailProperties DEF ScoresInv
  <2> QED BY <1>a, <2>1, <2>2, NewIsTold, RowTold
<1>5. CASE Score
  BY <1>5, ScoreIsTold
<1>6. CASE NextConfiguration
  <2>1. UNCHANGED <<toScore, rows, faults>>
    BY <1>6, Zenon DEF NextConfiguration
  <2>2. (reference' # Null) => reference' = reference /\ size' = size
    BY <1>6, Zenon DEF NextConfiguration
  <2> QED BY <1>a, <2>1, <2>2, ScoresStay
<1>7. CASE WriteOutput \/ AppendHistory
  <2>1. UNCHANGED <<toScore, rows, reference, size>>
    BY <1>7, Zenon DEF WriteOutput, AppendHistory
  <2>2. faults' = faults \/ Spend(1)
    BY <1>7, Zenon DEF WriteOutput, AppendHistory
  <2>3. faults' \in Nat /\ (faults' = 0 => faults = 0)
    BY <1>a, <2>2, SpendIs
  <2> QED BY <2>1, <2>3, ScoresStay
<1> QED BY <1>1, <1>2, <1>3, <1>4, <1>5, <1>6, <1>7, Zenon DEF SuiteNext

\* ScoresAreTrue (spot_check_tile_psnr): the level that is compared has the
\* same grid on both sides, and several tiles if one below the full has, the
\* positions are of it, and no rerun that made what was planned fails.
THEOREM PassesAreEarned == SuiteSpec => []ScoresAreTrue
<1>1. ScoresInv => ScoresAreTrue
  <2> SUFFICES ASSUME ScoresInv, NEW i \in DOMAIN rows
      PROVE  LET cand(k) == rows[i].from[Len(rows[i].from) - k]
                 ref(k) == rows[i].against[Len(rows[i].against) - k]
                 below == {k \in 1..(Len(rows[i].from) - 1) :
                             k < Len(rows[i].against) /\ Grid(cand(k)) = Grid(ref(k))}
                 several == {k \in below : Grid(cand(k))[1] * Grid(cand(k))[2] > 1}
             IN  /\ rows[i].psnr = "pass" =>
                      \E k \in IF several # {} THEN several ELSE below : SampleAgrees(ref(k), cand(k))
                 /\ faults = 0 /\ Len(rows[i].from) > 1 => rows[i].psnr = "pass"
    BY Zenon DEF ScoresAreTrue
  <2> PICK from : from = rows[i].from
    OBVIOUS
  <2> PICK against : against = rows[i].against
    OBVIOUS
  <2> DEFINE cand(k) == Down(from, k)
             ref(k) == Down(against, k)
             below == {k \in 1..(Len(from) - 1) : k < Len(against) /\ Grid(cand(k)) = Grid(ref(k))}
             several == {k \in below : Grid(cand(k))[1] * Grid(cand(k))[2] > 1}
  <2>1. IsTold(rows[i]) /\ (faults = 0 => Passes(rows[i]))
    BY LenProperties, ElementOfSeq DEF ScoresInv
  <2>2. ASSUME rows[i].psnr = "pass"
        PROVE  \E k \in IF several # {} THEN several ELSE below : SampleAgrees(ref(k), cand(k))
    <3>1. from \in Seq(AnyLevel) /\ against \in Seq(AnyLevel) /\ SpotCheck(against, from) = "pass"
      BY <2>1, <2>2 DEF IsTold
    <3>2. below = Shared(against, from)
      <4> DEFINE S == Shared(against, from)
      <4>1. \A k : k \in S <=> k \in below
        BY <3>1, SharedAre
      <4> HIDE DEF S, below
      <4> QED BY <4>1 DEF S
    <3>3. several = Several(against, from)
      <4> HIDE DEF below
      <4> QED BY <3>2 DEF Several
    <3> HIDE DEF below, several
    <3> PICK k \in IF several # {} THEN several ELSE below : SampleAgrees(Down(against, k), Down(from, k))
      <4>1. \E k \in IF Several(against, from) # {} THEN Several(against, from) ELSE Shared(against, from) :
              SampleAgrees(Down(against, k), Down(from, k))
        BY <3>1, HarnessAssumption, NullAssumption, SpotIsTrue
      <4> QED BY <3>2, <3>3, <4>1
    <3> QED OBVIOUS
  <2> QED BY <2>1, <2>2, Zenon DEF Passes, Down
<1>2. SuiteInit => ScoresInv
  BY ScoresBegin
<1>3. SuiteInv /\ ScoresInv /\ [SuiteNext]_suiteVars => ScoresInv'
  <2> SUFFICES ASSUME SuiteInv, ScoresInv, [SuiteNext]_suiteVars PROVE ScoresInv'
    OBVIOUS
  <2>1. CASE SuiteNext
    BY <2>1, HarnessAssumption, NullAssumption, ScoresStep DEF SuiteInv
  <2>2. CASE UNCHANGED suiteVars
    <3>1. UNCHANGED <<toScore, rows, reference, size, faults>>
      BY <2>2 DEF suiteVars
    <3> QED BY <3>1, ScoresStay DEF ScoresInv
  <2> QED BY <2>1, <2>2
<1> QED BY <1>1, <1>2, <1>3, SuiteIsKept, PTL DEF SuiteSpec

=============================================================================
