----------------------------- MODULE HeapProofs -----------------------------
(***************************************************************************)
(* Measuring windows exclude each other across threads, and what a window  *)
(* answers is so, for any number of threads and any bound on the windows   *)
(* and on how deep they nest.                                              *)
(*                                                                         *)
(* A thread measures exactly when its NESTED flag is set, and then it owns *)
(* the lock.  What keeps that true when windows are dropped is that the    *)
(* outermost window, and it alone, carries the lock and the order to clear *)
(* the flag (LockInv).  It alone found ARMED clear, so that ARMED is set   *)
(* exactly while a window is open or about to be (ArmInv).  Under a set    *)
(* flag every block a thread took or gave back is on its way into the      *)
(* total, so that the total plus what is on its way differs from what is   *)
(* live by a constant (Owed), which every baseline has read up to the      *)
(* other threads' blocks (LiveInv); and a thread that is alone moves the   *)
(* peak and the most that was live alike (PeakInv).                        *)
(***************************************************************************)
EXTENDS Heap, FiniteSetTheorems, SequenceTheorems, TLAPS

Opening == {"swap", "probe", "unprobe", "baseline", "store"}

Window ==
  [baseline : Int, wasArmed : BOOLEAN, wasNested : BOOLEAN, installed : BOOLEAN,
   locked : BOOLEAN, liveAt : Int]

Typed ==
  /\ armed \in BOOLEAN /\ installed \in BOOLEAN
  /\ inFlight \in Int /\ live \in Int
  /\ pc \in [Thread -> PC]
  /\ nested \in [Thread -> BOOLEAN]
  /\ windows \in [Thread -> Seq(Window)]
  /\ opening \in [Thread -> Window]

\* A flag is set exactly by the thread that measures, and that thread owns the
\* lock.
FlagIsMeasuring ==
  \A t \in Thread :
    /\ nested[t] <=> (windows[t] # <<>> \/ pc[t] \in Opening)
    /\ nested[t] => lock = t

\* The outermost window carries the lock and no other does.
OutermostLocks ==
  \A t \in Thread : \A i \in 1..Len(windows[t]) :
    /\ windows[t][i].locked <=> i = 1
    /\ windows[t][i].wasNested <=> i # 1

\* So does the window being opened, if it is going to be the outermost one.
OpeningLocks ==
  \A t \in Thread :
    pc[t] \in Opening =>
      /\ opening[t].locked <=> windows[t] = <<>>
      /\ opening[t].wasNested <=> windows[t] # <<>>

LockInv == Typed /\ FlagIsMeasuring /\ OutermostLocks /\ OpeningLocks

-----------------------------------------------------------------------------
\* A window that is being opened is a window, and what is written into it
\* leaves alone what it was given at the lock.
LEMMA FirstWindow ==
  ASSUME NEW b \in BOOLEAN
  PROVE  LET w == [NoWindow EXCEPT !.wasNested = b, !.locked = ~b]
         IN  NoWindow \in Window /\ w \in Window /\ w.locked = ~b /\ w.wasNested = b
<1>1. NoWindow \in Window
  <2>1. 0 \in Int
    BY SMT
  <2> QED BY <2>1, Zenon DEF NoWindow, Window
<1>2. CASE b = TRUE
  BY <1>1, <1>2, Zenon DEF NoWindow, Window
<1>3. CASE b = FALSE
  BY <1>1, <1>3, Zenon DEF NoWindow, Window
<1> QED BY <1>2, <1>3

\* A window of which one flag is written is a window.
LEMMA WindowFlag ==
  ASSUME NEW r \in Window, NEW b \in BOOLEAN,
         NEW w \in {[r EXCEPT !.wasArmed = b], [r EXCEPT !.installed = b]}
  PROVE  w \in Window /\ w.locked = r.locked /\ w.wasNested = r.wasNested
<1>1. CASE w = [r EXCEPT !.wasArmed = b]
  BY <1>1, SMT DEF Window
<1>2. CASE w = [r EXCEPT !.installed = b]
  BY <1>2, SMT DEF Window
<1> QED BY <1>1, <1>2

-----------------------------------------------------------------------------
\* Before anything ran nobody measures.
LEMMA LockInit == ASSUME HeapAssumption, Init PROVE LockInv
<1> USE DEF Init
<1>1. NoWindow \in Window
  BY FirstWindow
<1>2. <<>> \in Seq(Window) /\ Len(<<>>) = 0
  BY EmptySeq
<1>3. live \in Int
  BY SMT DEF HeapAssumption
<1>4. "idle" \in PC /\ "idle" \notin Opening
  BY DEF PC, Opening
<1>5. Typed
  <2>1. armed \in BOOLEAN /\ installed \in BOOLEAN
    BY Zenon
  <2>2. pc \in [Thread -> PC] /\ nested \in [Thread -> BOOLEAN]
    BY <1>4, Zenon
  <2>3. windows \in [Thread -> Seq(Window)] /\ opening \in [Thread -> Window]
    BY <1>1, <1>2, Zenon
  <2>4. inFlight \in Int
    BY SMT
  <2> QED BY <1>3, <2>1, <2>2, <2>3, <2>4, Zenon DEF Typed
<1>6. FlagIsMeasuring /\ OpeningLocks
  BY <1>4, Zenon DEF FlagIsMeasuring, OpeningLocks
<1>7. OutermostLocks
  BY <1>2, SMT DEF OutermostLocks
<1> QED BY <1>5, <1>6, <1>7 DEF LockInv

\* Allocating and freeing touch the counters only.
LEMMA LockHeapSteps ==
  ASSUME HeapAssumption, LockInv, NEW t \in Thread,
         Alloc(t) \/ Charge(t) \/ Add(t) \/ RaisePeak(t) \/ Free(t) \/ Discharge(t) \/ Subtract(t)
  PROVE  LockInv'
<1> USE DEF LockInv, Typed, Goto, PC
<1>1. UNCHANGED <<lock, nested, windows, opening>>
  BY DEF Alloc, Charge, Add, RaisePeak, Free, Discharge, Subtract, measuring
<1>2. /\ armed' \in BOOLEAN /\ installed' \in BOOLEAN
      /\ inFlight' \in Int /\ live' \in Int
      /\ pc' \in [Thread -> PC]
  <2>1. CASE Alloc(t) \/ Free(t) \/ Discharge(t)
    <3>1. UNCHANGED <<armed, installed, inFlight>>
      BY <2>1, Zenon DEF Alloc, Free, Discharge, counters
    <3>2. live' \in Int
      BY <2>1, SMT DEF Alloc, Free, Discharge
    <3>3. PICK next \in PC : pc' = [pc EXCEPT ![t] = next]
      BY <2>1, Zenon DEF Alloc, Free, Discharge
    <3>4. pc' \in [Thread -> PC]
      BY <3>3, Zenon
    <3> QED BY <3>1, <3>2, <3>4
  <2>2. CASE Charge(t)
    <3>1. installed' \in BOOLEAN
      BY <2>2, Zenon DEF Charge
    <3>2. pc' \in [Thread -> PC]
      BY <2>2, SMT DEF Charge
    <3> QED BY <2>2, <3>1, <3>2 DEF Charge
  <2>3. CASE Add(t)
    BY <2>3, SMT DEF Add
  <2>4. CASE RaisePeak(t)
    BY <2>4, SMT DEF RaisePeak
  <2>5. CASE Subtract(t)
    BY <2>5, SMT DEF Subtract
  <2> QED BY <2>1, <2>2, <2>3, <2>4, <2>5
<1>3. \A s \in Thread : pc'[s] \in Opening <=> pc[s] \in Opening
  BY SMT DEF Alloc, Charge, Add, RaisePeak, Free, Discharge, Subtract, Opening
<1>4. Typed'
  BY <1>1, <1>2, Zenon
<1> QED BY <1>1, <1>3, <1>4, Zenon DEF FlagIsMeasuring, OutermostLocks, OpeningLocks

\* The lock is free for a thread that does not measure only if nobody does.
LEMMA LockLock ==
  ASSUME HeapAssumption, LockInv, NEW t \in Thread, Lock(t)
  PROVE  LockInv'
<1> USE DEF LockInv, Typed, Goto, PC, Lock, counters
<1>1. Typed'
  <2>1. [NoWindow EXCEPT !.wasNested = nested[t], !.locked = ~nested[t]] \in Window
    BY FirstWindow
  <2>2. pc' \in [Thread -> PC] /\ nested' \in [Thread -> BOOLEAN]
    BY SMT
  <2>3. opening' \in [Thread -> Window]
    BY <2>1, Zenon
  <2> QED BY <2>2, <2>3, Zenon
<1>2. FlagIsMeasuring'
  BY SMT DEF FlagIsMeasuring, Opening, HeapAssumption
<1>3. OutermostLocks'
  BY SMT DEF OutermostLocks
<1>4. OpeningLocks'
  <2> SUFFICES ASSUME NEW s \in Thread, pc'[s] \in Opening
               PROVE  /\ opening'[s].locked <=> windows'[s] = <<>>
                      /\ opening'[s].wasNested <=> windows'[s] # <<>>
    BY DEF OpeningLocks
  <2>1. CASE s = t
    <3>1. nested[t] <=> windows[t] # <<>>
      BY SMT DEF FlagIsMeasuring, Opening
    <3>2. opening'[t].locked = ~nested[t] /\ opening'[t].wasNested = nested[t]
      <4>1. opening'[t] = [NoWindow EXCEPT !.wasNested = nested[t], !.locked = ~nested[t]]
        BY Zenon
      <4> QED BY <4>1, FirstWindow
    <3> QED BY <2>1, <3>1, <3>2
  <2>2. CASE s # t
    BY <2>2, SMT DEF OpeningLocks, Opening
  <2> QED BY <2>1, <2>2
<1> QED BY <1>1, <1>2, <1>3, <1>4

\* A window on its way to being open keeps what it was given at the lock.
LEMMA LockOpening ==
  ASSUME HeapAssumption, LockInv, NEW t \in Thread,
         Swap(t) \/ Probe(t) \/ Unprobe(t) \/ Baseline(t)
  PROVE  LockInv'
<1> USE DEF LockInv, Typed, Goto, PC
<1>1. UNCHANGED <<lock, nested, windows>>
  BY DEF Swap, Probe, Unprobe, Baseline, measuring
<1>2. /\ armed' \in BOOLEAN /\ installed' \in BOOLEAN
      /\ inFlight' \in Int /\ live' \in Int
      /\ pc' \in [Thread -> PC]
  <2>1. CASE Swap(t)
    BY <2>1, SMT DEF Swap
  <2>2. CASE Probe(t)
    BY <2>2, SMT DEF Probe
  <2>3. CASE Unprobe(t)
    BY <2>3, SMT DEF Unprobe
  <2>4. CASE Baseline(t)
    BY <2>4, SMT DEF Baseline, counters
  <2> QED BY <2>1, <2>2, <2>3, <2>4
<1>3. \A s \in Thread : pc'[s] \in Opening <=> pc[s] \in Opening
  BY SMT DEF Swap, Probe, Unprobe, Baseline, Opening
<1>4. PICK w \in Window : /\ opening' = [opening EXCEPT ![t] = w]
                          /\ w.locked = opening[t].locked
                          /\ w.wasNested = opening[t].wasNested
  <2>1. opening[t] \in Window
    OBVIOUS
  <2>2. CASE Swap(t)
    <3>1. opening' = [opening EXCEPT ![t] = [opening[t] EXCEPT !.wasArmed = armed]]
      BY <2>2, Zenon DEF Swap
    <3> QED BY <2>1, <3>1, WindowFlag
  <2>3. CASE Probe(t)
    <3>1. opening' = [opening EXCEPT ![t] = opening[t]]
      BY <2>3, Zenon DEF Probe, measuring
    <3> QED BY <2>1, <3>1
  <2>4. CASE Unprobe(t)
    <3>1. opening' = [opening EXCEPT ![t] = [opening[t] EXCEPT !.installed = installed]]
      BY <2>4, Zenon DEF Unprobe
    <3> QED BY <2>1, <3>1, WindowFlag
  <2>5. CASE Baseline(t)
    <3>1. opening' = [opening EXCEPT ![t] = [opening[t] EXCEPT !.baseline = inFlight, !.liveAt = live]]
      BY <2>5, Zenon DEF Baseline
    <3>2. PICK w : w = [opening[t] EXCEPT !.baseline = inFlight, !.liveAt = live]
      OBVIOUS
    <3>3. inFlight \in Int /\ live \in Int
      OBVIOUS
    <3>4. w \in Window /\ w.locked = opening[t].locked /\ w.wasNested = opening[t].wasNested
      BY <2>1, <3>2, <3>3, Zenon DEF Window
    <3> QED BY <3>1, <3>2, <3>4, Zenon
  <2> QED BY <2>2, <2>3, <2>4, <2>5
<1>5. opening' \in [Thread -> Window]
  BY <1>4, Zenon
<1>6. Typed'
  BY <1>1, <1>2, <1>5, Zenon
<1>7. \A s \in Thread : /\ opening'[s].locked = opening[s].locked
                        /\ opening'[s].wasNested = opening[s].wasNested
  BY <1>4, Zenon
<1>8. FlagIsMeasuring' /\ OutermostLocks'
  BY <1>1, <1>3, Zenon DEF FlagIsMeasuring, OutermostLocks
<1>9. OpeningLocks'
  BY <1>1, <1>3, <1>7, Zenon DEF OpeningLocks
<1> QED BY <1>6, <1>8, <1>9

\* The new window is the outermost one exactly if there was none.
LEMMA LockOpen ==
  ASSUME HeapAssumption, LockInv, NEW t \in Thread, Open(t)
  PROVE  LockInv'
<1> USE DEF LockInv, Typed, Goto, PC, Open
<1> DEFINE ws == windows[t]
           us == Append(ws, opening[t])
<1>1. /\ ws \in Seq(Window) /\ Len(ws) \in Nat
      /\ opening[t] \in Window
      /\ us \in Seq(Window) /\ Len(us) = Len(ws) + 1
      /\ \A i \in 1..Len(ws) : us[i] = ws[i]
      /\ us[Len(ws) + 1] = opening[t]
      /\ us # <<>>
  <2>1. ws \in Seq(Window) /\ opening[t] \in Window
    OBVIOUS
  <2>2. Len(ws) \in Nat
    BY <2>1, LenProperties
  <2>3. us \in Seq(Window) /\ us # <<>> /\ Len(us) = Len(ws) + 1
    BY <2>1, AppendProperties
  <2>4. \A i \in 1..Len(ws) : us[i] = ws[i]
    BY <2>1, AppendProperties
  <2>5. us[Len(ws) + 1] = opening[t]
    BY <2>1, AppendProperties
  <2> QED BY <2>1, <2>2, <2>3, <2>4, <2>5
<1>2. windows' = [windows EXCEPT ![t] = us]
  OBVIOUS
<1>3. Typed'
  BY <1>1, <1>2, SMT DEF NoWindow, Window
<1>4. ws = <<>> <=> Len(ws) = 0
  BY <1>1, EmptySeq, LenProperties, SMT
<1>5. FlagIsMeasuring'
  BY <1>1, <1>2, SMT DEF FlagIsMeasuring, Opening
<1>6. OutermostLocks'
  <2> SUFFICES ASSUME NEW s \in Thread, NEW i \in 1..Len(windows'[s])
               PROVE  /\ windows'[s][i].locked <=> i = 1
                      /\ windows'[s][i].wasNested <=> i # 1
    BY DEF OutermostLocks
  <2>1. CASE s # t
    BY <1>2, <2>1, SMT DEF OutermostLocks
  <2>2. CASE s = t /\ i \in 1..Len(ws)
    BY <1>1, <1>2, <2>2, SMT DEF OutermostLocks
  <2>3. CASE s = t /\ i = Len(ws) + 1
    <3>1. /\ opening[t].locked <=> ws = <<>>
          /\ opening[t].wasNested <=> ws # <<>>
      BY SMT DEF OpeningLocks, Opening
    <3>2. windows'[s][i] = opening[t]
      BY <1>1, <1>2, <2>3
    <3> QED BY <1>1, <1>4, <2>3, <3>1, <3>2, SMT
  <2>4. s = t => i \in 1..Len(ws) \/ i = Len(ws) + 1
    BY <1>1, <1>2, SMT
  <2> QED BY <2>1, <2>2, <2>3, <2>4
<1>7. OpeningLocks'
  BY <1>2, SMT DEF OpeningLocks, Opening
<1> QED BY <1>3, <1>5, <1>6, <1>7

\* Dropping the outermost window gives the lock back and clears the flag;
\* dropping another leaves both.
LEMMA LockDrop ==
  ASSUME HeapAssumption, LockInv, NEW t \in Thread, Drop(t)
  PROVE  LockInv'
<1> USE DEF LockInv, Typed, PC, Drop
<1> DEFINE ws == windows[t]
           n == Len(ws)
           us == SubSeq(ws, 1, n - 1)
           w == ws[n]
<1>1. ws \in Seq(Window) /\ ws # <<>> /\ n \in Nat /\ n >= 1 /\ w \in Window
  <2>1. ws \in Seq(Window) /\ ws # <<>>
    OBVIOUS
  <2>2. n \in Nat /\ n # 0
    BY <2>1, EmptySeq, LenProperties, SMT
  <2> QED BY <2>1, <2>2, ElementOfSeq, SMT
<1>2. /\ us \in Seq(Window) /\ Len(us) = n - 1
      /\ \A i \in 1..(n - 1) : us[i] = ws[i]
  <2>1. 1 \in 1..n+1 /\ n - 1 \in 1-1..n
    BY <1>1, SMT
  <2>2. us \in Seq(Window)
    BY <1>1, <2>1, SubSeqProperties
  <2>3. Len(us) = IF 1 <= n - 1 THEN (n - 1) - 1 + 1 ELSE 0
    BY <1>1, <2>1, SubSeqProperties
  <2>4. \A i \in 1..((n - 1) - 1 + 1) : us[i] = ws[1 + i - 1]
    BY <1>1, <2>1, SubSeqProperties
  <2>5. Len(us) = n - 1
    <3> HIDE DEF us, n, Drop
    <3>1. n = 1 => Len(us) = 0
      BY <2>3, SMT
    <3>2. n # 1 => Len(us) = n - 1
      BY <1>1, <2>3, SMT
    <3> QED BY <3>1, <3>2, SMT
  <2>6. \A i \in 1..(n - 1) : us[i] = ws[i]
    <3> HIDE DEF us, ws
    <3> SUFFICES ASSUME NEW i \in 1..(n - 1) PROVE us[i] = ws[i]
      OBVIOUS
    <3>1. i \in 1..((n - 1) - 1 + 1) /\ 1 + i - 1 = i
      BY <1>1, SMT DEF n
    <3> QED BY <2>4, <3>1
  <2> QED BY <2>2, <2>5, <2>6
<1>3. us = <<>> <=> n = 1
  <2> HIDE DEF us, n, Drop, LockInv, Typed
  <2>1. us = <<>> => Len(us) = 0
    BY EmptySeq
  <2>2. us # <<>> => Len(us) \in Nat \ {0}
    BY <1>2, EmptySeq
  <2> QED BY <1>1, <1>2, <2>1, <2>2, SMT
<1>4. /\ windows' = [windows EXCEPT ![t] = us]
      /\ nested' = [nested EXCEPT ![t] = w.wasNested]
      /\ lock' = IF w.locked THEN NoThread ELSE lock
      /\ armed' = w.wasArmed
      /\ UNCHANGED <<inFlight, installed, pc, opening, live>>
  BY DEF Drop
<1>5. pc[t] \notin Opening
  BY SMT DEF Opening
<1>6. (w.locked <=> n = 1) /\ (w.wasNested <=> n # 1)
  <2>1. n \in 1..Len(windows[t])
    BY <1>1, SMT
  <2> QED BY <2>1, Zenon DEF OutermostLocks
<1> HIDE DEF ws, n, us, w, Drop
<1>7. Typed'
  BY <1>1, <1>2, <1>4, SMT DEF Window
<1>8. FlagIsMeasuring'
  <2> SUFFICES ASSUME NEW s \in Thread
               PROVE  /\ nested'[s] <=> (windows'[s] # <<>> \/ pc'[s] \in Opening)
                      /\ nested'[s] => lock' = s
    BY DEF FlagIsMeasuring
  <2>1. nested[t] /\ lock = t
    BY <1>1, SMT DEF FlagIsMeasuring, ws
  <2>2. CASE s = t
    BY <1>3, <1>4, <1>5, <1>6, <2>1, <2>2, SMT
  <2>3. CASE s # t
    BY <1>4, <2>1, <2>3, SMT DEF FlagIsMeasuring
  <2> QED BY <2>2, <2>3
<1>9. OutermostLocks'
  <2> SUFFICES ASSUME NEW s \in Thread, NEW i \in 1..Len(windows'[s])
               PROVE  /\ windows'[s][i].locked <=> i = 1
                      /\ windows'[s][i].wasNested <=> i # 1
    BY DEF OutermostLocks
  <2>1. CASE s # t
    BY <1>4, <2>1, SMT DEF OutermostLocks
  <2>2. CASE s = t
    <3>1. i \in 1..(n - 1) /\ windows'[t] = us
      BY <1>2, <1>4, <2>2, SMT
    <3>2. i \in 1..n /\ windows'[s][i] = windows[t][i]
      BY <1>1, <1>2, <2>2, <3>1, SMT DEF ws
    <3> QED BY <3>2, SMT DEF OutermostLocks, n, ws
  <2> QED BY <2>1, <2>2
<1>10. OpeningLocks'
  BY <1>4, <1>5, SMT DEF OpeningLocks
<1> QED BY <1>7, <1>8, <1>9, <1>10

\* Every step keeps the lock with the thread that measures.
LEMMA LockNext == ASSUME HeapAssumption, LockInv, [Next]_vars PROVE LockInv'
<1>1. CASE Next
  BY <1>1, LockHeapSteps, LockLock, LockOpening, LockOpen, LockDrop DEF Next
<1>2. CASE UNCHANGED vars
  BY <1>2 DEF vars, LockInv, Typed, FlagIsMeasuring, OutermostLocks, OpeningLocks
<1> QED BY <1>1, <1>2

-----------------------------------------------------------------------------
(* What a window finds in the flag, and what it finds out about the counter. *)

Armed == {"probe", "unprobe", "baseline", "store"}

\* The flag is set exactly while a window is open or about to be.
FlagIsArmed ==
  armed <=> \E t \in Thread : windows[t] # <<>> \/ pc[t] \in Armed

\* Only the outermost window found the flag clear, and all saw the counter.
WindowsFound ==
  \A t \in Thread : \A i \in 1..Len(windows[t]) :
    /\ windows[t][i].wasArmed <=> i # 1
    /\ windows[t][i].installed

OpeningFound ==
  \A t \in Thread :
    /\ pc[t] \in Armed => (opening[t].wasArmed <=> windows[t] # <<>>)
    /\ pc[t] = "unprobe" => installed
    /\ pc[t] \in {"baseline", "store"} => opening[t].installed

ArmInv == FlagIsArmed /\ WindowsFound /\ OpeningFound

\* What a stack of windows is after one more was opened.
LEMMA Pushed ==
  ASSUME NEW ws \in Seq(Window), NEW w \in Window
  PROVE  LET us == Append(ws, w)
         IN  /\ Len(ws) \in Nat /\ Len(us) = Len(ws) + 1 /\ us # <<>>
             /\ \A i \in 1..Len(ws) : us[i] = ws[i]
             /\ us[Len(ws) + 1] = w
             /\ ws = <<>> <=> Len(ws) = 0
BY AppendProperties, LenProperties, EmptySeq

\* What a stack of windows is after the last was dropped.
LEMMA Popped ==
  ASSUME NEW ws \in Seq(Window), ws # <<>>
  PROVE  LET n == Len(ws)
             us == SubSeq(ws, 1, n - 1)
         IN  /\ n \in Nat \ {0} /\ Len(us) = n - 1
             /\ \A i \in 1..(n - 1) : us[i] = ws[i]
             /\ us = <<>> <=> n = 1
<1> DEFINE n == Len(ws)
           us == SubSeq(ws, 1, n - 1)
<1>1. n \in Nat \ {0}
  BY EmptySeq, LenProperties, SMT
<1>2. 1 \in 1..n+1 /\ n - 1 \in 1-1..n
  BY <1>1, SMT
<1>3. /\ us \in Seq(Window)
      /\ Len(us) = IF 1 <= n - 1 THEN (n - 1) - 1 + 1 ELSE 0
      /\ \A i \in 1..((n - 1) - 1 + 1) : us[i] = ws[1 + i - 1]
  BY <1>2, SubSeqProperties
<1> HIDE DEF us, n
<1>4. Len(us) = n - 1
  BY <1>1, <1>3, SMT
<1>5. ASSUME NEW i \in 1..(n - 1) PROVE us[i] = ws[i]
  <2>1. i \in 1..((n - 1) - 1 + 1) /\ 1 + i - 1 = i
    BY <1>1, SMT
  <2> QED BY <1>3, <2>1
<1>6. us = <<>> <=> n = 1
  <2>1. us = <<>> => Len(us) = 0
    BY EmptySeq
  <2>2. us # <<>> => Len(us) \in Nat \ {0}
    BY <1>3, EmptySeq, LenProperties, SMT
  <2> QED BY <1>1, <1>4, <2>1, <2>2, SMT
<1> QED BY <1>1, <1>4, <1>5, <1>6 DEF us, n

\* While a thread measures, no other has a window or is opening one.
LEMMA OthersIdle ==
  ASSUME LockInv, NEW t \in Thread, windows[t] # <<>> \/ pc[t] \in Opening
  PROVE  \A s \in Thread \ {t} : windows[s] = <<>> /\ pc[s] \notin Opening
BY SMT DEF LockInv, FlagIsMeasuring

\* No window is open at first.
LEMMA ArmInit == ASSUME HeapAssumption, Init PROVE ArmInv
<1>1. Len(<<>>) = 0
  BY EmptySeq
<1>2. "idle" \notin Armed \cup {"unprobe", "baseline", "store"}
  BY DEF Armed
<1> QED BY <1>1, <1>2, SMT DEF Init, ArmInv, FlagIsArmed, WindowsFound, OpeningFound

\* Allocating and freeing raise INSTALLED and leave the flag.
LEMMA ArmHeapSteps ==
  ASSUME HeapAssumption, LockInv, ArmInv, NEW t \in Thread,
         Alloc(t) \/ Charge(t) \/ Add(t) \/ RaisePeak(t) \/ Free(t) \/ Discharge(t) \/ Subtract(t)
  PROVE  ArmInv'
<1> USE DEF LockInv, Typed, Goto, PC
<1>1. UNCHANGED <<armed, lock, nested, windows, opening>>
  BY DEF Alloc, Charge, Add, RaisePeak, Free, Discharge, Subtract, measuring, counters
<1>2. installed => installed'
  BY DEF Alloc, Charge, Add, RaisePeak, Free, Discharge, Subtract, counters
<1>3. \A s \in Thread : /\ pc'[s] \in Armed <=> pc[s] \in Armed
                        /\ pc'[s] = "unprobe" <=> pc[s] = "unprobe"
                        /\ pc'[s] \in {"baseline", "store"} <=> pc[s] \in {"baseline", "store"}
  BY SMT DEF Alloc, Charge, Add, RaisePeak, Free, Discharge, Subtract, Armed
<1> QED BY <1>1, <1>2, <1>3, Zenon DEF ArmInv, FlagIsArmed, WindowsFound, OpeningFound

\* arm() takes the lock, or finds its own thread measuring.
LEMMA ArmLock ==
  ASSUME HeapAssumption, LockInv, ArmInv, NEW t \in Thread, Lock(t)
  PROVE  ArmInv'
<1> USE DEF LockInv, Typed, Goto, PC, Lock, counters
<1>1. UNCHANGED <<armed, installed, windows>>
  OBVIOUS
<1>2. \A s \in Thread : pc'[s] \in Armed <=> pc[s] \in Armed
  BY SMT DEF Armed
<1>3. \A s \in Thread : pc'[s] \in Armed => pc'[s] = pc[s] /\ opening'[s] = opening[s]
  BY SMT DEF Armed
<1> HIDE DEF Lock, LockInv, Typed, Goto, PC, counters
<1>4. FlagIsArmed' /\ WindowsFound'
  BY <1>1, <1>2, Zenon DEF ArmInv, FlagIsArmed, WindowsFound
<1>5. OpeningFound'
  BY <1>1, <1>3, SMT DEF ArmInv, OpeningFound, Armed
<1> QED BY <1>4, <1>5 DEF ArmInv

\* The flag is found set exactly if the window is not the outermost one.
LEMMA ArmSwap ==
  ASSUME HeapAssumption, LockInv, ArmInv, NEW t \in Thread, Swap(t)
  PROVE  ArmInv'
<1> USE DEF LockInv, Typed, Goto, PC, Swap
<1>1. /\ armed' = TRUE /\ UNCHANGED <<installed, windows>>
      /\ pc[t] = "swap" /\ pc'[t] = "probe"
      /\ \A s \in Thread \ {t} : pc'[s] = pc[s] /\ opening'[s] = opening[s]
      /\ opening'[t].wasArmed = armed
  BY SMT DEF Window
<1>2. armed <=> windows[t] # <<>>
  <2>1. \A s \in Thread \ {t} : windows[s] = <<>> /\ pc[s] \notin Armed
    BY <1>1, OthersIdle, SMT DEF Opening, Armed
  <2> QED BY <1>1, <2>1, SMT DEF ArmInv, FlagIsArmed, Armed
<1>3. FlagIsArmed'
  BY <1>1, SMT DEF FlagIsArmed, Armed
<1>4. WindowsFound'
  BY <1>1, Zenon DEF ArmInv, WindowsFound
<1>5. OpeningFound'
  BY <1>1, <1>2, SMT DEF ArmInv, OpeningFound, Armed
<1> QED BY <1>3, <1>4, <1>5 DEF ArmInv

\* Reading the baseline touches no flag.
LEMMA BaselineKeeps ==
  ASSUME LockInv, NEW t \in Thread,
         opening' = [opening EXCEPT ![t].baseline = inFlight, ![t].liveAt = live]
  PROVE  /\ opening'[t].wasArmed = opening[t].wasArmed
         /\ opening'[t].installed = opening[t].installed
<1>1. opening[t] \in Window /\ opening \in [Thread -> Window]
  BY DEF LockInv, Typed
<1>2. PICK w : w = [opening[t] EXCEPT !.baseline = inFlight, !.liveAt = live]
  OBVIOUS
<1>3. w.wasArmed = opening[t].wasArmed /\ w.installed = opening[t].installed
  BY <1>1, <1>2, Zenon DEF Window
<1>4. opening'[t] = w
  BY <1>1, <1>2, Zenon
<1> QED BY <1>3, <1>4

\* The probe is counted because the flag is set.
LEMMA ArmProbe ==
  ASSUME HeapAssumption, LockInv, ArmInv, NEW t \in Thread, Probe(t) \/ Unprobe(t) \/ Baseline(t)
  PROVE  ArmInv'
<1> USE DEF LockInv, Typed, Goto, PC
<1>1. /\ UNCHANGED <<armed, windows>>
      /\ \A s \in Thread \ {t} : pc'[s] = pc[s] /\ opening'[s] = opening[s]
      /\ pc[t] \in Armed /\ pc'[t] \in Armed
      /\ installed => installed'
  BY SMT DEF Probe, Unprobe, Baseline, Armed, counters, measuring
<1>2. armed
  BY <1>1 DEF ArmInv, FlagIsArmed
<1>3. opening'[t].wasArmed = opening[t].wasArmed
  <2>1. CASE Probe(t) \/ Unprobe(t)
    BY <2>1, SMT DEF Probe, Unprobe, Window, measuring
  <2>2. CASE Baseline(t)
    BY <2>2, BaselineKeeps DEF Baseline
  <2> QED BY <2>1, <2>2
<1>4. pc'[t] = "unprobe" => installed'
  <2>1. CASE Probe(t)
    BY <1>2, <2>1, Zenon DEF Probe
  <2>2. CASE Unprobe(t) \/ Baseline(t)
    BY <2>2, SMT DEF Unprobe, Baseline
  <2> QED BY <2>1, <2>2
<1>5. pc'[t] \in {"baseline", "store"} => opening'[t].installed
  <2>1. CASE Probe(t)
    BY <2>1, SMT DEF Probe
  <2>2. CASE Unprobe(t)
    BY <2>2, SMT DEF Unprobe, ArmInv, OpeningFound, Window
  <2>3. CASE Baseline(t)
    <3>1. opening[t].installed
      BY <2>3, SMT DEF Baseline, ArmInv, OpeningFound
    <3>2. opening'[t].installed = opening[t].installed
      BY <2>3, BaselineKeeps DEF Baseline
    <3> QED BY <3>1, <3>2
  <2> QED BY <2>1, <2>2, <2>3
<1>6. FlagIsArmed'
  BY <1>1, SMT DEF ArmInv, FlagIsArmed
<1>7. WindowsFound'
  BY <1>1, Zenon DEF ArmInv, WindowsFound
<1>8. OpeningFound'
  BY <1>1, <1>3, <1>4, <1>5, SMT DEF ArmInv, OpeningFound
<1> QED BY <1>6, <1>7, <1>8 DEF ArmInv

\* arm() hands out its window.
LEMMA ArmOpen ==
  ASSUME HeapAssumption, LockInv, ArmInv, NEW t \in Thread, Open(t)
  PROVE  ArmInv'
<1> USE DEF LockInv, Typed, Goto, PC, Open
<1> DEFINE ws == windows[t]
           us == Append(ws, opening[t])
<1>1. /\ UNCHANGED <<armed, installed>>
      /\ windows' = [windows EXCEPT ![t] = us]
      /\ pc[t] = "store" /\ pc'[t] = "idle"
      /\ \A s \in Thread \ {t} : /\ pc'[s] = pc[s] /\ opening'[s] = opening[s]
                                 /\ windows'[s] = windows[s]
      /\ windows'[t] = us
  BY SMT
<1>2. ws \in Seq(Window) /\ opening[t] \in Window
  OBVIOUS
<1>3. /\ Len(ws) \in Nat /\ Len(us) = Len(ws) + 1 /\ us # <<>>
      /\ \A i \in 1..Len(ws) : us[i] = ws[i]
      /\ us[Len(ws) + 1] = opening[t]
      /\ ws = <<>> <=> Len(ws) = 0
  BY <1>2, Pushed
<1> HIDE DEF us, Open
<1>4. (opening[t].wasArmed <=> ws # <<>>) /\ opening[t].installed
  BY <1>1, SMT DEF ArmInv, OpeningFound, Armed
<1>5. armed
  BY <1>1, SMT DEF ArmInv, FlagIsArmed, Armed
<1>6. FlagIsArmed'
  BY <1>1, <1>3, <1>5, SMT DEF FlagIsArmed
<1>7. WindowsFound'
  <2> SUFFICES ASSUME NEW s \in Thread, NEW i \in 1..Len(windows'[s])
               PROVE  /\ windows'[s][i].wasArmed <=> i # 1
                      /\ windows'[s][i].installed
    BY DEF WindowsFound
  <2>1. CASE s # t
    BY <1>1, <2>1, SMT DEF ArmInv, WindowsFound
  <2>2. CASE s = t /\ i \in 1..Len(ws)
    BY <1>1, <1>3, <2>2, SMT DEF ArmInv, WindowsFound
  <2>3. CASE s = t /\ i = Len(ws) + 1
    BY <1>1, <1>3, <1>4, <2>3, SMT
  <2>4. s = t => i \in 1..Len(ws) \/ i = Len(ws) + 1
    BY <1>1, <1>3, SMT
  <2> QED BY <2>1, <2>2, <2>3, <2>4
<1>8. OpeningFound'
  BY <1>1, SMT DEF ArmInv, OpeningFound, Armed
<1> QED BY <1>6, <1>7, <1>8 DEF ArmInv

\* The outermost window clears the flag, and no other window is left then.
LEMMA ArmDrop ==
  ASSUME HeapAssumption, LockInv, ArmInv, NEW t \in Thread, Drop(t)
  PROVE  ArmInv'
<1> USE DEF LockInv, Typed, PC, Drop
<1> DEFINE ws == windows[t]
           n == Len(ws)
           us == SubSeq(ws, 1, n - 1)
<1>1. /\ ws \in Seq(Window) /\ ws # <<>>
      /\ UNCHANGED <<installed, pc, opening>>
      /\ pc[t] = "idle"
      /\ \A s \in Thread \ {t} : windows'[s] = windows[s]
      /\ windows'[t] = us
      /\ armed' = ws[n].wasArmed
  BY SMT
<1>2. /\ n \in Nat \ {0} /\ Len(us) = n - 1
      /\ \A i \in 1..(n - 1) : us[i] = ws[i]
      /\ us = <<>> <=> n = 1
  BY <1>1, Popped
<1> HIDE DEF us, n, Drop
<1>3. n \in 1..Len(windows[t])
  BY <1>2, SMT DEF n
<1>4. armed' <=> us # <<>>
  BY <1>1, <1>2, <1>3, SMT DEF ArmInv, WindowsFound
<1>5. \A s \in Thread \ {t} : windows[s] = <<>> /\ pc[s] \notin Armed
  BY <1>1, OthersIdle, SMT DEF Opening, Armed
<1>6. FlagIsArmed'
  BY <1>1, <1>4, <1>5, SMT DEF FlagIsArmed, Armed
<1>7. WindowsFound'
  <2> SUFFICES ASSUME NEW s \in Thread, NEW i \in 1..Len(windows'[s])
               PROVE  /\ windows'[s][i].wasArmed <=> i # 1
                      /\ windows'[s][i].installed
    BY DEF WindowsFound
  <2>1. CASE s # t
    BY <1>1, <2>1, SMT DEF ArmInv, WindowsFound
  <2>2. CASE s = t
    <3>1. i \in 1..(n - 1) /\ i \in 1..Len(windows[t])
      BY <1>1, <1>2, <2>2, SMT DEF n
    <3> QED BY <1>1, <1>2, <2>2, <3>1, SMT DEF ArmInv, WindowsFound
  <2> QED BY <2>1, <2>2
<1>8. OpeningFound'
  BY <1>1, SMT DEF ArmInv, OpeningFound, Armed
<1> QED BY <1>6, <1>7, <1>8 DEF ArmInv

\* Every step of every thread keeps the invariant of the flag.
LEMMA ArmNext == ASSUME HeapAssumption, LockInv, ArmInv, [Next]_vars PROVE ArmInv'
<1>1. CASE Next
  BY <1>1, ArmHeapSteps, ArmLock, ArmSwap, ArmProbe, ArmOpen, ArmDrop DEF Next
<1>2. CASE UNCHANGED vars
  BY <1>2 DEF vars, ArmInv, FlagIsArmed, WindowsFound, OpeningFound
<1> QED BY <1>1, <1>2

\* Both invariants hold in every reachable state.
LEMMA Invariance == Spec => [](LockInv /\ ArmInv)
<1>1. Init => LockInv /\ ArmInv
  BY LockInit, ArmInit, HeapAssumption
<1>2. LockInv /\ ArmInv /\ [Next]_vars => (LockInv /\ ArmInv)'
  BY LockNext, ArmNext, HeapAssumption
<1> QED BY <1>1, <1>2, PTL DEF Spec

\* "Two windows open at once measure each other": no two threads ever have a
\* window open, or half open, at once, however the windows of the one nest.
THEOREM WindowsExclude == Spec => []OneThreadMeasures
<1>1. LockInv => OneThreadMeasures
  BY SMT DEF LockInv, FlagIsMeasuring, OneThreadMeasures, Measuring, Opening
<1> QED BY <1>1, Invariance, PTL

\* Drop for Armed puts back what its window found: a window counts until it is
\* dropped, however many opened and closed inside it, and then nothing counts.
THEOREM CountsWhileOpen == Spec => []ArmedWhileOpen
<1>1. LockInv /\ ArmInv => ArmedWhileOpen
  <2> SUFFICES ASSUME LockInv, ArmInv, Quiet
               PROVE  armed <=> \E t \in Thread : windows[t] # <<>>
    BY DEF ArmedWhileOpen
  <2>1. \A t \in Thread : pc[t] \notin Armed
    BY SMT DEF Quiet, Armed
  <2> QED BY <2>1 DEF ArmInv, FlagIsArmed
<1> QED BY <1>1, Invariance, PTL

\* arm() answers only after its probe went through the counting path.
THEOREM ProbeIsCounted == Spec => []WindowsSeeTheAllocator
<1>1. LockInv /\ ArmInv => WindowsSeeTheAllocator
  <2> SUFFICES ASSUME LockInv, ArmInv, NEW t \in Thread, NEW i \in DOMAIN windows[t]
               PROVE  windows[t][i].installed
    BY DEF WindowsSeeTheAllocator
  <2>1. windows[t] \in Seq(Window)
    BY DEF LockInv, Typed
  <2>2. i \in 1..Len(windows[t])
    BY <2>1, LenProperties
  <2> QED BY <2>2 DEF ArmInv, WindowsFound
<1> QED BY <1>1, Invariance, PTL

-----------------------------------------------------------------------------
(* What the total and the peak stand for. *)

\* The threads that are about to count a block they took or gave back, and the
\* one whose probe is out.
Up == {t \in Thread : pc[t] \in {"charge", "add"}}
Down == {t \in Thread : pc[t] \in {"discharge", "subtract"}}
Probing == {t \in Thread : pc[t] = "unprobe"}

\* What the total will have moved by, over what the process will hold, once they
\* are through.
Owed == inFlight + Cardinality(Up) - Cardinality(Down) - Cardinality(Probing) - live

\* A window's baseline is off by no more than one block for each other thread.
Within(off) ==
  LET others == Cardinality(Thread) - 1
  IN  -others <= off /\ off <= others

Near(w) == Within(Owed - (w.baseline - w.liveAt))

LiveInv ==
  \A t \in Thread :
    /\ \A i \in 1..Len(windows[t]) : Near(windows[t][i])
    /\ pc[t] = "store" => Near(opening[t])

\* A thread that is taking or giving back a block.
Busy == {"charge", "add", "max", "discharge", "subtract"}

\* The block a thread is about to count, and what the peak is going to be.
Mine(t) ==
  IF pc[t] \in {"charge", "add"} THEN 1
  ELSE IF pc[t] \in {"discharge", "subtract"} THEN -1 ELSE 0

Coming(t) ==
  IF pc[t] \in {"charge", "add"} THEN inFlight + 1
  ELSE IF pc[t] = "max" THEN reg[t] ELSE peak

\* The window opened last is this thread's, and nobody else took a block.
Latest(t) == windows[t] # <<>> /\ Len(windows[t]) = opened /\ usedBy \subseteq {t}

PeakTyped ==
  /\ peak \in Int /\ high \in Int /\ opened \in Int /\ reg \in [Thread -> Int]
  /\ usedBy \subseteq Thread

\* Who is busy has used the heap, and a window on its way is not yet counted
\* among its thread's.
Known ==
  \A t \in Thread :
    /\ pc[t] \in Busy => t \in usedBy
    /\ Len(windows[t]) <= opened
    /\ pc[t] \in Opening => Len(windows[t]) < opened

\* The baseline that is about to become the peak, and the blocks held there.
Stored ==
  \A t \in Thread :
    pc[t] = "store" =>
      /\ reg[t] = opening[t].baseline
      /\ usedBy \subseteq {t} => live = opening[t].liveAt /\ inFlight = opening[t].baseline

Tracks(t) ==
  /\ inFlight + Mine(t) - live = Innermost(t).baseline - Innermost(t).liveAt
  /\ Larger(peak, Coming(t)) - Innermost(t).baseline = high - Innermost(t).liveAt

Tracked == \A t \in Thread : Latest(t) => Tracks(t)

PeakInv == PeakTyped /\ Known /\ Stored /\ Tracked

\* Sets of threads that differ in one thread differ by that one.
LEMMA OneMoves ==
  ASSUME HeapAssumption, NEW t \in Thread,
         NEW A \in SUBSET Thread, NEW B \in SUBSET Thread, A \ {t} = B \ {t}
  PROVE  /\ Cardinality(A) \in Nat /\ Cardinality(B) \in Nat
         /\ t \in A /\ t \in B => Cardinality(B) = Cardinality(A)
         /\ t \notin A /\ t \notin B => Cardinality(B) = Cardinality(A)
         /\ t \notin A /\ t \in B => Cardinality(B) = Cardinality(A) + 1
         /\ t \in A /\ t \notin B => Cardinality(B) = Cardinality(A) - 1
<1>1. IsFiniteSet(A) /\ IsFiniteSet(B)
  BY FS_Subset DEF HeapAssumption
<1>2. Cardinality(A) \in Nat /\ Cardinality(B) \in Nat
  BY <1>1, FS_CardinalityType
<1>3. (t \in A /\ t \in B) \/ (t \notin A /\ t \notin B) => A = B
  OBVIOUS
<1>4. t \notin A /\ t \in B => B = A \cup {t}
  OBVIOUS
<1>5. t \in A /\ t \notin B => B = A \ {t}
  OBVIOUS
<1>6. t \notin A => Cardinality(A \cup {t}) = Cardinality(A) + 1
  BY <1>1, FS_AddElement
<1>7. t \in A => Cardinality(A \ {t}) = Cardinality(A) - 1
  BY <1>1, FS_RemoveElement
<1> QED BY <1>2, <1>3, <1>4, <1>5, <1>6, <1>7

\* A step of a thread, of those that may change what is owed or who owes it.
HeapStep(t) == Alloc(t) \/ Charge(t) \/ Add(t) \/ RaisePeak(t) \/ Free(t) \/ Discharge(t) \/ Subtract(t)
WindowStep(t) == Lock(t) \/ Swap(t) \/ Probe(t) \/ Unprobe(t) \/ Baseline(t) \/ Open(t) \/ Drop(t)

\* One thread moves at a time.
LEMMA OneSteps ==
  ASSUME LockInv, NEW t \in Thread, HeapStep(t) \/ WindowStep(t)
  PROVE  \A s \in Thread \ {t} : pc'[s] = pc[s]
<1>1. ASSUME NEW next, pc' = [pc EXCEPT ![t] = next] PROVE \A s \in Thread \ {t} : pc'[s] = pc[s]
  BY <1>1, Zenon DEF LockInv, Typed
<1>2. CASE Drop(t)
  BY <1>2 DEF Drop
<1>3. CASE HeapStep(t)
  BY <1>1, <1>3, Zenon DEF HeapStep, Goto, Alloc, Charge, Add, RaisePeak, Free, Discharge, Subtract
<1>4. CASE WindowStep(t) /\ ~Drop(t)
  BY <1>1, <1>4, Zenon DEF WindowStep, Goto, Lock, Swap, Probe, Unprobe, Baseline, Open
<1> QED BY <1>2, <1>3, <1>4

\* While a window is open or about to be, nothing changes what will be owed once
\* everybody is through: what a thread moves, it owes before it moves it.
LEMMA OwedKept ==
  ASSUME HeapAssumption, LockInv, ArmInv, NEW t \in Thread, HeapStep(t) \/ WindowStep(t),
         armed \/ ~(Charge(t) \/ Discharge(t))
  PROVE  Owed \in Int /\ Owed' = Owed
<1>1. \A s \in Thread \ {t} : pc'[s] = pc[s]
  BY OneSteps
<1>2. pc \in [Thread -> PC] /\ inFlight \in Int /\ live \in Int
  BY DEF LockInv, Typed
<1>3. /\ Up \in SUBSET Thread /\ Up' \in SUBSET Thread /\ Up \ {t} = Up' \ {t}
      /\ Down \in SUBSET Thread /\ Down' \in SUBSET Thread /\ Down \ {t} = Down' \ {t}
      /\ Probing \in SUBSET Thread /\ Probing' \in SUBSET Thread /\ Probing \ {t} = Probing' \ {t}
  BY <1>1 DEF Up, Down, Probing
<1>4. PICK a \in Nat, a2 \in Nat, b \in Nat, b2 \in Nat, c \in Nat, c2 \in Nat :
        /\ a = Cardinality(Up) /\ a2 = Cardinality(Up')
        /\ b = Cardinality(Down) /\ b2 = Cardinality(Down')
        /\ c = Cardinality(Probing) /\ c2 = Cardinality(Probing')
  BY <1>3, OneMoves
<1>5. /\ t \in Up <=> pc[t] \in {"charge", "add"}
      /\ t \in Down <=> pc[t] \in {"discharge", "subtract"}
      /\ t \in Probing <=> pc[t] = "unprobe"
  BY DEF Up, Down, Probing
<1>6. /\ t \in Up' <=> pc'[t] \in {"charge", "add"}
      /\ t \in Down' <=> pc'[t] \in {"discharge", "subtract"}
      /\ t \in Probing' <=> pc'[t] = "unprobe"
  BY DEF Up, Down, Probing
<1>7. /\ (t \in Up <=> t \in Up') => a2 = a
      /\ t \notin Up /\ t \in Up' => a2 = a + 1
      /\ t \in Up /\ t \notin Up' => a2 = a - 1
      /\ (t \in Down <=> t \in Down') => b2 = b
      /\ t \notin Down /\ t \in Down' => b2 = b + 1
      /\ t \in Down /\ t \notin Down' => b2 = b - 1
      /\ (t \in Probing <=> t \in Probing') => c2 = c
      /\ t \notin Probing /\ t \in Probing' => c2 = c + 1
      /\ t \in Probing /\ t \notin Probing' => c2 = c - 1
  <2>1. (t \in Up <=> t \in Up') => a2 = a
    BY <1>3, <1>4, OneMoves
  <2>2. (t \in Down <=> t \in Down') => b2 = b
    BY <1>3, <1>4, OneMoves
  <2>3. (t \in Probing <=> t \in Probing') => c2 = c
    BY <1>3, <1>4, OneMoves
  <2>4. (t \notin Up /\ t \in Up' => a2 = a + 1) /\ (t \in Up /\ t \notin Up' => a2 = a - 1)
    BY <1>3, <1>4, OneMoves
  <2>5. (t \notin Down /\ t \in Down' => b2 = b + 1) /\ (t \in Down /\ t \notin Down' => b2 = b - 1)
    BY <1>3, <1>4, OneMoves
  <2>6. (t \notin Probing /\ t \in Probing' => c2 = c + 1) /\ (t \in Probing /\ t \notin Probing' => c2 = c - 1)
    BY <1>3, <1>4, OneMoves
  <2> QED BY <2>1, <2>2, <2>3, <2>4, <2>5, <2>6
<1>8. pc[t] \in {"probe", "unprobe"} => armed
  BY SMT DEF ArmInv, FlagIsArmed, Armed
<1>9. Owed = inFlight + a - b - c - live /\ Owed' = inFlight' + a2 - b2 - c2 - live'
  BY <1>4 DEF Owed
<1> USE DEF Goto, counters, measuring
<1>10. CASE HeapStep(t)
  <2>1. CASE Alloc(t)
    <3>1. pc[t] = "idle" /\ pc'[t] = "charge" /\ live' = live + 1 /\ inFlight' = inFlight
      BY <1>2, <2>1, SMT DEF Alloc
    <3> QED BY <1>2, <1>4, <1>5, <1>6, <1>7, <1>9, <3>1, SMT
  <2>2. CASE Free(t)
    <3>1. pc[t] = "idle" /\ pc'[t] = "discharge" /\ live' = live - 1 /\ inFlight' = inFlight
      BY <1>2, <2>2, SMT DEF Free
    <3> QED BY <1>2, <1>4, <1>5, <1>6, <1>7, <1>9, <3>1, SMT
  <2>3. CASE Charge(t)
    <3>1. pc[t] = "charge" /\ pc'[t] = "add" /\ live' = live /\ inFlight' = inFlight
      BY <1>2, <2>3, SMT DEF Charge
    <3> QED BY <1>2, <1>4, <1>5, <1>6, <1>7, <1>9, <3>1, SMT
  <2>4. CASE Discharge(t)
    <3>1. pc[t] = "discharge" /\ pc'[t] = "subtract" /\ live' = live /\ inFlight' = inFlight
      BY <1>2, <2>4, SMT DEF Discharge
    <3> QED BY <1>2, <1>4, <1>5, <1>6, <1>7, <1>9, <3>1, SMT
  <2>5. CASE Add(t)
    <3>1. pc[t] = "add" /\ pc'[t] = "max" /\ live' = live /\ inFlight' = inFlight + 1
      BY <1>2, <2>5, SMT DEF Add
    <3> QED BY <1>2, <1>4, <1>5, <1>6, <1>7, <1>9, <3>1, SMT
  <2>6. CASE Subtract(t)
    <3>1. pc[t] = "subtract" /\ pc'[t] = "idle" /\ live' = live /\ inFlight' = inFlight - 1
      BY <1>2, <2>6, SMT DEF Subtract
    <3> QED BY <1>2, <1>4, <1>5, <1>6, <1>7, <1>9, <3>1, SMT
  <2>7. CASE RaisePeak(t)
    <3>1. pc[t] = "max" /\ pc'[t] = "idle" /\ live' = live /\ inFlight' = inFlight
      BY <1>2, <2>7, SMT DEF RaisePeak
    <3> QED BY <1>2, <1>4, <1>5, <1>6, <1>7, <1>9, <3>1, SMT
  <2> QED BY <1>10, <2>1, <2>2, <2>3, <2>4, <2>5, <2>6, <2>7 DEF HeapStep
<1>11. CASE WindowStep(t)
  <2>1. CASE Probe(t)
    <3>1. pc[t] = "probe" /\ pc'[t] = "unprobe" /\ live' = live /\ inFlight' = inFlight + 1
      BY <1>2, <1>8, <2>1, SMT DEF Probe
    <3> QED BY <1>2, <1>4, <1>5, <1>6, <1>7, <1>9, <3>1, SMT
  <2>2. CASE Unprobe(t)
    <3>1. pc[t] = "unprobe" /\ pc'[t] = "baseline" /\ live' = live /\ inFlight' = inFlight - 1
      BY <1>2, <1>8, <2>2, SMT DEF Unprobe
    <3> QED BY <1>2, <1>4, <1>5, <1>6, <1>7, <1>9, <3>1, SMT
  <2>3. CASE Lock(t) \/ Swap(t) \/ Baseline(t) \/ Open(t) \/ Drop(t)
    <3>1. /\ live' = live /\ inFlight' = inFlight
          /\ pc[t] \in {"idle", "swap", "baseline", "store"}
          /\ pc'[t] \in {"idle", "swap", "probe", "store"}
      BY <1>2, <2>3, SMT DEF Lock, Swap, Baseline, Open, Drop
    <3> QED BY <1>2, <1>4, <1>5, <1>6, <1>7, <1>9, <3>1, SMT
  <2> QED BY <1>11, <2>1, <2>2, <2>3 DEF WindowStep
<1> QED BY <1>10, <1>11

\* What a window was given at its baseline is what its thread read there.
LEMMA BaselineReads ==
  ASSUME LockInv, NEW t \in Thread,
         opening' = [opening EXCEPT ![t].baseline = inFlight, ![t].liveAt = live]
  PROVE  opening'[t].baseline = inFlight /\ opening'[t].liveAt = live
<1>1. opening[t] \in Window /\ opening \in [Thread -> Window] /\ inFlight \in Int /\ live \in Int
  BY DEF LockInv, Typed
<1>2. PICK w : w = [opening[t] EXCEPT !.baseline = inFlight, !.liveAt = live]
  OBVIOUS
<1>3. w.baseline = inFlight /\ w.liveAt = live
  BY <1>1, <1>2, Zenon DEF Window
<1>4. opening'[t] = w
  BY <1>1, <1>2, Zenon
<1> QED BY <1>3, <1>4

\* When a thread takes its baseline nobody has a probe out, and only the other
\* threads may owe a block.
LEMMA BaselineIsNear ==
  ASSUME HeapAssumption, LockInv, NEW t \in Thread, pc[t] = "baseline"
  PROVE  Within(Owed - (inFlight - live))
<1>1. \A s \in Thread \ {t} : pc[s] \notin Opening
  BY OthersIdle, SMT DEF Opening
<1>2. Up \in SUBSET (Thread \ {t}) /\ Down \in SUBSET (Thread \ {t}) /\ Probing = {}
  BY <1>1, SMT DEF Up, Down, Probing, Opening
<1>3. IsFiniteSet(Thread) /\ IsFiniteSet(Thread \ {t})
  BY FS_Subset DEF HeapAssumption
<1>4. /\ Cardinality(Thread) \in Nat /\ Cardinality(Thread \ {t}) \in Nat
      /\ Cardinality(Thread \ {t}) = Cardinality(Thread) - 1
  BY <1>3, FS_RemoveElement, FS_CardinalityType
<1>5. Cardinality(Up) <= Cardinality(Thread \ {t}) /\ Cardinality(Down) <= Cardinality(Thread \ {t})
  BY <1>2, <1>3, FS_Subset
<1>6. Cardinality(Up) \in Nat /\ Cardinality(Down) \in Nat /\ Cardinality(Probing) = 0
  BY <1>2, <1>3, FS_Subset, FS_CardinalityType, FS_EmptySet
<1>7. inFlight \in Int /\ live \in Int
  BY DEF LockInv, Typed
<1> QED BY <1>4, <1>5, <1>6, <1>7, SMT DEF Within, Owed

\* No window is open at first.
LEMMA LiveInit == ASSUME HeapAssumption, Init PROVE LiveInv
<1>1. Len(<<>>) = 0
  BY EmptySeq
<1> QED BY <1>1, SMT DEF Init, LiveInv

\* Every step keeps the baselines near.
LEMMA LiveNext ==
  ASSUME HeapAssumption, LockInv, ArmInv, LiveInv, [Next]_vars
  PROVE  LiveInv'
<1>1. ASSUME NEW t \in Thread, HeapStep(t) \/ WindowStep(t) PROVE LiveInv'
  <2> USE DEF Goto
  <2>1. \A s \in Thread \ {t} : pc'[s] = pc[s]
    BY <1>1, OneSteps
  <2>2. /\ pc \in [Thread -> PC] /\ windows \in [Thread -> Seq(Window)]
        /\ opening \in [Thread -> Window]
    BY DEF LockInv, Typed
  <2>3. CASE ~armed /\ (Charge(t) \/ Discharge(t))
    <3>1. \A s \in Thread : windows[s] = <<>> /\ pc[s] \notin Armed
      BY <2>3 DEF ArmInv, FlagIsArmed
    <3>2. windows' = windows /\ pc'[t] = "idle"
      BY <2>2, <2>3, SMT DEF Charge, Discharge, measuring
    <3>3. \A s \in Thread : windows'[s] = <<>> /\ pc'[s] # "store"
      BY <2>1, <3>1, <3>2, SMT DEF Armed
    <3>4. Len(<<>>) = 0
      BY EmptySeq
    <3> QED BY <3>3, <3>4, SMT DEF LiveInv
  <2>4. CASE armed \/ ~(Charge(t) \/ Discharge(t))
    <3>1. Owed' = Owed
      BY <1>1, <2>4, OwedKept
    <3>2. \A w : Near(w) => Within(Owed' - (w.baseline - w.liveAt))
      BY <3>1 DEF Near
    <3> SUFFICES ASSUME NEW s \in Thread
                 PROVE  /\ \A i \in 1..Len(windows'[s]) :
                             Within(Owed' - (windows'[s][i].baseline - windows'[s][i].liveAt))
                        /\ pc'[s] = "store" =>
                             Within(Owed' - (opening'[s].baseline - opening'[s].liveAt))
      BY DEF LiveInv, Near, Within
    <3>3. /\ \A i \in 1..Len(windows[s]) : Near(windows[s][i])
          /\ pc[s] = "store" => Near(opening[s])
      BY DEF LiveInv
    <3>4. CASE HeapStep(t) \/ Lock(t) \/ Swap(t) \/ Probe(t) \/ Unprobe(t)
      <4>1. windows' = windows /\ pc'[t] # "store"
        BY <2>2, <3>4, SMT DEF HeapStep, Alloc, Charge, Add, RaisePeak, Free, Discharge, Subtract,
                               Lock, Swap, Probe, Unprobe, measuring
      <4>2. s # t => opening'[s] = opening[s]
        BY <2>2, <3>4, Zenon DEF HeapStep, Alloc, Charge, Add, RaisePeak, Free, Discharge, Subtract,
                                 Lock, Swap, Probe, Unprobe, measuring
      <4> QED BY <2>1, <3>2, <3>3, <4>1, <4>2
    <3>5. CASE Baseline(t)
      <4>1. windows' = windows /\ pc[t] = "baseline" /\ inFlight' = inFlight /\ live' = live
        BY <3>5 DEF Baseline, counters
      <4>2. s # t => opening'[s] = opening[s]
        BY <2>2, <3>5, Zenon DEF Baseline
      <4>3. opening'[t].baseline = inFlight /\ opening'[t].liveAt = live
        BY <3>5, BaselineReads DEF Baseline
      <4>4. Within(Owed' - (opening'[t].baseline - opening'[t].liveAt))
        BY <3>1, <4>1, <4>3, BaselineIsNear
      <4> QED BY <2>1, <3>2, <3>3, <4>1, <4>2, <4>4
    <3>6. CASE Open(t)
      <4>1. /\ pc[t] = "store" /\ pc'[t] = "idle"
            /\ windows'[t] = Append(windows[t], opening[t])
        BY <2>2, <3>6, SMT DEF Open
      <4>2. s # t => windows'[s] = windows[s] /\ opening'[s] = opening[s]
        BY <2>2, <3>6, Zenon DEF Open
      <4>3. CASE s # t
        BY <2>1, <3>2, <3>3, <4>2, <4>3
      <4>4. CASE s = t
        <5>1. windows[t] \in Seq(Window) /\ opening[t] \in Window
          BY <2>2
        <5>2. /\ Len(windows[t]) \in Nat /\ Len(windows'[t]) = Len(windows[t]) + 1
              /\ \A i \in 1..Len(windows[t]) : windows'[t][i] = windows[t][i]
              /\ windows'[t][Len(windows[t]) + 1] = opening[t]
          BY <4>1, <5>1, Pushed
        <5>3. ASSUME NEW i \in 1..Len(windows'[t])
              PROVE  i \in 1..Len(windows[t]) \/ i = Len(windows[t]) + 1
          BY <5>2, SMT
        <5>4. ASSUME NEW i \in 1..Len(windows'[t]) PROVE Near(windows'[t][i])
          BY <3>3, <4>1, <4>4, <5>2, <5>3
        <5> QED BY <3>2, <4>1, <4>4, <5>4
      <4> QED BY <4>3, <4>4
    <3>7. CASE Drop(t)
      <4>1. /\ pc' = pc /\ opening' = opening /\ windows[t] # <<>>
            /\ windows'[t] = SubSeq(windows[t], 1, Len(windows[t]) - 1)
        BY <2>2, <3>7, SMT DEF Drop
      <4>2. s # t => windows'[s] = windows[s]
        BY <2>2, <3>7, Zenon DEF Drop
      <4>3. CASE s # t
        BY <3>2, <3>3, <4>1, <4>2, <4>3
      <4>4. CASE s = t
        <5>1. windows[t] \in Seq(Window)
          BY <2>2
        <5>2. /\ Len(windows[t]) \in Nat \ {0} /\ Len(windows'[t]) = Len(windows[t]) - 1
              /\ \A i \in 1..(Len(windows[t]) - 1) : windows'[t][i] = windows[t][i]
          BY <4>1, <5>1, Popped
        <5>3. ASSUME NEW i \in 1..Len(windows'[t])
              PROVE  i \in 1..(Len(windows[t]) - 1) /\ i \in 1..Len(windows[t])
          BY <5>2, SMT
        <5>4. ASSUME NEW i \in 1..Len(windows'[t]) PROVE Near(windows'[t][i])
          BY <3>3, <4>4, <5>2, <5>3
        <5> QED BY <3>2, <3>3, <4>1, <4>4, <5>4
      <4> QED BY <4>3, <4>4
    <3> QED BY <1>1, <3>4, <3>5, <3>6, <3>7 DEF WindowStep
  <2> QED BY <2>3, <2>4
<1>2. CASE Next
  BY <1>1, <1>2 DEF Next, HeapStep, WindowStep
<1>3. CASE UNCHANGED vars
  BY <1>3 DEF vars, LiveInv, Near, Within, Owed, Up, Down, Probing
<1> QED BY <1>2, <1>3

\* No window is open at first, and nobody has used the heap.
LEMMA PeakInit == ASSUME HeapAssumption, Init PROVE PeakInv
<1>1. Len(<<>>) = 0
  BY EmptySeq
<1>2. "idle" \notin Busy \cup Opening \cup {"store"}
  BY DEF Busy, Opening
<1>3. live \in Int
  BY SMT DEF Init, HeapAssumption
<1> QED BY <1>1, <1>2, <1>3, SMT DEF Init, PeakInv, PeakTyped, Known, Stored, Tracked, Latest

\* The counters, the registers and the history stay of their kind.
LEMMA PeakTypes ==
  ASSUME LockInv, PeakInv, NEW t \in Thread, HeapStep(t) \/ WindowStep(t)
  PROVE  PeakTyped'
<1> USE DEF LockInv, Typed, PeakInv, PeakTyped, Larger, counters, measuring
<1>1. CASE Alloc(t) \/ Free(t)
  BY <1>1, SMT DEF Alloc, Free
<1>2. CASE Charge(t) \/ Discharge(t) \/ Subtract(t)
  BY <1>2, SMT DEF Charge, Discharge, Subtract
<1>3. CASE Add(t)
  BY <1>3, SMT DEF Add
<1>4. CASE RaisePeak(t)
  BY <1>4, SMT DEF RaisePeak
<1>5. CASE Lock(t)
  BY <1>5, SMT DEF Lock
<1>6. CASE Swap(t) \/ Unprobe(t) \/ Drop(t)
  BY <1>6, SMT DEF Swap, Unprobe, Drop
<1>7. CASE Probe(t)
  BY <1>7, SMT DEF Probe
<1>8. CASE Baseline(t)
  BY <1>8, SMT DEF Baseline
<1>9. CASE Open(t)
  BY <1>9, SMT DEF Open
<1> QED BY <1>1, <1>2, <1>3, <1>4, <1>5, <1>6, <1>7, <1>8, <1>9 DEF HeapStep, WindowStep

\* What a step leaves alone of the other threads, and of its own.
LEMMA Leaves ==
  ASSUME LockInv, PeakInv, NEW t \in Thread, HeapStep(t) \/ WindowStep(t)
  PROVE  /\ \A s \in Thread \ {t} : /\ windows'[s] = windows[s] /\ opening'[s] = opening[s]
                                    /\ reg'[s] = reg[s]
         /\ usedBy \subseteq usedBy'
         /\ HeapStep(t) =>
              /\ windows' = windows /\ opened' = opened /\ opening' = opening
              /\ pc'[t] \in Busy \cup {"idle"}
              /\ t \in usedBy'
<1> USE DEF counters, measuring
<1>1. /\ windows \in [Thread -> Seq(Window)] /\ opening \in [Thread -> Window]
      /\ reg \in [Thread -> Int] /\ pc \in [Thread -> PC]
  BY DEF LockInv, Typed, PeakInv, PeakTyped
<1>2. CASE HeapStep(t)
  <2>1. windows' = windows /\ opened' = opened /\ opening' = opening
    BY <1>2 DEF HeapStep, Alloc, Charge, Add, RaisePeak, Free, Discharge, Subtract
  <2>2. \A s \in Thread \ {t} : reg'[s] = reg[s]
    BY <1>1, <1>2, Zenon DEF HeapStep, Alloc, Charge, Add, RaisePeak, Free, Discharge, Subtract
  <2>3. pc'[t] \in Busy \cup {"idle"}
    BY <1>1, <1>2, SMT DEF HeapStep, Alloc, Charge, Add, RaisePeak, Free, Discharge, Subtract,
                           Goto, Busy
  <2>4. usedBy \subseteq usedBy' /\ t \in usedBy'
    <3>1. pc[t] \in Busy => t \in usedBy
      BY DEF PeakInv, Known
    <3> QED BY <1>2, <3>1, SMT DEF HeapStep, Alloc, Charge, Add, RaisePeak, Free, Discharge, Subtract, Busy
  <2> QED BY <2>1, <2>2, <2>3, <2>4
<1>3. CASE WindowStep(t)
  <2>1. \A s \in Thread \ {t} : /\ windows'[s] = windows[s] /\ opening'[s] = opening[s]
                                /\ reg'[s] = reg[s]
    BY <1>1, <1>3, Zenon DEF WindowStep, Lock, Swap, Probe, Unprobe, Baseline, Open, Drop
  <2>2. usedBy' = usedBy
    BY <1>3 DEF WindowStep, Lock, Swap, Probe, Unprobe, Baseline, Open, Drop
  <2>3. CASE ~HeapStep(t)
    BY <2>1, <2>2, <2>3
  <2> QED BY <1>2, <2>1, <2>2, <2>3
<1> QED BY <1>2, <1>3

\* How the windows of the thread that steps, and their number, change.
LEMMA Stacks ==
  ASSUME LockInv, PeakInv, NEW t \in Thread, WindowStep(t)
  PROVE  /\ opened' \in Int /\ opened' >= opened
         /\ Len(windows[t]) \in Nat /\ Len(windows'[t]) \in Nat
         /\ Lock(t) => opened' = opened + 1 /\ windows' = windows /\ pc'[t] = "swap"
         /\ Swap(t) \/ Probe(t) \/ Unprobe(t) \/ Baseline(t) =>
              /\ opened' = opened /\ windows' = windows
              /\ pc[t] \in Opening /\ pc'[t] \in Opening
         /\ Open(t) =>
              /\ opened' = opened /\ Len(windows'[t]) = Len(windows[t]) + 1
              /\ windows'[t][Len(windows[t]) + 1] = opening[t]
              /\ pc[t] = "store" /\ pc'[t] = "idle"
         /\ Drop(t) => /\ opened' = opened /\ Len(windows'[t]) = Len(windows[t]) - 1
                       /\ pc'[t] = "idle"
<1> USE DEF counters, measuring, Goto
<1>1. /\ windows[t] \in Seq(Window) /\ opening[t] \in Window
      /\ windows \in [Thread -> Seq(Window)] /\ pc \in [Thread -> PC] /\ opened \in Int
  BY DEF LockInv, Typed, PeakInv, PeakTyped
<1>2. Len(windows[t]) \in Nat
  BY <1>1, LenProperties
<1>3. CASE Lock(t)
  BY <1>1, <1>2, <1>3, SMT DEF Lock, Swap, Probe, Unprobe, Baseline, Open, Drop
<1>4. CASE Swap(t) \/ Probe(t) \/ Unprobe(t) \/ Baseline(t)
  BY <1>1, <1>2, <1>4, SMT DEF Lock, Swap, Probe, Unprobe, Baseline, Open, Drop, Opening
<1>5. CASE Open(t)
  <2>1. /\ opened' = opened /\ windows'[t] = Append(windows[t], opening[t])
        /\ pc[t] = "store" /\ pc'[t] = "idle"
    BY <1>1, <1>5, SMT DEF Open
  <2>2. /\ Len(windows'[t]) = Len(windows[t]) + 1
        /\ windows'[t][Len(windows[t]) + 1] = opening[t]
    BY <1>1, <2>1, Pushed
  <2>3. ~Lock(t) /\ ~Swap(t) /\ ~Probe(t) /\ ~Unprobe(t) /\ ~Baseline(t) /\ ~Drop(t)
    BY <2>1, SMT DEF Lock, Swap, Probe, Unprobe, Baseline, Drop
  <2> HIDE DEF counters, measuring, Goto
  <2> QED BY <1>1, <1>2, <2>1, <2>2, <2>3, SMT
<1>6. CASE Drop(t)
  <2>1. /\ opened' = opened /\ windows'[t] = SubSeq(windows[t], 1, Len(windows[t]) - 1)
        /\ windows[t] # <<>> /\ pc[t] = "idle" /\ pc'[t] = "idle"
    BY <1>1, <1>6, SMT DEF Drop
  <2>2. Len(windows'[t]) = Len(windows[t]) - 1 /\ Len(windows[t]) \in Nat \ {0}
    BY <1>1, <2>1, Popped
  <2>3. ~Lock(t) /\ ~Swap(t) /\ ~Probe(t) /\ ~Unprobe(t) /\ ~Baseline(t) /\ ~Open(t)
    BY <2>1, SMT DEF Lock, Swap, Probe, Unprobe, Baseline, Open
  <2> HIDE DEF counters, measuring, Goto
  <2> QED BY <1>1, <1>2, <2>1, <2>2, <2>3, SMT
<1> QED BY <1>3, <1>4, <1>5, <1>6 DEF WindowStep

\* A window is counted when its thread takes the lock, before it is there.
LEMMA KnownKept ==
  ASSUME LockInv, PeakInv, NEW t \in Thread, HeapStep(t) \/ WindowStep(t)
  PROVE  Known'
<1>1. \A s \in Thread \ {t} : pc'[s] = pc[s] /\ windows'[s] = windows[s]
  BY OneSteps, Leaves
<1>2. usedBy \subseteq usedBy'
  BY Leaves
<1>3. opened \in Int /\ \A s \in Thread : Len(windows[s]) \in Nat
  BY LenProperties DEF LockInv, Typed, PeakInv, PeakTyped
<1>4. \A s \in Thread : /\ pc[s] \in Busy => s \in usedBy
                        /\ Len(windows[s]) <= opened
                        /\ pc[s] \in Opening => Len(windows[s]) < opened
  BY DEF PeakInv, Known
<1>5. CASE HeapStep(t)
  <2>1. windows' = windows /\ opened' = opened /\ pc'[t] \in Busy \cup {"idle"} /\ t \in usedBy'
    BY <1>5, Leaves
  <2>2. pc'[t] \notin Opening
    BY <2>1, SMT DEF Busy, Opening
  <2> QED BY <1>1, <1>2, <1>4, <2>1, <2>2 DEF Known
<1>6. CASE WindowStep(t)
  <2>1. /\ opened' \in Int /\ opened' >= opened /\ Len(windows'[t]) \in Nat
    BY <1>6, Stacks
  <2>2. pc'[t] \notin Busy /\ Len(windows'[t]) <= opened' /\ (pc'[t] \in Opening => Len(windows'[t]) < opened')
    <3>1. CASE Lock(t)
      <4>1. opened' = opened + 1 /\ windows' = windows /\ pc'[t] = "swap"
        BY <1>6, <3>1, Stacks
      <4> QED BY <1>3, <1>4, <4>1, SMT DEF Busy
    <3>2. CASE Swap(t) \/ Probe(t) \/ Unprobe(t) \/ Baseline(t)
      <4>1. opened' = opened /\ windows' = windows /\ pc[t] \in Opening /\ pc'[t] \in Opening
        BY <1>6, <3>2, Stacks
      <4> QED BY <1>3, <1>4, <4>1, SMT DEF Busy, Opening
    <3>3. CASE Open(t)
      <4>1. /\ opened' = opened /\ Len(windows'[t]) = Len(windows[t]) + 1
            /\ pc[t] = "store" /\ pc'[t] = "idle"
        BY <1>6, <3>3, Stacks
      <4> QED BY <1>3, <1>4, <4>1, SMT DEF Busy, Opening
    <3>4. CASE Drop(t)
      <4>1. opened' = opened /\ Len(windows'[t]) = Len(windows[t]) - 1 /\ pc'[t] = "idle"
        BY <1>6, <3>4, Stacks
      <4> QED BY <1>3, <1>4, <4>1, SMT DEF Busy, Opening
    <3> QED BY <1>6, <3>1, <3>2, <3>3, <3>4 DEF WindowStep
  <2>3. ASSUME NEW s \in Thread \ {t}
        PROVE  /\ pc'[s] \in Busy => s \in usedBy'
               /\ Len(windows'[s]) <= opened'
               /\ pc'[s] \in Opening => Len(windows'[s]) < opened'
    BY <1>1, <1>2, <1>3, <1>4, <2>1, SMT
  <2> QED BY <2>2, <2>3 DEF Known
<1> QED BY <1>5, <1>6

\* While a thread is about to store its baseline, another can move the heap only
\* by using it.
LEMMA StoredKept ==
  ASSUME LockInv, PeakInv, NEW t \in Thread, HeapStep(t) \/ WindowStep(t)
  PROVE  Stored'
<1> SUFFICES ASSUME NEW s \in Thread, pc'[s] = "store"
             PROVE  /\ reg'[s] = opening'[s].baseline
                    /\ usedBy' \subseteq {s} =>
                         live' = opening'[s].liveAt /\ inFlight' = opening'[s].baseline
  BY DEF Stored
<1>1. usedBy \subseteq usedBy' /\ pc \in [Thread -> PC] /\ reg \in [Thread -> Int]
  BY Leaves DEF LockInv, Typed, PeakInv, PeakTyped
<1>2. CASE s # t
  <2>1. /\ pc[s] = "store" /\ opening'[s] = opening[s] /\ reg'[s] = reg[s]
    BY <1>2, OneSteps, Leaves
  <2>2. /\ reg[s] = opening[s].baseline
        /\ usedBy \subseteq {s} => live = opening[s].liveAt /\ inFlight = opening[s].baseline
    BY <2>1 DEF PeakInv, Stored
  <2>3. CASE HeapStep(t)
    <3>1. t \in usedBy'
      BY <2>3, Leaves
    <3> QED BY <1>2, <2>1, <2>2, <3>1
  <2>4. CASE WindowStep(t)
    <3>1. pc[t] \notin Opening
      BY <1>2, <2>1, OthersIdle, SMT DEF Opening
    <3>2. live' = live /\ inFlight' = inFlight
      BY <2>4, <3>1, SMT DEF WindowStep, Lock, Swap, Probe, Unprobe, Baseline, Open, Drop, Opening, counters
    <3> QED BY <1>1, <2>1, <2>2, <3>2
  <2> QED BY <2>3, <2>4
<1>3. CASE s = t
  <2>1. ~HeapStep(t)
    <3>1. HeapStep(t) => pc'[t] \in Busy \cup {"idle"}
      BY Leaves
    <3> QED BY <1>3, <3>1, SMT DEF Busy
  <2>2. Baseline(t)
    BY <1>1, <1>3, <2>1, SMT DEF WindowStep, Lock, Swap, Probe, Unprobe, Open, Drop, Goto
  <2>3. opening'[t].baseline = inFlight /\ opening'[t].liveAt = live
    BY <2>2, BaselineReads DEF Baseline
  <2>4. reg'[t] = inFlight /\ live' = live /\ inFlight' = inFlight
    BY <1>1, <2>2, SMT DEF Baseline, counters
  <2> QED BY <1>3, <2>3, <2>4
<1> QED BY <1>2, <1>3

\* What a thread takes or gives back under its latest window moves the total and
\* the most that was live alike.
LEMMA TracksHeap ==
  ASSUME LockInv, ArmInv, PeakInv, NEW t \in Thread, HeapStep(t), Latest(t)
  PROVE  Tracks(t)'
<1>1. armed
  BY DEF Latest, ArmInv, FlagIsArmed
<1>2. Tracks(t)
  BY DEF PeakInv, Tracked
<1>3. windows' = windows
  BY Leaves
<1> DEFINE w == Innermost(t)
<1>4. Innermost(t)' = w
  BY <1>3 DEF Innermost
<1>5. w \in Window
  <2>1. windows[t] \in Seq(Window) /\ windows[t] # <<>>
    BY DEF LockInv, Typed, Latest
  <2>2. Len(windows[t]) \in 1..Len(windows[t])
    BY <2>1, EmptySeq, LenProperties, SMT
  <2> QED BY <2>1, <2>2, ElementOfSeq DEF Innermost
<1>6. PICK base \in Int, at \in Int : base = w.baseline /\ at = w.liveAt
  BY <1>5, SMT DEF Window
<1>7. /\ inFlight \in Int /\ live \in Int /\ peak \in Int /\ high \in Int
      /\ reg \in [Thread -> Int] /\ pc \in [Thread -> PC]
  BY DEF LockInv, Typed, PeakInv, PeakTyped
<1>8. inFlight + Mine(t) - live = base - at /\ Larger(peak, Coming(t)) - base = high - at
  BY <1>2, <1>6 DEF Tracks
<1> SUFFICES /\ inFlight' + Mine(t)' - live' = base - at
             /\ Larger(peak', Coming(t)') - base = high' - at
  BY <1>4, <1>6 DEF Tracks
<1> HIDE DEF w
<1> USE DEF Mine, Coming, Larger, Goto, counters
<1>9. CASE Alloc(t)
  BY <1>7, <1>8, <1>9, SMT DEF Alloc
<1>10. CASE Charge(t)
  BY <1>1, <1>7, <1>8, <1>10, SMT DEF Charge
<1>11. CASE Add(t)
  BY <1>7, <1>8, <1>11, SMT DEF Add
<1>12. CASE RaisePeak(t)
  BY <1>7, <1>8, <1>12, SMT DEF RaisePeak
<1>13. CASE Free(t)
  BY <1>7, <1>8, <1>13, SMT DEF Free
<1>14. CASE Discharge(t)
  BY <1>1, <1>7, <1>8, <1>14, SMT DEF Discharge
<1>15. CASE Subtract(t)
  BY <1>7, <1>8, <1>15, SMT DEF Subtract
<1> QED BY <1>9, <1>10, <1>11, <1>12, <1>13, <1>14, <1>15 DEF HeapStep

\* The peak is set to the baseline and the most that was live to what is live.
LEMMA TracksOpen ==
  ASSUME LockInv, PeakInv, NEW t \in Thread, Open(t), usedBy' \subseteq {t}
  PROVE  Tracks(t)'
<1> USE DEF Open, Goto
<1>1. /\ inFlight \in Int /\ live \in Int /\ pc \in [Thread -> PC]
      /\ windows \in [Thread -> Seq(Window)] /\ opening[t] \in Window
  BY DEF LockInv, Typed
<1>2. /\ pc[t] = "store" /\ pc'[t] = "idle" /\ usedBy' = usedBy
      /\ peak' = reg[t] /\ high' = live /\ live' = live /\ inFlight' = inFlight
      /\ windows'[t] = Append(windows[t], opening[t])
  BY <1>1, SMT
<1>3. reg[t] = opening[t].baseline /\ live = opening[t].liveAt /\ inFlight = opening[t].baseline
  BY <1>2 DEF PeakInv, Stored
<1>4. Innermost(t)' = opening[t]
  <2>1. windows[t] \in Seq(Window)
    BY <1>1
  <2>2. Len(windows'[t]) = Len(windows[t]) + 1 /\ windows'[t][Len(windows[t]) + 1] = opening[t]
    BY <1>1, <1>2, <2>1, Pushed
  <2> QED BY <2>2 DEF Innermost
<1>5. Mine(t)' = 0 /\ Coming(t)' = peak'
  BY <1>2, SMT DEF Mine, Coming
<1>6. Larger(peak', Coming(t)') = peak'
  BY <1>5 DEF Larger
<1>7. inFlight' + Mine(t)' - live' = opening[t].baseline - opening[t].liveAt
  <2>1. inFlight + 0 - live = inFlight - live
    BY <1>1, SMT
  <2> QED BY <1>2, <1>3, <1>5, <2>1, Zenon
<1>8. Larger(peak', Coming(t)') - opening[t].baseline = high' - opening[t].liveAt
  BY <1>1, <1>2, <1>3, <1>6, SMT
<1> QED BY <1>4, <1>7, <1>8 DEF Tracks

\* Only the thread of the latest window moves the total under it.
LEMMA TrackedKept ==
  ASSUME LockInv, ArmInv, PeakInv, NEW t \in Thread, HeapStep(t) \/ WindowStep(t)
  PROVE  Tracked'
<1> SUFFICES ASSUME NEW s \in Thread, Latest(s)' PROVE Tracks(s)'
  BY DEF Tracked
<1>1. windows'[s] # <<>> /\ Len(windows'[s]) = opened' /\ usedBy' \subseteq {s}
  BY DEF Latest
<1>2. /\ opened \in Int /\ Len(windows[s]) \in Nat /\ Len(windows[s]) <= opened
      /\ pc[s] \in Opening => Len(windows[s]) < opened
  BY LenProperties DEF LockInv, Typed, PeakInv, PeakTyped, Known
<1>3. CASE HeapStep(t)
  <2>1. t \in usedBy' /\ usedBy \subseteq usedBy' /\ windows' = windows /\ opened' = opened
    BY <1>3, Leaves
  <2>2. s = t /\ Latest(t)
    BY <1>1, <2>1 DEF Latest
  <2> QED BY <1>3, <2>2, TracksHeap
<1>4. CASE WindowStep(t) /\ s # t
  <2>1. windows'[s] = windows[s]
    BY <1>4, Leaves
  <2>2. windows[t] = <<>> /\ pc[t] \notin Opening
    BY <1>1, <1>4, <2>1, OthersIdle
  <2>3. Lock(t)
    BY <1>4, <2>2, SMT DEF WindowStep, Swap, Probe, Unprobe, Baseline, Open, Drop, Opening
  <2>4. opened' = opened + 1
    BY <1>4, <2>3, Stacks
  <2> QED BY <1>1, <1>2, <2>1, <2>4, SMT
<1>5. CASE WindowStep(t) /\ s = t
  <2>1. CASE Lock(t)
    <3>1. opened' = opened + 1 /\ windows' = windows
      BY <1>5, <2>1, Stacks
    <3> QED BY <1>1, <1>2, <3>1, SMT
  <2>2. CASE Swap(t) \/ Probe(t) \/ Unprobe(t) \/ Baseline(t)
    <3>1. opened' = opened /\ windows' = windows /\ pc[t] \in Opening
      BY <1>5, <2>2, Stacks
    <3> QED BY <1>1, <1>2, <1>5, <3>1, SMT
  <2>3. CASE Open(t)
    BY <1>1, <1>5, <2>3, TracksOpen
  <2>4. CASE Drop(t)
    <3>1. opened' = opened /\ Len(windows'[t]) = Len(windows[t]) - 1
      BY <1>5, <2>4, Stacks
    <3> QED BY <1>1, <1>2, <1>5, <3>1, SMT
  <2> QED BY <1>5, <2>1, <2>2, <2>3, <2>4 DEF WindowStep
<1> QED BY <1>3, <1>4, <1>5

\* Every step keeps what the peak stands for.
LEMMA PeakNext == ASSUME LockInv, ArmInv, PeakInv, [Next]_vars PROVE PeakInv'
<1>1. ASSUME NEW t \in Thread, HeapStep(t) \/ WindowStep(t) PROVE PeakInv'
  BY <1>1, PeakTypes, KnownKept, StoredKept, TrackedKept DEF PeakInv
<1>2. CASE Next
  BY <1>1, <1>2 DEF Next, HeapStep, WindowStep
<1>3. CASE UNCHANGED vars
  BY <1>3 DEF vars, PeakInv, PeakTyped, Known, Stored, Tracked, Tracks, Latest, Mine, Coming, Innermost
<1> QED BY <1>2, <1>3

\* Both hold in every reachable state.
LEMMA Accounts == Spec => [](LockInv /\ LiveInv /\ PeakInv)
<1>1. Init => LiveInv /\ PeakInv
  BY LiveInit, PeakInit, HeapAssumption
<1>2. LockInv /\ ArmInv /\ LiveInv /\ PeakInv /\ [Next]_vars => (LiveInv /\ PeakInv)'
  BY LiveNext, PeakNext, HeapAssumption
<1> QED BY <1>1, <1>2, Invariance, PTL DEF Spec

\* live_bytes() is what the process took since the window opened, give or take
\* one block for each other thread, and peak_bytes() is exact while the window
\* opened last is its thread's and no other thread used the heap.
THEOREM AnswersHold == Spec => []AnswersAreTrue
<1>1. LockInv /\ LiveInv /\ PeakInv => AnswersAreTrue
  <2> SUFFICES ASSUME LockInv, LiveInv, PeakInv, Quiet, NEW t \in Thread, windows[t] # <<>>
               PROVE  /\ Within(LiveOf(t) - (live - Innermost(t).liveAt))
                      /\ Len(windows[t]) = opened /\ usedBy \subseteq {t} =>
                           PeakOf(t) = high - Innermost(t).liveAt
    BY Zenon DEF AnswersAreTrue, LiveIsTrue, PeakIsTrue, Within
  <2>1. Len(windows[t]) \in 1..Len(windows[t]) /\ windows[t] \in Seq(Window)
    <3>1. windows[t] \in Seq(Window)
      BY DEF LockInv, Typed
    <3> QED BY <3>1, EmptySeq, LenProperties, SMT
  <2>2. Near(Innermost(t)) /\ Innermost(t) \in Window
    BY <2>1, ElementOfSeq DEF LiveInv, Innermost
  <2>3. PICK base \in Int, at \in Int : base = Innermost(t).baseline /\ at = Innermost(t).liveAt
    BY <2>2, SMT DEF Window
  <2>4. inFlight \in Int /\ live \in Int /\ peak \in Int /\ high \in Int
    BY DEF LockInv, Typed, PeakInv, PeakTyped
  <2>5. Within(LiveOf(t) - (live - Innermost(t).liveAt))
    <3>1. Up = {} /\ Down = {} /\ Probing = {}
      BY SMT DEF Quiet, Up, Down, Probing
    <3>2. Owed = inFlight - live
      BY <2>4, <3>1, FS_EmptySet, SMT DEF Owed
    <3>3. Owed - (base - at) = LiveOf(t) - (live - at)
      BY <2>3, <2>4, <3>2, SMT DEF LiveOf
    <3> QED BY <2>2, <2>3, <3>3 DEF Near
  <2>6. Len(windows[t]) = opened /\ usedBy \subseteq {t} => PeakOf(t) = high - Innermost(t).liveAt
    <3> SUFFICES ASSUME Latest(t) PROVE PeakOf(t) = high - Innermost(t).liveAt
      BY DEF Latest
    <3>1. Larger(peak, Coming(t)) - Innermost(t).baseline = high - Innermost(t).liveAt
      BY DEF PeakInv, Tracked, Tracks
    <3>2. Coming(t) = peak /\ Larger(peak, Coming(t)) = peak
      BY SMT DEF Quiet, Coming, Larger
    <3> QED BY <3>1, <3>2 DEF PeakOf
  <2> QED BY <2>5, <2>6
<1> QED BY <1>1, Accounts, PTL
=============================================================================
