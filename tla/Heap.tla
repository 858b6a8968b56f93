-------------------------------- MODULE Heap --------------------------------
(***************************************************************************)
(* src/storage/heap.rs: a counting allocator behind a flag, and windows    *)
(* that arm it, take a baseline and read live and peak bytes over it.      *)
(* Threads allocate and free while one of them opens, nests and drops      *)
(* windows; every atomic operation is a step.  A block is one unit; a      *)
(* realloc that moves by a unit is an allocation or a free of one.         *)
(***************************************************************************)
EXTENDS Integers, Sequences, FiniteSets

CONSTANTS
  Thread,
  NoThread,   \* the measuring lock is free
  MaxLive,    \* bound: blocks live at once
  MaxDepth,   \* bound: windows nested in each other
  MaxWindows  \* bound: windows opened

ASSUME HeapAssumption ==
  /\ NoThread \notin Thread /\ IsFiniteSet(Thread)
  /\ MaxLive \in Nat /\ MaxDepth \in Nat /\ MaxWindows \in Nat

VARIABLES
  armed,      \* ARMED
  inFlight,   \* IN_FLIGHT, signed
  peak,       \* PEAK
  installed,  \* INSTALLED
  lock,       \* owner of WINDOW
  nested,     \* thread -> NESTED
  windows,    \* thread -> the Armed values it holds, innermost last
  pc,         \* thread -> what it does next
  reg,        \* thread -> the value it carries to its next step
  opening,    \* thread -> the Armed value it is building
  live,       \* blocks the process really holds
  high,       \* the most it held since the last window opened (history)
  opened,     \* windows opened so far
  usedBy      \* threads that have allocated or freed (history)

vars == <<armed, inFlight, peak, installed, lock, nested, windows, pc, reg,
          opening, live, high, opened, usedBy>>

counters == <<armed, inFlight, peak, installed>>
measuring == <<lock, nested, windows, opening, opened>>

PC == {"idle", "charge", "add", "max", "discharge", "subtract",
       "swap", "probe", "unprobe", "baseline", "store"}

Larger(a, b) == IF a >= b THEN a ELSE b

NoWindow ==
  [baseline |-> 0, wasArmed |-> FALSE, wasNested |-> FALSE, installed |-> FALSE,
   locked |-> FALSE, liveAt |-> 0]

Init ==
  /\ armed = FALSE /\ inFlight = 0 /\ peak = 0 /\ installed = FALSE
  /\ lock = NoThread
  /\ nested = [t \in Thread |-> FALSE]
  /\ windows = [t \in Thread |-> <<>>]
  /\ pc = [t \in Thread |-> "idle"]
  /\ reg = [t \in Thread |-> 0]
  /\ opening = [t \in Thread |-> NoWindow]
  /\ live \in 0..MaxLive /\ high = live
  /\ opened = 0 /\ usedBy = {}

Goto(t, next) == pc' = [pc EXCEPT ![t] = next]

-----------------------------------------------------------------------------
(* alloc() and charge(), dealloc() and discharge(). *)

Alloc(t) ==
  /\ pc[t] = "idle" /\ Goto(t, "charge")
  /\ live < MaxLive
  /\ live' = live + 1 /\ high' = Larger(high, live')
  /\ usedBy' = usedBy \cup {t}
  /\ UNCHANGED <<counters, measuring, reg>>

Charge(t) ==
  /\ pc[t] = "charge"
  /\ Goto(t, IF armed THEN "add" ELSE "idle")
  /\ installed' = (installed \/ armed)
  /\ UNCHANGED <<armed, inFlight, peak, measuring, reg, live, high, usedBy>>

Add(t) ==
  /\ pc[t] = "add" /\ Goto(t, "max")
  /\ inFlight' = inFlight + 1
  /\ reg' = [reg EXCEPT ![t] = inFlight']
  /\ UNCHANGED <<armed, peak, installed, measuring, live, high, usedBy>>

\* PEAK.fetch_max
RaisePeak(t) ==
  /\ pc[t] = "max" /\ Goto(t, "idle")
  /\ peak' = Larger(peak, reg[t]) /\ reg' = [reg EXCEPT ![t] = 0]
  /\ UNCHANGED <<armed, inFlight, installed, measuring, live, high, usedBy>>

Free(t) ==
  /\ pc[t] = "idle" /\ Goto(t, "discharge")
  /\ live > 0 /\ live' = live - 1
  /\ usedBy' = usedBy \cup {t}
  /\ UNCHANGED <<counters, measuring, reg, high>>

Discharge(t) ==
  /\ pc[t] = "discharge"
  /\ Goto(t, IF armed THEN "subtract" ELSE "idle")
  /\ UNCHANGED <<counters, measuring, reg, live, high, usedBy>>

\* Mutant of Subtract: the total is unsigned and stops at zero.
Subtract_Saturates(t) ==
  /\ pc[t] = "subtract" /\ Goto(t, "idle")
  /\ inFlight' = Larger(0, inFlight - 1)
  /\ UNCHANGED <<armed, peak, installed, measuring, reg, live, high, usedBy>>

Subtract(t) ==
  /\ pc[t] = "subtract" /\ Goto(t, "idle")
  /\ inFlight' = inFlight - 1
  /\ UNCHANGED <<armed, peak, installed, measuring, reg, live, high, usedBy>>

-----------------------------------------------------------------------------
(* arm() *)

\* Mutant of Lock: every thread may open a window.
Lock_NotTaken(t) ==
  /\ pc[t] = "idle" /\ Goto(t, "swap")
  /\ Len(windows[t]) < MaxDepth /\ opened < MaxWindows
  /\ opening' = [opening EXCEPT ![t] = [NoWindow EXCEPT !.wasNested = nested[t]]]
  /\ nested' = [nested EXCEPT ![t] = TRUE]
  /\ opened' = opened + 1
  /\ UNCHANGED <<counters, lock, windows, reg, live, high, usedBy>>

\* The measuring lock is taken, unless this thread holds it already.
Lock(t) ==
  /\ pc[t] = "idle" /\ Goto(t, "swap")
  /\ Len(windows[t]) < MaxDepth /\ opened < MaxWindows
  /\ nested[t] \/ lock = NoThread
  /\ lock' = t
  /\ opening' = [opening EXCEPT ![t] = [NoWindow EXCEPT !.wasNested = nested[t],
                                                       !.locked = ~nested[t]]]
  /\ nested' = [nested EXCEPT ![t] = TRUE]
  /\ opened' = opened + 1
  /\ UNCHANGED <<counters, windows, reg, live, high, usedBy>>

\* ARMED.swap(true)
Swap(t) ==
  /\ pc[t] = "swap" /\ Goto(t, "probe")
  /\ armed' = TRUE
  /\ opening' = [opening EXCEPT ![t].wasArmed = armed]
  /\ UNCHANGED <<inFlight, peak, installed, lock, nested, windows, opened>>
  /\ UNCHANGED <<reg, live, high, usedBy>>

\* Mutant of Probe: the compiler drops an allocation nobody uses.
Probe_Elided(t) ==
  /\ pc[t] = "probe" /\ Goto(t, "baseline")
  /\ UNCHANGED <<counters, measuring, reg, live, high, usedBy>>

\* The probe is allocated, and charged like any other block ...
Probe(t) ==
  /\ pc[t] = "probe" /\ Goto(t, "unprobe")
  /\ inFlight' = IF armed THEN inFlight + 1 ELSE inFlight
  /\ peak' = IF armed THEN Larger(peak, inFlight') ELSE peak
  /\ installed' = (installed \/ armed)
  /\ UNCHANGED <<armed, measuring, reg, live, high, usedBy>>

\* ... INSTALLED is read, and the probe is freed.
Unprobe(t) ==
  /\ pc[t] = "unprobe" /\ Goto(t, "baseline")
  /\ opening' = [opening EXCEPT ![t].installed = installed]
  /\ inFlight' = IF armed THEN inFlight - 1 ELSE inFlight
  /\ UNCHANGED <<armed, peak, installed, lock, nested, windows, opened>>
  /\ UNCHANGED <<reg, live, high, usedBy>>

Baseline(t) ==
  /\ pc[t] = "baseline" /\ Goto(t, "store")
  /\ reg' = [reg EXCEPT ![t] = inFlight]
  /\ opening' = [opening EXCEPT ![t].baseline = inFlight, ![t].liveAt = live]
  /\ UNCHANGED <<counters, lock, nested, windows, opened, live, high, usedBy>>

\* PEAK.store(baseline), and the window is there.
Open(t) ==
  /\ pc[t] = "store" /\ Goto(t, "idle")
  /\ peak' = reg[t] /\ high' = live
  /\ windows' = [windows EXCEPT ![t] = Append(@, opening[t])]
  /\ reg' = [reg EXCEPT ![t] = 0] /\ opening' = [opening EXCEPT ![t] = NoWindow]
  /\ UNCHANGED <<armed, inFlight, installed, lock, nested, opened, live, usedBy>>

\* Mutant of Drop: the flag is cleared, not put back.
Drop_Clears(t) ==
  /\ pc[t] = "idle" /\ windows[t] # <<>>
  /\ LET w == windows[t][Len(windows[t])]
     IN  /\ armed' = FALSE
         /\ nested' = [nested EXCEPT ![t] = w.wasNested]
         /\ lock' = IF w.locked THEN NoThread ELSE lock
  /\ windows' = [windows EXCEPT ![t] = SubSeq(@, 1, Len(@) - 1)]
  /\ UNCHANGED <<inFlight, peak, installed, pc, opening, opened, reg, live, high, usedBy>>

\* A window is dropped: the flag, the nesting and the lock go back.
Drop(t) ==
  /\ pc[t] = "idle" /\ windows[t] # <<>>
  /\ LET w == windows[t][Len(windows[t])]
     IN  /\ armed' = w.wasArmed
         /\ nested' = [nested EXCEPT ![t] = w.wasNested]
         /\ lock' = IF w.locked THEN NoThread ELSE lock
  /\ windows' = [windows EXCEPT ![t] = SubSeq(@, 1, Len(@) - 1)]
  /\ UNCHANGED <<inFlight, peak, installed, pc, opening, opened, reg, live, high, usedBy>>

Next ==
  \E t \in Thread :
    \/ Alloc(t) \/ Charge(t) \/ Add(t) \/ RaisePeak(t)
    \/ Free(t) \/ Discharge(t) \/ Subtract(t)
    \/ Lock(t) \/ Swap(t) \/ Probe(t) \/ Unprobe(t) \/ Baseline(t) \/ Open(t)
    \/ Drop(t)

Spec == Init /\ [][Next]_vars

-----------------------------------------------------------------------------
Innermost(t) == windows[t][Len(windows[t])]

Measuring(t) == windows[t] # <<>> \/ pc[t] \in {"swap", "probe", "unprobe", "baseline", "store"}

Quiet == \A t \in Thread : pc[t] = "idle"

\* live_bytes() and peak_bytes() before they are clamped at zero.
LiveOf(t) == inFlight - Innermost(t).baseline

PeakOf(t) == peak - Innermost(t).baseline

\* What one window can move the total by, for each window opened.
Drift == MaxWindows * (MaxLive + Cardinality(Thread))

\* The state is of its kind, and the total stays within what the windows opened
\* can account for.
TypeOK ==
  /\ armed \in BOOLEAN /\ installed \in BOOLEAN
  /\ inFlight \in -Drift..Drift /\ peak \in -Drift..(Drift + 1)
  /\ lock \in Thread \cup {NoThread}
  /\ nested \in [Thread -> BOOLEAN]
  /\ pc \in [Thread -> PC]
  /\ reg \in [Thread -> Int]
  /\ live \in 0..MaxLive /\ high \in 0..MaxLive
  /\ opened \in 0..MaxWindows /\ usedBy \subseteq Thread
  /\ \A t \in Thread : Len(windows[t]) <= MaxDepth

\* Two threads never measure each other: all windows, open or being opened,
\* belong to one thread, also when they nest.
OneThreadMeasures ==
  \A s, t \in Thread : Measuring(s) /\ Measuring(t) => s = t

\* A window counts until it is dropped, whatever nested in it opened and closed
\* meanwhile, and nothing counts without one.
ArmedWhileOpen ==
  Quiet => (armed <=> \E t \in Thread : windows[t] # <<>>)

\* Every window answers with a number: whatever other threads do, its probe went
\* through the counting path before the answer was read.
WindowsSeeTheAllocator ==
  \A t \in Thread : \A i \in DOMAIN windows[t] : windows[t][i].installed

\* "The signed total is exactly live(now) - live(when counting started)", give
\* or take the one operation each other thread may have been in when the
\* baseline was taken, however many blocks older than the window are freed.
LiveIsTrue ==
  Quiet =>
    \A t \in Thread : windows[t] # <<>> =>
      LET off == LiveOf(t) - (live - Innermost(t).liveAt)
          others == Cardinality(Thread) - 1
      IN  -others <= off /\ off <= others

\* While no other thread has allocated or freed, the peak of the window opened
\* last is the most that was live since, over what was live then.
PeakIsTrue ==
  Quiet =>
    \A t \in Thread :
      (windows[t] # <<>> /\ Len(windows[t]) = opened /\ usedBy \subseteq {t}) =>
        PeakOf(t) = high - Innermost(t).liveAt

\* What a window answers is so.
AnswersAreTrue == LiveIsTrue /\ PeakIsTrue
=============================================================================
