---------------------------- MODULE ContestProofs ---------------------------
(***************************************************************************)
(* For any contenders, cells and repetitions and whatever the host says of *)
(* itself: a row of high confidence was measured on a quiet machine, a row *)
(* that says it was attested is of what its contender left, every row      *)
(* answers for each declared repetition, and a sweep in which nothing went *)
(* wrong refuses nothing.                                                  *)
(***************************************************************************)
EXTENDS Contests, SequenceProofs

Cpu == {0, 1, 2, Null}

\* A repetition is filed under the worst of what was read before and after it.
IsRep(r) ==
  /\ r.saw \subseteq Cpu /\ r.saw # {} /\ r.load \in Cpu
  /\ 2 \in r.saw => r.load = 2
  /\ r.load # Null => r.saw # {Null}

IsAcc(acc) ==
  /\ acc = [reps |-> acc.reps, failures |-> acc.failures]
  /\ \E S : acc.reps \in Seq(S)
  /\ \A i \in DOMAIN acc.reps : IsRep(acc.reps[i])

\* The engines are measured under one reading for the whole cell.
IsUnder(acc, reading) == \A i \in DOMAIN acc.reps : acc.reps[i].saw = {reading}

IsMap(f) == f = [x \in DOMAIN f |-> f[x]]

\* Rows are there between two cells only, while nothing is filed.
QuietInv ==
  /\ under \in Cpu
  /\ IsMap(accs)
  /\ \A a \in DOMAIN accs : IsAcc(accs[a])
  /\ sweep = "engines" => \A a \in DOMAIN accs : IsUnder(accs[a], under)
  /\ stage \notin {"prepare", "done"} => rows = {}
  /\ HighMeansQuiet

-----------------------------------------------------------------------------
\* The worse of two readings, one of which may be missing.
LEMMA WorseOfTwo ==
  ASSUME ContestAssumption, NEW a \in Cpu, NEW b \in Cpu
  PROVE  /\ Worse(a, b) \in {a, b}
         /\ 2 \in {a, b} => Worse(a, b) = 2
         /\ Worse(a, b) # Null => {a, b} # {Null}
<1>1. Null \notin Nat
  BY DEF ContestAssumption
<1> QED BY <1>1 DEF Worse, Cpu

\* The worst of any number of readings: 2 whenever one is, and none only if none
\* is known.
LEMMA WorstOfAll ==
  ASSUME ContestAssumption, NEW loads \in SUBSET Cpu,
         WorstLoad(loads) # Null, WorstLoad(loads) < 2
  PROVE  2 \notin loads /\ loads \ {Null} # {}
<1>1. Null \notin Nat
  BY DEF ContestAssumption
<1>2. loads \ {Null} # {}
  BY DEF WorstLoad
<1>3. ASSUME 2 \in loads PROVE FALSE
  <2> DEFINE known == loads \ {Null}
  <2>1. 2 \in known /\ \A y \in known : 2 >= y
    BY <1>1, <1>3 DEF Cpu
  <2>2. Max(known) \in known /\ \A y \in known : Max(known) >= y
    <3>1. \E x \in known : \A y \in known : x >= y
      BY <2>1
    <3> HIDE DEF known
    <3> QED BY <3>1 DEF Max
  <2>3. Max(known) >= 2
    BY <2>1, <2>2
  <2>4. WorstLoad(loads) = Max(known)
    BY <1>2 DEF WorstLoad
  <2>5. Max(known) \in Nat
    <3>1. \A x \in known : x \in Nat
      BY DEF Cpu
    <3>2. Max(known) \in known
      BY <2>2
    <3> QED BY <3>1, <3>2, Zenon
  <2> QED BY <2>3, <2>4, <2>5
<1> QED BY <1>2, <1>3

\* A row of high confidence has all its samples and a load that is known to be
\* quiet, whatever else could have been said against it.
LEMMA HighIsWithoutReason ==
  ASSUME NEW name, NEW samples, NEW load, NEW doubts,
         Confidence(Reasons(name, samples, load, doubts)) = "high"
  PROVE  ~(Len(samples) < Reps) /\ load # Null /\ ~(load >= 2)
<1> DEFINE few == IF Len(samples) < Reps THEN {"reps"} ELSE {}
           loaded == IF load = Null \/ load >= 2 THEN {"load"} ELSE {}
<1>1. Reasons(name, samples, load, doubts) = {}
  BY Zenon DEF Confidence
<1>2. few \cup loaded \subseteq Reasons(name, samples, load, doubts)
  <2> HIDE DEF few, loaded
  <2> DEFINE cov == IF Len(samples) > 1 /\ name \o <<"cov">> \in doubts THEN {"cov"} ELSE {}
             timer == IF samples # <<>> /\ name[3] = "wall" /\ name \o <<"timer">> \in doubts
                      THEN {"timer"} ELSE {}
  <2>1. Reasons(name, samples, load, doubts) = few \cup loaded \cup cov \cup timer
    BY Zenon DEF Reasons, few, loaded
  <2> HIDE DEF cov, timer
  <2> QED BY <2>1
<1>3. few = {} /\ loaded = {}
  BY <1>1, <1>2
<1> QED BY <1>3

\* What the repetitions of an account were measured under.
Saw(a, of) == UNION {of[a].reps[i].saw : i \in DOMAIN of[a].reps}

SawQuiet(a, of) == Saw(a, of) \subseteq {0, 1, Null} /\ Saw(a, of) # {Null}

\* A row made of an account, by the writer and the pvec sweep.
LEMMA RowIsQuiet ==
  ASSUME ContestAssumption, QuietInv, NEW who, NEW column, NEW a, NEW skipped, NEW doubts,
         RowOf(who, column, a, skipped, doubts).confidence = "high"
  PROVE  SawQuiet(a, accs)
<1> DEFINE acc == IF a \in DOMAIN accs THEN accs[a] ELSE Empty
           loads == {acc.reps[i].load : i \in DOMAIN acc.reps}
           name == <<who, column.scenario, column.metric>>
<1>1. Confidence(Reasons(name, Series(acc, column.field), WorstLoad(loads), doubts)) = "high"
  BY Zenon DEF RowOf
<1> HIDE DEF name
<1>2. WorstLoad(loads) # Null /\ ~(WorstLoad(loads) >= 2)
  BY <1>1, HighIsWithoutReason, Zenon
<1>3. loads # {}
  <2> HIDE DEF loads
  <2> QED BY <1>2, SMT DEF WorstLoad
<1>4. a \in DOMAIN accs /\ acc = accs[a]
  <2>1. CASE a \notin DOMAIN accs
    <3>1. acc.reps = <<>>
      BY <2>1 DEF Empty
    <3>2. loads = {}
      BY <3>1
    <3> QED BY <1>3, <3>2
  <2> QED BY <2>1
<1> DEFINE reps == accs[a].reps
<1>5. \A i \in DOMAIN reps : IsRep(reps[i])
  BY <1>4 DEF QuietInv, IsAcc
<1>6. loads = {reps[i].load : i \in DOMAIN reps}
  BY <1>4
<1> HIDE DEF acc, loads, reps
<1>7. loads \in SUBSET Cpu
  BY <1>5, <1>6 DEF IsRep
<1>8. WorstLoad(loads) < 2
  <2>1. ~(WorstLoad(loads) >= 2)
    BY <1>2
  <2>2. WorstLoad(loads) \in Nat
    <3> DEFINE known == loads \ {Null}
    <3>1. known # {} /\ WorstLoad(loads) = Max(known)
      BY <1>2 DEF WorstLoad
    <3>2. known \subseteq {0, 1, 2}
      BY <1>7 DEF Cpu
    <3>3. \E x \in known : \A y \in known : x >= y
      BY <3>1, <3>2
    <3>4. Max(known) \in known
      BY <3>3 DEF Max
    <3> QED BY <3>1, <3>2, <3>4
  <2> QED BY <2>1, <2>2
<1>9. 2 \notin loads /\ loads \ {Null} # {}
  BY <1>2, <1>7, <1>8, WorstOfAll
<1>10. \A i \in DOMAIN reps : reps[i].saw \subseteq {0, 1, Null}
  BY <1>5, <1>6, <1>9 DEF IsRep, Cpu
<1>11. \E i \in DOMAIN reps : reps[i].saw # {Null} /\ reps[i].saw # {}
  BY <1>5, <1>6, <1>9 DEF IsRep
<1>12. Saw(a, accs) = UNION {reps[i].saw : i \in DOMAIN reps}
  BY DEF Saw, reps
<1> QED BY <1>10, <1>11, <1>12 DEF SawQuiet

-----------------------------------------------------------------------------
(* Steps. *)

\* An account that was just opened.
LEMMA EmptyIsAcc == IsAcc(Empty) /\ \A reading : IsUnder(Empty, reading)
<1>1. Empty.reps \in Seq({})
  BY DEF Empty
<1>2. DOMAIN Empty.reps = {}
  BY DEF Empty
<1> QED BY <1>1, <1>2 DEF Empty, IsAcc, IsUnder

\* A sequence with one repetition more.
LEMMA OneMore ==
  ASSUME NEW s, NEW S, s \in Seq(S), NEW r
  PROVE  LET g == Append(s, r)
         IN  /\ \E T : g \in Seq(T)
             /\ \A i \in DOMAIN g : (i \in DOMAIN s /\ g[i] = s[i]) \/ g[i] = r
<1> DEFINE T == S \cup {r}
           g == Append(s, r)
<1>1. s \in Seq(T) /\ r \in T
  <2>1. Len(s) \in Nat /\ DOMAIN s = 1..Len(s) /\ s \in [1..Len(s) -> S]
    BY LenProperties
  <2>2. s \in [1..Len(s) -> T]
    BY <2>1
  <2> QED BY <2>1, <2>2, SeqDef
<1>2. /\ g \in Seq(T) /\ DOMAIN g = 1..(Len(s) + 1) /\ Len(s) \in Nat /\ DOMAIN s = 1..Len(s)
      /\ \A i \in 1..Len(s) : g[i] = s[i]
      /\ g[Len(s) + 1] = r
  BY <1>1, AppendProperties, LenProperties
<1> HIDE DEF g, T
<1>3. \A i \in 1..(Len(s) + 1) : i \in 1..Len(s) \/ i = Len(s) + 1
  BY <1>2, SMT
<1>4. \A i \in DOMAIN g : (i \in DOMAIN s /\ g[i] = s[i]) \/ g[i] = r
  BY <1>2, <1>3
<1> QED BY <1>2, <1>4 DEF g

\* Filing an answer, whatever it is.
LEMMA FilingKeeps ==
  ASSUME ContestAssumption, NEW acc, IsAcc(acc), under \in Cpu,
         NEW verdict, NEW out, NEW after \in Cpu
  PROVE  /\ IsAcc(Filed(acc, verdict, out, after))
         /\ after = under /\ IsUnder(acc, under) => IsUnder(Filed(acc, verdict, out, after), under)
<1>1. CASE verdict = "ok"
  <2> DEFINE new == [out |-> out, load |-> Worse(under, after), saw |-> {under, after}]
             g == Append(acc.reps, new)
  <2>1. Filed(acc, verdict, out, after) = [acc EXCEPT !.reps = g]
    BY <1>1, Zenon DEF Filed
  <2>2. new.load = Worse(under, after) /\ new.saw = {under, after}
    OBVIOUS
  <2> HIDE DEF new
  <2>3. IsRep(new)
    <3>1. Null \notin Nat
      BY DEF ContestAssumption
    <3>2. /\ Worse(under, after) \in {under, after}
          /\ 2 \in {under, after} => Worse(under, after) = 2
      BY WorseOfTwo
    <3> QED BY <2>2, <3>1, <3>2 DEF IsRep
  <2>4. /\ \E T : g \in Seq(T)
        /\ \A i \in DOMAIN g : (i \in DOMAIN acc.reps /\ g[i] = acc.reps[i]) \/ g[i] = new
    <3>1. PICK S : acc.reps \in Seq(S)
      BY DEF IsAcc
    <3> QED BY <3>1, OneMore
  <2> HIDE DEF g
  <2>5. /\ Filed(acc, verdict, out, after) = [reps |-> g, failures |-> acc.failures]
    BY <2>1 DEF IsAcc
  <2>6. IsAcc(Filed(acc, verdict, out, after))
    BY <2>3, <2>4, <2>5 DEF IsAcc
  <2>7. after = under /\ IsUnder(acc, under) => IsUnder(Filed(acc, verdict, out, after), under)
    BY <2>2, <2>4, <2>5 DEF IsUnder
  <2> QED BY <2>6, <2>7
<1>2. CASE verdict # "ok"
  <2>1. Filed(acc, verdict, out, after) = [acc EXCEPT !.failures = Append(acc.failures, verdict)]
    BY <1>2, Zenon DEF Filed
  <2>2. Filed(acc, verdict, out, after) =
          [reps |-> acc.reps, failures |-> Append(acc.failures, verdict)]
    BY <2>1 DEF IsAcc
  <2> QED BY <2>2 DEF IsAcc, IsUnder
<1> QED BY <1>1, <1>2

\* What a step that has no rows must keep.
LEMMA NoRows ==
  ASSUME rows' = {}, under' \in Cpu,
         IsMap(accs'),
         \A a \in DOMAIN accs' : IsAcc(accs'[a]),
         sweep' = "engines" => \A a \in DOMAIN accs' : IsUnder(accs'[a], under')
  PROVE  QuietInv'
<1>1. HighMeansQuiet'
  BY DEF HighMeansQuiet
<1> QED BY <1>1 DEF QuietInv

\* A cell begins: the accounts are opened.
LEMMA Begins ==
  ASSUME QuietInv, NEW schedule, Begin(schedule), rows' = {}, under' \in Cpu
  PROVE  QuietInv'
<1>1. accs' = [a \in {schedule[i].acc : i \in DOMAIN schedule} |-> Empty]
  BY DEF Begin
<1>2. \A a \in DOMAIN accs' : accs'[a] = Empty
  BY <1>1
<1>3. IsMap(accs')
  BY <1>1 DEF IsMap
<1> QED BY <1>2, <1>3, EmptyIsAcc, NoRows

\* An answer goes to its account, or to none.
LEMMA Files ==
  ASSUME ContestAssumption, QuietInv, stage \notin {"prepare", "done"},
         NEW a, NEW verdict, NEW out, NEW after \in Cpu,
         accs' = [accs EXCEPT ![a] = Filed(@, verdict, out, after)],
         sweep = "engines" => after = under,
         UNCHANGED <<sweep, under, rows>>
  PROVE  QuietInv'
<1>1. rows' = {} /\ under' \in Cpu /\ under' = under /\ sweep' = sweep
  BY DEF QuietInv
<1> DEFINE new == Filed(accs[a], verdict, out, after)
<1>2. accs' = [accs EXCEPT ![a] = new]
  BY Zenon
<1>3. a \in DOMAIN accs => IsAcc(new) /\ (sweep = "engines" => IsUnder(new, under))
  <2>1. ASSUME a \in DOMAIN accs PROVE IsAcc(accs[a]) /\ (sweep = "engines" => IsUnder(accs[a], under))
    BY <2>1 DEF QuietInv
  <2>2. under \in Cpu
    BY DEF QuietInv
  <2> QED BY <2>1, <2>2, FilingKeeps
<1> HIDE DEF new
<1>4. accs' = [x \in DOMAIN accs |-> IF x = a THEN new ELSE accs[x]]
  BY <1>2 DEF QuietInv, IsMap
<1>5. DOMAIN accs' = DOMAIN accs /\ IsMap(accs')
  BY <1>4 DEF IsMap
<1>6. \A x \in DOMAIN accs' : IsAcc(accs'[x]) /\ (sweep = "engines" => IsUnder(accs'[x], under))
  BY <1>3, <1>4 DEF QuietInv
<1>7. sweep' = "engines" => \A x \in DOMAIN accs' : IsUnder(accs'[x], under')
  BY <1>1, <1>6
<1> QED BY <1>1, <1>5, <1>6, <1>7, NoRows

\* Between two cells.
LEMMA Publishes ==
  ASSUME QuietInv, NEW published, NEW cells, Publish(published, cells), UNCHANGED sweep,
         \A row \in published : row.confidence = "high" => SawQuiet(row.from, accs)
  PROVE  QuietInv'
<1>1. rows' = published /\ accs' = accs /\ under' = under /\ stage' \in {"prepare", "done"}
  BY DEF Publish
<1>2. \A row \in rows' : row.confidence = "high" => SawQuiet(row.from, accs')
  BY <1>1
<1>3. HighMeansQuiet'
  BY <1>2 DEF HighMeansQuiet, SawQuiet, Saw
<1> HIDE DEF HighMeansQuiet
<1> QED BY <1>1, <1>3 DEF QuietInv

\* A row of the writer or the pvec sweep, made of an account of its contender.
IsRow(row) == \E who, column, a, skipped, doubts : a[1] = who /\ row = RowOf(who, column, a, skipped, doubts)

\* The rows of a cell of the writer sweep, each made of an account.
LEMMA WriterRows ==
  ASSUME NEW c, NEW doubts, NEW row \in RowsW(c, doubts)
  PROVE  IsRow(row)
<1> DEFINE ours == Range(ContendersW) \ {<<GO>>}
           engineOf(w) == {RowOf(w, col, <<w, "engine">>, FALSE, doubts) : col \in EngineColumns}
           buildOf(w) == {RowOf(w, col, <<w, "build">>, FALSE, doubts) : col \in BuildColumns(TRUE)}
           engine == UNION {engineOf(w) : w \in ours}
           build == UNION {buildOf(w) : w \in ours}
           go == {RowOf(<<GO>>, col, << <<GO>>, "go">>, GO \notin inputs, doubts) : col \in BuildColumns(FALSE)}
<1>1. RowsW(c, doubts) = (IF IsReal(c) THEN engine ELSE {}) \cup build \cup go
  BY DEF RowsW
<1>2. \A w, mode : <<w, mode>>[1] = w
  OBVIOUS
<1>3. CASE row \in engine
  <2>1. PICK w \in ours : row \in engineOf(w)
    BY <1>3, Zenon
  <2>2. PICK col \in EngineColumns : row = RowOf(w, col, <<w, "engine">>, FALSE, doubts)
    BY <2>1, Zenon
  <2> QED BY <1>2, <2>2, Zenon DEF IsRow
<1>4. CASE row \in build
  <2>1. PICK w \in ours : row \in buildOf(w)
    BY <1>4, Zenon
  <2>2. PICK col \in BuildColumns(TRUE) : row = RowOf(w, col, <<w, "build">>, FALSE, doubts)
    BY <2>1, Zenon
  <2> QED BY <1>2, <2>2, Zenon DEF IsRow
<1>5. CASE row \in go
  <2>1. PICK col \in BuildColumns(FALSE) : row = RowOf(<<GO>>, col, << <<GO>>, "go">>, GO \notin inputs, doubts)
    BY <1>5, Zenon
  <2> QED BY <1>2, <2>1, Zenon DEF IsRow
<1> HIDE DEF engine, build, go
<1> QED BY <1>1, <1>3, <1>4, <1>5

\* The rows of a cell of the pvec sweep.
LEMMA PvecRows ==
  ASSUME NEW doubts, NEW row \in RowsP(doubts)
  PROVE  IsRow(row)
<1> DEFINE rowsOf(who) ==
             {RowOf(who, col, <<who, "scan">>, who \in Tools \ inputs, doubts) : col \in ColumnsP(who)}
<1>1. PICK who \in Range(ALL) : row \in rowsOf(who)
  BY Zenon DEF RowsP
<1>2. PICK col \in ColumnsP(who) : row = RowOf(who, col, <<who, "scan">>, who \in Tools \ inputs, doubts)
  BY <1>1, Zenon
<1>3. <<who, "scan">>[1] = who
  OBVIOUS
<1> QED BY <1>2, <1>3, Zenon DEF IsRow

\* Rows of the writer and the pvec sweep are made by RowOf().
LEMMA RowsOfAccounts ==
  ASSUME ContestAssumption, QuietInv, NEW row, IsRow(row), row.confidence = "high"
  PROVE  SawQuiet(row.from, accs)
<1>1. PICK who, column, a, skipped, doubts : row = RowOf(who, column, a, skipped, doubts)
  BY Zenon DEF IsRow
<1>2. row.from = a
  BY <1>1, Zenon DEF RowOf
<1> QED BY <1>1, <1>2, RowIsQuiet

\* rows_for() of the engines goes by the load of the cell.
LEMMA RowsOfEngines ==
  ASSUME ContestAssumption, QuietInv, sweep = "engines", NEW e \in Measured, NEW metric,
         NEW doubts, NEW row, row = RowE(e, metric, doubts), row.confidence = "high"
  PROVE  SawQuiet(row.from, accs)
<1> DEFINE a == <<e, "timed">>
           reps == accs[a].reps
           name == <<e, "pyramid", metric>>
<1>1. row.from = a /\ Confidence(Reasons(name, Series(accs[a], metric), under, doubts)) = "high"
  BY Zenon DEF RowE
<1> HIDE DEF name
<1>2. a \in DOMAIN accs /\ reps # <<>>
  BY DEF Measured
<1>3. under # Null /\ ~(under >= 2) /\ under \in Cpu
  BY <1>1, HighIsWithoutReason, Zenon DEF QuietInv
<1>4. under \in {0, 1}
  BY <1>3 DEF Cpu
<1>5. (\E S : reps \in Seq(S)) /\ \A i \in DOMAIN reps : reps[i].saw = {under}
  BY <1>2 DEF QuietInv, IsAcc, IsUnder
<1> HIDE DEF reps
<1>6. DOMAIN reps # {}
  BY <1>2, <1>5
<1>7. UNION {reps[i].saw : i \in DOMAIN reps} = {under}
  BY <1>5, <1>6
<1>8. Saw(a, accs) = {under}
  BY <1>7 DEF Saw, reps
<1> QED BY <1>1, <1>3, <1>4, <1>8 DEF SawQuiet

-----------------------------------------------------------------------------
\* No account is open when a sweep begins.
LEMMA QuietInit == Init => QuietInv
<1> SUFFICES ASSUME Init PROVE QuietInv
  OBVIOUS
<1>1. under = Null /\ accs = <<>> /\ rows = {}
  BY DEF Init, InitW, InitP, InitE
<1>2. DOMAIN accs = {} /\ IsMap(accs)
  BY <1>1 DEF IsMap
<1>3. HighMeansQuiet
  BY <1>1 DEF HighMeansQuiet
<1> QED BY <1>1, <1>2, <1>3 DEF QuietInv, Cpu

\* Waiting changes no account.
LEMMA QuietGate == ASSUME ContestAssumption, QuietInv, Gate PROVE QuietInv'
<1>1. PICK r \in Readings : Sleep(r) \/ Start(r)
  BY DEF Gate
<1>2. UNCHANGED <<accs, sweep, rows>> /\ stage = "gate" /\ sweep # "engines" /\ under' \in {under, r.cpu}
  BY <1>1 DEF Gate, Sleep, Start
<1>3. r.cpu \in Cpu
  BY DEF ContestAssumption, Cpu
<1>4. rows' = {} /\ under' \in Cpu
  BY <1>2, <1>3 DEF QuietInv
<1>5. IsMap(accs') /\ \A a \in DOMAIN accs' : IsAcc(accs'[a])
  BY <1>2 DEF QuietInv
<1> QED BY <1>2, <1>4, <1>5, NoRows

\* The steps of the writer sweep.
LEMMA QuietWriter == ASSUME ContestAssumption, QuietInv, NextW PROVE QuietInv'
<1>1. CASE NoTileset
  <2>1. rows' = {} /\ UNCHANGED <<accs, sweep, under>>
    BY <1>1 DEF NoTileset
  <2> QED BY <2>1, NoRows DEF QuietInv
<1>2. CASE PrepareW
  <2>1. PICK schedule : Begin(schedule)
    BY <1>2, Zenon DEF PrepareW
  <2>2. rows' = {} /\ under' = under
    BY <1>2 DEF PrepareW
  <2> QED BY <2>1, <2>2, Begins DEF QuietInv
<1>3. CASE RepetitionW
  <2> DEFINE c == WriterCells[cell]
  <2>1. PICK reply \in RunChild(Head(jobs).who, c, Head(jobs).acc[2], IsReal(c)), r \in Readings :
          Report(Verdict(reply, c), reply.out, r.cpu)
    BY <1>3, Zenon DEF RepetitionW
  <2>2. r.cpu \in Cpu
    BY DEF ContestAssumption, Cpu
  <2>3. sweep # "engines" /\ stage = "child"
    BY <1>3 DEF RepetitionW
  <2> QED BY <2>1, <2>2, <2>3, Files DEF Report
<1>4. CASE FinishW
  <2>1. PICK doubts : Publish(RowsW(WriterCells[cell], doubts), Len(WriterCells))
    BY <1>4, Zenon DEF FinishW
  <2>2. sweep' = sweep
    BY <2>1, Zenon DEF Publish
  <2>3. ASSUME NEW row \in RowsW(WriterCells[cell], doubts), row.confidence = "high"
        PROVE  SawQuiet(row.from, accs)
    BY <2>3, WriterRows, RowsOfAccounts
  <2> QED BY <2>1, <2>2, <2>3, Publishes
<1> QED BY <1>1, <1>2, <1>3, <1>4 DEF NextW

\* The steps of the pvec sweep.
LEMMA QuietPvec == ASSUME ContestAssumption, QuietInv, NextP PROVE QuietInv'
<1>1. CASE PrepareP
  <2>1. PICK schedule : Begin(schedule)
    BY <1>1, Zenon DEF PrepareP
  <2>2. rows' = {} /\ under' = under
    BY <1>1 DEF PrepareP
  <2> QED BY <2>1, <2>2, Begins DEF QuietInv
<1>2. CASE RepetitionP
  <2>1. PICK reply \in RunChildP(Head(jobs).who, ScanCells[cell]), r \in Readings,
             lister \in BOOLEAN :
          Report(IF reply.verdict = "ran" THEN "ran"
                 ELSE IF Attest(Head(jobs).who, ScanCells[cell], reply.archive, lister) THEN "ok"
                 ELSE "attest", reply.out, r.cpu)
    BY <1>2, Zenon DEF RepetitionP
  <2>2. r.cpu \in Cpu
    BY DEF ContestAssumption, Cpu
  <2>3. sweep # "engines" /\ stage = "child"
    BY <1>2 DEF RepetitionP
  <2> QED BY <2>1, <2>2, <2>3, Files DEF Report
<1>3. CASE FinishP
  <2>1. PICK doubts : Publish(RowsP(doubts), Len(ScanCells))
    BY <1>3, Zenon DEF FinishP
  <2>2. sweep' = sweep
    BY <2>1, Zenon DEF Publish
  <2>3. ASSUME NEW row \in RowsP(doubts), row.confidence = "high" PROVE SawQuiet(row.from, accs)
    BY <2>3, PvecRows, RowsOfAccounts
  <2> QED BY <2>1, <2>2, <2>3, Publishes
<1> QED BY <1>1, <1>2, <1>3 DEF NextP

\* The steps of the engines sweep.
LEMMA QuietEngines == ASSUME ContestAssumption, QuietInv, NextE PROVE QuietInv'
<1>1. CASE PrepareE
  <2>1. Begin(JobsE) /\ rows' = {}
    BY <1>1 DEF PrepareE
  <2>2. PICK r \in Readings : under' = r.cpu
    BY <1>1, Zenon DEF PrepareE
  <2>3. under' \in Cpu
    BY <2>2 DEF ContestAssumption, Cpu
  <2> QED BY <2>1, <2>3, Begins
<1>2. CASE NoMetrics
  <2>1. UNCHANGED <<accs, sweep, under, rows>> /\ stage = "gate"
    BY <1>2 DEF NoMetrics
  <2>2. rows' = {}
    BY <2>1 DEF QuietInv
  <2> QED BY <2>1, <2>2, NoRows DEF QuietInv
<1>3. CASE RepetitionE
  <2>1. PICK a, out : accs' = [accs EXCEPT ![a] = Filed(@, "ok", out, under)]
    BY <1>3, Zenon DEF RepetitionE
  <2>2. UNCHANGED <<sweep, under, rows>> /\ stage = "gate"
    BY <1>3 DEF RepetitionE
  <2>3. under \in Cpu
    BY DEF QuietInv
  <2> QED BY <2>1, <2>2, <2>3, Files
<1>4. CASE FinishE
  <2>1. PICK doubts : Publish(RowsE(doubts), Len(EngineCells))
    BY <1>4, Zenon DEF FinishE
  <2>2. sweep = "engines" /\ sweep' = sweep
    BY <1>4, <2>1, Zenon DEF FinishE, Publish
  <2>3. ASSUME NEW row \in RowsE(doubts), row.confidence = "high" PROVE SawQuiet(row.from, accs)
    <3>1. PICK e \in Measured, metric \in METRICS : row = RowE(e, metric, doubts)
      BY DEF RowsE
    <3> QED BY <2>2, <2>3, <3>1, RowsOfEngines
  <2> QED BY <2>1, <2>2, <2>3, Publishes
<1> QED BY <1>1, <1>2, <1>3, <1>4 DEF NextE

-----------------------------------------------------------------------------
\* Worse(), worst_load() and from_report(): a reading that is missing is never
\* taken for a calm one, nor covers a contended one up: whichever repetition of a
\* contender met a busy machine, before or after it ran, none of its rows is high.
THEOREM HighIsQuiet == Spec => []HighMeansQuiet
<1>1. ASSUME QuietInv, [Next]_cvars PROVE QuietInv'
  <2>1. CASE UNCHANGED cvars
    <3>1. UNCHANGED <<accs, sweep, under, rows, stage>>
      BY <2>1 DEF cvars
    <3>2. HighMeansQuiet'
      BY <1>1, <3>1 DEF HighMeansQuiet, QuietInv
    <3> HIDE DEF HighMeansQuiet
    <3> QED BY <1>1, <3>1, <3>2 DEF QuietInv
  <2>2. CASE Next
    BY <1>1, <2>2, ContestAssumption, QuietGate, QuietWriter, QuietPvec, QuietEngines DEF Next
  <2> QED BY <1>1, <2>1, <2>2
<1>2. QuietInv => HighMeansQuiet
  BY DEF QuietInv
<1> QED BY <1>1, <1>2, QuietInit, PTL DEF Spec

-----------------------------------------------------------------------------
(* Contenders and the labels their children are told them by. *)

Variants == [layout : {"tile-id", "arrival"}, ordered : BOOLEAN, budget : Nat \cup {Null}]

\* Two pairs, one behind the other.
LEMMA PairsMeet ==
  ASSUME NEW a, NEW b, NEW c, NEW d
  PROVE  <<a, b>> \o <<c, d>> = <<a, b, c, d>>
<1> DEFINE s == <<a, b>>
           t == <<c, d>>
           g == s \o t
           S == {a, b, c, d}
<1>1. s \in Seq(S) /\ t \in Seq(S) /\ Len(s) = 2 /\ Len(t) = 2
  OBVIOUS
<1>2. s[1] = a /\ s[2] = b /\ t[1] = c /\ t[2] = d
  OBVIOUS
<1> HIDE DEF s, t, S
<1>3. g \in Seq(S) /\ Len(g) = 4 /\ g[1] = s[1] /\ g[2] = s[2] /\ g[3] = t[1] /\ g[4] = t[2]
  <2>1. /\ g \in Seq(S) /\ Len(g) = Len(s) + Len(t)
        /\ \A i \in 1..(Len(s) + Len(t)) : g[i] = IF i <= Len(s) THEN s[i] ELSE t[i - Len(s)]
    BY <1>1, ConcatProperties
  <2> HIDE DEF g
  <2> QED BY <1>1, <2>1
<1> HIDE DEF g
<1>4. g = <<g[1], g[2], g[3], g[4]>>
  BY <1>3
<1> QED BY <1>2, <1>3, <1>4 DEF g, s, t

\* A label, as the four parts it has.
LEMMA LabelIs ==
  ASSUME NEW v
  PROVE  Label(v) = IF v.budget = Null THEN <<v.layout, v.ordered, "unbounded", 0>>
                    ELSE IF v.budget % (KiB * KiB) = 0
                    THEN <<v.layout, v.ordered, "MiB", v.budget \div (KiB * KiB)>>
                    ELSE IF v.budget % KiB = 0 THEN <<v.layout, v.ordered, "KiB", v.budget \div KiB>>
                    ELSE <<v.layout, v.ordered, "B", v.budget>>
<1>1. \A a, b, c, d : <<a, b>> \o <<c, d>> = <<a, b, c, d>>
  BY PairsMeet, Zenon
<1> DEFINE M == v.budget % (KiB * KiB)
           K == v.budget % KiB
           m == v.budget \div (KiB * KiB)
           k == v.budget \div KiB
<1>2. Label(v) = <<v.layout, v.ordered>> \o
        CASE v.budget = Null -> <<"unbounded", 0>>
          [] v.budget # Null /\ M = 0 -> <<"MiB", m>>
          [] v.budget # Null /\ M # 0 /\ K = 0 -> <<"KiB", k>>
          [] OTHER -> <<"B", v.budget>>
  BY Zenon DEF Label
<1> HIDE DEF M, K, m, k
<1>3. CASE v.budget = Null
  BY <1>1, <1>2, <1>3
<1>4. CASE v.budget # Null /\ M = 0
  BY <1>1, <1>2, <1>4 DEF M, m
<1>5. CASE v.budget # Null /\ M # 0 /\ K = 0
  BY <1>1, <1>2, <1>5 DEF M, K, k
<1>6. CASE v.budget # Null /\ M # 0 /\ K # 0
  BY <1>1, <1>2, <1>6 DEF M, K
<1> QED BY <1>3, <1>4, <1>5, <1>6

\* parse_variant() is the inverse of label(), whatever the budget is a multiple of.
LEMMA LabelsParse ==
  ASSUME ContestAssumption, NEW v \in Variants
  PROVE  ParseVariant(Label(v)) = v /\ Label(v) # <<GO>>
<1>1. v = [layout |-> v.layout, ordered |-> v.ordered, budget |-> v.budget]
      /\ v.layout \in {"tile-id", "arrival"} /\ v.budget \in Nat \cup {Null}
  BY DEF Variants
<1>2. ASSUME NEW l, l[1] \in {"tile-id", "arrival"}
      PROVE  ParseVariant(l) = [layout |-> l[1], ordered |-> l[2],
               budget |-> CASE l[3] = "unbounded" -> Null
                            [] l[3] = "MiB" -> l[4] * KiB * KiB
                            [] l[3] = "KiB" -> l[4] * KiB
                            [] OTHER -> l[4]]
  BY <1>2, Zenon DEF ParseVariant
<1>3. \A a, b, c, d : <<a, b, c, d>> # <<GO>>
  OBVIOUS
<1>4. ASSUME NEW unit, NEW n, Label(v) = <<v.layout, v.ordered, unit, n>>
      PROVE  /\ ParseVariant(Label(v)) = [layout |-> v.layout, ordered |-> v.ordered,
                  budget |-> CASE unit = "unbounded" -> Null
                               [] unit = "MiB" -> n * KiB * KiB
                               [] unit = "KiB" -> n * KiB
                               [] OTHER -> n]
             /\ Label(v) # <<GO>>
  <2> DEFINE l == <<v.layout, v.ordered, unit, n>>
  <2>1. l[1] = v.layout /\ l[2] = v.ordered /\ l[3] = unit /\ l[4] = n
    OBVIOUS
  <2>2. ParseVariant(l) = [layout |-> l[1], ordered |-> l[2],
               budget |-> CASE l[3] = "unbounded" -> Null
                            [] l[3] = "MiB" -> l[4] * KiB * KiB
                            [] l[3] = "KiB" -> l[4] * KiB
                            [] OTHER -> l[4]]
    <3>1. l[1] \in {"tile-id", "arrival"}
      BY <1>1, <2>1
    <3> HIDE DEF l
    <3> QED BY <1>2, <3>1
  <2>3. Label(v) = l /\ l # <<GO>>
    BY <1>3, <1>4
  <2> HIDE DEF l
  <2> QED BY <2>1, <2>2, <2>3
<1>5. CASE v.budget = Null
  <2>1. Label(v) = <<v.layout, v.ordered, "unbounded", 0>>
    BY <1>5, LabelIs, Zenon
  <2> QED BY <1>1, <1>4, <1>5, <2>1
<1>6. CASE v.budget # Null /\ v.budget % (KiB * KiB) = 0
  <2>1. Label(v) = <<v.layout, v.ordered, "MiB", v.budget \div (KiB * KiB)>>
    BY <1>6, LabelIs, Zenon
  <2>2. (v.budget \div (KiB * KiB)) * KiB * KiB = v.budget
    BY <1>1, <1>6 DEF KiB
  <2> DEFINE n == v.budget \div (KiB * KiB)
  <2> HIDE DEF n
  <2>3. n * KiB * KiB = v.budget /\ Label(v) = <<v.layout, v.ordered, "MiB", n>>
    BY <2>1, <2>2 DEF n
  <2> QED BY <1>1, <1>4, <2>3
<1>7. CASE v.budget # Null /\ v.budget % (KiB * KiB) # 0 /\ v.budget % KiB = 0
  <2>1. Label(v) = <<v.layout, v.ordered, "KiB", v.budget \div KiB>>
    BY <1>7, LabelIs, Zenon
  <2>2. (v.budget \div KiB) * KiB = v.budget
    BY <1>1, <1>7 DEF KiB
  <2> DEFINE n == v.budget \div KiB
  <2> HIDE DEF n
  <2>3. n * KiB = v.budget /\ Label(v) = <<v.layout, v.ordered, "KiB", n>>
    BY <2>1, <2>2 DEF n
  <2> QED BY <1>1, <1>4, <2>3
<1>8. CASE v.budget # Null /\ v.budget % (KiB * KiB) # 0 /\ v.budget % KiB # 0
  <2>1. Label(v) = <<v.layout, v.ordered, "B", v.budget>>
    BY <1>8, LabelIs, Zenon
  <2> QED BY <1>1, <1>4, <2>1
<1> QED BY <1>5, <1>6, <1>7, <1>8

\* The matrix is a sequence of variants, each of which the core can be told.
LEMMA MatrixIs ==
  ASSUME WriterAssumption
  PROVE  Matrix \in Seq(Variants) /\ \A i \in DOMAIN Matrix : Options(Matrix[i]) = Matrix[i]
<1>1. CASE Knobs
  <2> DEFINE layoutOf(m) == IF m % 2 = 1 THEN "tile-id" ELSE "arrival"
             of(m, b) == [layout |-> layoutOf(m), ordered |-> m > 2, budget |-> BUDGETS_BYTES[b]]
             piece(m) == [b \in DOMAIN BUDGETS_BYTES |-> of(m, b)]
             seqs == [m \in 1..4 |-> piece(m)]
  <2>1. Matrix = FlattenSeq(seqs)
    BY <1>1, Zenon DEF Matrix
  <2>2. Len(seqs) = 4 /\ \A m \in 1..4 : seqs[m] = piece(m)
    OBVIOUS
  <2>3. /\ DOMAIN BUDGETS_BYTES = 1..Len(BUDGETS_BYTES) /\ Len(BUDGETS_BYTES) \in Nat
        /\ \A b \in DOMAIN BUDGETS_BYTES : BUDGETS_BYTES[b] \in Nat
    BY LenProperties, ElementOfSeq DEF WriterAssumption
  <2>4. ASSUME NEW m \in 1..4 PROVE piece(m) \in Seq(Variants)
    <3>1. layoutOf(m) \in {"tile-id", "arrival"} /\ (m > 2) \in BOOLEAN
      OBVIOUS
    <3> HIDE DEF layoutOf
    <3>2. \A b \in DOMAIN BUDGETS_BYTES : of(m, b) \in Variants
      BY <2>3, <3>1 DEF Variants
    <3> HIDE DEF of
    <3> QED BY <2>3, <3>2
  <2> HIDE DEF seqs
  <2>5. FlattenSeq(seqs) \in Seq(Variants)
    <3> HIDE DEF piece
    <3>1. Len(seqs) \in Nat /\ Len(seqs) # 0
      BY <2>2
    <3>2. \A m \in 1..Len(seqs) : seqs[m] \in Seq(Variants)
      BY <2>2, <2>4
    <3> QED BY <3>1, <3>2, FlatIsSeq
  <2>6. \A i \in DOMAIN Matrix : Options(Matrix[i]) = Matrix[i]
    BY <1>1, Zenon DEF Options
  <2> QED BY <2>1, <2>5, <2>6
<1>2. CASE ~Knobs
  <2> DEFINE v == [layout |-> "tile-id", ordered |-> FALSE, budget |-> Null]
  <2>1. Matrix = <<v>>
    BY <1>2, Zenon DEF Matrix
  <2>2. v \in Variants
    BY DEF Variants
  <2>3. Options(v) = v
    BY <1>2 DEF Options
  <2> HIDE DEF v
  <2> QED BY <2>1, <2>2, <2>3
<1> QED BY <1>1, <1>2

\* What a contender of the writer sweep is.
LEMMA ContenderIs ==
  ASSUME ContestAssumption, WriterAssumption, NEW who \in Range(ContendersW)
  PROVE  \/ who = <<GO>> /\ SubjectW(who) = GoPmtiles
         \/ /\ who # <<GO>> /\ ParseVariant(who) = SubjectW(who)
            /\ Options(SubjectW(who)) = SubjectW(who)
<1>1. Matrix \in Seq(Variants) /\ DOMAIN Matrix = 1..Len(Matrix) /\ Len(Matrix) \in Nat
  BY MatrixIs, LenProperties
<1>2. CASE who = <<GO>>
  BY <1>2 DEF SubjectW
<1>3. CASE who # <<GO>>
  <2> DEFINE L == [i \in DOMAIN Matrix |-> Label(Matrix[i])]
             go == << <<GO>> >>
  <2>1. \A i \in DOMAIN (L \o go) : 
         (i \in DOMAIN Matrix /\ (L \o go)[i] = L[i]) \/ (L \o go)[i] = <<GO>>
    <3>1. Len(L) = Len(Matrix) /\ L \in Seq({Label(Matrix[i]) : i \in DOMAIN Matrix})
      BY <1>1
    <3>2. Len(go) = 1 /\ go[1] = <<GO>>
      OBVIOUS
    <3>3. DOMAIN (L \o go) = 1..(Len(L) + Len(go))
          /\ \A i \in 1..(Len(L) + Len(go)) : (L \o go)[i] = IF i <= Len(L) THEN L[i] ELSE go[i - Len(L)]
      BY <1>1, <3>1
    <3> DEFINE g == L \o go
    <3> HIDE DEF L, go, g
    <3>5. ASSUME NEW i \in DOMAIN g PROVE (i \in DOMAIN Matrix /\ g[i] = L[i]) \/ g[i] = <<GO>>
      <4>1. i \in 1..(Len(Matrix) + 1) /\ g[i] = IF i <= Len(Matrix) THEN L[i] ELSE go[i - Len(Matrix)]
        BY <3>1, <3>2, <3>3, <3>5 DEF g
      <4>2. CASE i <= Len(Matrix)
        BY <1>1, <4>1, <4>2
      <4>3. CASE ~(i <= Len(Matrix))
        <5>1. i - Len(Matrix) = 1
          BY <1>1, <4>1, <4>3
        <5> QED BY <3>2, <4>1, <4>3, <5>1
      <4> QED BY <4>2, <4>3
    <3> QED BY <3>5 DEF g
  <2>2. PICK i \in DOMAIN (L \o go) : who = (L \o go)[i]
    BY DEF ContendersW, Range
  <2>3. \E k \in DOMAIN Matrix : Label(Matrix[k]) = who
    BY <1>3, <2>1, <2>2
  <2> HIDE DEF L, go
  <2> DEFINE k == CHOOSE j \in DOMAIN Matrix : Label(Matrix[j]) = who
  <2>4. k \in DOMAIN Matrix /\ Label(Matrix[k]) = who /\ SubjectW(who) = Matrix[k]
    <3>1. SubjectW(who) = Matrix[k]
      BY <1>3, Zenon DEF SubjectW
    <3> QED BY <2>3, <3>1, Zenon
  <2> HIDE DEF k
  <2>5. Matrix[k] \in Variants /\ Options(Matrix[k]) = Matrix[k]
    BY <1>1, <2>4, ElementOfSeq, MatrixIs
  <2> QED BY <1>3, <2>4, <2>5, LabelsParse
<1> QED BY <1>2, <1>3

-----------------------------------------------------------------------------
(* One repetition of the writer sweep. *)

\* What a repetition of a contender measured when it is to be believed.
GoodW(who, out) == out.by = SubjectW(who) /\ out.left.lost = 0 /\ out.left.wrong # "sampled"

\* A scattered build feeds no more tiles than there are steps.
LEMMA FedAtMost ==
  ASSUME NEW v, NEW c, Tiles(c) \in Nat
  PROVE  Fed(v, c) \in Nat /\ Fed(v, c) <= Tiles(c)
<1>1. CASE IsReal(c)
  BY <1>1 DEF Fed
<1>2. CASE ~IsReal(c)
  <2> DEFINE n == Tiles(c)
             I == 0..(n - 1)
             f == [i \in I |-> Address(v, c[2], i)]
             T == {Address(v, c[2], i) : i \in I}
  <2>1. IsFiniteSet(I) /\ Cardinality(I) <= n
    <3> HIDE DEF n
    <3>1. n \in Nat /\ 0 \in Int /\ n - 1 \in Int
      BY DEF n
    <3>2. IsFiniteSet(0..(n - 1)) /\ Cardinality(0..(n - 1)) = IF 0 > n - 1 THEN 0 ELSE n - 1 - 0 + 1
      BY <3>1, FS_Interval
    <3> QED BY <3>1, <3>2
  <2>2. f \in [I -> T] /\ \A t \in T : \E i \in I : f[i] = t
    OBVIOUS
  <2>3. Fed(v, c) = Cardinality(T)
    BY <1>2 DEF Fed
  <2> HIDE DEF I, f, T
  <2>4. f \in Surjection(I, T)
    BY <2>2, Fun_IsSurj
  <2>5. IsFiniteSet(T) /\ Cardinality(T) <= Cardinality(I)
    BY <2>1, <2>4, FS_Surjection
  <2>6. Cardinality(T) \in Nat /\ Cardinality(I) \in Nat
    BY <2>1, <2>5, FS_CardinalityType
  <2> QED BY <2>1, <2>3, <2>5, <2>6
<1> QED BY <1>1, <1>2

\* An archive that lost a tile, or has a sampled one wrong, is not attested.
LEMMA AnswerIsGood ==
  ASSUME NEW c, Tiles(c) \in Nat, NEW fed \in Nat, fed <= Tiles(c), NEW who,
         NEW always, NEW optional,
         NEW reply \in Answers(SubjectW(who), always, optional, fed), Verdict(reply, c) = "ok"
  PROVE  GoodW(who, reply.out)
<1> DEFINE by == SubjectW(who)
<1>1. PICK has \in Figures(always, optional), a \in Archives(fed), f \in {"same", "other"} :
        reply = Answer(by, has, has = always \cup UNION optional, a, f)
  BY DEF Answers
<1> HIDE DEF by
<1>2. reply.archive = a /\ reply.out.left = a /\ reply.out.by = by /\ reply.verdict = "ok"
  BY <1>1 DEF Answer
<1>3. a.fed = fed /\ a.lost \in {0, 1}
  BY DEF Archives
<1>4. AttestArchive(a, c)
  <2>1. reply.verdict # "ran"
    BY <1>2
  <2> QED BY <1>2, <2>1, Zenon DEF Verdict
<1>5. a.fed - a.lost = Tiles(c) /\ a.wrong # "sampled"
  BY <1>4, Zenon DEF AttestArchive
<1>6. a.lost = 0
  BY <1>3, <1>5
<1> QED BY <1>2, <1>5, <1>6 DEF GoodW, by

\* Of a contender's child the parent believes only what measured that contender.
LEMMA ReplyIsGood ==
  ASSUME ContestAssumption, WriterAssumption, NEW who \in Range(ContendersW),
         NEW c, Tiles(c) \in Nat, NEW mode, mode = "go" <=> who = <<GO>>, NEW root,
         NEW reply \in RunChild(who, c, mode, root), Verdict(reply, c) = "ok"
  PROVE  GoodW(who, reply.out)
<1> DEFINE v == IF mode = "go" THEN Null ELSE ParseVariant(who)
           d == ParseCell(c)
<1>1. reply # Dead
  BY DEF Dead, Verdict
<1>2. d = c /\ reply \in OneRep(mode, c, v, root)
  <2>1. d \in {c, Null}
    BY Zenon DEF ParseCell
  <2>2. RunChild(who, c, mode, root) =
          IF d = Null \/ (v = Null /\ mode # "go") THEN {Dead} ELSE {Dead} \cup OneRep(mode, d, v, root)
    BY Zenon DEF RunChild
  <2> HIDE DEF d, v
  <2> QED BY <1>1, <2>1, <2>2
<1>3. CASE mode = "go"
  <2>1. OneRep(mode, c, v, root) = GoChild(c)
    BY <1>3, Zenon DEF OneRep
  <2>2. SubjectW(who) = GoPmtiles
    BY <1>3, Zenon DEF SubjectW
  <2>3. reply \in Answers(SubjectW(who), {"build_ms"}, {{"output_bytes"}, {"peak_rss"}}, Tiles(c))
    BY <1>2, <2>1, <2>2, Zenon DEF GoChild
  <2> QED BY <2>3, AnswerIsGood
<1>4. CASE mode # "go"
  <2>1. v = SubjectW(who) /\ Options(v) = SubjectW(who)
    BY <1>4, ContenderIs
  <2> HIDE DEF v, d
  <2>2. reply \in EngineRep(v, c) \/ reply \in BuildRep(v, c, root)
    <3>1. OneRep(mode, c, v, root) \in {EngineRep(v, c), BuildRep(v, c, root), {}}
      <4>1. CASE mode = "engine" /\ v # Null /\ IsReal(c)
        <5>1. mode # "build"
          BY <4>1
        <5> QED BY <1>4, <4>1, <5>1, Zenon DEF OneRep
      <4>2. CASE mode = "build" /\ v # Null
        <5>1. mode # "engine"
          BY <4>2
        <5> QED BY <1>4, <4>2, <5>1, Zenon DEF OneRep
      <4>3. CASE ~(mode = "engine" /\ v # Null /\ IsReal(c)) /\ ~(mode = "build" /\ v # Null)
        BY <1>4, <4>3, Zenon DEF OneRep
      <4> QED BY <4>1, <4>2, <4>3, Zenon
    <3> QED BY <1>2, <3>1
  <2>3. CASE reply \in EngineRep(v, c)
    <3>1. PICK always, optional : reply \in Answers(Options(v), always, optional, Tiles(c))
      BY <2>3, Zenon DEF EngineRep
    <3>2. Tiles(c) <= Tiles(c)
      OBVIOUS
    <3> QED BY <2>1, <3>1, <3>2, AnswerIsGood, Zenon
  <2>4. CASE reply \in BuildRep(v, c, root)
    <3>1. reply \in Answers(Options(v), {"build_ms"},
                           {{"heap_peak"}, {"output_bytes"}, {"peak_rss"}}, Fed(v, c))
      BY <2>4, Zenon DEF BuildRep
    <3> QED BY <2>1, <3>1, AnswerIsGood, FedAtMost
  <2> QED BY <2>2, <2>3, <2>4
<1> QED BY <1>3, <1>4

-----------------------------------------------------------------------------
(* What every repetition that was filed as a result measured. *)

\* A sink of the core is read back tile by tile; of a tool's artefact only the
\* count is known.
GoodP(who, out) ==
  out.by = who /\ out.left.lost = 0 /\ (who \notin Tools => out.left.wrong # "sampled")

GoodE(out) ==
  /\ out.left = [tiles |-> out.left.tiles, grid |-> out.left.grid, walked |-> out.left.walked]
  /\ out.left.walked \in BOOLEAN

\* The fields a row is made of.
FieldsOf(columns) == {column.field : column \in columns}

ColumnsW(mode) ==
  CASE mode = "engine" -> EngineColumns
    [] mode = "build" -> BuildColumns(TRUE)
    [] mode = "go" -> BuildColumns(FALSE)

\* Those of them that are times, or made of one.
Times(columns) ==
  {column.field : column \in {col \in columns : col.metric \in {"wall", "throughput"}}}

\* A result is of its account's contender and has the times of its rows.
IsRight(a, out) ==
  /\ sweep = "writer" => GoodW(a[1], out) /\ Times(ColumnsW(a[2])) \subseteq out.has
  /\ sweep = "pvec" => GoodP(a[1], out) /\ Times(ColumnsP(a[1])) \subseteq out.has
  /\ sweep = "engines" => GoodE(out)

AllRight == \A a \in DOMAIN accs : \A i \in DOMAIN accs[a].reps : IsRight(a, accs[a].reps[i].out)

\* The accounts a repetition's job may name, and so the jobs.
AccountsW ==
  {p \in Range(ContendersW) \X {"go", "engine", "build"} : p[2] = "go" <=> p[1] = <<GO>>}

AccountsP == Range(ALL) \X {"scan"}

JobsOf(accounts) == {[who |-> a[1], acc |-> a] : a \in accounts}

\* The writer and the pvec sweep are inside their profile, and their jobs are of
\* their contenders.
OnCourse(cells, accounts) ==
  /\ cell \in Nat
  /\ stage # "done" => cell \in 1..Len(cells)
  /\ stage \in {"gate", "child"} => jobs # <<>>
  /\ jobs \in Seq(JobsOf(accounts))

MeasuredInv ==
  /\ QuietInv
  /\ sweep \in {"writer", "pvec", "engines"}
  /\ sweep = "writer" => OnCourse(WriterCells, AccountsW)
  /\ sweep = "pvec" => OnCourse(ScanCells, AccountsP)
  /\ AllRight
  /\ AttestedIsMeasured

-----------------------------------------------------------------------------
(* The pyramids of a scan. *)

\* The equation of TilesTo's recursion.
IsSum(u, c) ==
  u = [k \in 0..MaxLevel |-> TilesAt(c, k) + (IF k = 0 THEN 0 ELSE u[k - 1])]

\* It has a solution, which grows with every level.
LEMMA SumExists == ASSUME NEW c PROVE \E u : IsSum(u, c)
<1> DEFINE IsUpTo(u, n) == u = [k \in 0..n |-> TilesAt(c, k) + (IF k = 0 THEN 0 ELSE u[k - 1])]
           T == {n \in Nat : \E u : IsUpTo(u, n)}
<1>1. 0 \in T
  <2> DEFINE u == [k \in 0..0 |-> TilesAt(c, k) + 0]
  <2>1. \A k \in 0..0 : u[k] = TilesAt(c, k) + (IF k = 0 THEN 0 ELSE u[k - 1])
    BY SMT
  <2>2. u = [k \in 0..0 |-> u[k]]
    OBVIOUS
  <2> HIDE DEF u
  <2>3. IsUpTo(u, 0)
    BY <2>1, <2>2
  <2> QED BY <2>3
<1>2. ASSUME NEW n \in Nat, n \in T PROVE n + 1 \in T
  <2>1. PICK u : IsUpTo(u, n)
    BY <1>2
  <2> DEFINE last == TilesAt(c, n + 1) + u[n]
             v == [k \in 0..(n + 1) |-> IF k = n + 1 THEN last ELSE u[k]]
  <2> HIDE DEF last
  <2>2. ASSUME NEW k \in 0..(n + 1)
        PROVE  v[k] = TilesAt(c, k) + (IF k = 0 THEN 0 ELSE v[k - 1])
    <3>1. CASE k = n + 1
      <4>1. v[k] = last /\ v[k - 1] = u[n] /\ k # 0
        BY <3>1, SMT
      <4> QED BY <3>1, <4>1 DEF last
    <3>2. CASE k # n + 1
      <4>1. k \in 0..n /\ v[k] = u[k] /\ (k # 0 => v[k - 1] = u[k - 1])
        BY <3>2, SMT
      <4>2. u[k] = TilesAt(c, k) + (IF k = 0 THEN 0 ELSE u[k - 1])
        BY <2>1, <4>1
      <4> QED BY <4>1, <4>2
    <3> QED BY <3>1, <3>2
  <2>3. v = [k \in 0..(n + 1) |-> v[k]]
    OBVIOUS
  <2> HIDE DEF v
  <2>4. IsUpTo(v, n + 1)
    BY <2>2, <2>3
  <2> QED BY <2>4
<1> HIDE DEF T
<1>3. Nat \subseteq T
  BY <1>1, <1>2, NatInd
<1>4. MaxLevel \in T
  BY <1>3 DEF MaxLevel
<1> QED BY <1>4 DEF T, IsSum

IsScan(c) == \E i \in DOMAIN ScanCells : c = ScanCells[i]

\* The tiles up to a level are as many as there are levels, at least, and every
\* further level adds some.
LEMMA LevelsAdd ==
  ASSUME PvecAssumption, ScanAssumption, NEW c, IsScan(c)
  PROVE  \A a, b \in 0..MaxLevel :
           TilesTo(c, a) \in Nat /\ (a <= b => TilesTo(c, a) + (b - a) <= TilesTo(c, b))
<1> DEFINE u == CHOOSE u : IsSum(u, c)
<1>1. IsSum(u, c)
  BY SumExists
<1>2. \A k : TilesTo(c, k) = u[k]
  BY DEF TilesTo, IsSum
<1> HIDE DEF u
<1>3. \A k \in 0..MaxLevel : u[k] = TilesAt(c, k) + (IF k = 0 THEN 0 ELSE u[k - 1])
  BY <1>1 DEF IsSum
<1>4. \A k \in 0..MaxLevel : TilesAt(c, k) \in Nat \ {0}
  BY DEF ScanAssumption, IsScan
<1> DEFINE N == {n \in Nat : n <= MaxLevel => u[n] \in Nat}
<1>5. 0 \in N
  <2>1. 0 \in 0..MaxLevel
    BY DEF MaxLevel
  <2>2. u[0] = TilesAt(c, 0) + 0 /\ TilesAt(c, 0) \in Nat
    BY <1>3, <1>4, <2>1
  <2> QED BY <2>2
<1>6. ASSUME NEW n \in Nat, n \in N PROVE n + 1 \in N
  <2>1. SUFFICES ASSUME n + 1 <= MaxLevel PROVE u[n + 1] \in Nat
    OBVIOUS
  <2>2. n + 1 \in 0..MaxLevel /\ (n + 1) - 1 = n /\ n + 1 # 0 /\ n <= MaxLevel
    BY <2>1 DEF MaxLevel
  <2>3. u[n + 1] = TilesAt(c, n + 1) + u[n]
    BY <1>3, <2>2
  <2> QED BY <1>4, <1>6, <2>2, <2>3
<1> HIDE DEF N
<1>7. Nat \subseteq N
  BY <1>5, <1>6, NatInd
<1>8. \A k \in 0..MaxLevel : u[k] \in Nat
  BY <1>7 DEF N, MaxLevel
<1>9. ASSUME NEW a \in 0..MaxLevel, NEW b \in 0..MaxLevel, a <= b PROVE u[a] + (b - a) <= u[b]
  <2> DEFINE M == {n \in Nat : a + n <= MaxLevel => u[a] + n <= u[a + n]}
  <2>1. 0 \in M
    <3>1. u[a] \in Nat
      BY <1>8
    <3>3. a \in Nat
      BY DEF MaxLevel
    <3>2. u[a] + 0 <= u[a + 0]
      BY <3>1, <3>3
    <3> QED BY <3>2
  <2>2. ASSUME NEW n \in Nat, n \in M PROVE n + 1 \in M
    <3>1. SUFFICES ASSUME a + (n + 1) <= MaxLevel PROVE u[a] + (n + 1) <= u[a + (n + 1)]
      OBVIOUS
    <3> DEFINE k == a + (n + 1)
    <3>2. k \in 0..MaxLevel /\ k - 1 = a + n /\ k # 0 /\ a + n \in 0..MaxLevel /\ a + n <= MaxLevel
      BY <3>1 DEF MaxLevel
    <3>3. u[a] + n <= u[a + n]
      BY <2>2, <3>2
    <3> HIDE DEF k
    <3>4. u[k] = TilesAt(c, k) + u[a + n]
      BY <1>3, <3>2
    <3>5. TilesAt(c, k) \in Nat \ {0} /\ u[a + n] \in Nat /\ u[a] \in Nat
      BY <1>4, <1>8, <3>2
    <3>6. u[a] + (n + 1) <= u[k]
      <4> DEFINE t == TilesAt(c, k)
                 x == u[a]
                 y == u[a + n]
      <4>1. x + n <= y /\ u[k] = t + y /\ t \in Nat \ {0} /\ x \in Nat /\ y \in Nat
        BY <3>3, <3>4, <3>5
      <4> HIDE DEF t, x, y
      <4>2. x + (n + 1) <= t + y
        BY <4>1
      <4> QED BY <4>1, <4>2 DEF x
    <3> QED BY <3>6 DEF k
  <2> HIDE DEF M
  <2>3. Nat \subseteq M
    BY <2>1, <2>2, NatInd
  <2>4. b - a \in M /\ a + (b - a) <= MaxLevel /\ a + (b - a) = b
    BY <1>9, <2>3 DEF MaxLevel
  <2> QED BY <2>4 DEF M
<1> QED BY <1>2, <1>8, <1>9

\* The first level within an edge is one of them.
LEMMA FirstIs ==
  ASSUME PvecAssumption, ScanAssumption, NEW c, IsScan(c), NEW edge \in Nat, TILE_EDGE \div 2 <= edge
  PROVE  /\ FirstWithin(c, edge) \in 0..MaxLevel
         /\ Longer(c, FirstWithin(c, edge)) <= edge
         /\ \A k \in 0..MaxLevel : Longer(c, k) <= edge => FirstWithin(c, edge) <= k
<1> DEFINE K == {k \in 0..MaxLevel : Longer(c, k) <= edge}
<1>1. TILE_EDGE \div 2 \in Nat /\ MaxLevel \in 0..MaxLevel
  BY DEF PvecAssumption, MaxLevel
<1>2. Longer(c, MaxLevel) <= TILE_EDGE \div 2 /\ Longer(c, MaxLevel) \in Nat
  BY <1>1 DEF ScanAssumption, IsScan
<1>3. MaxLevel \in K
  BY <1>1, <1>2
<1>4. K \subseteq Nat /\ K \subseteq 0..MaxLevel
  <2>1. \A k \in 0..MaxLevel : k \in Nat
    BY DEF MaxLevel
  <2>2. \A k \in K : k \in 0..MaxLevel
    OBVIOUS
  <2> HIDE DEF K
  <2> QED BY <2>1, <2>2
<1>5. FirstWithin(c, edge) = Min(K)
  BY DEF FirstWithin
<1>6. \A k \in K : Longer(c, k) <= edge
  OBVIOUS
<1>7. \A k \in 0..MaxLevel : Longer(c, k) <= edge => k \in K
  OBVIOUS
<1> HIDE DEF K
<1>8. \E m \in K : \A n \in K : m <= n
  BY <1>3, <1>4, Least
<1>9. Min(K) \in K /\ \A n \in K : Min(K) <= n
  BY <1>8 DEF Min
<1> QED BY <1>4, <1>5, <1>6, <1>7, <1>9

\* vips_tiles(): libvips cuts no more tiles than it is believed to.
LEMMA VipsCutsNoMore ==
  ASSUME PvecAssumption, ScanAssumption, NEW c, IsScan(c)
  PROVE  /\ Levels(c) \in Int /\ ScanTiles(c) \in Int /\ VipsTiles(c) \in Int /\ DzSave(c) \in Int
         /\ DzSave(c) <= VipsTiles(c)
<1> DEFINE half == TILE_EDGE \div 2
           a == FirstWithin(c, TILE_EDGE)
           b == FirstWithin(c, half)
<1>1. half \in Nat /\ TILE_EDGE \in Nat /\ half <= TILE_EDGE
  BY DEF PvecAssumption
<1>2. a \in 0..MaxLevel /\ \A k \in 0..MaxLevel : Longer(c, k) <= TILE_EDGE => a <= k
  BY <1>1, FirstIs
<1>3. b \in 0..MaxLevel /\ Longer(c, b) <= half
  BY <1>1, FirstIs
<1>4. Longer(c, b) \in Nat
  BY <1>3 DEF ScanAssumption, IsScan
<1>5. Levels(c) = a + 1 /\ Levels(c) - 1 = a
  <2>1. Levels(c) = a + 1
    BY Zenon DEF Levels
  <2>2. a \in Int
    <3>1. a \in 0..MaxLevel
      BY <1>2
    <3> HIDE DEF a
    <3> QED BY <3>1 DEF MaxLevel
  <2> HIDE DEF a
  <2> QED BY <2>1, <2>2
<1>6. ScanTiles(c) = TilesTo(c, a) /\ VipsTiles(c) = TilesTo(c, b)
  BY <1>5 DEF ScanTiles, VipsTiles
<1>7. DzSave(c) = TilesTo(c, a) + (IF Longer(c, a) > half THEN 1 ELSE 0)
  BY <1>5, <1>6 DEF DzSave
<1> HIDE DEF half, a, b
<1>8. a <= b
  BY <1>1, <1>2, <1>3, <1>4
<1>9. TilesTo(c, a) \in Nat /\ TilesTo(c, b) \in Nat /\ TilesTo(c, a) + (b - a) <= TilesTo(c, b)
  BY <1>2, <1>3, <1>8, LevelsAdd
<1>10. Longer(c, a) > half => a # b
  BY <1>1, <1>3, <1>4
<1>11. a \in Nat /\ b \in Nat
  BY <1>2, <1>3 DEF MaxLevel
<1> QED BY <1>5, <1>6, <1>7, <1>8, <1>9, <1>10, <1>11

\* Of a contender's child the parent believes only what measured that contender
\* and left an artefact that lost nothing.
LEMMA ReplyIsGoodP ==
  ASSUME PvecAssumption, ScanAssumption, NEW c, IsScan(c), NEW who \in Range(ALL),
         NEW reply \in RunChildP(who, c), reply.verdict # "ran", NEW lister,
         Attest(who, c, reply.archive, lister)
  PROVE  GoodP(who, reply.out)
<1> DEFINE n == Holds(who, c)
<1>1. reply \in OneRepP(who, c)
  BY DEF RunChildP
<1>2. PICK a \in ArtefactsP(n), f \in {"same", "other"}, has \in Figures({"build_ms"}, OptionalP(who)) :
        reply = [verdict |-> "ok", archive |-> a, whole |-> has = {"build_ms"} \cup UNION OptionalP(who),
                 out |-> [by |-> who, fact |-> f, left |-> a, has |-> has]]
  BY <1>1 DEF OneRepP
<1>3. reply.archive = a /\ reply.out.left = a /\ reply.out.by = who
  BY <1>2
<1>4. a.fed = n /\ a.lost \in {0, 1}
  BY DEF ArtefactsP
<1>5. Attest(who, c, a, lister)
  BY <1>3
<1> HIDE DEF n
<1>6. who \in {"pmtiles", "pvec", "gdal-cog", "libvips-zip"}
  BY DEF ALL, Range
<1>7. /\ Levels(c) \in Int /\ ScanTiles(c) \in Int /\ VipsTiles(c) \in Int /\ DzSave(c) \in Int
      /\ DzSave(c) <= VipsTiles(c)
  BY VipsCutsNoMore
<1>8. a.lost = 0 /\ (who \notin Tools => a.wrong # "sampled")
  <2>1. CASE who \in {"pmtiles", "pvec"}
    <3>1. n = ScanTiles(c) /\ who \notin Tools
      BY <2>1 DEF n, Holds, Tools
    <3>2. a.fed - a.lost = ScanTiles(c) /\ a.wrong # "sampled"
      BY <1>5, <2>1 DEF Attest
    <3> QED BY <1>4, <1>7, <3>1, <3>2
  <2>2. CASE who = "gdal-cog"
    <3>1. n = Levels(c) - 1 /\ who \in Tools
      BY <2>2 DEF n, Holds, Tools
    <3>2. a.fed - a.lost = Levels(c) - 1
      BY <1>5, <2>2 DEF Attest
    <3> QED BY <1>4, <1>7, <3>1, <3>2
  <2>3. CASE who = "libvips-zip"
    <3>1. n = DzSave(c) /\ who \in Tools
      BY <2>3 DEF n, Holds, Tools
    <3>2. a.fed - a.lost = VipsTiles(c)
      BY <1>5, <2>3 DEF Attest
    <3> QED BY <1>4, <1>7, <3>1, <3>2
  <2> QED BY <1>6, <2>1, <2>2, <2>3
<1> QED BY <1>3, <1>8 DEF GoodP

-----------------------------------------------------------------------------
(* The schedule of a cell. *)

\* A schedule is of the jobs of its contenders' turns.
LEMMA WalkIsOfTurns ==
  ASSUME ContestAssumption, NEW G, NEW who, Len(who) \in Nat \ {0}, DOMAIN who = 1..Len(who),
         NEW jobsOf, \A w \in Range(who) : jobsOf[w] \in Seq(G)
  PROVE  Walk(who, jobsOf) \in Seq(G)
<1> DEFINE turn(rep, k) == jobsOf[Rotated(who, rep - 1)[k]]
           lap(rep) == [k \in DOMAIN Rotated(who, rep - 1) |-> turn(rep, k)]
           laps == [rep \in 1..Reps |-> FlattenSeq(lap(rep))]
<1>1. Walk(who, jobsOf) = FlattenSeq(laps)
  BY Zenon DEF Walk
<1>2. Reps \in Nat \ {0}
  BY DEF ContestAssumption
<1>3. ASSUME NEW rep \in 1..Reps PROVE FlattenSeq(lap(rep)) \in Seq(G)
  <2> DEFINE order == Rotated(who, rep - 1)
  <2>1. DOMAIN order = 1..Len(who) /\ \A k \in 1..Len(who) : order[k] = who[((k - 1 + (rep - 1)) % Len(who)) + 1]
    BY DEF Rotated
  <2>2. ASSUME NEW k \in 1..Len(who) PROVE ((k - 1 + (rep - 1)) % Len(who)) + 1 \in 1..Len(who)
    <3>1. k - 1 + (rep - 1) \in Nat
      BY <1>2
    <3> DEFINE x == k - 1 + (rep - 1)
               n == Len(who)
    <3>2. n \in Nat \ {0} /\ x \in Nat
      BY <3>1
    <3> HIDE DEF x, n
    <3>3. x % n \in 0..(n - 1)
      BY <3>2
    <3>4. (x % n) + 1 \in 1..n
      BY <3>2, <3>3
    <3> QED BY <3>4 DEF x, n
  <2>3. \A k \in 1..Len(who) : order[k] \in Range(who)
    BY <2>1, <2>2 DEF Range
  <2> HIDE DEF order
  <2> DEFINE l == [k \in DOMAIN order |-> jobsOf[order[k]]]
  <2>4. lap(rep) = l
    BY DEF order
  <2>5. Len(l) = Len(who) /\ \A k \in 1..Len(who) : l[k] \in Seq(G)
    BY <2>1, <2>3
  <2> HIDE DEF l
  <2>6. Len(l) \in Nat /\ Len(l) # 0 /\ \A k \in 1..Len(l) : l[k] \in Seq(G)
    BY <2>5
  <2>7. FlattenSeq(l) \in Seq(G)
    BY <2>6, FlatIsSeq
  <2> QED BY <2>4, <2>7
<1> HIDE DEF lap
<1>4. Len(laps) = Reps /\ \A rep \in 1..Reps : laps[rep] = FlattenSeq(lap(rep))
  BY <1>2
<1> HIDE DEF laps
<1>5. Len(laps) \in Nat /\ Len(laps) # 0 /\ \A rep \in 1..Len(laps) : laps[rep] \in Seq(G)
  BY <1>2, <1>3, <1>4
<1>6. FlattenSeq(laps) \in Seq(G)
  BY <1>5, FlatIsSeq
<1> QED BY <1>1, <1>6

\* The labels of the variants, and go-pmtiles.
LEMMA ContendersAre ==
  ASSUME WriterAssumption
  PROVE  Len(ContendersW) \in Nat \ {0} /\ DOMAIN ContendersW = 1..Len(ContendersW)
<1> DEFINE S == {Label(Matrix[i]) : i \in DOMAIN Matrix} \cup {<<GO>>}
           L == [i \in DOMAIN Matrix |-> Label(Matrix[i])]
           go == << <<GO>> >>
<1>1. DOMAIN Matrix = 1..Len(Matrix) /\ Len(Matrix) \in Nat
  BY MatrixIs, LenProperties
<1>2. L \in Seq(S) /\ go \in Seq(S) /\ Len(go) = 1
  BY <1>1
<1>3. ContendersW = L \o go
  BY DEF ContendersW
<1> HIDE DEF L, go, S
<1>4. L \o go \in Seq(S) /\ Len(L \o go) = Len(L) + Len(go) /\ Len(L) \in Nat
  BY <1>2, ConcatProperties, LenProperties
<1>5. DOMAIN (L \o go) = 1..Len(L \o go)
  BY <1>4, LenProperties
<1> QED BY <1>2, <1>3, <1>4, <1>5

\* The jobs of a cell name an account of their contender.
LEMMA ScheduleW ==
  ASSUME ContestAssumption, WriterAssumption, NEW c, NEW go
  PROVE  JobsW(c, go) \in Seq(JobsOf(AccountsW))
<1> DEFINE G == JobsOf(AccountsW)
           job(who, mode) == [who |-> who, acc |-> <<who, mode>>]
           first(who) == IF IsReal(c) THEN <<job(who, "engine")>> ELSE <<>>
           turn(who) == IF who = <<GO>> THEN IF go THEN <<job(who, "go")>> ELSE <<>>
                        ELSE first(who) \o <<job(who, "build")>>
           jobsOf == [who \in Range(ContendersW) |-> turn(who)]
<1>1. JobsW(c, go) = Walk(ContendersW, jobsOf)
  BY Zenon DEF JobsW
<1>2. ASSUME NEW who \in Range(ContendersW) PROVE turn(who) \in Seq(G)
  <2>1. \A mode \in {"go", "engine", "build"} : (mode = "go" <=> who = <<GO>>) => job(who, mode) \in G
    <3>1. ASSUME NEW mode \in {"go", "engine", "build"}, mode = "go" <=> who = <<GO>>
          PROVE  job(who, mode) \in G
      <4> DEFINE p == <<who, mode>>
      <4>1. p \in AccountsW
        BY <3>1 DEF AccountsW
      <4>2. job(who, mode) = [who |-> p[1], acc |-> p]
        OBVIOUS
      <4> HIDE DEF p
      <4> QED BY <4>1, <4>2 DEF JobsOf
    <3> QED BY <3>1
  <2>2. CASE who = <<GO>>
    <3>1. job(who, "go") \in G
      BY <2>1, <2>2
    <3>2. turn(who) \in {<<job(who, "go")>>, <<>>}
      BY <2>2, Zenon
    <3> HIDE DEF job, G, turn
    <3>3. <<job(who, "go")>> \in Seq(G) /\ <<>> \in Seq(G)
      BY <3>1
    <3> QED BY <3>2, <3>3, Zenon
  <2>3. CASE who # <<GO>>
    <3>1. job(who, "engine") \in G /\ job(who, "build") \in G
      BY <2>1, <2>3
    <3>2. turn(who) = first(who) \o <<job(who, "build")>> /\ first(who) \in {<<job(who, "engine")>>, <<>>}
      BY <2>3, Zenon
    <3> HIDE DEF job, G, turn, first
    <3>3. <<job(who, "engine")>> \in Seq(G) /\ <<job(who, "build")>> \in Seq(G) /\ <<>> \in Seq(G)
      BY <3>1
    <3>4. first(who) \in Seq(G)
      BY <3>2, <3>3, Zenon
    <3> QED BY <3>2, <3>3, <3>4, ConcatProperties
  <2> QED BY <2>2, <2>3
<1> HIDE DEF turn, G
<1>3. \A who \in Range(ContendersW) : jobsOf[who] \in Seq(G)
  BY <1>2
<1> HIDE DEF jobsOf
<1> QED BY <1>1, <1>3, ContendersAre, WalkIsOfTurns DEF G

\* The same of the scan's contenders, but the tools without an input.
LEMMA ScheduleP ==
  ASSUME ContestAssumption, NEW without
  PROVE  Walk(ALL, [who \in Range(ALL) |->
           IF who \in without THEN <<>> ELSE <<[who |-> who, acc |-> <<who, "scan">>]>>])
             \in Seq(JobsOf(AccountsP))
<1> DEFINE G == JobsOf(AccountsP)
           job(who) == [who |-> who, acc |-> <<who, "scan">>]
           turn(who) == IF who \in without THEN <<>> ELSE <<job(who)>>
           jobsOf == [who \in Range(ALL) |-> turn(who)]
<1>1. ASSUME NEW who \in Range(ALL) PROVE turn(who) \in Seq(G)
  <2> DEFINE p == <<who, "scan">>
  <2>1. p \in AccountsP
    BY DEF AccountsP
  <2>2. job(who) = [who |-> p[1], acc |-> p]
    OBVIOUS
  <2> HIDE DEF p
  <2>3. job(who) \in G
    BY <2>1, <2>2 DEF JobsOf
  <2> HIDE DEF G, job
  <2> QED BY <2>3
<1> HIDE DEF turn, G
<1>2. \A who \in Range(ALL) : jobsOf[who] \in Seq(G)
  BY <1>1
<1>3. Len(ALL) \in Nat \ {0} /\ DOMAIN ALL = 1..Len(ALL)
  BY DEF ALL
<1> HIDE DEF jobsOf
<1>4. Walk(ALL, jobsOf) \in Seq(G)
  BY <1>2, <1>3, WalkIsOfTurns
<1> QED BY <1>4 DEF G, jobsOf, turn

-----------------------------------------------------------------------------
(* Rows. *)

\* The samples of a row are what its account's repetitions measured.
LEMMA SeriesIs ==
  ASSUME NEW acc, IsAcc(acc), NEW field, NEW i \in DOMAIN Series(acc, field)
  PROVE  \E k \in DOMAIN acc.reps : /\ Series(acc, field)[i].by = acc.reps[k].out.by
                                    /\ Series(acc, field)[i].left = acc.reps[k].out.left
<1> DEFINE reps == acc.reps
           P == {r \in Range(reps) : field \in r.out.has}
           having == Sifted(reps, P)
<1>1. PICK S : reps \in Seq(S)
  BY DEF IsAcc
<1>2. Series(acc, field) = [j \in DOMAIN having |->
         [by |-> having[j].out.by, field |-> field, left |-> having[j].out.left]]
  BY Zenon DEF Series
<1> HIDE DEF reps, P
<1>3. Range(having) = Range(reps) \cap P
  <2> DEFINE R == S \X S
  <2>1. Pairwise(reps, R)
    <3>1. \A j \in DOMAIN reps : reps[j] \in S
      BY <1>1, LenProperties
    <3> QED BY <3>1 DEF Pairwise
  <2> HIDE DEF R
  <2> QED BY <1>1, <2>1, SiftKeeps
<1> HIDE DEF having
<1>4. i \in DOMAIN having /\ Series(acc, field)[i].by = having[i].out.by
      /\ Series(acc, field)[i].left = having[i].out.left
  BY <1>2
<1>5. having[i] \in Range(reps)
  <2>1. having[i] \in Range(having)
    BY <1>4 DEF Range
  <2> QED BY <1>3, <2>1
<1>6. PICK k \in DOMAIN reps : reps[k] = having[i]
  BY <1>5 DEF Range
<1> QED BY <1>4, <1>6 DEF reps

\* A row is of what its account is of.
LEMMA RowIsRight ==
  ASSUME QuietInv, AllRight, NEW row, IsRow(row), NEW i \in DOMAIN row.samples
  PROVE  \E a, out : /\ a[1] = row.backend /\ IsRight(a, out)
                     /\ row.samples[i].by = out.by /\ row.samples[i].left = out.left
<1>1. PICK who, column, a, skipped, doubts : a[1] = who /\ row = RowOf(who, column, a, skipped, doubts)
  BY DEF IsRow
<1> DEFINE acc == IF a \in DOMAIN accs THEN accs[a] ELSE Empty
<1>2. row.backend = who /\ row.samples = Series(acc, column.field)
  BY <1>1, Zenon DEF RowOf
<1>3. IsAcc(acc)
  <2>1. a \in DOMAIN accs => IsAcc(accs[a])
    BY DEF QuietInv
  <2> QED BY <2>1, EmptyIsAcc
<1>4. \A k \in DOMAIN acc.reps : IsRight(a, acc.reps[k].out)
  <2>1. DOMAIN Empty.reps = {}
    BY DEF Empty
  <2> QED BY <2>1 DEF AllRight
<1> HIDE DEF acc
<1>5. PICK k \in DOMAIN acc.reps : /\ Series(acc, column.field)[i].by = acc.reps[k].out.by
                                   /\ Series(acc, column.field)[i].left = acc.reps[k].out.left
  BY <1>2, <1>3, SeriesIs
<1> QED BY <1>1, <1>2, <1>4, <1>5

\* What an engine left, when it reproduced and was walked every time.
LEMMA ReproducedIsOne ==
  ASSUME NEW e \in Measured, Walked(e), Reproduced(e),
         \A i \in DOMAIN accs[<<e, "timed">>].reps : GoodE(accs[<<e, "timed">>].reps[i].out)
  PROVE  \A i \in DOMAIN accs[<<e, "timed">>].reps :
           accs[<<e, "timed">>].reps[i].out.left = [tiles |-> TilesOf(e), grid |-> Grid(e), walked |-> TRUE]
<1> DEFINE reps == accs[<<e, "timed">>].reps
           L == Left(e)
           g == [i \in DOMAIN L |-> IF L[i].grid = "none" THEN Null ELSE L[i].grid]
           t == [i \in DOMAIN L |-> L[i].tiles]
<1>1. DOMAIN L = DOMAIN reps /\ \A i \in DOMAIN reps : L[i] = reps[i].out.left
  BY DEF Left
<1>2. Grid(e) = Agreed(g) /\ TilesOf(e) = Agreed(t)
  BY Zenon DEF Grid, TilesOf
<1>3. Agreed(g) # Null /\ Agreed(t) # Null
  BY <1>2 DEF Reproduced
<1>4. \A i \in DOMAIN L : L[i].walked
  BY DEF Walked
<1>5. \A i \in DOMAIN L : L[i] = [tiles |-> L[i].tiles, grid |-> L[i].grid, walked |-> L[i].walked]
                          /\ L[i].walked \in BOOLEAN
  BY <1>1 DEF GoodE
<1> HIDE DEF L, reps
<1>6. \A i \in DOMAIN L : t[i] = Agreed(t)
  <2> HIDE DEF t
  <2>1. \A i \in DOMAIN t : t[i] = Agreed(t)
    BY <1>3, Zenon DEF Agreed
  <2> QED BY <2>1 DEF t
<1>7. \A i \in DOMAIN L : g[i] = Agreed(g)
  <2> HIDE DEF g
  <2>1. \A i \in DOMAIN g : g[i] = Agreed(g)
    BY <1>3, Zenon DEF Agreed
  <2> QED BY <2>1 DEF g
<1>8. \A i \in DOMAIN L : L[i].grid = Agreed(g) /\ L[i].tiles = Agreed(t)
  BY <1>3, <1>6, <1>7
<1> HIDE DEF g, t
<1>9. ASSUME NEW i \in DOMAIN L PROVE L[i] = [tiles |-> TilesOf(e), grid |-> Grid(e), walked |-> TRUE]
  <2>1. L[i].walked = TRUE
    BY <1>4, <1>5
  <2> QED BY <1>2, <1>5, <1>8, <2>1
<1> QED BY <1>1, <1>9 DEF reps

\* Two engines that are attested by one another left the same.
LEMMA EngineHasSibling ==
  ASSUME QuietInv, AllRight, sweep = "engines", NEW e \in Measured, IsAttested(e),
         NEW doubts
  PROVE  \E o \in Measured \ {e} : SamePyramid(RowE(e, "wall", doubts), RowE(o, "wall", doubts))
<1>1. Walked(e) /\ Reproduced(e) /\ Sibling(e)
  BY Zenon DEF IsAttested
<1>2. PICK o \in Measured \ {e} :
        Walked(o) /\ Grid(o) # Null /\ Grid(o) = Grid(e) /\ TilesOf(o) = TilesOf(e)
  BY <1>1, Zenon DEF Sibling
<1>3. Reproduced(o)
  BY <1>1, <1>2, Zenon DEF Reproduced
<1> DEFINE all == [tiles |-> TilesOf(e), grid |-> Grid(e), walked |-> TRUE]
<1>4. ASSUME NEW x \in Measured, Walked(x), Reproduced(x), Grid(x) = Grid(e), TilesOf(x) = TilesOf(e)
      PROVE  \A i \in DOMAIN RowE(x, "wall", doubts).samples : RowE(x, "wall", doubts).samples[i].left = all
  <2> DEFINE acc == accs[<<x, "timed">>]
  <2>1. <<x, "timed">> \in DOMAIN accs
    BY DEF Measured
  <2>2. IsAcc(acc) /\ \A i \in DOMAIN acc.reps : GoodE(acc.reps[i].out)
    BY <2>1 DEF QuietInv, AllRight, IsRight
  <2>3. \A i \in DOMAIN acc.reps :
          acc.reps[i].out.left = [tiles |-> TilesOf(x), grid |-> Grid(x), walked |-> TRUE]
    BY <1>4, <2>2, ReproducedIsOne
  <2>4. RowE(x, "wall", doubts).samples = Series(acc, "wall")
    BY Zenon DEF RowE
  <2>5. \A i \in DOMAIN acc.reps : acc.reps[i].out.left = all
    BY <1>4, <2>3
  <2> HIDE DEF acc, all
  <2>6. ASSUME NEW i \in DOMAIN Series(acc, "wall") PROVE Series(acc, "wall")[i].left = all
    BY <2>2, <2>5, <2>6, SeriesIs
  <2> QED BY <2>4, <2>6
<1>5. /\ \A i \in DOMAIN RowE(e, "wall", doubts).samples : RowE(e, "wall", doubts).samples[i].left = all
      /\ \A i \in DOMAIN RowE(o, "wall", doubts).samples : RowE(o, "wall", doubts).samples[i].left = all
  BY <1>1, <1>2, <1>3, <1>4
<1>6. all.walked
  OBVIOUS
<1> HIDE DEF all
<1>7. SamePyramid(RowE(e, "wall", doubts), RowE(o, "wall", doubts))
  BY <1>5, <1>6 DEF SamePyramid
<1> QED BY <1>7

-----------------------------------------------------------------------------
(* Steps. *)

\* What is filed as a result is right.
LEMMA FilesRight ==
  ASSUME QuietInv, AllRight, NEW a, NEW verdict, NEW out, NEW after,
         accs' = [accs EXCEPT ![a] = Filed(@, verdict, out, after)], sweep' = sweep,
         verdict = "ok" /\ a \in DOMAIN accs => IsRight(a, out)
  PROVE  AllRight'
<1> DEFINE new == Filed(accs[a], verdict, out, after)
<1>1. accs' = [x \in DOMAIN accs |-> IF x = a THEN new ELSE accs[x]]
  <2>1. accs' = [accs EXCEPT ![a] = new]
    BY Zenon
  <2> HIDE DEF new
  <2> QED BY <2>1 DEF QuietInv, IsMap
<1>2. ASSUME a \in DOMAIN accs PROVE \A i \in DOMAIN new.reps : IsRight(a, new.reps[i].out)
  <2>1. IsAcc(accs[a]) /\ \A i \in DOMAIN accs[a].reps : IsRight(a, accs[a].reps[i].out)
    BY <1>2 DEF QuietInv, AllRight
  <2> DEFINE acc == accs[a]
  <2>2. CASE verdict = "ok"
    <3> DEFINE rep == [out |-> out, load |-> Worse(under, after), saw |-> {under, after}]
               g == Append(acc.reps, rep)
    <3>1. new = [acc EXCEPT !.reps = g]
      BY <2>2, Zenon DEF Filed
    <3>2. rep.out = out
      OBVIOUS
    <3> HIDE DEF rep
    <3>3. \A i \in DOMAIN g : (i \in DOMAIN acc.reps /\ g[i] = acc.reps[i]) \/ g[i] = rep
      <4>1. PICK S : acc.reps \in Seq(S)
        BY <2>1 DEF IsAcc
      <4> QED BY <4>1, OneMore
    <3> HIDE DEF g, new
    <3>4. new.reps = g
      BY <2>1, <3>1 DEF IsAcc
    <3>5. IsRight(a, out)
      BY <1>2, <2>2
    <3> QED BY <2>1, <3>2, <3>3, <3>4, <3>5
  <2>3. CASE verdict # "ok"
    <3>1. new = [acc EXCEPT !.failures = Append(acc.failures, verdict)]
      BY <2>3, Zenon DEF Filed
    <3> HIDE DEF new
    <3>2. new.reps = acc.reps
      BY <2>1, <3>1 DEF IsAcc
    <3> QED BY <2>1, <3>2
  <2> QED BY <2>2, <2>3
<1> HIDE DEF new
<1>3. DOMAIN accs' = DOMAIN accs
  BY <1>1
<1>4. ASSUME NEW x \in DOMAIN accs', NEW i \in DOMAIN accs'[x].reps PROVE IsRight(x, accs'[x].reps[i].out)
  <2>1. CASE x = a
    <3>1. accs'[x] = new
      BY <1>1, <1>3, <2>1
    <3> QED BY <1>2, <1>3, <2>1, <3>1
  <2>2. CASE x # a
    <3>1. accs'[x] = accs[x]
      BY <1>1, <1>3, <2>2
    <3> QED BY <1>3, <3>1 DEF AllRight
  <2> QED BY <2>1, <2>2
<1>5. \A x, out2 : IsRight(x, out2) <=> IsRight(x, out2)'
  BY DEF IsRight
<1> QED BY <1>4, <1>5, Zenon DEF AllRight

\* A step that files nothing.
LEMMA KeepsRight ==
  ASSUME AllRight, sweep' = sweep, accs' = accs
  PROVE  AllRight'
BY DEF AllRight, IsRight

\* A cell begins with nothing filed.
LEMMA BeginsRight ==
  ASSUME NEW schedule, Begin(schedule)
  PROVE  AllRight'
<1>1. \A a \in DOMAIN accs' : accs'[a] = Empty
  BY DEF Begin
<1>2. DOMAIN Empty.reps = {}
  BY DEF Empty
<1> QED BY <1>1, <1>2 DEF AllRight

\* Without a row there is nothing to be attested.
LEMMA NothingAttested == ASSUME rows' = {} PROVE AttestedIsMeasured'
BY DEF AttestedIsMeasured

\* The course of a sweep.
LEMMA BeginsOnCourse ==
  ASSUME NEW cells, NEW accounts, OnCourse(cells, accounts), stage = "prepare", cell' = cell,
         NEW schedule \in Seq(JobsOf(accounts)), Begin(schedule)
  PROVE  OnCourse(cells, accounts)'
<1>1. jobs' = schedule /\ (stage' = "gate" => jobs' # <<>>) /\ stage' \in {"rows", "gate"}
  BY DEF Begin
<1> QED BY <1>1 DEF OnCourse

LEMMA GatesOnCourse ==
  ASSUME NEW cells, NEW accounts, OnCourse(cells, accounts), Gate
  PROVE  OnCourse(cells, accounts)'
<1>1. PICK r \in Readings : Sleep(r) \/ Start(r)
  BY DEF Gate
<1>2. UNCHANGED <<jobs, cell>> /\ stage = "gate" /\ stage' \in {"gate", "child"}
  BY <1>1 DEF Sleep, Start
<1> QED BY <1>2 DEF OnCourse

LEMMA ReportsOnCourse ==
  ASSUME NEW cells, NEW accounts, OnCourse(cells, accounts),
         NEW verdict, NEW out, NEW after, Report(verdict, out, after)
  PROVE  OnCourse(cells, accounts)'
<1>1. stage = "child" /\ jobs' = Tail(jobs) /\ stage' \in {"rows", "gate"} /\ cell' = cell
      /\ (stage' = "gate" => jobs' # <<>>)
  BY DEF Report
<1>2. jobs # <<>> /\ jobs \in Seq(JobsOf(accounts))
  BY <1>1 DEF OnCourse
<1>3. Tail(jobs) \in Seq(JobsOf(accounts))
  BY <1>2, HeadTailProperties
<1> QED BY <1>1, <1>3 DEF OnCourse

\* The next cell is one of the profile, or there is none.
LEMMA PublishesOnCourse ==
  ASSUME NEW cells, NEW accounts, OnCourse(cells, accounts), Len(cells) \in Nat,
         jobs' = jobs, cell' = cell + 1, stage' = IF cell < Len(cells) THEN "prepare" ELSE "done"
  PROVE  OnCourse(cells, accounts)'
<1>1. cell' \in Nat /\ stage' \notin {"gate", "child"}
  BY DEF OnCourse
<1>2. stage' # "done" => cell' \in 1..Len(cells)
  BY DEF OnCourse
<1> QED BY <1>1, <1>2 DEF OnCourse

\* A job of the writer and its cell.
LEMMA JobIsW ==
  ASSUME WriterAssumption, TilesAssumption, OnCourse(WriterCells, AccountsW), stage = "child"
  PROVE  /\ Head(jobs).who \in Range(ContendersW) /\ Head(jobs).acc[1] = Head(jobs).who
         /\ Head(jobs).acc[2] = "go" <=> Head(jobs).who = <<GO>>
         /\ Tiles(WriterCells[cell]) \in Nat
<1>1. Head(jobs) \in JobsOf(AccountsW)
  BY HeadTailProperties DEF OnCourse
<1>2. PICK p \in AccountsW : Head(jobs) = [who |-> p[1], acc |-> p]
  BY <1>1 DEF JobsOf
<1>3. cell \in DOMAIN WriterCells
  <2>1. WriterCells \in Seq({"real", "synthetic"} \X Nat)
    BY DEF WriterAssumption
  <2>2. DOMAIN WriterCells = 1..Len(WriterCells)
    BY <2>1, LenProperties
  <2> QED BY <2>2 DEF OnCourse
<1>4. p[1] \in Range(ContendersW) /\ (p[2] = "go" <=> p[1] = <<GO>>)
  BY DEF AccountsW
<1> QED BY <1>2, <1>3, <1>4 DEF TilesAssumption

LEMMA JobIsP ==
  ASSUME PvecAssumption, OnCourse(ScanCells, AccountsP), stage = "child"
  PROVE  /\ Head(jobs).who \in Range(ALL) /\ Head(jobs).acc[1] = Head(jobs).who
         /\ IsScan(ScanCells[cell])
<1>1. Head(jobs) \in JobsOf(AccountsP)
  BY HeadTailProperties DEF OnCourse
<1>2. PICK p \in AccountsP : Head(jobs) = [who |-> p[1], acc |-> p]
  BY <1>1 DEF JobsOf
<1>3. cell \in DOMAIN ScanCells
  <2>1. ScanCells \in Seq((Nat \ {0}) \X (Nat \ {0}))
    BY DEF PvecAssumption
  <2>2. DOMAIN ScanCells = 1..Len(ScanCells)
    BY <2>1, LenProperties
  <2> QED BY <2>2 DEF OnCourse
<1>4. p[1] \in Range(ALL)
  BY DEF AccountsP
<1> QED BY <1>2, <1>3, <1>4 DEF IsScan

\* What an answer has: what is always taken, and the rest if it is whole.
IsHad(reply, always, optional) ==
  always \subseteq reply.out.has /\ (reply.whole => reply.out.has = always \cup UNION optional)

LEMMA AnswerHas ==
  ASSUME NEW by, NEW always, NEW optional, NEW fed, NEW reply \in Answers(by, always, optional, fed)
  PROVE  IsHad(reply, always, optional)
<1>1. PICK has \in Figures(always, optional), a \in Archives(fed), f \in {"same", "other"} :
        reply = Answer(by, has, has = always \cup UNION optional, a, f)
  BY DEF Answers
<1>2. reply.out.has = has /\ reply.whole = (has = always \cup UNION optional)
  BY <1>1 DEF Answer
<1>3. PICK got \in SUBSET optional : has = always \cup UNION got
  BY DEF Figures
<1> QED BY <1>2, <1>3 DEF IsHad

\* Which fields are times.
LEMMA OnlyTimes ==
  ASSUME NEW columns, NEW S, \A col \in columns : col.metric \in {"wall", "throughput"} => col.field \in S
  PROVE  Times(columns) \subseteq S
<1> DEFINE timed == {col \in columns : col.metric \in {"wall", "throughput"}}
<1>1. \A col \in timed : col.field \in S
  OBVIOUS
<1>2. Times(columns) = {column.field : column \in timed}
  BY DEF Times
<1> HIDE DEF timed
<1> QED BY <1>1, <1>2

\* A child that answered reported the times of its contender's rows, and every
\* field of them if its answer is whole.
LEMMA ReplyIsFull ==
  ASSUME NEW who, NEW c, NEW mode, NEW root,
         NEW reply \in RunChild(who, c, mode, root), reply.verdict # "ran"
  PROVE  /\ Times(ColumnsW(mode)) \subseteq reply.out.has
         /\ reply.whole => FieldsOf(ColumnsW(mode)) \subseteq reply.out.has
<1> DEFINE v == IF mode = "go" THEN Null ELSE ParseVariant(who)
           d == ParseCell(c)
<1>1. reply \in OneRep(mode, d, v, root)
  <2>1. reply # Dead
    BY DEF Dead
  <2>2. RunChild(who, c, mode, root) =
          IF d = Null \/ (v = Null /\ mode # "go") THEN {Dead} ELSE {Dead} \cup OneRep(mode, d, v, root)
    BY Zenon DEF RunChild
  <2> HIDE DEF d, v
  <2> QED BY <2>1, <2>2
<1> HIDE DEF v, d
<1>2. CASE mode = "go"
  <2>1. reply \in GoChild(d)
    BY <1>1, <1>2, Zenon DEF OneRep
  <2> DEFINE always == {"build_ms"}
             optional == {{"output_bytes"}, {"peak_rss"}}
  <2>2. IsHad(reply, always, optional)
    <3>1. reply \in Answers(GoPmtiles, always, optional, Tiles(d))
      BY <2>1, Zenon DEF GoChild
    <3> HIDE DEF always, optional
    <3> QED BY <3>1, AnswerHas, Zenon
  <2>3. Times(ColumnsW(mode)) \subseteq {"build_ms"}
    <3>1. \A col \in ColumnsW(mode) : col.metric \in {"wall", "throughput"} => col.field \in {"build_ms"}
      BY <1>2 DEF ColumnsW, BuildColumns, Column
    <3> QED BY <3>1, OnlyTimes
  <2>4. FieldsOf(ColumnsW(mode)) = {"build_ms", "output_bytes", "peak_rss"}
    BY <1>2 DEF ColumnsW, FieldsOf, BuildColumns, Column
  <2> QED BY <2>2, <2>3, <2>4 DEF IsHad
<1>3. CASE mode = "engine"
  <2>1. reply \in EngineRep(v, d)
    <3>1. mode # "go" /\ mode # "build"
      BY <1>3
    <3> QED BY <1>1, <1>3, <3>1, Zenon DEF OneRep
  <2> DEFINE always == {"ingest_ms", "finalize_ms"}
             optional == {{"ingest_heap", "finalize_heap"}, {"output_bytes"}, {"peak_rss"}}
  <2>2. IsHad(reply, always, optional)
    <3>1. reply \in Answers(Options(v), always, optional, Tiles(d))
      BY <2>1, Zenon DEF EngineRep
    <3> HIDE DEF always, optional
    <3> QED BY <3>1, AnswerHas, Zenon
  <2>3. ColumnsW(mode) = EngineColumns
    BY <1>3 DEF ColumnsW
  <2>4. Times(ColumnsW(mode)) \subseteq {"ingest_ms", "finalize_ms"}
    <3>1. \A col \in ColumnsW(mode) : col.metric \in {"wall", "throughput"} =>
            col.field \in {"ingest_ms", "finalize_ms"}
      BY <2>3 DEF EngineColumns, Column
    <3> QED BY <3>1, OnlyTimes
  <2>5. FieldsOf(ColumnsW(mode)) =
          {"ingest_ms", "finalize_ms", "ingest_heap", "finalize_heap", "output_bytes", "peak_rss"}
    BY <2>3 DEF FieldsOf, EngineColumns, Column
  <2> QED BY <2>2, <2>4, <2>5 DEF IsHad
<1>4. CASE mode = "build"
  <2>1. reply \in BuildRep(v, d, root)
    <3>1. mode # "go" /\ mode # "engine"
      BY <1>4
    <3> QED BY <1>1, <1>4, <3>1, Zenon DEF OneRep
  <2> DEFINE always == {"build_ms"}
             optional == {{"heap_peak"}, {"output_bytes"}, {"peak_rss"}}
  <2>2. reply \in Answers(Options(v), always, optional, Fed(v, d))
    BY <2>1, Zenon DEF BuildRep
  <2>3. IsHad(reply, always, optional)
    <3> HIDE DEF always, optional
    <3> QED BY <2>2, AnswerHas, Zenon
  <2>4. ColumnsW(mode) = BuildColumns(TRUE)
    BY <1>4 DEF ColumnsW
  <2>5. Times(ColumnsW(mode)) \subseteq {"build_ms"}
    <3>1. \A col \in ColumnsW(mode) : col.metric \in {"wall", "throughput"} => col.field \in {"build_ms"}
      BY <2>4 DEF BuildColumns, Column
    <3> QED BY <3>1, OnlyTimes
  <2>6. FieldsOf(ColumnsW(mode)) = {"build_ms", "heap_peak", "output_bytes", "peak_rss"}
    BY <2>4 DEF FieldsOf, BuildColumns, Column
  <2> QED BY <2>3, <2>5, <2>6 DEF IsHad
<1>5. CASE mode \notin {"go", "engine", "build"}
  BY <1>1, <1>5, Zenon DEF OneRep
<1> QED BY <1>2, <1>3, <1>4, <1>5

LEMMA ReplyIsFullP ==
  ASSUME NEW who, NEW c, NEW reply \in RunChildP(who, c), reply.verdict # "ran"
  PROVE  /\ Times(ColumnsP(who)) \subseteq reply.out.has
         /\ reply.whole => FieldsOf(ColumnsP(who)) \subseteq reply.out.has
<1> DEFINE all == {"build_ms"} \cup UNION OptionalP(who)
<1>1. reply \in OneRepP(who, c)
  BY DEF RunChildP
<1>2. PICK a \in ArtefactsP(Holds(who, c)), f \in {"same", "other"},
           has \in Figures({"build_ms"}, OptionalP(who)) :
        reply = [verdict |-> "ok", archive |-> a, whole |-> has = all,
                 out |-> [by |-> who, fact |-> f, left |-> a, has |-> has]]
  BY <1>1 DEF OneRepP
<1> HIDE DEF all
<1>3. reply.out.has = has /\ reply.whole = (has = all) /\ "build_ms" \in has
  BY <1>2 DEF Figures
<1> DEFINE of == {<<"wall", "build_ms">>, <<"throughput", "build_ms">>,
                  <<"peak_rss", "peak_rss">>, <<"output_bytes", "output_bytes">>}
                 \cup (IF who \in Tools THEN {} ELSE {<<"heap_peak", "heap_peak">>})
<1>4. ASSUME NEW column \in ColumnsP(who)
      PROVE  column.field \in all /\ (column.metric \in {"wall", "throughput"} => column.field = "build_ms")
  <2>1. PICK m \in of : column = [scenario |-> "generate_scan", metric |-> m[1], field |-> m[2]]
    BY Zenon DEF ColumnsP
  <2>2. column.field = m[2] /\ column.metric = m[1]
    BY <2>1
  <2>3. all = {"build_ms", "output_bytes", "peak_rss"} \cup (IF who \in Tools THEN {} ELSE {"heap_peak"})
    BY DEF all, OptionalP
  <2> QED BY <2>2, <2>3
<1>5. Times(ColumnsP(who)) \subseteq {"build_ms"} /\ FieldsOf(ColumnsP(who)) \subseteq all
  BY <1>4 DEF Times, FieldsOf
<1> QED BY <1>3, <1>5

\* A sweep begins with its first cell.
LEMMA MeasuredInit == ASSUME WriterAssumption, PvecAssumption, Init PROVE MeasuredInv
<1>1. /\ accs = <<>> /\ rows = {} /\ cell = 1 /\ stage = "prepare" /\ jobs = <<>>
      /\ sweep \in {"writer", "pvec", "engines"}
  BY DEF Init, InitW, InitP, InitE
<1>2. DOMAIN accs = {}
  BY <1>1
<1>3. AllRight /\ AttestedIsMeasured
  BY <1>1, <1>2 DEF AllRight, AttestedIsMeasured
<1>4. ASSUME NEW cells, NEW S, cells \in Seq(S), cells # <<>> PROVE 1 \in 1..Len(cells)
  <2>1. Len(cells) \in Nat /\ Len(cells) # 0
    BY <1>4, LenProperties, EmptySeq
  <2> QED BY <2>1
<1>5. 1 \in 1..Len(WriterCells) /\ 1 \in 1..Len(ScanCells)
  BY <1>4 DEF WriterAssumption, PvecAssumption
<1>6. OnCourse(WriterCells, AccountsW) /\ OnCourse(ScanCells, AccountsP)
  BY <1>1, <1>5 DEF OnCourse
<1> QED BY <1>1, <1>3, <1>6, QuietInit DEF MeasuredInv

\* Waiting files nothing.
LEMMA MeasuredGate == ASSUME ContestAssumption, MeasuredInv, Gate PROVE MeasuredInv'
<1>1. QuietInv /\ QuietInv'
  BY QuietGate DEF MeasuredInv
<1>2. PICK r \in Readings : Sleep(r) \/ Start(r)
  BY DEF Gate
<1>3. UNCHANGED <<accs, sweep, rows>> /\ stage = "gate"
  BY <1>2 DEF Sleep, Start
<1>4. rows' = {}
  BY <1>1, <1>3 DEF QuietInv
<1>5. AllRight' /\ AttestedIsMeasured'
  BY <1>3, <1>4, KeepsRight, NothingAttested DEF MeasuredInv
<1>6. sweep' = "writer" => OnCourse(WriterCells, AccountsW)'
  BY <1>3, GatesOnCourse DEF MeasuredInv
<1>7. sweep' = "pvec" => OnCourse(ScanCells, AccountsP)'
  BY <1>3, GatesOnCourse DEF MeasuredInv
<1>8. sweep' \in {"writer", "pvec", "engines"}
  BY <1>3 DEF MeasuredInv
<1> QED BY <1>1, <1>5, <1>6, <1>7, <1>8 DEF MeasuredInv

\* The steps of the writer sweep.
LEMMA MeasuredWriter ==
  ASSUME ContestAssumption, WriterAssumption, TilesAssumption, MeasuredInv, NextW
  PROVE  MeasuredInv'
<1> DEFINE cells == WriterCells
<1>1. QuietInv /\ QuietInv' /\ AllRight
  BY QuietWriter DEF MeasuredInv
<1>2. sweep = "writer" /\ sweep' = "writer"
  BY DEF NextW, NoTileset, PrepareW, RepetitionW, FinishW, Report, Publish
<1>3. OnCourse(WriterCells, AccountsW)
  BY <1>2 DEF MeasuredInv
<1>4. Len(WriterCells) \in Nat
  <2>1. WriterCells \in Seq({"real", "synthetic"} \X Nat)
    BY DEF WriterAssumption
  <2> QED BY <2>1, LenProperties
<1>5. SUFFICES AllRight' /\ AttestedIsMeasured' /\ OnCourse(WriterCells, AccountsW)'
  <2>1. sweep' \in {"writer", "pvec", "engines"} /\ sweep' # "pvec"
    BY <1>2
  <2> QED BY <1>1, <2>1 DEF MeasuredInv
<1>6. CASE NoTileset
  <2>1. accs' = accs /\ jobs' = jobs /\ rows' = {} /\ cell' = cell + 1
        /\ stage' = IF cell < Len(WriterCells) THEN "prepare" ELSE "done"
    BY <1>6 DEF NoTileset
  <2> QED BY <1>1, <1>2, <1>3, <1>4, <2>1, KeepsRight, NothingAttested, PublishesOnCourse
<1>7. CASE PrepareW
  <2>1. PICK go \in BOOLEAN : Begin(JobsW(WriterCells[cell], go))
    BY <1>7, Zenon DEF PrepareW
  <2>2. rows' = {} /\ cell' = cell /\ stage = "prepare"
    BY <1>7 DEF PrepareW
  <2>3. JobsW(WriterCells[cell], go) \in Seq(JobsOf(AccountsW))
    BY ScheduleW
  <2> QED BY <1>3, <2>1, <2>2, <2>3, BeginsRight, NothingAttested, BeginsOnCourse
<1>8. CASE RepetitionW
  <2> DEFINE c == WriterCells[cell]
             job == Head(jobs)
  <2>1. PICK reply \in RunChild(job.who, c, job.acc[2], IsReal(c)), r \in Readings :
          Report(Verdict(reply, c), reply.out, r.cpu)
    BY <1>8, Zenon DEF RepetitionW
  <2>2. stage = "child"
    BY <1>8 DEF RepetitionW
  <2>3. /\ job.who \in Range(ContendersW) /\ job.acc[1] = job.who
        /\ job.acc[2] = "go" <=> job.who = <<GO>>
        /\ Tiles(c) \in Nat
    BY <1>3, <2>2, JobIsW
  <2> HIDE DEF c, job
  <2>4. Verdict(reply, c) = "ok" => IsRight(job.acc, reply.out)
    <3>1. SUFFICES ASSUME Verdict(reply, c) = "ok"
                   PROVE  GoodW(job.acc[1], reply.out) /\ Times(ColumnsW(job.acc[2])) \subseteq reply.out.has
      BY <1>2, Zenon DEF IsRight
    <3>2. GoodW(job.who, reply.out)
      BY <2>3, <3>1, ReplyIsGood
    <3>3. Times(ColumnsW(job.acc[2])) \subseteq reply.out.has
      <4>1. reply.verdict # "ran"
        BY <3>1, Zenon DEF Verdict
      <4> QED BY <4>1, ReplyIsFull
    <3> QED BY <2>3, <3>2, <3>3
  <2>5. accs' = [accs EXCEPT ![job.acc] = Filed(@, Verdict(reply, c), reply.out, r.cpu)]
    BY <2>1, Zenon DEF Report, job
  <2>6. AllRight'
    BY <1>1, <1>2, <2>4, <2>5, FilesRight
  <2>7. rows' = {}
    BY <1>1, <2>1, <2>2 DEF Report, QuietInv
  <2> QED BY <1>3, <2>1, <2>6, <2>7, NothingAttested, ReportsOnCourse
<1>9. CASE FinishW
  <2>1. PICK doubts : Publish(RowsW(WriterCells[cell], doubts), Len(WriterCells))
    BY <1>9, Zenon DEF FinishW
  <2> DEFINE published == RowsW(WriterCells[cell], doubts)
  <2>2. accs' = accs /\ jobs' = jobs /\ rows' = published /\ cell' = cell + 1
        /\ stage' = IF cell < Len(WriterCells) THEN "prepare" ELSE "done"
    BY <2>1 DEF Publish
  <2>3. ASSUME NEW row \in published, NEW i \in DOMAIN row.samples
        PROVE  /\ row.samples[i].by = SubjectW(row.backend)
               /\ row.samples[i].left.lost = 0 /\ row.samples[i].left.wrong # "sampled"
    <3>1. IsRow(row)
      BY WriterRows
    <3>2. PICK a, out : /\ a[1] = row.backend /\ IsRight(a, out)
                        /\ row.samples[i].by = out.by /\ row.samples[i].left = out.left
      BY <1>1, <3>1, RowIsRight
    <3>3. GoodW(row.backend, out)
      BY <1>2, <3>2 DEF IsRight
    <3> QED BY <3>2, <3>3 DEF GoodW
  <2> HIDE DEF published
  <2>4. AttestedIsMeasured'
    BY <1>2, <2>2, <2>3, Zenon DEF AttestedIsMeasured
  <2> QED BY <1>1, <1>2, <1>3, <1>4, <2>2, <2>4, KeepsRight, PublishesOnCourse
<1> QED BY <1>6, <1>7, <1>8, <1>9 DEF NextW

\* The steps of the pvec sweep.
LEMMA MeasuredPvec ==
  ASSUME ContestAssumption, PvecAssumption, ScanAssumption, MeasuredInv, NextP
  PROVE  MeasuredInv'
<1>1. QuietInv /\ QuietInv' /\ AllRight
  BY QuietPvec DEF MeasuredInv
<1>2. sweep = "pvec" /\ sweep' = "pvec"
  BY DEF NextP, PrepareP, RepetitionP, FinishP, Report, Publish
<1>3. OnCourse(ScanCells, AccountsP)
  BY <1>2 DEF MeasuredInv
<1>4. Len(ScanCells) \in Nat
  <2>1. ScanCells \in Seq((Nat \ {0}) \X (Nat \ {0}))
    BY DEF PvecAssumption
  <2> QED BY <2>1, LenProperties
<1>5. SUFFICES AllRight' /\ AttestedIsMeasured' /\ OnCourse(ScanCells, AccountsP)'
  <2>1. sweep' \in {"writer", "pvec", "engines"} /\ sweep' # "writer"
    BY <1>2
  <2> QED BY <1>1, <2>1 DEF MeasuredInv
<1>6. CASE PrepareP
  <2> DEFINE without == Tools \ inputs'
             schedule == Walk(ALL, [who \in Range(ALL) |->
               IF who \in without THEN <<>> ELSE <<[who |-> who, acc |-> <<who, "scan">>]>>])
  <2>1. Begin(schedule)
    BY <1>6, Zenon DEF PrepareP
  <2>2. rows' = {} /\ cell' = cell /\ stage = "prepare"
    BY <1>6 DEF PrepareP
  <2>3. schedule \in Seq(JobsOf(AccountsP))
    BY ScheduleP
  <2> HIDE DEF schedule
  <2> QED BY <1>3, <2>1, <2>2, <2>3, BeginsRight, NothingAttested, BeginsOnCourse
<1>7. CASE RepetitionP
  <2> DEFINE c == ScanCells[cell]
             job == Head(jobs)
             verdict(reply, lister) ==
               IF reply.verdict = "ran" THEN "ran"
               ELSE IF Attest(job.who, c, reply.archive, lister) THEN "ok" ELSE "attest"
  <2>1. PICK reply \in RunChildP(job.who, c), r \in Readings, lister \in BOOLEAN :
          Report(verdict(reply, lister), reply.out, r.cpu)
    BY <1>7, Zenon DEF RepetitionP
  <2>2. stage = "child"
    BY <1>7 DEF RepetitionP
  <2>3. job.who \in Range(ALL) /\ job.acc[1] = job.who /\ IsScan(c)
    BY <1>3, <2>2, JobIsP
  <2> HIDE DEF c, job
  <2>4. verdict(reply, lister) = "ok" => IsRight(job.acc, reply.out)
    <3>1. SUFFICES ASSUME verdict(reply, lister) = "ok"
                   PROVE  GoodP(job.acc[1], reply.out) /\ Times(ColumnsP(job.acc[1])) \subseteq reply.out.has
      BY <1>2, Zenon DEF IsRight
    <3>2. reply.verdict # "ran" /\ Attest(job.who, c, reply.archive, lister)
      BY <3>1
    <3>3. GoodP(job.who, reply.out)
      BY <2>3, <3>2, ReplyIsGoodP
    <3>4. Times(ColumnsP(job.who)) \subseteq reply.out.has
      BY <3>2, ReplyIsFullP
    <3> QED BY <2>3, <3>3, <3>4
  <2> HIDE DEF verdict
  <2>5. accs' = [accs EXCEPT ![job.acc] = Filed(@, verdict(reply, lister), reply.out, r.cpu)]
    BY <2>1, Zenon DEF Report, job
  <2>6. AllRight'
    <3>1. PICK said : said = verdict(reply, lister)
      OBVIOUS
    <3>2. accs' = [accs EXCEPT ![job.acc] = Filed(@, said, reply.out, r.cpu)]
      BY <2>5, <3>1
    <3>3. said = "ok" /\ job.acc \in DOMAIN accs => IsRight(job.acc, reply.out)
      BY <2>4, <3>1
    <3>4. sweep' = sweep
      BY <1>2
    <3> QED BY <1>1, <3>2, <3>3, <3>4, FilesRight
  <2>7. rows' = {}
    BY <1>1, <2>1, <2>2 DEF Report, QuietInv
  <2> QED BY <1>3, <2>1, <2>6, <2>7, NothingAttested, ReportsOnCourse
<1>8. CASE FinishP
  <2>1. PICK doubts : Publish(RowsP(doubts), Len(ScanCells))
    BY <1>8, Zenon DEF FinishP
  <2> DEFINE published == RowsP(doubts)
  <2>2. accs' = accs /\ jobs' = jobs /\ rows' = published /\ cell' = cell + 1
        /\ stage' = IF cell < Len(ScanCells) THEN "prepare" ELSE "done"
    BY <2>1 DEF Publish
  <2>3. ASSUME NEW row \in published, NEW i \in DOMAIN row.samples
        PROVE  /\ row.samples[i].by = row.backend /\ row.samples[i].left.lost = 0
               /\ row.backend \notin Tools => row.samples[i].left.wrong # "sampled"
    <3>1. IsRow(row)
      BY PvecRows
    <3>2. PICK a, out : /\ a[1] = row.backend /\ IsRight(a, out)
                        /\ row.samples[i].by = out.by /\ row.samples[i].left = out.left
      BY <1>1, <3>1, RowIsRight
    <3>3. GoodP(row.backend, out)
      BY <1>2, <3>2 DEF IsRight
    <3> QED BY <3>2, <3>3 DEF GoodP
  <2> HIDE DEF published
  <2>4. AttestedIsMeasured'
    <3>1. sweep' = "pvec" /\ "pvec" # "writer" /\ "pvec" # "engines"
      BY <1>2
    <3> QED BY <2>2, <2>3, <3>1, Zenon DEF AttestedIsMeasured
  <2> QED BY <1>1, <1>2, <1>3, <1>4, <2>2, <2>4, KeepsRight, PublishesOnCourse
<1> QED BY <1>6, <1>7, <1>8 DEF NextP

\* A child's metrics, as far as engines are compared by them.
LEMMA MetricsAreGood == ASSUME NEW e, NEW tiles, NEW m \in Metrics(e, tiles) PROVE GoodE(m)
<1>1. PICK n \in {0, tiles - 1, tiles}, g \in {"planned", "other", "none"},
           b \in {"same", "other", Null}, zero \in {{}, {"secs"}, {"rss"}} :
        m = [by |-> e, has |-> Columns((IF n = 0 THEN {"tiles"} ELSE {}) \cup zero),
             fact |-> [tiles |-> n, bytes |-> b],
             left |-> [tiles |-> n, grid |-> g, walked |-> g # "none" /\ b # Null]]
  BY DEF Metrics
<1>2. m.left = [tiles |-> n, grid |-> g, walked |-> g # "none" /\ b # Null]
  BY <1>1
<1> QED BY <1>2 DEF GoodE

\* The steps of the engines sweep.
LEMMA MeasuredEngines == ASSUME ContestAssumption, MeasuredInv, NextE PROVE MeasuredInv'
<1>1. QuietInv /\ QuietInv' /\ AllRight
  BY QuietEngines DEF MeasuredInv
<1>2. sweep = "engines" /\ sweep' = "engines"
  BY DEF NextE, PrepareE, NoMetrics, RepetitionE, FinishE, Publish
<1>3. SUFFICES AllRight' /\ AttestedIsMeasured'
  <2>1. sweep' \in {"writer", "pvec", "engines"} /\ sweep' # "writer" /\ sweep' # "pvec"
    BY <1>2
  <2> QED BY <1>1, <2>1 DEF MeasuredInv
<1>4. CASE PrepareE
  <2>1. Begin(JobsE) /\ rows' = {}
    BY <1>4 DEF PrepareE
  <2> QED BY <2>1, BeginsRight, NothingAttested
<1>5. CASE NoMetrics
  <2>1. UNCHANGED <<accs, rows>> /\ stage = "gate"
    BY <1>5 DEF NoMetrics
  <2>2. rows' = {}
    BY <1>1, <2>1 DEF QuietInv
  <2> QED BY <1>1, <1>2, <2>1, <2>2, KeepsRight, NothingAttested
<1>6. CASE RepetitionE
  <2> DEFINE job == Head(jobs)
  <2>1. PICK m \in Metrics(job.who, EngineCells[cell]) :
          accs' = [accs EXCEPT ![job.acc] = Filed(@, "ok", m, under)]
    BY <1>6, Zenon DEF RepetitionE
  <2>2. rows' = {}
    BY <1>1, <1>6 DEF RepetitionE, QuietInv
  <2>3. GoodE(m)
    BY MetricsAreGood
  <2>4. IsRight(job.acc, m)
    <3>1. "engines" # "writer" /\ "engines" # "pvec"
      OBVIOUS
    <3> QED BY <1>2, <2>3, <3>1, Zenon DEF IsRight
  <2> HIDE DEF job
  <2> QED BY <1>1, <1>2, <2>1, <2>2, <2>4, FilesRight, NothingAttested
<1>7. CASE FinishE
  <2>1. PICK doubts : Publish(RowsE(doubts), Len(EngineCells))
    BY <1>7, Zenon DEF FinishE
  <2> DEFINE published == RowsE(doubts)
  <2>2. accs' = accs /\ rows' = published
    BY <2>1 DEF Publish
  <2>3. ASSUME NEW row \in published, row.attested = TRUE
        PROVE  \E other \in published :
                 other.backend # row.backend /\ other.metric = "wall"
                   /\ \A own \in published : own.backend = row.backend /\ own.metric = "wall"
                                               => SamePyramid(own, other)
    <3>1. PICK e \in Measured, metric \in METRICS : row = RowE(e, metric, doubts)
      BY <2>3 DEF RowsE
    <3>2. \A x, y : /\ RowE(x, y, doubts).backend = x /\ RowE(x, y, doubts).metric = y
                    /\ RowE(x, y, doubts).attested = IsAttested(x)
      BY DEF RowE
    <3>3. IsAttested(e) /\ row.backend = e
      BY <2>3, <3>1, <3>2
    <3>4. PICK o \in Measured \ {e} : SamePyramid(RowE(e, "wall", doubts), RowE(o, "wall", doubts))
      BY <1>1, <1>2, <3>3, EngineHasSibling
    <3>5. "wall" \in METRICS
      BY DEF METRICS, Columns
    <3> DEFINE other == RowE(o, "wall", doubts)
    <3>6. other \in published /\ other.backend # e /\ other.metric = "wall"
      BY <3>2, <3>5 DEF RowsE
    <3>7. ASSUME NEW own \in published, own.backend = e, own.metric = "wall" PROVE SamePyramid(own, other)
      <4>1. PICK x \in Measured, y \in METRICS : own = RowE(x, y, doubts)
        BY <3>7 DEF RowsE
      <4>2. x = e /\ y = "wall"
        BY <3>2, <3>7, <4>1
      <4> QED BY <3>4, <4>1, <4>2
    <3> HIDE DEF other, published
    <3> QED BY <3>3, <3>6, <3>7, Zenon
  <2> HIDE DEF published
  <2>4. AttestedIsMeasured'
    <3>1. sweep' = "engines" /\ "engines" # "writer" /\ "engines" # "pvec"
      BY <1>2
    <3> QED BY <2>2, <2>3, <3>1, Zenon DEF AttestedIsMeasured
  <2> QED BY <1>1, <1>2, <2>2, <2>4, KeepsRight
<1> QED BY <1>4, <1>5, <1>6, <1>7 DEF NextE

LEMMA MeasuredStep == ASSUME MeasuredInv, [Next]_cvars PROVE MeasuredInv'
<1>1. CASE UNCHANGED cvars
  <2>1. UNCHANGED <<accs, sweep, under, rows, stage, cell, jobs>>
    BY <1>1 DEF cvars
  <2>2. QuietInv'
    <3>1. HighMeansQuiet'
      BY <2>1 DEF HighMeansQuiet, QuietInv, MeasuredInv
    <3> HIDE DEF HighMeansQuiet
    <3> QED BY <2>1, <3>1 DEF QuietInv, MeasuredInv
  <2>3. AllRight'
    BY <2>1, KeepsRight DEF MeasuredInv
  <2>4. AttestedIsMeasured'
    BY <2>1, Zenon DEF MeasuredInv, AttestedIsMeasured
  <2> HIDE DEF AttestedIsMeasured, AllRight
  <2>5. \A cells, accounts : OnCourse(cells, accounts) => OnCourse(cells, accounts)'
    BY <2>1 DEF OnCourse
  <2> QED BY <2>1, <2>2, <2>3, <2>4, <2>5, Zenon DEF MeasuredInv
<1>2. CASE Next
  BY <1>2, ContestAssumption, WriterAssumption, TilesAssumption, PvecAssumption, ScanAssumption,
     MeasuredGate, MeasuredWriter, MeasuredPvec, MeasuredEngines DEF Next
<1> QED BY <1>1, <1>2

-----------------------------------------------------------------------------
\* attest_archive(), attest() and attest_group(): whatever a child was told, made
\* of it and left behind, an attested row of the writer or the pvec sweep holds
\* only samples of the contender it names, of artefacts that had all their tiles
\* and, where a sample of them was read back, the right ones.  An attested row of
\* an engine has a sibling beside it: every repetition of both was walked, wrote
\* the same grid and counted the same tiles.  Their pixels are not compared.
THEOREM AttestedRowsAreMeasured == Spec => []AttestedIsMeasured
<1>1. ASSUME MeasuredInv, [Next]_cvars PROVE MeasuredInv'
  BY <1>1, MeasuredStep
<1>2. MeasuredInv => AttestedIsMeasured
  BY DEF MeasuredInv
<1>3. Init => MeasuredInv
  BY WriterAssumption, PvecAssumption, MeasuredInit
<1> QED BY <1>1, <1>2, <1>3, PTL DEF Spec

-----------------------------------------------------------------------------
(* How many repetitions an account has, has lost and has still to come. *)

JobOf(a) == [who |-> a[1], acc |-> a]

Accounted(a) ==
  Len(accs[a].reps) + Len(accs[a].failures) + HowMany(jobs, {JobOf(a)}) = Reps

\* The accounts of a cell.
OpenW(a) ==
  /\ a \in AccountsW
  /\ a[2] = "go" => GO \in inputs
  /\ a[2] = "engine" => IsReal(WriterCells[cell])

OpenP(a) == a \in AccountsP /\ a[1] \notin Tools \ inputs

AccountedInv ==
  /\ MeasuredInv
  /\ \A a \in DOMAIN accs : \E S : accs[a].failures \in Seq(S)
  /\ sweep # "engines" => \A a \in DOMAIN accs : Accounted(a)
  /\ stage = "rows" => jobs = <<>>
  /\ stage \in {"gate", "child", "rows"} =>
       /\ sweep = "writer" => \A a : a \in DOMAIN accs <=> OpenW(a)
       /\ sweep = "pvec" => \A a : a \in DOMAIN accs <=> OpenP(a)
  /\ RowsAccountForRepetitions

\* A turn later the rotation begins with the next contender: its places are
\* different ones, and so all of them.
LEMMA RotationIsOrder ==
  ASSUME NEW n \in Nat \ {0}, NEW rep \in Nat
  PROVE  /\ \A k \in 1..n : ((k - 1 + rep) % n) + 1 \in 1..n
         /\ \A i \in 1..n : \E k \in 1..n : ((k - 1 + rep) % n) + 1 = i
         /\ \A k, l \in 1..n : ((k - 1 + rep) % n) + 1 = ((l - 1 + rep) % n) + 1 => k = l
<1> DEFINE f == [k \in 1..n |-> ((k - 1 + rep) % n) + 1]
<1>1. ASSUME NEW k \in 1..n PROVE k - 1 + rep \in Nat /\ (k - 1 + rep) % n \in 0..(n - 1)
  <2>1. k - 1 + rep \in Nat
    OBVIOUS
  <2> DEFINE x == k - 1 + rep
  <2>2. x \in Nat
    BY <2>1
  <2> HIDE DEF x
  <2>3. x % n \in 0..(n - 1)
    BY <2>2
  <2> QED BY <2>1, <2>3 DEF x
<1>2. \A k \in 1..n : f[k] = ((k - 1 + rep) % n) + 1 /\ f[k] \in 1..n
  <2>1. ASSUME NEW k \in 1..n PROVE f[k] = ((k - 1 + rep) % n) + 1 /\ f[k] \in 1..n
    <3> DEFINE y == (k - 1 + rep) % n
    <3>1. f[k] = y + 1
      OBVIOUS
    <3>2. y \in 0..(n - 1)
      BY <1>1
    <3> HIDE DEF y, f
    <3>3. y + 1 \in 1..n
      BY <3>2
    <3> QED BY <3>1, <3>3 DEF y
  <2> QED BY <2>1
<1>3. ASSUME NEW k \in 1..n, NEW l \in 1..n, f[k] = f[l] PROVE k = l
  <2> DEFINE x == k - 1 + rep
             y == l - 1 + rep
  <2>1. x \in Nat /\ y \in Nat /\ x % n \in 0..(n - 1) /\ y % n \in 0..(n - 1)
    BY <1>1
  <2>2. (x % n) + 1 = (y % n) + 1
    BY <1>2, <1>3
  <2>3. x % n = y % n
    <3> DEFINE p == x % n
               q == y % n
    <3>1. p \in Int /\ q \in Int /\ p + 1 = q + 1
      BY <2>1, <2>2
    <3> HIDE DEF p, q
    <3>2. p = q
      BY <3>1
    <3> QED BY <3>2 DEF p, q
  <2>4. x < y + n /\ y < x + n
    OBVIOUS
  <2>5. x = y
    <3> HIDE DEF x, y
    <3> QED BY <2>1, <2>3, <2>4, ModTells
  <2> QED BY <2>5
<1>4. f \in [1..n -> 1..n]
  BY <1>2
<1>5. IsFiniteSet(1..n)
  BY FS_Interval
<1>6. DOMAIN f = 1..n
  OBVIOUS
<1> HIDE DEF f
<1>7. f \in Injection(1..n, 1..n)
  BY <1>3, <1>4, Fun_IsInj
<1>8. f \in Surjection(1..n, 1..n)
  BY <1>5, <1>7, FS_Injection
<1>9. \A i \in 1..n : \E k \in 1..n : f[k] = i
  BY <1>8 DEF Surjection
<1> DEFINE shift(k) == ((k - 1 + rep) % n) + 1
<1>10. \A k \in 1..n : f[k] = shift(k) /\ f[k] \in 1..n
  BY <1>2
<1> HIDE DEF shift
<1>11. /\ \A k \in 1..n : shift(k) \in 1..n
       /\ \A i \in 1..n : \E k \in 1..n : shift(k) = i
       /\ \A k, l \in 1..n : shift(k) = shift(l) => k = l
  BY <1>3, <1>9, <1>10
<1> QED BY <1>11 DEF shift

\* A sequence that has something at one place only.
LEMMA OncePerLap ==
  ASSUME NEW S, NEW n \in Nat \ {0}, NEW seqs, IsPieces(seqs, n, S),
         NEW P, NEW k0 \in 1..n, NEW K \in Nat, HowMany(seqs[k0], P) = K,
         \A i \in 1..n : i # k0 => HowMany(seqs[i], P) = 0
  PROVE  HowMany(FlattenSeq(seqs), P) = K
<1> DEFINE f == [i \in 0..n |-> IF i < k0 THEN 0 ELSE K]
<1>1. f[0] = 0
  BY SMT
<1>2. ASSUME NEW i \in 1..n PROVE f[i] = f[i - 1] + HowMany(seqs[i], P)
  <2>1. f[i] = (IF i < k0 THEN 0 ELSE K) /\ f[i - 1] = (IF i - 1 < k0 THEN 0 ELSE K)
    BY SMT
  <2>2. CASE i < k0
    BY <2>1, <2>2
  <2>3. CASE i = k0
    BY <2>1, <2>3
  <2>4. CASE i > k0
    BY <2>1, <2>4
  <2> QED BY <2>2, <2>3, <2>4
<1>3. f[n] = K
  BY SMT
<1> HIDE DEF f
<1>4. CountsAlong(f, seqs, n, P)
  BY <1>1, <1>2 DEF CountsAlong
<1>5. HowMany(FlattenSeq(seqs), P) = f[n]
  BY <1>4, HowManyTogether
<1> QED BY <1>3, <1>5

\* A sequence that has something in each lap.
LEMMA OnceEachLap ==
  ASSUME NEW S, NEW n \in Nat \ {0}, NEW seqs, IsPieces(seqs, n, S),
         NEW P, NEW K \in {0, 1}, \A i \in 1..n : HowMany(seqs[i], P) = K
  PROVE  HowMany(FlattenSeq(seqs), P) = IF K = 1 THEN n ELSE 0
<1> DEFINE f == [i \in 0..n |-> IF K = 1 THEN i ELSE 0]
<1>1. f[0] = 0 /\ f[n] = (IF K = 1 THEN n ELSE 0)
  BY SMT
<1>2. ASSUME NEW i \in 1..n PROVE f[i] = f[i - 1] + HowMany(seqs[i], P)
  <2>1. f[i] = (IF K = 1 THEN i ELSE 0) /\ f[i - 1] = (IF K = 1 THEN i - 1 ELSE 0)
    BY SMT
  <2> QED BY <2>1
<1> HIDE DEF f
<1>3. CountsAlong(f, seqs, n, P)
  BY <1>1, <1>2 DEF CountsAlong
<1>4. HowMany(FlattenSeq(seqs), P) = f[n]
  BY <1>3, HowManyTogether
<1> QED BY <1>1, <1>4

\* One contender has K jobs of a kind in its turn and the others have none.
TakesTurns(who, jobsOf, G, P, w0, K) ==
  /\ Len(who) \in Nat \ {0} /\ DOMAIN who = 1..Len(who)
  /\ \A i, j \in 1..Len(who) : who[i] = who[j] => i = j
  /\ \A w \in Range(who) : jobsOf[w] \in Seq(G)
  /\ K \in {0, 1} /\ w0 \in Range(who) /\ HowMany(jobsOf[w0], P) = K
  /\ \A w \in Range(who) \ {w0} : HowMany(jobsOf[w], P) = 0

\* However the order is rotated, every contender has its turn in every repetition.
LEMMA EveryoneHasTurns ==
  ASSUME ContestAssumption, NEW who, NEW jobsOf, NEW G, NEW P, NEW w0, NEW K,
         TakesTurns(who, jobsOf, G, P, w0, K)
  PROVE  HowMany(Walk(who, jobsOf), P) = IF K = 1 THEN Reps ELSE 0
<1> USE DEF TakesTurns
<1> DEFINE n == Len(who)
           order(rep) == Rotated(who, rep - 1)
           lap(rep) == [k \in DOMAIN order(rep) |-> jobsOf[order(rep)[k]]]
           laps == [rep \in 1..Reps |-> FlattenSeq(lap(rep))]
<1>1. Walk(who, jobsOf) = FlattenSeq(laps)
  BY Zenon DEF Walk
<1>2. Reps \in Nat \ {0} /\ n \in Nat \ {0}
  BY DEF ContestAssumption
<1>3. ASSUME NEW rep \in 1..Reps PROVE FlattenSeq(lap(rep)) \in Seq(G) /\ HowMany(FlattenSeq(lap(rep)), P) = K
  <2> DEFINE o == order(rep)
             shift(k) == ((k - 1 + (rep - 1)) % n) + 1
  <2>1. DOMAIN o = 1..n /\ \A k \in 1..n : o[k] = who[shift(k)]
    BY DEF Rotated
  <2>2. /\ \A k \in 1..n : shift(k) \in 1..n
        /\ \A i \in 1..n : \E k \in 1..n : shift(k) = i
        /\ \A k, l \in 1..n : shift(k) = shift(l) => k = l
    <3>1. rep - 1 \in Nat
      BY <1>2
    <3> DEFINE r == rep - 1
    <3> HIDE DEF n, r
    <3> QED BY <1>2, <3>1, RotationIsOrder DEF r
  <2> DEFINE l == [k \in DOMAIN o |-> jobsOf[o[k]]]
  <2>3. lap(rep) = l
    OBVIOUS
  <2> HIDE DEF o, shift, n
  <2>4. DOMAIN l = 1..n /\ Len(l) = n /\ \A k \in 1..n : l[k] = jobsOf[o[k]]
    BY <1>2, <2>1
  <2>5. \A k \in 1..n : o[k] \in Range(who)
    BY <2>1, <2>2 DEF Range, n
  <2> HIDE DEF l
  <2>6. \A k \in 1..n : l[k] \in Seq(G)
    BY <2>4, <2>5
  <2>7. PICK i0 \in 1..n : who[i0] = w0
    BY DEF Range, n
  <2>8. PICK k0 \in 1..n : shift(k0) = i0
    BY <2>2
  <2>9. HowMany(l[k0], P) = K
    BY <2>1, <2>4, <2>7, <2>8
  <2>10. ASSUME NEW k \in 1..n, k # k0 PROVE HowMany(l[k], P) = 0
    <3>1. shift(k) # i0 /\ shift(k) \in 1..n
      BY <2>2, <2>8, <2>10
    <3>2. who[shift(k)] # w0
      BY <2>7, <3>1 DEF n
    <3> QED BY <2>1, <2>4, <2>5, <3>2
  <2>11. HowMany(FlattenSeq(l), P) = K
    <3>1. K \in Nat
      OBVIOUS
    <3>2. \A k \in 1..n : k # k0 => HowMany(l[k], P) = 0
      BY <2>10
    <3>3. IsPieces(l, n, G)
      BY <2>4, <2>6 DEF IsPieces
    <3> QED BY <1>2, <2>9, <3>1, <3>2, <3>3, OncePerLap
  <2>12. FlattenSeq(l) \in Seq(G)
    <3>1. Len(l) \in Nat /\ Len(l) # 0 /\ \A k \in 1..Len(l) : l[k] \in Seq(G)
      BY <1>2, <2>4, <2>6
    <3> QED BY <3>1, FlatIsSeq
  <2> QED BY <2>3, <2>11, <2>12
<1> HIDE DEF lap
<1>4. Len(laps) = Reps /\ \A rep \in 1..Reps : laps[rep] = FlattenSeq(lap(rep))
  BY <1>2
<1> HIDE DEF laps, n
<1>5. HowMany(FlattenSeq(laps), P) = IF K = 1 THEN Reps ELSE 0
  <2>1. IsPieces(laps, Reps, G) /\ \A rep \in 1..Reps : HowMany(laps[rep], P) = K
    BY <1>3, <1>4 DEF IsPieces
  <2> QED BY <1>2, <2>1, OnceEachLap
<1> QED BY <1>1, <1>5

\* No variant is in the matrix twice.
LEMMA MatrixDiffers ==
  ASSUME WriterAssumption
  PROVE  \A i, j \in DOMAIN Matrix : Matrix[i] = Matrix[j] => i = j
<1>1. CASE Knobs
  <2> DEFINE layoutOf(m) == IF m % 2 = 1 THEN "tile-id" ELSE "arrival"
             of(m, b) == [layout |-> layoutOf(m), ordered |-> m > 2, budget |-> BUDGETS_BYTES[b]]
             piece(m) == [b \in DOMAIN BUDGETS_BYTES |-> of(m, b)]
             seqs == [m \in 1..4 |-> piece(m)]
             R == {p \in Variants \X Variants : p[1] # p[2]}
  <2>1. Matrix = FlattenSeq(seqs)
    BY <1>1, Zenon DEF Matrix
  <2>2. Len(seqs) = 4 /\ \A m \in 1..4 : seqs[m] = piece(m)
    OBVIOUS
  <2>3. /\ DOMAIN BUDGETS_BYTES = 1..Len(BUDGETS_BYTES) /\ Len(BUDGETS_BYTES) \in Nat
        /\ \A b \in DOMAIN BUDGETS_BYTES : BUDGETS_BYTES[b] \in Nat
        /\ \A b, d \in DOMAIN BUDGETS_BYTES : BUDGETS_BYTES[b] = BUDGETS_BYTES[d] => b = d
    BY LenProperties, ElementOfSeq DEF WriterAssumption, IsInjective
  <2>4. ASSUME NEW m \in 1..4, NEW b \in DOMAIN BUDGETS_BYTES PROVE of(m, b) \in Variants
    <3>1. layoutOf(m) \in {"tile-id", "arrival"} /\ (m > 2) \in BOOLEAN
      OBVIOUS
    <3> HIDE DEF layoutOf
    <3> QED BY <2>3, <3>1 DEF Variants
  <2>5. ASSUME NEW m \in 1..4, NEW b \in DOMAIN BUDGETS_BYTES, NEW d \in DOMAIN BUDGETS_BYTES, b < d
        PROVE  of(m, b) # of(m, d)
    <3>1. b # d
      BY <2>3, <2>5
    <3>2. of(m, b).budget = BUDGETS_BYTES[b] /\ of(m, d).budget = BUDGETS_BYTES[d]
      OBVIOUS
    <3> HIDE DEF of
    <3> QED BY <2>3, <3>1, <3>2
  <2>6. ASSUME NEW m \in 1..4, NEW k \in 1..4, m < k, NEW b, NEW d PROVE of(m, b) # of(k, d)
    <3>1. layoutOf(m) # layoutOf(k) \/ (m > 2) # (k > 2)
      <4>1. m \in {1, 2, 3, 4} /\ k \in {1, 2, 3, 4}
        OBVIOUS
      <4>2. /\ layoutOf(1) = "tile-id" /\ layoutOf(2) = "arrival"
            /\ layoutOf(3) = "tile-id" /\ layoutOf(4) = "arrival"
        OBVIOUS
      <4> HIDE DEF layoutOf
      <4> QED BY <2>6, <4>1, <4>2
    <3>2. of(m, b).layout = layoutOf(m) /\ of(k, d).layout = layoutOf(k)
          /\ of(m, b).ordered = (m > 2) /\ of(k, d).ordered = (k > 2)
      OBVIOUS
    <3> HIDE DEF of, layoutOf
    <3> QED BY <3>1, <3>2
  <2> HIDE DEF of
  <2>7. ASSUME NEW m \in 1..4
        PROVE  /\ piece(m) \in Seq(Variants) /\ DOMAIN piece(m) = DOMAIN BUDGETS_BYTES
               /\ \A b \in DOMAIN BUDGETS_BYTES : piece(m)[b] = of(m, b)
    BY <2>3, <2>4
  <2> HIDE DEF piece, seqs
  <2>8. ASSUME NEW m \in 1..4 PROVE Pairwise(seqs[m], R)
    <3>1. \A b, d \in DOMAIN BUDGETS_BYTES : b < d => <<of(m, b), of(m, d)>> \in R
      BY <2>4, <2>5
    <3> HIDE DEF R
    <3> QED BY <2>2, <2>7, <3>1 DEF Pairwise
  <2>9. ASSUME NEW m \in 1..4, NEW k \in 1..4, m < k, NEW x \in Range(seqs[m]), NEW y \in Range(seqs[k])
        PROVE  <<x, y>> \in R
    <3>1. PICK b \in DOMAIN BUDGETS_BYTES : x = of(m, b)
      BY <2>2, <2>7 DEF Range
    <3>2. PICK d \in DOMAIN BUDGETS_BYTES : y = of(k, d)
      BY <2>2, <2>7 DEF Range
    <3> QED BY <2>4, <2>6, <2>9, <3>1, <3>2
  <2> HIDE DEF R
  <2>10. Pairwise(FlattenSeq(seqs), R)
    <3>1. IsPieces(seqs, 4, Variants) /\ 4 \in Nat \ {0}
      BY <2>2, <2>7 DEF IsPieces
    <3>2. /\ \A m \in 1..4 : Pairwise(seqs[m], R)
          /\ \A m, k \in 1..4 : m < k => \A x \in Range(seqs[m]), y \in Range(seqs[k]) : <<x, y>> \in R
      BY <2>8, <2>9
    <3> QED BY <3>1, <3>2, PairsTogether
  <2>11. DOMAIN Matrix \subseteq Int
    <3>1. DOMAIN Matrix = 1..Len(Matrix) /\ Len(Matrix) \in Nat
      BY MatrixIs, LenProperties
    <3> QED BY <3>1
  <2>12. \A i, j \in DOMAIN Matrix : i < j => Matrix[i] # Matrix[j]
    <3>1. \A i, j \in DOMAIN Matrix : i < j => <<Matrix[i], Matrix[j]>> \in R
      BY <2>1, <2>10 DEF Pairwise
    <3>2. \A x, y : <<x, y>> \in R => x # y
      BY DEF R
    <3> QED BY <3>1, <3>2, Zenon
  <2>13. \A i, j \in DOMAIN Matrix : i = j \/ i < j \/ j < i
    BY <2>11
  <2> QED BY <2>12, <2>13
<1>2. CASE ~Knobs
  <2> DEFINE v == [layout |-> "tile-id", ordered |-> FALSE, budget |-> Null]
  <2>1. Matrix = <<v>>
    BY <1>2, Zenon DEF Matrix
  <2> HIDE DEF v
  <2> QED BY <2>1
<1> QED BY <1>1, <1>2

\* A sequence with one more behind it.
LEMMA OneBehind ==
  ASSUME NEW S, NEW s \in Seq(S), NEW t \in Seq(S), Len(t) = 1
  PROVE  /\ Len(s \o t) = Len(s) + 1
         /\ \A i \in 1..Len(s) : (s \o t)[i] = s[i]
         /\ (s \o t)[Len(s) + 1] = t[1]
<1> DEFINE g == s \o t
           n == Len(s)
<1>1. n \in Nat /\ Len(g) = n + 1
      /\ \A i \in 1..(n + 1) : g[i] = IF i <= n THEN s[i] ELSE t[i - n]
  BY ConcatProperties, LenProperties
<1> HIDE DEF g, n
<1>2. ASSUME NEW i \in 1..n PROVE g[i] = s[i]
  BY <1>1
<1>3. n + 1 \in 1..(n + 1) /\ ~(n + 1 <= n) /\ (n + 1) - n = 1
  BY <1>1
<1>4. g[n + 1] = t[1]
  BY <1>1, <1>3
<1> QED BY <1>1, <1>2, <1>4 DEF g, n

\* No contender is in the walk twice.
LEMMA ContendersDiffer ==
  ASSUME ContestAssumption, WriterAssumption
  PROVE  \A i, j \in 1..Len(ContendersW) : ContendersW[i] = ContendersW[j] => i = j
<1> DEFINE S == {Label(Matrix[i]) : i \in DOMAIN Matrix} \cup {<<GO>>}
           L == [i \in DOMAIN Matrix |-> Label(Matrix[i])]
           go == << <<GO>> >>
           n == Len(Matrix)
           g == ContendersW
<1>1. Matrix \in Seq(Variants) /\ DOMAIN Matrix = 1..n /\ n \in Nat
  BY MatrixIs, LenProperties
<1>2. L \in Seq(S) /\ Len(L) = n /\ go \in Seq(S) /\ Len(go) = 1 /\ go[1] = <<GO>>
  BY <1>1
<1>3. \A i \in 1..n : L[i] = Label(Matrix[i]) /\ Matrix[i] \in Variants
  BY <1>1, ElementOfSeq
<1>4. g = L \o go
  BY DEF ContendersW
<1> HIDE DEF L, go, S, n, g
<1>5. Len(g) = n + 1 /\ (\A i \in 1..n : g[i] = L[i]) /\ g[n + 1] = go[1]
  BY <1>2, <1>4, OneBehind
<1>6. \A i \in 1..(n + 1) : (i \in 1..n /\ g[i] = Label(Matrix[i])) \/ (i = n + 1 /\ g[i] = <<GO>>)
  <2>1. ASSUME NEW i \in 1..(n + 1)
        PROVE  (i \in 1..n /\ g[i] = Label(Matrix[i])) \/ (i = n + 1 /\ g[i] = <<GO>>)
    <3>1. i \in 1..n \/ i = n + 1
      BY <1>1
    <3>2. CASE i \in 1..n
      BY <1>3, <1>5, <3>2
    <3>3. CASE i = n + 1
      BY <1>2, <1>5, <3>3
    <3> QED BY <3>1, <3>2, <3>3
  <2> QED BY <2>1
<1>7. \A i \in 1..n : Label(Matrix[i]) # <<GO>> /\ ParseVariant(Label(Matrix[i])) = Matrix[i]
  BY <1>3, LabelsParse
<1>8. \A i, j \in 1..n : Label(Matrix[i]) = Label(Matrix[j]) => i = j
  <2>1. ASSUME NEW i \in 1..n, NEW j \in 1..n, Label(Matrix[i]) = Label(Matrix[j]) PROVE i = j
    <3>1. Matrix[i] = Matrix[j]
      BY <1>7, <2>1
    <3> QED BY <1>1, <3>1, MatrixDiffers
  <2> QED BY <2>1
<1>9. Len(g) = n + 1
  BY <1>5
<1>10. ASSUME NEW i \in 1..(n + 1), NEW j \in 1..(n + 1), g[i] = g[j] PROVE i = j
  <2>1. CASE i \in 1..n /\ g[i] = Label(Matrix[i])
    <3>1. j \in 1..n /\ g[j] = Label(Matrix[j])
      BY <1>6, <1>7, <1>10, <2>1
    <3> QED BY <1>8, <1>10, <2>1, <3>1
  <2>2. CASE i = n + 1 /\ g[i] = <<GO>>
    <3>1. j = n + 1
      BY <1>6, <1>7, <1>10, <2>2
    <3> QED BY <2>2, <3>1
  <2> QED BY <1>6, <2>1, <2>2
<1>11. \A i, j \in 1..Len(g) : g[i] = g[j] => i = j
  BY <1>9, <1>10, Zenon
<1> QED BY <1>11 DEF g

\* The last one is go-pmtiles.
LEMMA GoContends == ASSUME WriterAssumption PROVE <<GO>> \in Range(ContendersW)
<1> DEFINE S == {Label(Matrix[i]) : i \in DOMAIN Matrix} \cup {<<GO>>}
           L == [i \in DOMAIN Matrix |-> Label(Matrix[i])]
           go == << <<GO>> >>
<1>1. DOMAIN Matrix = 1..Len(Matrix) /\ Len(Matrix) \in Nat
  BY MatrixIs, LenProperties
<1>2. L \in Seq(S) /\ go \in Seq(S) /\ Len(go) = 1 /\ go[1] = <<GO>> /\ Len(L) = Len(Matrix)
  BY <1>1
<1>3. ContendersW = L \o go
  BY DEF ContendersW
<1> HIDE DEF L, go, S
<1>4. Len(L \o go) = Len(L) + 1 /\ (L \o go)[Len(L) + 1] = go[1]
  BY <1>2, OneBehind
<1>5. DOMAIN ContendersW = 1..(Len(Matrix) + 1) /\ ContendersW[Len(Matrix) + 1] = <<GO>>
  BY <1>2, <1>3, <1>4, ContendersAre
<1> QED BY <1>1, <1>5 DEF Range

\* The turn of one contender, and how many of its jobs are an account's.
TurnW(c, go, who) ==
  IF who = <<GO>> THEN IF go THEN <<JobOf(<<who, "go">>)>> ELSE <<>>
  ELSE (IF IsReal(c) THEN <<JobOf(<<who, "engine">>)>> ELSE <<>>) \o <<JobOf(<<who, "build">>)>>

LEMMA JobsDiffer ==
  ASSUME NEW p, NEW a
  PROVE  HowMany(<<JobOf(p)>>, {JobOf(a)}) = IF p = a THEN 1 ELSE 0
<1>1. JobOf(p).acc = p /\ JobOf(a).acc = a
  BY DEF JobOf
<1>2. JobOf(p) \in {JobOf(a)} <=> p = a
  BY <1>1
<1> QED BY <1>2, HowManyOfOne

LEMMA TurnOfW ==
  ASSUME NEW c, NEW go, NEW who \in Range(ContendersW), NEW a \in AccountsW
  PROVE  /\ TurnW(c, go, who) \in Seq(JobsOf(AccountsW))
         /\ HowMany(TurnW(c, go, who), {JobOf(a)}) =
              IF who = a[1] /\ (a[2] = "go" => go) /\ (a[2] = "engine" => IsReal(c)) THEN 1 ELSE 0
<1> DEFINE G == JobsOf(AccountsW)
           job(mode) == JobOf(<<who, mode>>)
           P == {JobOf(a)}
<1>1. \A mode \in {"go", "engine", "build"} : (mode = "go" <=> who = <<GO>>) => job(mode) \in G
  <2>1. ASSUME NEW mode \in {"go", "engine", "build"}, mode = "go" <=> who = <<GO>>
        PROVE  job(mode) \in G
    <3> DEFINE p == <<who, mode>>
    <3>1. p \in AccountsW
      BY <2>1 DEF AccountsW
    <3> HIDE DEF p
    <3>2. JobOf(p) \in G
      BY <3>1 DEF JobsOf, JobOf
    <3> QED BY <3>2 DEF p
  <2> QED BY <2>1
<1>2. \A mode : HowMany(<<job(mode)>>, P) = IF <<who, mode>> = a THEN 1 ELSE 0
  BY JobsDiffer
<1>3. HowMany(<<>>, P) = 0
  BY HowManyOfNone
<1>4. a = <<a[1], a[2]>> /\ a[2] \in {"go", "engine", "build"} /\ (a[2] = "go" <=> a[1] = <<GO>>)
  BY DEF AccountsW
<1>5. \A mode : <<who, mode>> = a <=> who = a[1] /\ mode = a[2]
  BY <1>4
<1>6. CASE who = <<GO>>
  <2>1. job("go") \in G
    BY <1>1, <1>6
  <2>2. TurnW(c, go, who) = IF go THEN <<job("go")>> ELSE <<>>
    BY <1>6, Zenon DEF TurnW
  <2> HIDE DEF job, G, P
  <2>3. <<job("go")>> \in Seq(G) /\ <<>> \in Seq(G)
    BY <2>1
  <2>4. TurnW(c, go, who) \in Seq(G)
    BY <2>2, <2>3, Zenon
  <2>5. who = a[1] => a[2] = "go" /\ a[2] # "engine"
    BY <1>4, <1>6
  <2>6. HowMany(TurnW(c, go, who), P) = IF who = a[1] /\ go THEN 1 ELSE 0
    <3>1. HowMany(<<job("go")>>, P) = IF who = a[1] THEN 1 ELSE 0
      BY <1>2, <1>5, <2>5
    <3>2. CASE go
      BY <2>2, <3>1, <3>2
    <3>3. CASE ~go
      BY <1>3, <2>2, <3>3
    <3> QED BY <3>2, <3>3
  <2>7. (who = a[1] /\ (a[2] = "go" => go) /\ (a[2] = "engine" => IsReal(c))) <=> (who = a[1] /\ go)
    BY <2>5
  <2> QED BY <2>4, <2>6, <2>7 DEF G, P
<1>7. CASE who # <<GO>>
  <2> DEFINE first == IF IsReal(c) THEN <<job("engine")>> ELSE <<>>
             last == <<job("build")>>
  <2>1. job("engine") \in G /\ job("build") \in G
    BY <1>1, <1>7
  <2>2. TurnW(c, go, who) = first \o last
    BY <1>7, Zenon DEF TurnW
  <2>9. first \in {<<job("engine")>>, <<>>}
    OBVIOUS
  <2> HIDE DEF job, G, P, first
  <2>3. <<job("engine")>> \in Seq(G) /\ last \in Seq(G) /\ <<>> \in Seq(G)
    BY <2>1
  <2>4. first \in Seq(G)
    BY <2>3, <2>9, Zenon
  <2>5. HowMany(first \o last, P) = HowMany(first, P) + HowMany(last, P)
    BY <2>3, <2>4, HowManyBehind
  <2>6. HowMany(last, P) = IF who = a[1] /\ a[2] = "build" THEN 1 ELSE 0
    BY <1>2, <1>5
  <2>7. HowMany(first, P) = IF IsReal(c) /\ who = a[1] /\ a[2] = "engine" THEN 1 ELSE 0
    <3>1. CASE IsReal(c)
      BY <1>2, <1>5, <3>1 DEF first
    <3>2. CASE ~IsReal(c)
      BY <1>3, <3>2 DEF first
    <3> QED BY <3>1, <3>2
  <2>8. who = a[1] => a[2] # "go" /\ a[2] \in {"engine", "build"}
    BY <1>4, <1>7
  <2>10. first \o last \in Seq(G)
    BY <2>3, <2>4, ConcatProperties
  <2>11. HowMany(first \o last, P) =
           IF who = a[1] /\ (a[2] = "go" => go) /\ (a[2] = "engine" => IsReal(c)) THEN 1 ELSE 0
    <3>1. CASE who = a[1] /\ a[2] = "build"
      BY <2>5, <2>6, <2>7, <3>1
    <3>2. CASE who = a[1] /\ a[2] = "engine"
      BY <2>5, <2>6, <2>7, <3>2
    <3>3. CASE who # a[1]
      BY <2>5, <2>6, <2>7, <3>3
    <3> QED BY <2>8, <3>1, <3>2, <3>3
  <2> QED BY <2>2, <2>10, <2>11 DEF G, P
<1> QED BY <1>6, <1>7

\* Every account of a cell has a job in every repetition, and no other has one.
LEMMA TurnsW ==
  ASSUME ContestAssumption, WriterAssumption, NEW c, NEW go, NEW a \in AccountsW
  PROVE  HowMany(JobsW(c, go), {JobOf(a)}) =
           IF (a[2] = "go" => go) /\ (a[2] = "engine" => IsReal(c)) THEN Reps ELSE 0
<1> DEFINE G == JobsOf(AccountsW)
           jobsOf == [who \in Range(ContendersW) |-> TurnW(c, go, who)]
           P == {JobOf(a)}
           K == IF (a[2] = "go" => go) /\ (a[2] = "engine" => IsReal(c)) THEN 1 ELSE 0
<1>1. JobsW(c, go) = Walk(ContendersW, jobsOf)
  BY Zenon DEF JobsW, TurnW, JobOf
<1>2. a[1] \in Range(ContendersW)
  BY DEF AccountsW
<1>3. \A who \in Range(ContendersW) : jobsOf[who] = TurnW(c, go, who)
  OBVIOUS
<1>4. \A who \in Range(ContendersW) :
        /\ TurnW(c, go, who) \in Seq(G)
        /\ HowMany(TurnW(c, go, who), P) = IF who = a[1] THEN K ELSE 0
  <2>1. ASSUME NEW who \in Range(ContendersW)
        PROVE  /\ TurnW(c, go, who) \in Seq(JobsOf(AccountsW))
               /\ HowMany(TurnW(c, go, who), {JobOf(a)}) =
                    IF who = a[1] /\ (a[2] = "go" => go) /\ (a[2] = "engine" => IsReal(c)) THEN 1 ELSE 0
    BY TurnOfW
  <2>2. ASSUME NEW who \in Range(ContendersW)
        PROVE  HowMany(TurnW(c, go, who), {JobOf(a)}) = IF who = a[1] THEN K ELSE 0
    BY <2>1
  <2> HIDE DEF K
  <2> QED BY <2>1, <2>2
<1>5. K \in {0, 1} /\ (K = 1 <=> (a[2] = "go" => go) /\ (a[2] = "engine" => IsReal(c)))
  OBVIOUS
<1> HIDE DEF jobsOf, G, P, K
<1>6. \A who \in Range(ContendersW) : jobsOf[who] \in Seq(G)
  BY <1>3, <1>4
<1>7. HowMany(jobsOf[a[1]], P) = K
  BY <1>2, <1>3, <1>4
<1>8. \A who \in Range(ContendersW) \ {a[1]} : HowMany(jobsOf[who], P) = 0
  BY <1>3, <1>4
<1>9. HowMany(Walk(ContendersW, jobsOf), P) = IF K = 1 THEN Reps ELSE 0
  <2> DEFINE g == ContendersW
             w0 == a[1]
  <2>1. /\ Len(g) \in Nat \ {0} /\ DOMAIN g = 1..Len(g)
        /\ \A i, j \in 1..Len(g) : g[i] = g[j] => i = j
    BY ContendersAre, ContendersDiffer
  <2>2. /\ w0 \in Range(g) /\ HowMany(jobsOf[w0], P) = K
        /\ \A w \in Range(g) : jobsOf[w] \in Seq(G)
        /\ \A w \in Range(g) \ {w0} : HowMany(jobsOf[w], P) = 0
    BY <1>2, <1>6, <1>7, <1>8
  <2> HIDE DEF g, w0
  <2>3. HowMany(Walk(g, jobsOf), P) = IF K = 1 THEN Reps ELSE 0
    <3>1. TakesTurns(g, jobsOf, G, P, w0, K)
      BY <1>5, <2>1, <2>2 DEF TakesTurns
    <3> QED BY <3>1, EveryoneHasTurns
  <2> QED BY <2>3 DEF g
<1> QED BY <1>1, <1>5, <1>9 DEF P

\* The same of the scan's contenders, but the tools without an input.
LEMMA TurnsP ==
  ASSUME ContestAssumption, NEW missing, NEW a \in AccountsP
  PROVE  HowMany(Walk(ALL, [who \in Range(ALL) |->
           IF who \in missing THEN <<>> ELSE <<[who |-> who, acc |-> <<who, "scan">>]>>]), {JobOf(a)}) =
             IF a[1] \in missing THEN 0 ELSE Reps
<1> DEFINE G == JobsOf(AccountsP)
           job(who) == JobOf(<<who, "scan">>)
           turn(who) == IF who \in missing THEN <<>> ELSE <<job(who)>>
           jobsOf == [who \in Range(ALL) |-> turn(who)]
           P == {JobOf(a)}
           K == IF a[1] \in missing THEN 0 ELSE 1
           g == ALL
           w0 == a[1]
<1>1. [who \in Range(ALL) |->
        IF who \in missing THEN <<>> ELSE <<[who |-> who, acc |-> <<who, "scan">>]>>] = jobsOf
  BY DEF JobOf
<1>2. a = <<w0, "scan">> /\ w0 \in Range(g) /\ K \in {0, 1}
  BY DEF AccountsP
<1>3. Len(g) \in Nat \ {0} /\ DOMAIN g = 1..Len(g) /\ \A i, j \in 1..Len(g) : g[i] = g[j] => i = j
  BY DEF ALL
<1>4. ASSUME NEW who \in Range(g)
      PROVE  turn(who) \in Seq(G) /\ HowMany(turn(who), P) = IF who = w0 THEN K ELSE 0
  <2> DEFINE p == <<who, "scan">>
  <2>1. p \in AccountsP /\ (p = a <=> who = w0)
    BY <1>2 DEF AccountsP
  <2>2. JobOf(p) \in G
    BY <2>1 DEF JobsOf, JobOf
  <2>3. HowMany(<<JobOf(p)>>, P) = IF p = a THEN 1 ELSE 0
    BY JobsDiffer
  <2>4. HowMany(<<>>, P) = 0
    BY HowManyOfNone
  <2> HIDE DEF G, P, p
  <2>5. CASE who \in missing
    BY <2>4, <2>5
  <2>6. CASE who \notin missing
    <3>1. turn(who) = <<JobOf(p)>>
      BY <2>6 DEF p
    <3>2. <<JobOf(p)>> \in Seq(G)
      BY <2>2
    <3>3. who = w0 => K = 1
      BY <2>6
    <3> QED BY <2>1, <2>3, <3>1, <3>2, <3>3
  <2> QED BY <2>5, <2>6
<1>5. \A who \in Range(g) : jobsOf[who] = turn(who)
  OBVIOUS
<1> HIDE DEF jobsOf, turn, G, P, g, w0
<1>6. TakesTurns(g, jobsOf, G, P, w0, K)
  BY <1>2, <1>3, <1>4, <1>5 DEF TakesTurns
<1>7. HowMany(Walk(g, jobsOf), P) = IF K = 1 THEN Reps ELSE 0
  BY <1>6, EveryoneHasTurns
<1>8. HowMany(Walk(g, jobsOf), P) = IF a[1] \in missing THEN 0 ELSE Reps
  BY <1>7
<1> QED BY <1>1, <1>8 DEF g, P

-----------------------------------------------------------------------------
(* Steps. *)

\* A job is of one account.
LEMMA JobsAre ==
  ASSUME NEW accounts, NEW schedule \in Seq(JobsOf(accounts)), NEW i \in DOMAIN schedule
  PROVE  schedule[i].acc \in accounts /\ schedule[i] = JobOf(schedule[i].acc)
<1>1. schedule[i] \in JobsOf(accounts)
  BY LenProperties
<1>2. PICK b \in accounts : schedule[i] = JobOf(b)
  BY <1>1 DEF JobsOf, JobOf
<1>3. JobOf(b).acc = b
  BY DEF JobOf
<1> QED BY <1>2, <1>3

\* A schedule has all repetitions of the open accounts and no other job.
SchedulesAll(schedule, accounts, open) ==
  /\ schedule \in Seq(JobsOf(accounts))
  /\ \A a \in accounts : HowMany(schedule, {JobOf(a)}) = IF a \in open THEN Reps ELSE 0

\* A cell begins: an account is opened for whoever has a job, and all its
\* repetitions are to come.
LEMMA BeginsAccounted ==
  ASSUME ContestAssumption, NEW accounts, NEW schedule, NEW open,
         SchedulesAll(schedule, accounts, open), Begin(schedule)
  PROVE  /\ \A a : a \in DOMAIN accs' <=> a \in accounts /\ a \in open
         /\ \A a \in DOMAIN accs' : Accounted(a)' /\ accs'[a].failures \in Seq({})
         /\ stage' = "rows" => jobs' = <<>>
<1> USE DEF SchedulesAll
<1>1. /\ accs' = [a \in {schedule[i].acc : i \in DOMAIN schedule} |-> Empty]
      /\ jobs' = schedule /\ (stage' = "rows" => schedule = <<>>)
  BY DEF Begin
<1>2. Reps \in Nat \ {0}
  BY DEF ContestAssumption
<1>3. ASSUME NEW a PROVE a \in DOMAIN accs' <=> a \in accounts /\ a \in open
  <2> DEFINE places == Places(schedule, {JobOf(a)})
  <2>1. a \in DOMAIN accs' <=> \E i \in DOMAIN schedule : schedule[i].acc = a
    BY <1>1
  <2>2. JobOf(a).acc = a
    BY DEF JobOf
  <2>3. a \in DOMAIN accs' <=> a \in accounts /\ places # {}
    BY <2>1, <2>2, JobsAre DEF Places
  <2>4. IsFiniteSet(places) /\ HowMany(schedule, {JobOf(a)}) = Cardinality(places)
    BY HowManyType DEF HowMany
  <2> HIDE DEF places
  <2>5. Cardinality(places) = 0 <=> places = {}
    BY <2>4, FS_EmptySet
  <2>6. CASE a \in accounts
    <3>1. Cardinality(places) = IF a \in open THEN Reps ELSE 0
      BY <2>4, <2>6
    <3> QED BY <1>2, <2>3, <2>5, <2>6, <3>1
  <2>7. CASE a \notin accounts
    BY <2>3, <2>7
  <2> QED BY <2>6, <2>7
<1>4. ASSUME NEW a \in DOMAIN accs' PROVE Accounted(a)' /\ accs'[a].failures \in Seq({})
  <2>1. accs'[a] = Empty
    BY <1>1
  <2>2. HowMany(schedule, {JobOf(a)}) = Reps
    BY <1>3
  <2>3. accs'[a].reps = <<>> /\ accs'[a].failures = <<>> /\ Len(<<>>) = 0 /\ <<>> \in Seq({})
    BY <2>1 DEF Empty
  <2>4. JobOf(a)' = JobOf(a)
    BY DEF JobOf
  <2>5. HowMany(jobs', {JobOf(a)}) = Reps
    BY <1>1, <2>2
  <2> QED BY <1>2, <2>3, <2>4, <2>5 DEF Accounted
<1> QED BY <1>1, <1>3, <1>4

LEMMA OneLonger ==
  ASSUME NEW S, NEW s \in Seq(S), NEW r
  PROVE  Len(Append(s, r)) = Len(s) + 1 /\ Append(s, r) \in Seq(S \cup {r})
<1> DEFINE T == S \cup {r}
<1>1. s \in Seq(T) /\ r \in T
  <2>1. Len(s) \in Nat /\ DOMAIN s = 1..Len(s) /\ s \in [1..Len(s) -> S]
    BY LenProperties
  <2>2. s \in [1..Len(s) -> T]
    BY <2>1
  <2> QED BY <2>1, <2>2, SeqDef
<1> HIDE DEF T
<1> QED BY <1>1, AppendProperties DEF T

\* An answer: its account has one more and one less to come.
LEMMA ReportsAccounted ==
  ASSUME QuietInv, NEW accounts, jobs \in Seq(JobsOf(accounts)), jobs # <<>>,
         \A a \in DOMAIN accs : Accounted(a) /\ \E S : accs[a].failures \in Seq(S),
         NEW verdict, NEW out, NEW after, Report(verdict, out, after)
  PROVE  /\ DOMAIN accs' = DOMAIN accs
         /\ \A a \in DOMAIN accs' : Accounted(a)' /\ \E S : accs'[a].failures \in Seq(S)
         /\ stage' = "rows" => jobs' = <<>>
<1> DEFINE h == Head(jobs).acc
           t == Tail(jobs)
           new == Filed(accs[h], verdict, out, after)
<1>1. accs' = [accs EXCEPT ![h] = new] /\ jobs' = t /\ (stage' = "rows" => t = <<>>)
  BY Zenon DEF Report
<1> HIDE DEF new
<1>2. accs' = [x \in DOMAIN accs |-> IF x = h THEN new ELSE accs[x]]
  BY <1>1 DEF QuietInv, IsMap
<1>3. Head(jobs) = JobOf(h) /\ t \in Seq(JobsOf(accounts))
  <2>1. Head(jobs) = jobs[1] /\ 1 \in DOMAIN jobs
    BY HeadTailProperties, LenProperties, EmptySeq
  <2> QED BY <2>1, JobsAre, HeadTailProperties
<1>4. ASSUME NEW a \in DOMAIN accs'
      PROVE  Accounted(a)' /\ \E S : accs'[a].failures \in Seq(S)
  <2> DEFINE acc == accs[a]
             one == IF a = h THEN 1 ELSE 0
             left == HowMany(t, {JobOf(a)})
  <2>1. a \in DOMAIN accs
    BY <1>2
  <2>2. IsAcc(acc) /\ Accounted(a)
    BY <2>1 DEF QuietInv
  <2>3. PICK S : acc.failures \in Seq(S)
    BY <2>1
  <2>4. PICK R : acc.reps \in Seq(R)
    BY <2>2 DEF IsAcc
  <2>5. HowMany(jobs, {JobOf(a)}) = one + left
    <3>1. HowMany(jobs, {JobOf(a)}) = (IF Head(jobs) \in {JobOf(a)} THEN 1 ELSE 0) + left
      BY HowManyInTail
    <3>2. Head(jobs) \in {JobOf(a)} <=> a = h
      <4>1. JobOf(h).acc = h /\ JobOf(a).acc = a
        BY DEF JobOf
      <4> QED BY <1>3, <4>1
    <3> QED BY <3>1, <3>2
  <2>6. Len(acc.reps) \in Nat /\ Len(acc.failures) \in Nat /\ left \in Nat
    BY <1>3, <2>3, <2>4, LenProperties, HowManyType
  <2>7. Len(acc.reps) + Len(acc.failures) + (one + left) = Reps
    BY <2>2, <2>5 DEF Accounted
  <2>8. /\ \E T : accs'[a].failures \in Seq(T)
        /\ Len(accs'[a].reps) + Len(accs'[a].failures) = Len(acc.reps) + Len(acc.failures) + one
    <3>1. CASE a # h
      <4>1. accs'[a] = acc
        BY <1>2, <2>1, <3>1
      <4>2. one = 0
        BY <3>1
      <4> HIDE DEF one, acc
      <4> QED BY <2>3, <2>6, <4>1, <4>2
    <3>2. CASE a = h /\ verdict = "ok"
      <4> DEFINE rep == [out |-> out, load |-> Worse(under, after), saw |-> {under, after}]
                 more == Append(acc.reps, rep)
      <4>1. new = [acc EXCEPT !.reps = more]
        BY <3>2, Zenon DEF Filed, new
      <4>2. Len(more) = Len(acc.reps) + 1
        <5> HIDE DEF rep
        <5> QED BY <2>4, OneLonger
      <4> HIDE DEF more
      <4>3. new.reps = more /\ new.failures = acc.failures
        BY <2>2, <4>1 DEF IsAcc
      <4>4. accs'[a] = new /\ one = 1
        BY <1>2, <2>1, <3>2
      <4>5. \E T : accs'[a].failures \in Seq(T)
        BY <2>3, <4>3, <4>4
      <4> DEFINE p == Len(acc.reps)
                 q == Len(acc.failures)
      <4>6. Len(accs'[a].reps) = p + 1 /\ Len(accs'[a].failures) = q
        BY <4>2, <4>3, <4>4
      <4>7. p \in Nat /\ q \in Nat
        BY <2>6
      <4> HIDE DEF p, q, one
      <4>8. Len(accs'[a].reps) + Len(accs'[a].failures) = p + q + one
        BY <4>4, <4>6, <4>7
      <4> QED BY <4>5, <4>8 DEF p, q
    <3>3. CASE a = h /\ verdict # "ok"
      <4> DEFINE more == Append(acc.failures, verdict)
      <4>1. new = [acc EXCEPT !.failures = more]
        BY <3>3, Zenon DEF Filed, new
      <4>2. Len(more) = Len(acc.failures) + 1 /\ more \in Seq(S \cup {verdict})
        BY <2>3, OneLonger
      <4> HIDE DEF more
      <4>3. new.reps = acc.reps /\ new.failures = more
        BY <2>2, <4>1 DEF IsAcc
      <4>4. accs'[a] = new /\ one = 1
        BY <1>2, <2>1, <3>3
      <4>5. \E T : accs'[a].failures \in Seq(T)
        BY <4>2, <4>3, <4>4
      <4> DEFINE p == Len(acc.reps)
                 q == Len(acc.failures)
      <4>6. Len(accs'[a].reps) = p /\ Len(accs'[a].failures) = q + 1
        BY <4>2, <4>3, <4>4
      <4>7. p \in Nat /\ q \in Nat
        BY <2>6
      <4> HIDE DEF p, q, one
      <4>8. Len(accs'[a].reps) + Len(accs'[a].failures) = p + q + one
        BY <4>4, <4>6, <4>7
      <4> QED BY <4>5, <4>8 DEF p, q
    <3> QED BY <3>1, <3>2, <3>3
  <2>9. HowMany(jobs', {JobOf(a)}) = left /\ JobOf(a)' = JobOf(a)
    BY <1>1 DEF JobOf
  <2>10. /\ Len(accs'[a].reps) + Len(accs'[a].failures) + left = Reps
    <3>1. one \in Nat
      OBVIOUS
    <3> DEFINE x == Len(accs'[a].reps) + Len(accs'[a].failures)
               p == Len(acc.reps)
               q == Len(acc.failures)
    <3>2. x = p + q + one /\ p + q + (one + left) = Reps /\ p \in Nat /\ q \in Nat /\ left \in Nat
      BY <2>6, <2>7, <2>8
    <3> HIDE DEF x, p, q, one, left
    <3>3. x + left = Reps
      BY <3>1, <3>2
    <3> QED BY <3>3 DEF x
  <2> HIDE DEF left
  <2> QED BY <2>8, <2>9, <2>10 DEF Accounted
<1> QED BY <1>1, <1>2, <1>4

-----------------------------------------------------------------------------
(* Rows. *)

\* What RowsAccountForRepetitions asks of one row.
AddsUp(row) ==
  CASE row.outcome = "ok" ->
         \/ Len(row.samples) = Reps
         \/ /\ row.metric \notin {"wall", "throughput"}
            /\ Len(row.samples) < Reps /\ row.confidence = "low"
    [] row.outcome = "skipped" -> row.samples = <<>>
    [] OTHER -> Len(row.samples) < Reps

\* A row of an account that is open, of a column its children report; or of one
\* that is not, and then it says so.
IsFullRow(row) ==
  \E a, column, skipped, doubts :
    /\ skipped \in BOOLEAN /\ row = RowOf(a[1], column, a, skipped, doubts)
    /\ a \in DOMAIN accs <=> ~skipped
    /\ ~skipped => /\ sweep = "writer" => column \in ColumnsW(a[2])
                   /\ sweep = "pvec" => column \in ColumnsP(a[1])

\* A field has no more samples than there are repetitions, and as many if every
\* repetition has it.
LEMMA SeriesOfAll ==
  ASSUME NEW acc, NEW S, acc.reps \in Seq(S), NEW field
  PROVE  /\ Len(Series(acc, field)) \in Nat /\ Len(Series(acc, field)) <= Len(acc.reps)
         /\ (\A i \in DOMAIN acc.reps : field \in acc.reps[i].out.has)
              => Len(Series(acc, field)) = Len(acc.reps)
         /\ acc.reps = <<>> => Series(acc, field) = <<>>
<1> DEFINE reps == acc.reps
           P == {r \in Range(reps) : field \in r.out.has}
           having == Sifted(reps, P)
           samples == [j \in DOMAIN having |->
             [by |-> having[j].out.by, field |-> field, left |-> having[j].out.left]]
<1>1. Series(acc, field) = samples
  BY Zenon DEF Series
<1>2. (\A i \in DOMAIN reps : field \in reps[i].out.has) => Range(reps) \subseteq P
  BY DEF Range
<1> HIDE DEF P
<1>3. having \in Seq(S)
  <2> DEFINE R == S \X S
  <2>1. Pairwise(reps, R)
    <3>1. \A j \in DOMAIN reps : reps[j] \in S
      BY LenProperties
    <3> QED BY <3>1 DEF Pairwise
  <2> HIDE DEF R, reps
  <2>2. reps \in Seq(S)
    BY DEF reps
  <2> QED BY <2>1, <2>2, SiftKeeps
<1>4. /\ Len(having) \in Nat /\ Len(having) <= Len(reps) /\ Len(reps) \in Nat
      /\ Range(reps) \subseteq P => Len(having) = Len(reps)
  <2> HIDE DEF reps
  <2>1. reps \in Seq(S)
    BY DEF reps
  <2> QED BY <2>1, SiftLength, LenProperties
<1>5. DOMAIN having = 1..Len(having)
  BY <1>3, LenProperties
<1> HIDE DEF having
<1>6. Len(samples) = Len(having)
  BY <1>4, <1>5
<1>7. reps = <<>> => samples = <<>>
  <2>1. ASSUME reps = <<>> PROVE Len(having) = 0
    BY <1>4, <2>1
  <2> QED BY <1>5, <2>1
<1> HIDE DEF reps, samples
<1>8. /\ Len(samples) \in Nat /\ Len(samples) <= Len(reps)
      /\ (\A i \in DOMAIN reps : field \in reps[i].out.has) => Len(samples) = Len(reps)
  BY <1>2, <1>4, <1>6
<1> QED BY <1>1, <1>7, <1>8 DEF reps

\* Fewer samples than the floor are a reason.
LEMMA FewIsLow ==
  ASSUME NEW name, NEW samples, NEW load, NEW doubts, Len(samples) < Reps
  PROVE  Confidence(Reasons(name, samples, load, doubts)) = "low"
<1>1. Confidence(Reasons(name, samples, load, doubts)) # "high"
  BY HighIsWithoutReason
<1> QED BY <1>1, Zenon DEF Confidence

\* A column that is a time is of a field that is one.
LEMMA TimeHasField ==
  ASSUME NEW columns, NEW column \in columns, column.metric \in {"wall", "throughput"}
  PROVE  column.field \in Times(columns)
BY DEF Times

\* An account that has no more to come adds up to its repetitions.
LEMMA FullRowAddsUp ==
  ASSUME ContestAssumption, QuietInv, AllRight, sweep \in {"writer", "pvec"}, jobs = <<>>,
         \A a \in DOMAIN accs : Accounted(a) /\ \E S : accs[a].failures \in Seq(S),
         NEW row, IsFullRow(row)
  PROVE  AddsUp(row)
<1>1. PICK a, column, skipped, doubts :
        /\ skipped \in BOOLEAN /\ row = RowOf(a[1], column, a, skipped, doubts)
        /\ a \in DOMAIN accs <=> ~skipped
        /\ ~skipped => /\ sweep = "writer" => column \in ColumnsW(a[2])
                       /\ sweep = "pvec" => column \in ColumnsP(a[1])
  BY DEF IsFullRow
<1> DEFINE acc == IF a \in DOMAIN accs THEN accs[a] ELSE Empty
           field == column.field
<1>2. /\ row.samples = Series(acc, field) /\ row.outcome = OutcomeOf(acc, skipped)
      /\ row.metric = column.metric
      /\ \E name, load : row.confidence = Confidence(Reasons(name, Series(acc, field), load, doubts))
  BY <1>1, Zenon DEF RowOf
<1>3. CASE skipped
  <2>1. acc = Empty
    BY <1>1, <1>3
  <2>2. acc.reps = <<>> /\ acc.reps \in Seq({}) /\ DOMAIN acc.reps = {}
    BY <2>1 DEF Empty
  <2> HIDE DEF acc, field
  <2>3. Series(acc, field) = <<>>
    BY <2>2, SeriesOfAll
  <2>4. OutcomeOf(acc, skipped) = "skipped"
    BY <1>3, Zenon DEF OutcomeOf
  <2>5. row.outcome = "skipped" /\ row.outcome # "ok" /\ row.samples = <<>>
    BY <1>2, <2>3, <2>4
  <2> QED BY <2>5, Zenon DEF AddsUp
<1>4. CASE ~skipped
  <2>1. a \in DOMAIN accs /\ acc = accs[a]
    BY <1>1, <1>4
  <2>2. IsAcc(acc) /\ \A i \in DOMAIN acc.reps : IsRight(a, acc.reps[i].out)
    BY <2>1 DEF QuietInv, AllRight
  <2>3. ASSUME column.metric \in {"wall", "throughput"}
        PROVE  \A i \in DOMAIN acc.reps : field \in acc.reps[i].out.has
    <3>1. /\ sweep = "writer" => field \in Times(ColumnsW(a[2]))
          /\ sweep = "pvec" => field \in Times(ColumnsP(a[1]))
      BY <1>1, <1>4, <2>3, TimeHasField
    <3> HIDE DEF acc, field
    <3> QED BY <2>2, <3>1 DEF IsRight
  <2>4. PICK R : acc.reps \in Seq(R)
    BY <2>2 DEF IsAcc
  <2>5. PICK F : acc.failures \in Seq(F)
    BY <2>1
  <2>6. Len(acc.reps) + Len(acc.failures) + 0 = Reps
    <3>1. HowMany(jobs, {JobOf(a)}) = 0
      BY HowManyOfNone
    <3> QED BY <2>1, <3>1 DEF Accounted
  <2> HIDE DEF acc, field
  <2>7. /\ Len(Series(acc, field)) \in Nat /\ Len(Series(acc, field)) <= Len(acc.reps)
        /\ column.metric \in {"wall", "throughput"} => Len(Series(acc, field)) = Len(acc.reps)
    BY <2>3, <2>4, SeriesOfAll
  <2>8. Len(acc.reps) \in Nat /\ Len(acc.failures) \in Nat /\ (acc.failures = <<>> <=> Len(acc.failures) = 0)
    BY <2>4, <2>5, LenProperties, EmptySeq
  <2>9. CASE acc.failures = <<>>
    <3>1. OutcomeOf(acc, skipped) = "ok"
      BY <1>4, <2>9, Zenon DEF OutcomeOf
    <3>2. Len(row.samples) \in Nat /\ Len(row.samples) <= Reps
          /\ (row.metric \in {"wall", "throughput"} => Len(row.samples) = Reps)
      BY <1>2, <2>6, <2>7, <2>8, <2>9
    <3>3. row.outcome = "ok" /\ row.outcome # "skipped"
      BY <1>2, <3>1
    <3>4. CASE Len(row.samples) = Reps
      BY <3>3, <3>4, Zenon DEF AddsUp
    <3>5. CASE Len(row.samples) # Reps
      <4>1. Len(row.samples) < Reps /\ row.metric \notin {"wall", "throughput"}
        <5>1. Reps \in Nat
          BY DEF ContestAssumption
        <5> QED BY <3>2, <3>5, <5>1
      <4>2. row.confidence = "low"
        BY <1>2, <4>1, FewIsLow
      <4> QED BY <3>3, <4>1, <4>2, Zenon DEF AddsUp
    <3> QED BY <3>4, <3>5
  <2>10. CASE acc.failures # <<>>
    <3>1. OutcomeOf(acc, skipped) = IF Range(acc.failures) = {"attest"} THEN "refused" ELSE "failed"
      BY <1>4, <2>10, Zenon DEF OutcomeOf
    <3>2. Len(row.samples) < Reps
      <4> DEFINE p == Len(acc.reps)
                 q == Len(acc.failures)
                 n == Len(row.samples)
      <4>1. p + q + 0 = Reps /\ p \in Nat /\ q \in Nat /\ q # 0 /\ n \in Nat /\ n <= p
        BY <1>2, <2>6, <2>7, <2>8, <2>10
      <4>2. Reps \in Nat
        BY DEF ContestAssumption
      <4> HIDE DEF p, q, n
      <4>3. n < Reps
        BY <4>1, <4>2
      <4> QED BY <4>3 DEF n
    <3>3. row.outcome # "ok" /\ row.outcome # "skipped"
      BY <1>2, <3>1
    <3> QED BY <3>2, <3>3, Zenon DEF AddsUp
  <2> QED BY <2>9, <2>10
<1> QED BY <1>3, <1>4

\* The rows of a cell of the writer sweep are of its open accounts.
LEMMA WriterRowsAreFull ==
  ASSUME WriterAssumption, sweep = "writer", \A a : a \in DOMAIN accs <=> OpenW(a), 
         NEW doubts, NEW row \in RowsW(WriterCells[cell], doubts)
  PROVE  IsFullRow(row)
<1> DEFINE c == WriterCells[cell]
           ours == Range(ContendersW) \ {<<GO>>}
           engineOf(w) == {RowOf(w, col, <<w, "engine">>, FALSE, doubts) : col \in EngineColumns}
           buildOf(w) == {RowOf(w, col, <<w, "build">>, FALSE, doubts) : col \in BuildColumns(TRUE)}
           engine == UNION {engineOf(w) : w \in ours}
           build == UNION {buildOf(w) : w \in ours}
           go == {RowOf(<<GO>>, col, << <<GO>>, "go">>, GO \notin inputs, doubts) : col \in BuildColumns(FALSE)}
<1>1. RowsW(c, doubts) = (IF IsReal(c) THEN engine ELSE {}) \cup build \cup go
  BY DEF RowsW
<1>2. "writer" # "pvec"
  OBVIOUS
<1>3. ASSUME NEW w \in ours, NEW mode \in {"engine", "build"}, mode = "engine" => IsReal(c)
      PROVE  <<w, mode>> \in DOMAIN accs
  <2> DEFINE a == <<w, mode>>
  <2>1. a \in AccountsW /\ a[2] = mode /\ mode # "go"
    BY <1>3 DEF AccountsW
  <2> HIDE DEF a
  <2>2. OpenW(a)
    BY <1>3, <2>1 DEF OpenW
  <2> QED BY <2>2 DEF a
<1>4. CASE row \in engine /\ IsReal(c)
  <2>1. PICK w \in ours : row \in engineOf(w)
    BY <1>4, Zenon
  <2>2. PICK col \in EngineColumns : row = RowOf(w, col, <<w, "engine">>, FALSE, doubts)
    BY <2>1, Zenon
  <2> DEFINE a == <<w, "engine">>
  <2>3. a \in DOMAIN accs /\ a[1] = w /\ a[2] = "engine"
    BY <1>3, <1>4
  <2> HIDE DEF a
  <2>4. col \in ColumnsW(a[2])
    BY <2>3 DEF ColumnsW
  <2>5. row = RowOf(a[1], col, a, FALSE, doubts)
    BY <2>2, <2>3 DEF a
  <2> QED BY <1>2, <2>3, <2>4, <2>5, Zenon DEF IsFullRow
<1>5. CASE row \in build
  <2>1. PICK w \in ours : row \in buildOf(w)
    BY <1>5, Zenon
  <2>2. PICK col \in BuildColumns(TRUE) : row = RowOf(w, col, <<w, "build">>, FALSE, doubts)
    BY <2>1, Zenon
  <2> DEFINE a == <<w, "build">>
  <2>3. a \in DOMAIN accs /\ a[1] = w /\ a[2] = "build"
    BY <1>3
  <2> HIDE DEF a
  <2>4. col \in ColumnsW(a[2])
    BY <2>3 DEF ColumnsW
  <2>5. row = RowOf(a[1], col, a, FALSE, doubts)
    BY <2>2, <2>3 DEF a
  <2> QED BY <1>2, <2>3, <2>4, <2>5, Zenon DEF IsFullRow
<1>6. CASE row \in go
  <2> DEFINE a == << <<GO>>, "go">>
             skipped == GO \notin inputs
  <2>1. PICK col \in BuildColumns(FALSE) : row = RowOf(<<GO>>, col, a, skipped, doubts)
    BY <1>6, Zenon
  <2>2. a[1] = <<GO>> /\ a[2] = "go" /\ a \in AccountsW
    <3>1. <<GO>> \in Range(ContendersW)
      BY GoContends
    <3> QED BY <3>1 DEF AccountsW
  <2> HIDE DEF a
  <2>3. a \in DOMAIN accs <=> ~skipped
    BY <2>2 DEF OpenW
  <2>4. col \in ColumnsW(a[2])
    BY <2>2 DEF ColumnsW
  <2>5. row = RowOf(a[1], col, a, skipped, doubts) /\ skipped \in BOOLEAN
    BY <2>1, <2>2
  <2> HIDE DEF skipped
  <2> QED BY <1>2, <2>3, <2>4, <2>5, Zenon DEF IsFullRow
<1> HIDE DEF engine, build, go
<1>7. row \in RowsW(c, doubts)
  OBVIOUS
<1> HIDE DEF c
<1> QED BY <1>1, <1>4, <1>5, <1>6, <1>7

\* Those of the pvec sweep too.
LEMMA PvecRowsAreFull ==
  ASSUME sweep = "pvec", \A a : a \in DOMAIN accs <=> OpenP(a), NEW doubts, NEW row \in RowsP(doubts)
  PROVE  IsFullRow(row)
<1> DEFINE rowsOf(who) ==
             {RowOf(who, col, <<who, "scan">>, who \in Tools \ inputs, doubts) : col \in ColumnsP(who)}
<1>1. PICK who \in Range(ALL) : row \in rowsOf(who)
  BY Zenon DEF RowsP
<1>2. PICK col \in ColumnsP(who) : row = RowOf(who, col, <<who, "scan">>, who \in Tools \ inputs, doubts)
  BY <1>1, Zenon
<1> DEFINE a == <<who, "scan">>
           skipped == who \in Tools \ inputs
<1>3. a[1] = who /\ a \in AccountsP
  BY DEF AccountsP
<1> HIDE DEF a
<1>4. a \in DOMAIN accs <=> ~skipped
  BY <1>3 DEF OpenP
<1>5. col \in ColumnsP(a[1])
  BY <1>3
<1>6. row = RowOf(a[1], col, a, skipped, doubts) /\ skipped \in BOOLEAN
  BY <1>2, <1>3 DEF a
<1>7. "writer" # "pvec"
  OBVIOUS
<1> HIDE DEF skipped
<1> QED BY <1>4, <1>5, <1>6, <1>7, Zenon DEF IsFullRow

-----------------------------------------------------------------------------
(* Steps. *)

\* Accounts whose rows are not published yet, or are of all of them.
AccountsAreKept ==
  /\ \A a \in DOMAIN accs : \E S : accs[a].failures \in Seq(S)
  /\ sweep # "engines" => \A a \in DOMAIN accs : Accounted(a)

\* Without a row there is nothing to add up.
LEMMA NothingToAddUp == ASSUME rows' = {} PROVE RowsAccountForRepetitions'
BY DEF RowsAccountForRepetitions

\* A step that leaves the accounts and what is to come of them.
LEMMA KeepsAccounts == ASSUME AccountsAreKept, UNCHANGED <<accs, jobs, sweep>> PROVE AccountsAreKept'
<1>1. \A a \in DOMAIN accs : Accounted(a) => Accounted(a)'
  BY DEF Accounted, JobOf
<1> QED BY <1>1 DEF AccountsAreKept

LEMMA AccountedInit == ASSUME WriterAssumption, PvecAssumption, Init PROVE AccountedInv
<1>1. MeasuredInv
  BY MeasuredInit
<1>2. accs = <<>> /\ rows = {} /\ stage = "prepare"
  BY DEF Init, InitW, InitP, InitE
<1>3. DOMAIN accs = {}
  BY <1>2
<1> QED BY <1>1, <1>2, <1>3 DEF AccountedInv, RowsAccountForRepetitions

\* Waiting leaves the accounts open.
LEMMA AccountedGate == ASSUME ContestAssumption, AccountedInv, Gate PROVE AccountedInv'
<1>1. MeasuredInv /\ MeasuredInv' /\ QuietInv
  BY MeasuredGate DEF AccountedInv, MeasuredInv
<1>2. PICK r \in Readings : Sleep(r) \/ Start(r)
  BY DEF Gate
<1>3. UNCHANGED <<accs, sweep, rows, jobs, inputs, cell>> /\ stage = "gate" /\ stage' \in {"gate", "child"}
  BY <1>2 DEF Sleep, Start
<1>4. RowsAccountForRepetitions'
  BY <1>1, <1>3, NothingToAddUp DEF QuietInv
<1>5. AccountsAreKept'
  BY <1>3, KeepsAccounts DEF AccountedInv, AccountsAreKept
<1>6. /\ sweep' = "writer" => \A a : a \in DOMAIN accs' <=> OpenW(a)'
      /\ sweep' = "pvec" => \A a : a \in DOMAIN accs' <=> OpenP(a)'
  BY <1>3 DEF AccountedInv, OpenW, OpenP
<1> QED BY <1>1, <1>3, <1>4, <1>5, <1>6 DEF AccountedInv, AccountsAreKept

\* The steps of the writer sweep.
LEMMA AccountedWriter ==
  ASSUME ContestAssumption, WriterAssumption, TilesAssumption, AccountedInv, NextW
  PROVE  AccountedInv'
<1>1. MeasuredInv /\ MeasuredInv' /\ QuietInv /\ AllRight /\ AccountsAreKept
  BY MeasuredWriter DEF AccountedInv, MeasuredInv, AccountsAreKept
<1>2. sweep = "writer" /\ sweep' = "writer"
  BY DEF NextW, NoTileset, PrepareW, RepetitionW, FinishW, Report, Publish
<1>3. OnCourse(WriterCells, AccountsW)
  BY <1>1, <1>2 DEF MeasuredInv
<1>4. SUFFICES /\ AccountsAreKept'
               /\ stage' = "rows" => jobs' = <<>>
               /\ stage' \in {"gate", "child", "rows"} => \A a : a \in DOMAIN accs' <=> OpenW(a)'
               /\ RowsAccountForRepetitions'
  <2>1. sweep' # "pvec"
    BY <1>2
  <2> QED BY <1>1, <2>1 DEF AccountedInv, AccountsAreKept
<1>5. CASE NoTileset
  <2>1. UNCHANGED <<accs, jobs, sweep>> /\ rows' = {} /\ stage' \in {"prepare", "done"}
    BY <1>5 DEF NoTileset
  <2> QED BY <1>1, <2>1, KeepsAccounts, NothingToAddUp
<1>6. CASE PrepareW
  <2>1. PICK go \in BOOLEAN : inputs' = (IF go THEN {GO} ELSE {}) /\ Begin(JobsW(WriterCells[cell], go))
    BY <1>6, Zenon DEF PrepareW
  <2>2. rows' = {} /\ cell' = cell
    BY <1>6 DEF PrepareW
  <2> DEFINE c == WriterCells[cell]
             schedule == JobsW(c, go)
             open == {a \in AccountsW : (a[2] = "go" => go) /\ (a[2] = "engine" => IsReal(c))}
  <2>3. schedule \in Seq(JobsOf(AccountsW))
    BY ScheduleW
  <2>4. \A a \in AccountsW : HowMany(schedule, {JobOf(a)}) = IF a \in open THEN Reps ELSE 0
    <3>1. ASSUME NEW a \in AccountsW
          PROVE  HowMany(schedule, {JobOf(a)}) = IF a \in open THEN Reps ELSE 0
      <4> HIDE DEF c
      <4>1. HowMany(schedule, {JobOf(a)}) =
              IF (a[2] = "go" => go) /\ (a[2] = "engine" => IsReal(c)) THEN Reps ELSE 0
        BY TurnsW, Zenon
      <4>2. a \in open <=> (a[2] = "go" => go) /\ (a[2] = "engine" => IsReal(c))
        OBVIOUS
      <4> HIDE DEF schedule, open
      <4> QED BY <4>1, <4>2
    <3> QED BY <3>1
  <2>5. Begin(schedule)
    BY <2>1
  <2>6. \A a : OpenW(a)' <=> a \in open
    <3>1. GO \in inputs' <=> go
      BY <2>1
    <3> QED BY <2>2, <3>1 DEF OpenW, AccountsW
  <2> HIDE DEF schedule, open
  <2>7. /\ \A a : a \in DOMAIN accs' <=> a \in AccountsW /\ a \in open
        /\ \A a \in DOMAIN accs' : Accounted(a)' /\ accs'[a].failures \in Seq({})
        /\ stage' = "rows" => jobs' = <<>>
    <3>1. SchedulesAll(schedule, AccountsW, open)
      BY <2>3, <2>4 DEF SchedulesAll
    <3> QED BY <2>5, <3>1, BeginsAccounted
  <2>8. \A a : a \in open => a \in AccountsW
    BY DEF open
  <2>9. AccountsAreKept'
    BY <2>7 DEF AccountsAreKept
  <2> QED BY <2>2, <2>6, <2>7, <2>8, <2>9, NothingToAddUp
<1>7. CASE RepetitionW
  <2>1. PICK verdict, out, after : Report(verdict, out, after)
    BY <1>7, Zenon DEF RepetitionW
  <2>2. stage = "child" /\ UNCHANGED <<inputs, cell, rows>>
    BY <2>1 DEF Report
  <2>3. jobs \in Seq(JobsOf(AccountsW)) /\ jobs # <<>>
    BY <1>3, <2>2 DEF OnCourse
  <2>4. \A a \in DOMAIN accs : Accounted(a) /\ \E S : accs[a].failures \in Seq(S)
    BY <1>1, <1>2 DEF AccountsAreKept
  <2>5. /\ DOMAIN accs' = DOMAIN accs
        /\ \A a \in DOMAIN accs' : Accounted(a)' /\ \E S : accs'[a].failures \in Seq(S)
        /\ stage' = "rows" => jobs' = <<>>
    BY <1>1, <2>1, <2>3, <2>4, ReportsAccounted
  <2>6. \A a : a \in DOMAIN accs' <=> OpenW(a)'
    BY <1>2, <2>2, <2>5 DEF AccountedInv, OpenW
  <2>7. AccountsAreKept'
    BY <2>5 DEF AccountsAreKept
  <2>8. rows' = {}
    BY <1>1, <2>2 DEF QuietInv
  <2> QED BY <2>5, <2>6, <2>7, <2>8, NothingToAddUp
<1>8. CASE FinishW
  <2>1. PICK doubts : Publish(RowsW(WriterCells[cell], doubts), Len(WriterCells))
    BY <1>8, Zenon DEF FinishW
  <2> DEFINE published == RowsW(WriterCells[cell], doubts)
  <2>2. /\ UNCHANGED <<accs, jobs, sweep>> /\ rows' = published /\ stage = "rows"
        /\ stage' \in {"prepare", "done"}
    BY <2>1 DEF Publish
  <2>3. AccountsAreKept'
    BY <1>1, <2>2, KeepsAccounts
  <2>4. jobs = <<>> /\ \A a : a \in DOMAIN accs <=> OpenW(a)
    BY <1>2, <2>2 DEF AccountedInv
  <2>5. \A a \in DOMAIN accs : Accounted(a) /\ \E S : accs[a].failures \in Seq(S)
    BY <1>1, <1>2 DEF AccountsAreKept
  <2>6. \A row \in published : AddsUp(row)
    <3>1. ASSUME NEW row \in published PROVE AddsUp(row)
      <4>1. IsFullRow(row)
        BY <1>2, <2>4, WriterRowsAreFull
      <4> QED BY <1>1, <1>2, <2>4, <2>5, <4>1, FullRowAddsUp
    <3> QED BY <3>1
  <2> HIDE DEF published
  <2>7. RowsAccountForRepetitions'
    BY <2>2, <2>6, Zenon DEF RowsAccountForRepetitions, AddsUp
  <2> QED BY <2>2, <2>3, <2>7
<1> QED BY <1>5, <1>6, <1>7, <1>8 DEF NextW

\* The steps of the pvec sweep.
LEMMA AccountedPvec ==
  ASSUME ContestAssumption, PvecAssumption, ScanAssumption, AccountedInv, NextP
  PROVE  AccountedInv'
<1>1. MeasuredInv /\ MeasuredInv' /\ QuietInv /\ AllRight /\ AccountsAreKept
  BY MeasuredPvec DEF AccountedInv, MeasuredInv, AccountsAreKept
<1>2. sweep = "pvec" /\ sweep' = "pvec"
  BY DEF NextP, PrepareP, RepetitionP, FinishP, Report, Publish
<1>3. OnCourse(ScanCells, AccountsP)
  BY <1>1, <1>2 DEF MeasuredInv
<1>4. SUFFICES /\ AccountsAreKept'
               /\ stage' = "rows" => jobs' = <<>>
               /\ stage' \in {"gate", "child", "rows"} => \A a : a \in DOMAIN accs' <=> OpenP(a)'
               /\ RowsAccountForRepetitions'
  <2>1. sweep' # "writer"
    BY <1>2
  <2> QED BY <1>1, <2>1 DEF AccountedInv, AccountsAreKept
<1>5. CASE PrepareP
  <2> DEFINE missing == Tools \ inputs'
             schedule == Walk(ALL, [who \in Range(ALL) |->
               IF who \in missing THEN <<>> ELSE <<[who |-> who, acc |-> <<who, "scan">>]>>])
             open == {a \in AccountsP : a[1] \notin missing}
  <2>1. Begin(schedule)
    BY <1>5, Zenon DEF PrepareP
  <2>2. rows' = {}
    BY <1>5 DEF PrepareP
  <2>3. schedule \in Seq(JobsOf(AccountsP))
    BY ScheduleP
  <2>4. \A a \in AccountsP : HowMany(schedule, {JobOf(a)}) = IF a \in open THEN Reps ELSE 0
    <3>1. ASSUME NEW a \in AccountsP
          PROVE  HowMany(schedule, {JobOf(a)}) = IF a \in open THEN Reps ELSE 0
      <4>1. HowMany(schedule, {JobOf(a)}) = IF a[1] \in missing THEN 0 ELSE Reps
        BY TurnsP
      <4> HIDE DEF schedule, missing
      <4>2. a \in open <=> a[1] \notin missing
        OBVIOUS
      <4> HIDE DEF open
      <4> QED BY <4>1, <4>2
    <3> QED BY <3>1
  <2> HIDE DEF schedule
  <2>5. \A a : OpenP(a)' <=> a \in open
    BY DEF OpenP, AccountsP
  <2>6. \A a : a \in open => a \in AccountsP
    OBVIOUS
  <2> HIDE DEF open
  <2>7. /\ \A a : a \in DOMAIN accs' <=> a \in AccountsP /\ a \in open
        /\ \A a \in DOMAIN accs' : Accounted(a)' /\ accs'[a].failures \in Seq({})
        /\ stage' = "rows" => jobs' = <<>>
    <3>1. SchedulesAll(schedule, AccountsP, open)
      BY <2>3, <2>4 DEF SchedulesAll
    <3> QED BY <2>1, <3>1, BeginsAccounted
  <2>8. AccountsAreKept'
    BY <2>7 DEF AccountsAreKept
  <2> QED BY <2>2, <2>5, <2>6, <2>7, <2>8, NothingToAddUp
<1>6. CASE RepetitionP
  <2>1. PICK verdict, out, after : Report(verdict, out, after)
    BY <1>6, Zenon DEF RepetitionP
  <2>2. stage = "child" /\ UNCHANGED <<inputs, cell, rows>>
    BY <2>1 DEF Report
  <2>3. jobs \in Seq(JobsOf(AccountsP)) /\ jobs # <<>>
    BY <1>3, <2>2 DEF OnCourse
  <2>4. \A a \in DOMAIN accs : Accounted(a) /\ \E S : accs[a].failures \in Seq(S)
    BY <1>1, <1>2 DEF AccountsAreKept
  <2>5. /\ DOMAIN accs' = DOMAIN accs
        /\ \A a \in DOMAIN accs' : Accounted(a)' /\ \E S : accs'[a].failures \in Seq(S)
        /\ stage' = "rows" => jobs' = <<>>
    BY <1>1, <2>1, <2>3, <2>4, ReportsAccounted
  <2>6. \A a : a \in DOMAIN accs' <=> OpenP(a)'
    BY <1>2, <2>2, <2>5 DEF AccountedInv, OpenP
  <2>7. AccountsAreKept'
    BY <2>5 DEF AccountsAreKept
  <2>8. rows' = {}
    BY <1>1, <2>2 DEF QuietInv
  <2> QED BY <2>5, <2>6, <2>7, <2>8, NothingToAddUp
<1>7. CASE FinishP
  <2>1. PICK doubts : Publish(RowsP(doubts), Len(ScanCells))
    BY <1>7, Zenon DEF FinishP
  <2> DEFINE published == RowsP(doubts)
  <2>2. /\ UNCHANGED <<accs, jobs, sweep>> /\ rows' = published /\ stage = "rows"
        /\ stage' \in {"prepare", "done"}
    BY <2>1 DEF Publish
  <2>3. AccountsAreKept'
    BY <1>1, <2>2, KeepsAccounts
  <2>4. jobs = <<>> /\ \A a : a \in DOMAIN accs <=> OpenP(a)
    BY <1>2, <2>2 DEF AccountedInv
  <2>5. \A a \in DOMAIN accs : Accounted(a) /\ \E S : accs[a].failures \in Seq(S)
    BY <1>1, <1>2 DEF AccountsAreKept
  <2>6. \A row \in published : AddsUp(row)
    <3>1. ASSUME NEW row \in published PROVE AddsUp(row)
      <4>1. IsFullRow(row)
        BY <1>2, <2>4, PvecRowsAreFull
      <4> QED BY <1>1, <1>2, <2>4, <2>5, <4>1, FullRowAddsUp
    <3> QED BY <3>1
  <2> HIDE DEF published
  <2>7. RowsAccountForRepetitions'
    BY <2>2, <2>6, Zenon DEF RowsAccountForRepetitions, AddsUp
  <2> QED BY <2>2, <2>3, <2>7
<1> QED BY <1>5, <1>6, <1>7 DEF NextP

\* The engines' accounts are of another shape: nothing is said of their rows.
LEMMA AccountedEngines == ASSUME ContestAssumption, AccountedInv, NextE PROVE AccountedInv'
<1>1. MeasuredInv /\ MeasuredInv' /\ QuietInv
  BY MeasuredEngines DEF AccountedInv, MeasuredInv
<1>2. sweep = "engines" /\ sweep' = "engines"
  BY DEF NextE, PrepareE, NoMetrics, RepetitionE, FinishE, Publish
<1>3. sweep' \notin {"writer", "pvec"} /\ RowsAccountForRepetitions'
  BY <1>2 DEF RowsAccountForRepetitions
<1>4. SUFFICES /\ \A a \in DOMAIN accs' : \E S : accs'[a].failures \in Seq(S)
               /\ stage' = "rows" => jobs' = <<>>
  BY <1>1, <1>2, <1>3 DEF AccountedInv
<1>5. \A a \in DOMAIN accs : \E S : accs[a].failures \in Seq(S)
  BY DEF AccountedInv
<1>6. CASE PrepareE
  <2>1. Begin(JobsE)
    BY <1>6 DEF PrepareE
  <2>2. (\A a \in DOMAIN accs' : accs'[a] = Empty) /\ (stage' = "rows" => jobs' = <<>>)
    BY <2>1 DEF Begin
  <2>3. Empty.failures \in Seq({})
    BY DEF Empty
  <2> QED BY <2>2, <2>3
<1>7. CASE NoMetrics
  <2>1. accs' = accs /\ (stage' = "rows" => jobs' = <<>>)
    BY <1>7 DEF NoMetrics
  <2> QED BY <1>5, <2>1
<1>8. CASE RepetitionE
  <2> DEFINE h == Head(jobs).acc
  <2>1. PICK m : accs' = [accs EXCEPT ![h] = Filed(@, "ok", m, under)]
    BY <1>8, Zenon DEF RepetitionE
  <2>2. stage' = "rows" => jobs' = <<>>
    BY <1>8 DEF RepetitionE
  <2> DEFINE new == Filed(accs[h], "ok", m, under)
  <2>3. accs' = [accs EXCEPT ![h] = new]
    BY <2>1, Zenon
  <2> HIDE DEF h, new
  <2>4. accs' = [x \in DOMAIN accs |-> IF x = h THEN new ELSE accs[x]]
    BY <1>1, <2>3 DEF QuietInv, IsMap
  <2>5. h \in DOMAIN accs => new.failures = accs[h].failures
    <3>1. ASSUME h \in DOMAIN accs PROVE IsAcc(accs[h])
      BY <1>1, <3>1 DEF QuietInv
    <3> DEFINE acc == accs[h]
               more == Append(acc.reps, [out |-> m, load |-> Worse(under, under), saw |-> {under, under}])
    <3>2. new = [acc EXCEPT !.reps = more]
      BY Zenon DEF new, Filed
    <3> HIDE DEF acc, more
    <3>3. IsAcc(acc) => new.failures = acc.failures
      BY <3>2 DEF IsAcc
    <3> QED BY <3>1, <3>3 DEF acc
  <2> QED BY <1>5, <2>2, <2>4, <2>5
<1>9. CASE FinishE
  <2>1. PICK doubts : Publish(RowsE(doubts), Len(EngineCells))
    BY <1>9, Zenon DEF FinishE
  <2>2. accs' = accs /\ stage' # "rows"
    BY <2>1 DEF Publish
  <2> QED BY <1>5, <2>2
<1> QED BY <1>6, <1>7, <1>8, <1>9 DEF NextE

\* Any step, or none.
LEMMA AccountedStep == ASSUME AccountedInv, [Next]_cvars PROVE AccountedInv'
<1>1. CASE UNCHANGED cvars
  <2>1. UNCHANGED <<sweep, tools, cell, stage, inputs, jobs, accs, waited, under, rows, faults>>
    BY <1>1 DEF cvars
  <2>2. MeasuredInv'
    BY <1>1, MeasuredStep DEF AccountedInv
  <2>3. AccountsAreKept'
    BY <2>1, KeepsAccounts DEF AccountedInv, AccountsAreKept
  <2>4. RowsAccountForRepetitions'
    BY <2>1, Zenon DEF AccountedInv, RowsAccountForRepetitions
  <2> HIDE DEF RowsAccountForRepetitions
  <2>5. \A a : (OpenW(a) <=> OpenW(a)') /\ (OpenP(a) <=> OpenP(a)')
    BY <2>1 DEF OpenW, OpenP
  <2> QED BY <2>1, <2>2, <2>3, <2>4, <2>5 DEF AccountedInv, AccountsAreKept
<1>2. CASE Next
  BY <1>2, ContestAssumption, WriterAssumption, TilesAssumption, PvecAssumption, ScanAssumption,
     AccountedGate, AccountedWriter, AccountedPvec, AccountedEngines DEF Next
<1> QED BY <1>1, <1>2

-----------------------------------------------------------------------------
\* rows_for() and child_rep(): whatever fails, and in whatever order contenders
\* take their turns, every row of the writer and the pvec sweep answers for each
\* declared repetition: none and it was skipped; if it is ok, all of them, or
\* fewer of a figure its children could not always take, never of a time, and
\* then at low confidence; otherwise fewer, and it says that some failed or were
\* refused.
THEOREM RowsAddUpToRepetitions == Spec => []RowsAccountForRepetitions
<1>1. ASSUME AccountedInv, [Next]_cvars PROVE AccountedInv'
  BY <1>1, AccountedStep
<1>2. AccountedInv => RowsAccountForRepetitions
  BY DEF AccountedInv
<1>3. Init => AccountedInv
  BY WriterAssumption, PvecAssumption, AccountedInit
<1> QED BY <1>1, <1>2, <1>3, PTL DEF Spec

-----------------------------------------------------------------------------
(* The addresses of a scattered build. *)

\* A number that an odd multiplier makes a multiple of a power of two is one.
LEMMA OddKeepsPowers ==
  ASSUME NEW p, NEW K \in Nat, p[0] = 1, NEW m \in Nat,
         \A k \in 0..K : p[k] \in Nat \ {0} /\ (k # K => p[k + 1] = 2 * p[k])
  PROVE  \A x \in 0..(p[K] - 1), q \in Int : x * (2 * m + 1) = q * p[K] => x = 0
<1> DEFINE M == 2 * m + 1
           T == {k \in Nat : k <= K => \A x \in 0..(p[k] - 1), q \in Int : x * M = q * p[k] => x = 0}
<1>1. 0 \in T
  <2>1. \A x \in 0..(p[0] - 1) : x = 0
    OBVIOUS
  <2> QED BY <2>1
<1>2. ASSUME NEW k \in Nat, k \in T PROVE k + 1 \in T
  <2>1. SUFFICES ASSUME k + 1 <= K, NEW x \in 0..(p[k + 1] - 1), NEW q \in Int, x * M = q * p[k + 1]
                 PROVE  x = 0
    OBVIOUS
  <2> DEFINE t == p[k]
  <2>2. t \in Nat \ {0} /\ p[k + 1] = 2 * t /\ k \in 0..K /\ k <= K
    <3>1. k \in 0..K /\ k # K
      BY <2>1
    <3> QED BY <3>1
  <2> DEFINE d == q * t
             u == x * m
  <2> HIDE DEF t
  <2>3. x \in 0..(2 * t - 1) /\ x \in Nat /\ d \in Int /\ u \in Int
    BY <2>2
  <2>4. q * p[k + 1] = 2 * d
    BY <2>2
  <2>5. x * M = 2 * u + x
    BY <2>3
  <2> HIDE DEF d, u, M
  <2>6. 2 * u + x = 2 * d
    BY <2>1, <2>4, <2>5
  <2> DEFINE y == d - u
  <2>7. x = 2 * y /\ y \in 0..(t - 1)
    BY <2>2, <2>3, <2>6
  <2>8. y \in Int
    BY <2>3
  <2> HIDE DEF y
  <2>9. y * M = q * t
    <3>1. u = (2 * y) * m
      BY <2>7 DEF u
    <3>2. y * M = (2 * y) * m + y
      BY <2>8 DEF M
    <3>3. d = u + y
      BY <2>3 DEF y
    <3> QED BY <3>1, <3>2, <3>3 DEF d
  <2>10. y = 0
    BY <1>2, <2>2, <2>7, <2>9 DEF t
  <2> QED BY <2>7, <2>10
<1> HIDE DEF T
<1>3. K \in T
  BY <1>1, <1>2, NatInd
<1> QED BY <1>3 DEF T

LEMMA StepIsNat == ASSUME NEW i \in Nat, NEW M \in Nat, NEW s \in Nat PROVE i * M + s \in Nat
OBVIOUS

\* Multiplied by such a number, what is apart by less than the modulus stays apart.
LEMMA ScatterTells ==
  ASSUME NEW n \in Nat \ {0}, NEW M \in Nat, NEW s \in Nat,
         \A x \in 0..(n - 1), q \in Int : x * M = q * n => x = 0
  PROVE  \A i, j \in 0..(n - 1) : (i * M + s) % n = (j * M + s) % n => i = j
<1>1. ASSUME NEW i \in 0..(n - 1), NEW j \in 0..(n - 1), j <= i, (i * M + s) % n = (j * M + s) % n
      PROVE  i = j
  <2> DEFINE a == i * M + s
             b == j * M + s
             qa == a \div n
             qb == b \div n
             r == a % n
  <2>1. a \in Nat /\ b \in Nat
    OBVIOUS
  <2>2. a - b = (i - j) * M
    OBVIOUS
  <2>3. r = b % n
    BY <1>1
  <2> HIDE DEF a, b
  <2>4. a = n * qa + r /\ b = n * qb + r /\ qa \in Int /\ qb \in Int /\ r \in Int
    BY <2>1, <2>3, DivMod
  <2> HIDE DEF qa, qb, r
  <2>5. a - b = (qa - qb) * n
    BY <2>4
  <2> DEFINE x == i - j
             q == qa - qb
  <2>6. x \in 0..(n - 1) /\ q \in Int
    BY <1>1, <2>4
  <2> HIDE DEF x, q
  <2>7. x * M = q * n
    BY <2>2, <2>5 DEF x, q
  <2>8. x = 0
    BY <2>6, <2>7
  <2> QED BY <2>8 DEF x
<1>2. ASSUME NEW i \in 0..(n - 1), NEW j \in 0..(n - 1), (i * M + s) % n = (j * M + s) % n
      PROVE  i = j
  <2>1. CASE j <= i
    BY <1>1, <1>2, <2>1
  <2>2. CASE i <= j
    BY <1>1, <1>2, <2>2
  <2> QED BY <2>1, <2>2
<1> QED BY <1>2

IsCell(c) == \E i \in DOMAIN WriterCells : c = WriterCells[i]

\* The tiles of a synthetic cell are a power of two, and so is a side of them.
LEMMA PowersAre ==
  ASSUME WriterAssumption, TilesAssumption, NEW c, IsCell(c), ~IsReal(c)
  PROVE  /\ c[2] \in Nat /\ Tiles(c) \in Nat \ {0} /\ 2 ^ c[2] \in Nat \ {0}
         /\ \A x \in 0..(Tiles(c) - 1), q \in Int : x * Multiplier = q * Tiles(c) => x = 0
<1> DEFINE z == c[2]
           K == 2 * z
           p == [k \in 0..(K + 1) |-> 2 ^ k]
<1>1. z \in Nat
  <2>1. WriterCells \in Seq({"real", "synthetic"} \X Nat)
    BY DEF WriterAssumption
  <2>2. c \in {"real", "synthetic"} \X Nat
    BY <2>1, LenProperties DEF IsCell
  <2> QED BY <2>2
<1>2. K \in Nat /\ z \in 0..K
  BY <1>1
<1>3. 2 ^ 0 = 1 /\ \A k \in 0..K : 2 ^ (k + 1) = 2 * 2 ^ k
  BY DEF TilesAssumption, IsCell
<1>4. Tiles(c) = 2 ^ K
  BY DEF Tiles
<1> HIDE DEF K
<1>5. \A k \in 0..(K + 1) : p[k] = 2 ^ k
  OBVIOUS
<1> HIDE DEF p
<1>6. p[0] = 1 /\ \A k \in 0..K : p[k + 1] = 2 * p[k]
  <2>1. 0 \in 0..(K + 1)
    BY <1>2
  <2>2. ASSUME NEW k \in 0..K PROVE p[k + 1] = 2 * p[k]
    <3>1. k \in 0..(K + 1) /\ k + 1 \in 0..(K + 1)
      BY <1>2
    <3>2. p[k] = 2 ^ k /\ p[k + 1] = 2 ^ (k + 1) /\ 2 ^ (k + 1) = 2 * 2 ^ k
      BY <1>3, <1>5, <3>1
    <3> DEFINE a == 2 ^ k
               b == 2 ^ (k + 1)
    <3>3. p[k] = a /\ p[k + 1] = b /\ b = 2 * a
      BY <3>2
    <3> HIDE DEF a, b
    <3> QED BY <3>3
  <2> QED BY <1>3, <1>5, <2>1, <2>2
<1> DEFINE T == {k \in Nat : k <= K => p[k] \in Nat \ {0}}
<1>7. 0 \in T
  BY <1>6
<1>8. ASSUME NEW k \in Nat, k \in T PROVE k + 1 \in T
  <2>1. CASE k + 1 <= K
    <3>1. k \in 0..K
      BY <1>2, <2>1
    <3>2. p[k] \in Nat \ {0} /\ p[k + 1] = 2 * p[k]
      BY <1>6, <1>8, <3>1
    <3> QED BY <3>2
  <2>2. CASE ~(k + 1 <= K)
    BY <2>2
  <2> QED BY <2>1, <2>2
<1> HIDE DEF T
<1>9. Nat \subseteq T
  BY <1>7, <1>8, NatInd
<1>10. \A k \in 0..K : p[k] \in Nat \ {0}
  <2>1. \A k \in 0..K : k \in Nat /\ k <= K
    BY <1>2
  <2> QED BY <1>9, <2>1 DEF T
<1>11. \A x \in 0..(p[K] - 1), q \in Int : x * (2 * 15576 + 1) = q * p[K] => x = 0
  <2>1. \A k \in 0..K : p[k] \in Nat \ {0} /\ (k # K => p[k + 1] = 2 * p[k])
    BY <1>6, <1>10
  <2>2. 15576 \in Nat
    OBVIOUS
  <2> DEFINE m == 15576
  <2>3. m \in Nat
    BY <2>2
  <2> HIDE DEF m
  <2>4. \A x \in 0..(p[K] - 1), q \in Int : x * (2 * m + 1) = q * p[K] => x = 0
    BY <1>2, <1>6, <2>1, <2>3, OddKeepsPowers
  <2> QED BY <2>4 DEF m
<1>12. Multiplier = 2 * 15576 + 1
  BY DEF Multiplier
<1>13. p[K] = Tiles(c) /\ p[z] = 2 ^ z
  <2>1. K \in 0..(K + 1) /\ z \in 0..(K + 1)
    BY <1>2
  <2> QED BY <1>4, <1>5, <2>1
<1>14. Tiles(c) \in Nat \ {0} /\ 2 ^ z \in Nat \ {0}
  <2>1. K \in 0..K
    BY <1>2
  <2> QED BY <1>2, <1>10, <1>13, <2>1
<1> QED BY <1>1, <1>11, <1>12, <1>13, <1>14

\* build_rep(): a scattered build feeds every tile of its cell.
LEMMA FedIsAll ==
  ASSUME WriterAssumption, TilesAssumption, NEW c, IsCell(c), NEW v
  PROVE  Fed(v, c) = Tiles(c)
<1>1. CASE IsReal(c)
  BY <1>1 DEF Fed
<1>2. CASE ~IsReal(c)
  <2> DEFINE n == Tiles(c)
             z == c[2]
             t == 2 ^ z
             I == 0..(n - 1)
             s == Seed % n
             j(i) == IF v.ordered THEN i ELSE (i * Multiplier + s) % n
             f == [i \in I |-> Address(v, z, i)]
             T == {Address(v, z, i) : i \in I}
  <2>1. n \in Nat \ {0} /\ t \in Nat \ {0}
        /\ \A x \in 0..(n - 1), q \in Int : x * Multiplier = q * n => x = 0
    BY <1>2, PowersAre
  <2>2. s \in Nat
    <3> HIDE DEF n
    <3>1. Seed \in Nat
      BY DEF Seed
    <3>2. Seed % n \in 0..(n - 1)
      BY <2>1, <3>1, DivMod
    <3> QED BY <2>1, <3>2
  <2>3. n = 2 ^ (2 * z)
    BY <1>2 DEF Tiles
  <2>4. \A i \in I : f[i] = <<j(i) % t, j(i) \div t>>
    BY <2>3, Zenon DEF Address
  <2>5. Fed(v, c) = Cardinality(T)
    BY <1>2 DEF Fed
  <2>6. f \in [I -> T] /\ \A y \in T : \E i \in I : f[i] = y
    OBVIOUS
  <2> HIDE DEF f, T, t, n, s
  <2>7. ASSUME NEW i \in I, NEW k \in I, f[i] = f[k] PROVE i = k
    <3>1. j(i) \in Nat /\ j(k) \in Nat
      <4>1. i \in Nat /\ k \in Nat /\ Multiplier \in Nat
        BY <2>1 DEF Multiplier
      <4>2. i * Multiplier + s \in Nat /\ k * Multiplier + s \in Nat
        BY <2>2, <4>1, StepIsNat
      <4> HIDE DEF I
      <4>3. (i * Multiplier + s) % n \in 0..(n - 1) /\ (k * Multiplier + s) % n \in 0..(n - 1)
        BY <2>1, <4>2, DivMod
      <4>4. (i * Multiplier + s) % n \in Nat /\ (k * Multiplier + s) % n \in Nat
        BY <4>3
      <4> QED BY <4>1, <4>4, Zenon
    <3>2. <<j(i) % t, j(i) \div t>> = <<j(k) % t, j(k) \div t>>
      BY <2>4, <2>7
    <3> DEFINE a == j(i)
               b == j(k)
    <3>3. a \in Nat /\ b \in Nat /\ a % t = b % t /\ a \div t = b \div t
      BY <3>1, <3>2
    <3>4. a = b
      <4> HIDE DEF a, b
      <4>1. a = t * (a \div t) + (a % t) /\ b = t * (b \div t) + (b % t)
        BY <2>1, <3>3, DivMod
      <4> QED BY <3>3, <4>1
    <3>5. CASE v.ordered
      BY <3>4, <3>5
    <3>6. CASE ~v.ordered
      <4>1. (i * Multiplier + s) % n = (k * Multiplier + s) % n
        BY <3>4, <3>6, Zenon
      <4>2. Multiplier \in Nat
        BY DEF Multiplier
      <4> QED BY <2>1, <2>2, <4>1, <4>2, ScatterTells
    <3> QED BY <3>5, <3>6
  <2>8. f \in Injection(I, T)
    BY <2>6, <2>7, Fun_IsInj
  <2>9. f \in Surjection(I, T)
    BY <2>6, Fun_IsSurj
  <2>10. IsFiniteSet(I) /\ Cardinality(I) = n
    <3>1. 0 \in Int /\ n - 1 \in Int /\ n \in Nat \ {0}
      BY <2>1
    <3>2. IsFiniteSet(0..(n - 1)) /\ Cardinality(0..(n - 1)) = IF 0 > n - 1 THEN 0 ELSE n - 1 - 0 + 1
      BY <3>1, FS_Interval
    <3> QED BY <3>1, <3>2
  <2> HIDE DEF I
  <2>11. Cardinality(T) = Cardinality(I)
    BY <2>8, <2>9, <2>10, FS_Surjection
  <2> QED BY <2>5, <2>10, <2>11 DEF n
<1> QED BY <1>1, <1>2

\* An answer is about the archive that was fed.
LEMMA AnswerFed ==
  ASSUME NEW by, NEW always, NEW optional, NEW fed, NEW reply \in Answers(by, always, optional, fed)
  PROVE  reply.archive.fed = fed
<1>1. PICK has \in Figures(always, optional), a \in Archives(fed), f \in {"same", "other"} :
        reply = Answer(by, has, has = always \cup UNION optional, a, f)
  BY DEF Answers
<1>2. a.fed = fed
  BY DEF Archives
<1> DEFINE whole == has = always \cup UNION optional
<1> HIDE DEF whole
<1>3. Answer(by, has, whole, a, f).archive = a
  BY DEF Answer
<1> QED BY <1>1, <1>2, <1>3 DEF whole

\* attest_archive(): a child that is in order is believed, whatever it was asked
\* to build.
LEMMA OrderIsBelieved ==
  ASSUME WriterAssumption, TilesAssumption, NEW c, IsCell(c), NEW label, NEW mode, NEW root,
         NEW reply \in RunChild(label, c, mode, root), InOrder(reply)
  PROVE  Verdict(reply, c) = "ok"
<1> DEFINE v == IF mode = "go" THEN Null ELSE ParseVariant(label)
           d == ParseCell(c)
<1>1. reply.verdict = "ok" /\ reply.archive.lost = 0 /\ reply.archive.wrong = "no"
  BY Zenon DEF InOrder
<1>2. d = c /\ reply \in OneRep(mode, c, v, root)
  <2>1. d \in {c, Null}
    BY Zenon DEF ParseCell
  <2>2. RunChild(label, c, mode, root) =
          IF d = Null \/ (v = Null /\ mode # "go") THEN {Dead} ELSE {Dead} \cup OneRep(mode, d, v, root)
    BY Zenon DEF RunChild
  <2>3. reply # Dead
    BY <1>1 DEF Dead
  <2> HIDE DEF d, v
  <2> QED BY <2>1, <2>2, <2>3
<1> HIDE DEF v, d
<1>3. \A by, always, optional, fed : reply \in Answers(by, always, optional, fed) => reply.archive.fed = fed
  BY AnswerFed, Zenon
<1>4. \/ reply \in GoChild(c) \/ reply \in EngineRep(v, c) \/ reply \in BuildRep(v, c, root)
  <2>1. CASE mode = "go"
    BY <1>2, <2>1, Zenon DEF OneRep
  <2>2. CASE mode = "engine" /\ v # Null /\ IsReal(c)
    <3>1. mode # "go" /\ mode # "build"
      BY <2>2
    <3> QED BY <1>2, <2>2, <3>1, Zenon DEF OneRep
  <2>3. CASE mode = "build" /\ v # Null
    <3>1. mode # "go" /\ mode # "engine"
      BY <2>3
    <3> QED BY <1>2, <2>3, <3>1, Zenon DEF OneRep
  <2>4. CASE mode # "go" /\ ~(mode = "engine" /\ v # Null /\ IsReal(c)) /\ ~(mode = "build" /\ v # Null)
    BY <1>2, <2>4, Zenon DEF OneRep
  <2> QED BY <2>1, <2>2, <2>3, <2>4
<1>5. reply.archive.fed = Tiles(c)
  <2>1. CASE reply \in GoChild(c)
    BY <1>3, <2>1, Zenon DEF GoChild
  <2>2. CASE reply \in EngineRep(v, c)
    BY <1>3, <2>2, Zenon DEF EngineRep
  <2>3. CASE reply \in BuildRep(v, c, root)
    <3>1. reply \in Answers(Options(v), {"build_ms"},
                           {{"heap_peak"}, {"output_bytes"}, {"peak_rss"}}, Fed(v, c))
      BY <2>3, Zenon DEF BuildRep
    <3>2. reply.archive.fed = Fed(v, c)
      BY <1>3, <3>1, Zenon
    <3> QED BY <3>2, FedIsAll
  <2> QED BY <1>4, <2>1, <2>2, <2>3
<1>6. AttestArchive(reply.archive, c)
  <2>1. Tiles(c) \in Nat
    BY DEF TilesAssumption, IsCell
  <2> DEFINE n == Tiles(c)
  <2>2. reply.archive.fed - reply.archive.lost = n
    <3>1. n - 0 = n
      BY <2>1
    <3> QED BY <1>1, <1>5, <3>1
  <2>3. reply.archive.wrong # "sampled"
    BY <1>1
  <2> QED BY <2>2, <2>3 DEF AttestArchive
<1>7. "ok" # "ran"
  OBVIOUS
<1> QED BY <1>1, <1>6, <1>7, Zenon DEF Verdict

-----------------------------------------------------------------------------
(* The pyramids of libvips. *)

\* Halved once more, what was within an edge is within half of it.
LEMMA HalvedIsHalf ==
  ASSUME NEW a \in Nat \ {0}, NEW t \in Nat \ {0}, NEW h \in Nat \ {0}, DivCeil(a, t) <= 2 * h
  PROVE  DivCeil(a, 2 * t) \in 1..h
<1> DEFINE b == a + t - 1
           d == a + 2 * t - 1
           w == 2 * t
           q == b \div t
           p == d \div w
<1>1. b \in Nat /\ d \in Nat /\ w \in Nat \ {0}
  OBVIOUS
<1>2. DivCeil(a, t) = q /\ DivCeil(a, 2 * t) = p
  BY DEF DivCeil
<1>3. b = t * q + (b % t) /\ q \in Int /\ b % t \in 0..(t - 1)
  <2> HIDE DEF b
  <2> QED BY <1>1, DivMod
<1>4. d = w * p + (d % w) /\ p \in Int /\ d % w \in 0..(w - 1)
  <2> HIDE DEF d, w
  <2> QED BY <1>1, DivMod
<1>5. q <= 2 * h
  BY <1>2
<1> HIDE DEF q, p
<1> DEFINE x == t * q
           y == t * p
           r == b % t
           u == d % w
           z == t * h
<1>6. x <= 2 * z
  <2>1. t * q <= t * (2 * h)
    BY <1>3, <1>5
  <2>2. t * (2 * h) = 2 * (t * h)
    OBVIOUS
  <2> QED BY <2>1, <2>2
<1>7. w * p = 2 * y
  BY <1>4
<1>8. x \in Int /\ y \in Int /\ z \in Int
  BY <1>3, <1>4
<1>9. b = x + r /\ r \in 0..(t - 1) /\ d = 2 * y + u /\ u \in 0..(w - 1)
  BY <1>3, <1>4, <1>7
<1> HIDE DEF x, y, z, r, u
<1>10. a <= 2 * z /\ 2 * y < a + 2 * t /\ 0 < a /\ a <= 2 * y
  BY <1>6, <1>8, <1>9
<1>11. y < z + t /\ y > 0
  BY <1>8, <1>10
<1>12. p <= h
  <2>1. CASE p >= h + 1
    <3>1. t * p >= t * (h + 1)
      BY <1>4, <2>1
    <3>2. t * (h + 1) = t * h + t
      OBVIOUS
    <3>3. y >= z + t
      BY <3>1, <3>2 DEF y, z
    <3> QED BY <1>8, <1>11, <3>3
  <2> QED BY <1>4, <2>1
<1>13. p >= 1
  <2>1. CASE p <= 0
    <3>1. t * p <= 0
      BY <1>4, <2>1
    <3> QED BY <1>8, <1>11, <3>1 DEF y
  <2> QED BY <1>4, <2>1
<1> QED BY <1>2, <1>4, <1>12, <1>13

\* What is within an edge is one tile.
LEMMA OneTile == ASSUME NEW e \in Nat \ {0}, NEW s \in 1..e PROVE DivCeil(s, e) = 1
<1> DEFINE b == s + e - 1
           q == b \div e
<1>1. b \in Nat /\ b >= e /\ b < e + e
  OBVIOUS
<1>2. b = e * q + (b % e) /\ q \in Int /\ b % e \in 0..(e - 1)
  <2> HIDE DEF b
  <2> QED BY <1>1, DivMod
<1>3. DivCeil(s, e) = q
  BY DEF DivCeil
<1> HIDE DEF b, q
<1> DEFINE r == b % e
           x == e * q
<1>4. b = x + r /\ r \in 0..(e - 1) /\ x \in Int
  BY <1>2
<1>5. q >= 1
  <2>1. CASE q <= 0
    <3>1. e * q <= 0
      BY <1>2, <2>1
    <3> HIDE DEF r
    <3> QED BY <1>1, <1>4, <3>1
  <2> QED BY <1>2, <2>1
<1>6. q < 2
  <2>1. CASE q >= 2
    <3>1. e * q >= e * 2 /\ e * 2 = e + e
      BY <1>2, <2>1
    <3>2. x >= e + e
      BY <3>1
    <3> HIDE DEF r, x
    <3> QED BY <1>1, <1>4, <3>2
  <2> QED BY <1>2, <2>1
<1> QED BY <1>2, <1>3, <1>5, <1>6

\* The next level has its tiles to add.
LEMMA LevelAdds ==
  ASSUME NEW c, NEW k \in 1..MaxLevel
  PROVE  TilesTo(c, k) = TilesAt(c, k) + TilesTo(c, k - 1)
<1> DEFINE u == CHOOSE u : IsSum(u, c)
<1>1. IsSum(u, c)
  BY SumExists
<1>2. \A l : TilesTo(c, l) = u[l]
  BY DEF TilesTo, IsSum
<1> HIDE DEF u
<1>3. \A l \in 0..MaxLevel : u[l] = TilesAt(c, l) + (IF l = 0 THEN 0 ELSE u[l - 1])
  BY <1>1 DEF IsSum
<1>4. k \in 0..MaxLevel /\ k # 0
  BY DEF MaxLevel
<1>5. u[k] = TilesAt(c, k) + u[k - 1]
  BY <1>3, <1>4
<1> QED BY <1>2, <1>5

\* The side of a scan is a number of pixels, and no side is longer than the longer.
LEMMA SidesAre ==
  ASSUME PvecAssumption, ScanAssumption, NEW c, IsScan(c), NEW k \in 0..MaxLevel
  PROVE  /\ c[1] \in Nat \ {0} /\ c[2] \in Nat \ {0} /\ 2 ^ k \in Nat \ {0}
         /\ \A x \in 1..2 : /\ Side(c, k)[x] = DivCeil(c[x], 2 ^ k) /\ Side(c, k)[x] \in Int
                            /\ Side(c, k)[x] <= Longer(c, k)
<1>1. c[1] \in Nat \ {0} /\ c[2] \in Nat \ {0}
  <2>1. ScanCells \in Seq((Nat \ {0}) \X (Nat \ {0}))
    BY DEF PvecAssumption
  <2>2. c \in (Nat \ {0}) \X (Nat \ {0})
    BY <2>1, LenProperties DEF IsScan
  <2> QED BY <2>2
<1>2. 2 ^ k \in Nat \ {0}
  BY DEF ScanAssumption
<1>3. ASSUME NEW x \in 1..2 PROVE Side(c, k)[x] = DivCeil(c[x], 2 ^ k) /\ Side(c, k)[x] \in Int
  <2>1. Side(c, k)[x] = DivCeil(c[x], 2 ^ k)
    BY DEF Side
  <2> DEFINE t == 2 ^ k
             a == c[x]
             b == a + t - 1
  <2>2. a \in Nat \ {0} /\ t \in Nat \ {0}
    BY <1>1, <1>2
  <2> HIDE DEF t, a
  <2>3. b \in Nat /\ DivCeil(a, t) = b \div t
    BY <2>2 DEF DivCeil
  <2> HIDE DEF b
  <2>4. b \div t \in Int
    BY <2>2, <2>3, DivMod
  <2> QED BY <2>1, <2>3, <2>4 DEF t, a
<1> DEFINE s == Side(c, k)
<1>4. Longer(c, k) = IF s[1] >= s[2] THEN s[1] ELSE s[2]
  BY Zenon DEF Longer
<1>5. s[1] \in Int /\ s[2] \in Int
  <2>1. 1 \in 1..2 /\ 2 \in 1..2
    OBVIOUS
  <2> QED BY <1>3, <2>1
<1> HIDE DEF s
<1>6. s[1] <= Longer(c, k) /\ s[2] <= Longer(c, k)
  BY <1>4, <1>5
<1>7. \A x \in 1..2 : s[x] <= Longer(c, k)
  <2>1. \A x \in 1..2 : x = 1 \/ x = 2
    OBVIOUS
  <2> QED BY <1>6, <2>1
<1> QED BY <1>1, <1>2, <1>3, <1>7 DEF s

\* vips_tiles(): libvips cuts as many tiles as it is believed to.
LEMMA VipsCutsAsMany ==
  ASSUME PvecAssumption, ScanAssumption, NEW c, IsScan(c)
  PROVE  DzSave(c) = VipsTiles(c)
<1> DEFINE half == TILE_EDGE \div 2
           a == FirstWithin(c, TILE_EDGE)
           b == FirstWithin(c, half)
<1>1. half \in Nat \ {0} /\ TILE_EDGE \in Nat \ {0} /\ TILE_EDGE = 2 * half /\ half <= TILE_EDGE
  BY DEF PvecAssumption
<1>2. a \in 0..MaxLevel /\ Longer(c, a) <= TILE_EDGE /\ \A k \in 0..MaxLevel : Longer(c, k) <= TILE_EDGE => a <= k
  BY <1>1, FirstIs
<1>3. b \in 0..MaxLevel /\ Longer(c, b) <= half /\ \A k \in 0..MaxLevel : Longer(c, k) <= half => b <= k
  BY <1>1, FirstIs
<1>4. Levels(c) - 1 = a
  <2>1. Levels(c) = a + 1
    BY Zenon DEF Levels
  <2>2. a \in Int
    <3>1. a \in 0..MaxLevel
      BY <1>2
    <3> HIDE DEF a
    <3> QED BY <3>1 DEF MaxLevel
  <2> HIDE DEF a
  <2> QED BY <2>1, <2>2
<1>5. ScanTiles(c) = TilesTo(c, a) /\ VipsTiles(c) = TilesTo(c, b)
  BY <1>4 DEF ScanTiles, VipsTiles
<1>6. DzSave(c) = TilesTo(c, a) + (IF Longer(c, a) > half THEN 1 ELSE 0)
  BY <1>4, <1>5 DEF DzSave
<1> HIDE DEF half, a, b
<1>7. a \in Nat /\ b \in Nat /\ TilesTo(c, a) \in Nat
  <2>1. TilesTo(c, a) \in Nat
    BY <1>2, LevelsAdd
  <2>2. \A k \in 0..MaxLevel : k \in Nat
    BY DEF MaxLevel
  <2> QED BY <1>2, <1>3, <2>1, <2>2
<1>8. \A k \in 0..MaxLevel : Longer(c, k) \in Nat
  BY DEF ScanAssumption, IsScan
<1>9. a <= b
  <2>1. Longer(c, b) <= TILE_EDGE
    BY <1>1, <1>3, <1>8
  <2> QED BY <1>2, <1>3, <2>1
<1>10. CASE Longer(c, a) <= half
  <2>1. b <= a
    BY <1>2, <1>3, <1>10
  <2>2. b = a
    BY <1>7, <1>9, <2>1
  <2>3. ~(Longer(c, a) > half)
    BY <1>1, <1>2, <1>8, <1>10
  <2> QED BY <1>5, <1>6, <1>7, <2>2, <2>3
<1>11. CASE ~(Longer(c, a) <= half)
  <2> DEFINE n == a + 1
  <2>1. a # b
    BY <1>3, <1>11
  <2>2. n \in 0..MaxLevel /\ n \in 1..MaxLevel /\ n - 1 = a /\ n <= b
    <3>1. a \in 0..MaxLevel /\ b \in 0..MaxLevel /\ a <= b /\ a # b
      BY <1>2, <1>3, <1>9, <2>1
    <3> QED BY <3>1 DEF MaxLevel
  <2> DEFINE t == 2 ^ a
             w == 2 ^ n
  <2>3. t \in Nat \ {0} /\ w = 2 * t
    BY <1>2 DEF ScanAssumption
  <2> HIDE DEF n
  <2>4. ASSUME NEW x \in 1..2 PROVE Side(c, n)[x] \in 1..half
    <3>1. c[x] \in Nat \ {0} /\ Side(c, a)[x] = DivCeil(c[x], t) /\ Side(c, n)[x] = DivCeil(c[x], w)
          /\ Side(c, a)[x] \in Int /\ Side(c, a)[x] <= Longer(c, a)
      <4>1. c[1] \in Nat \ {0} /\ c[2] \in Nat \ {0}
        BY <1>2, SidesAre
      <4>2. c[x] \in Nat \ {0}
        <5>1. x = 1 \/ x = 2
          OBVIOUS
        <5> QED BY <4>1, <5>1
      <4>3. Side(c, a)[x] = DivCeil(c[x], 2 ^ a) /\ Side(c, a)[x] \in Int /\ Side(c, a)[x] <= Longer(c, a)
        BY <1>2, SidesAre
      <4>4. Side(c, n)[x] = DivCeil(c[x], 2 ^ n)
        BY <2>2, SidesAre
      <4> QED BY <4>2, <4>3, <4>4
    <3>2. DivCeil(c[x], t) <= 2 * half
      <4>1. Longer(c, a) \in Nat /\ Longer(c, a) <= 2 * half
        BY <1>1, <1>2, <1>8
      <4> HIDE DEF t, w
      <4> QED BY <1>1, <3>1, <4>1
    <3> HIDE DEF t, w
    <3>3. DivCeil(c[x], 2 * t) \in 1..half
      BY <1>1, <2>3, <3>1, <3>2, HalvedIsHalf
    <3> QED BY <2>3, <3>1, <3>3
  <2> HIDE DEF t, w
  <2>5. Side(c, n)[1] \in 1..half /\ Side(c, n)[2] \in 1..half
    <3>1. 1 \in 1..2 /\ 2 \in 1..2
      OBVIOUS
    <3> QED BY <2>4, <3>1
  <2>6. Longer(c, n) <= half
    <3> DEFINE s == Side(c, n)
    <3>1. Longer(c, n) = IF s[1] >= s[2] THEN s[1] ELSE s[2]
      BY Zenon DEF Longer
    <3>2. s[1] <= half /\ s[2] <= half
      BY <1>1, <2>5
    <3> HIDE DEF s
    <3> QED BY <3>1, <3>2
  <2>7. b = n
    <3>1. b <= n
      BY <1>3, <2>2, <2>6
    <3> QED BY <1>7, <2>2, <3>1
  <2>8. TilesAt(c, n) = 1
    <3>1. Side(c, n)[1] \in 1..TILE_EDGE /\ Side(c, n)[2] \in 1..TILE_EDGE
      <4> DEFINE p == Side(c, n)[1]
                 q == Side(c, n)[2]
      <4>1. p \in 1..half /\ q \in 1..half
        BY <2>5
      <4> HIDE DEF p, q
      <4>2. p \in 1..TILE_EDGE /\ q \in 1..TILE_EDGE
        BY <1>1, <4>1
      <4> QED BY <4>2 DEF p, q
    <3>2. DivCeil(Side(c, n)[1], TILE_EDGE) = 1 /\ DivCeil(Side(c, n)[2], TILE_EDGE) = 1
      BY <1>1, <3>1, OneTile
    <3>3. TilesAt(c, n) = 1 * 1
      BY <3>2, Zenon DEF TilesAt
    <3> QED BY <3>3
  <2>9. TilesTo(c, n) = TilesAt(c, n) + TilesTo(c, a)
    BY <2>2, LevelAdds
  <2>10. Longer(c, a) > half
    BY <1>1, <1>2, <1>8, <1>11
  <2> QED BY <1>5, <1>6, <1>7, <2>7, <2>8, <2>9, <2>10
<1> QED BY <1>10, <1>11

\* What is in order is believed, where there is a program to read it back.
LEMMA OrderIsBelievedP ==
  ASSUME PvecAssumption, ScanAssumption, NEW c, IsScan(c), NEW who \in Range(ALL),
         NEW reply \in RunChildP(who, c), InOrder(reply)
  PROVE  Attest(who, c, reply.archive, TRUE)
<1> DEFINE n == Holds(who, c)
           a == reply.archive
<1>1. reply \in OneRepP(who, c)
  BY DEF RunChildP, InOrder
<1>2. a.fed = n
  BY <1>1 DEF OneRepP, ArtefactsP
<1>3. a.lost = 0 /\ a.wrong # "size" /\ a.wrong # "sampled"
  BY DEF InOrder
<1>4. who \in {"pmtiles", "pvec", "gdal-cog", "libvips-zip"}
  BY DEF ALL, Range
<1>5. Levels(c) \in Int /\ ScanTiles(c) \in Int /\ VipsTiles(c) \in Int /\ DzSave(c) = VipsTiles(c)
  BY VipsCutsNoMore, VipsCutsAsMany
<1> HIDE DEF a, n
<1>6. \A m \in Int : a.fed = m => a.fed - a.lost = m
  BY <1>3
<1>7. CASE who \in {"pmtiles", "pvec"}
  <2>1. n = ScanTiles(c)
    BY <1>7 DEF n, Holds
  <2>2. a.fed - a.lost = ScanTiles(c)
    BY <1>2, <1>5, <1>6, <2>1
  <2>3. Attest(who, c, a, TRUE)
    BY <1>3, <1>7, <2>2 DEF Attest
  <2> QED BY <2>3 DEF a
<1>8. CASE who = "gdal-cog"
  <2>1. n = Levels(c) - 1
    BY <1>8 DEF n, Holds
  <2>2. a.fed - a.lost = Levels(c) - 1
    BY <1>2, <1>5, <1>6, <2>1
  <2>3. Attest(who, c, a, TRUE)
    BY <1>3, <1>8, <2>2 DEF Attest
  <2> QED BY <2>3 DEF a
<1>9. CASE who = "libvips-zip"
  <2>1. n = DzSave(c)
    BY <1>9 DEF n, Holds
  <2>2. a.fed - a.lost = VipsTiles(c)
    BY <1>2, <1>5, <1>6, <2>1
  <2>3. Attest(who, c, a, TRUE)
    BY <1>3, <1>9, <2>2 DEF Attest
  <2> QED BY <2>3 DEF a
<1> QED BY <1>4, <1>7, <1>8, <1>9

-----------------------------------------------------------------------------
(* Whole rows. *)

\* What HealthyIsWhole asks of one row, of which accounts there are.
IsWhole(row, open) ==
  \/ row.outcome = "ok" /\ row.attested = TRUE /\ row.reasons \subseteq {"cov", "timer"}
  \/ row.outcome = "skipped" /\ row.from \notin open

\* Nothing failed, and every repetition was filed under an idle machine.
IsIdle(acc) == acc.failures = <<>> /\ \A i \in DOMAIN acc.reps : acc.reps[i].load = 0

\* The fields of an account's rows, and that every repetition has them all.
Wanted(a) ==
  CASE sweep = "writer" -> FieldsOf(ColumnsW(a[2]))
    [] sweep = "pvec" -> FieldsOf(ColumnsP(a[1]))
    [] OTHER -> {}

HaveAll == \A a \in DOMAIN accs : \A i \in DOMAIN accs[a].reps : Wanted(a) \subseteq accs[a].reps[i].out.has

LEMMA WorstOfIdle ==
  ASSUME ContestAssumption, NEW acc, IsIdle(acc), NEW S, acc.reps \in Seq(S), acc.reps # <<>>
  PROVE  WorstLoad({acc.reps[i].load : i \in DOMAIN acc.reps}) = 0
<1> DEFINE loads == {acc.reps[i].load : i \in DOMAIN acc.reps}
<1>1. Null # 0
  BY DEF ContestAssumption
<1>2. 1 \in DOMAIN acc.reps
  <2>1. Len(acc.reps) \in Nat /\ DOMAIN acc.reps = 1..Len(acc.reps)
    BY LenProperties
  <2>2. Len(acc.reps) # 0
    BY EmptySeq
  <2> QED BY <2>1, <2>2
<1>3. loads = {0}
  BY <1>2 DEF IsIdle
<1> HIDE DEF loads
<1>4. loads \ {Null} = {0}
  BY <1>1, <1>3
<1>5. Max({0}) = 0
  BY DEF Max
<1> QED BY <1>4, <1>5 DEF WorstLoad, loads

\* Of a row of as many samples as repetitions under an idle machine, only what the
\* samples' values are can be held against it.
LEMMA IdleIsSound ==
  ASSUME ContestAssumption, NEW name, NEW samples, Len(samples) = Reps, NEW doubts
  PROVE  Reasons(name, samples, 0, doubts) \subseteq {"cov", "timer"}
<1> DEFINE few == IF Len(samples) < Reps THEN {"reps"} ELSE {}
           loaded == IF 0 = Null \/ 0 >= 2 THEN {"load"} ELSE {}
           cov == IF Len(samples) > 1 /\ name \o <<"cov">> \in doubts THEN {"cov"} ELSE {}
           timer == IF samples # <<>> /\ name[3] = "wall" /\ name \o <<"timer">> \in doubts
                    THEN {"timer"} ELSE {}
<1>1. Null # 0 /\ Reps \in Nat
  BY DEF ContestAssumption
<1>2. few = {} /\ loaded = {}
  BY <1>1
<1>3. cov \subseteq {"cov"} /\ timer \subseteq {"timer"}
  OBVIOUS
<1>4. Reasons(name, samples, 0, doubts) = few \cup loaded \cup cov \cup timer
  BY Zenon DEF Reasons
<1> HIDE DEF few, loaded, cov, timer
<1> QED BY <1>2, <1>3, <1>4

\* A row of an idle account that has all its repetitions.
LEMMA IdleRowIsWhole ==
  ASSUME ContestAssumption, QuietInv, AllRight, sweep \in {"writer", "pvec"}, jobs = <<>>,
         \A a \in DOMAIN accs : Accounted(a) /\ IsIdle(accs[a]), HaveAll,
         NEW row, IsFullRow(row)
  PROVE  IsWhole(row, DOMAIN accs)
<1>1. PICK a, column, skipped, doubts :
        /\ skipped \in BOOLEAN /\ row = RowOf(a[1], column, a, skipped, doubts)
        /\ a \in DOMAIN accs <=> ~skipped
        /\ ~skipped => /\ sweep = "writer" => column \in ColumnsW(a[2])
                       /\ sweep = "pvec" => column \in ColumnsP(a[1])
  BY DEF IsFullRow
<1> DEFINE acc == IF a \in DOMAIN accs THEN accs[a] ELSE Empty
           field == column.field
           load == WorstLoad({acc.reps[i].load : i \in DOMAIN acc.reps})
<1>2. /\ row.samples = Series(acc, field) /\ row.outcome = OutcomeOf(acc, skipped) /\ row.from = a
      /\ \E name : row.reasons = Reasons(name, row.samples, load, doubts)
      /\ row.outcome = "ok" => row.attested = TRUE
  BY <1>1, Zenon DEF RowOf
<1>3. CASE skipped
  <2>1. OutcomeOf(acc, skipped) = "skipped"
    BY <1>3, Zenon DEF OutcomeOf
  <2> QED BY <1>1, <1>2, <1>3, <2>1 DEF IsWhole
<1>4. CASE ~skipped
  <2>1. a \in DOMAIN accs /\ acc = accs[a]
    BY <1>1, <1>4
  <2>2. IsAcc(acc) /\ IsIdle(acc) /\ \A i \in DOMAIN acc.reps : Wanted(a) \subseteq acc.reps[i].out.has
    BY <2>1 DEF QuietInv, HaveAll
  <2>3. \A i \in DOMAIN acc.reps : field \in acc.reps[i].out.has
    <3>1. \A columns : column \in columns => field \in FieldsOf(columns)
      BY DEF FieldsOf
    <3>2. field \in Wanted(a)
      <4> HIDE DEF field, acc
      <4>1. CASE sweep = "writer"
        BY <1>1, <1>4, <3>1, <4>1 DEF Wanted
      <4>2. CASE sweep = "pvec"
        BY <1>1, <1>4, <3>1, <4>2 DEF Wanted
      <4> QED BY <4>1, <4>2
    <3> HIDE DEF field, acc
    <3> QED BY <2>2, <3>2
  <2>4. PICK R : acc.reps \in Seq(R)
    BY <2>2 DEF IsAcc
  <2>5. acc.failures = <<>>
    BY <2>2 DEF IsIdle
  <2>6. Len(acc.reps) = Reps
    <3>1. HowMany(jobs, {JobOf(a)}) = 0
      BY HowManyOfNone
    <3>2. Len(acc.reps) + 0 + 0 = Reps
      BY <2>1, <2>5, <3>1 DEF Accounted
    <3>3. Len(acc.reps) \in Nat
      BY <2>4, LenProperties
    <3> QED BY <3>2, <3>3
  <2> HIDE DEF acc, field
  <2>7. acc.reps # <<>>
    BY <2>4, <2>6, EmptySeq DEF ContestAssumption
  <2>8. load = 0
    BY <2>2, <2>4, <2>7, WorstOfIdle
  <2>9. Len(row.samples) = Reps
    BY <1>2, <2>3, <2>4, <2>6, SeriesOfAll
  <2> HIDE DEF load
  <2>10. row.reasons \subseteq {"cov", "timer"}
    BY <1>2, <2>8, <2>9, IdleIsSound
  <2>11. OutcomeOf(acc, skipped) = "ok"
    BY <1>4, <2>5, Zenon DEF OutcomeOf
  <2> QED BY <1>2, <2>10, <2>11 DEF IsWhole
<1> QED BY <1>3, <1>4

-----------------------------------------------------------------------------
(* The engines. *)

\* What an engine that did its work measures of a cell of n tiles.
IsPlanned(out, n) ==
  /\ out.left = [tiles |-> n, grid |-> "planned", walked |-> TRUE]
  /\ out.fact = [tiles |-> n, bytes |-> "same"]
  /\ out.has = METRICS

AllPlanned(reps, n) == \A i \in DOMAIN reps : IsPlanned(reps[i].out, n)

\* The respects a child is not in order in are at most four.
LEMMA AmissCounts == ASSUME NEW m, NEW n PROVE Amiss(m, n) \in Nat
<1> DEFINE amiss(d) ==
             CASE d = 1 -> m.left.grid # "planned"
               [] d = 2 -> m.fact.tiles # n
               [] d = 3 -> m.fact.bytes # "same"
               [] d = 4 -> m.has # Columns(IF m.fact.tiles = 0 THEN {"tiles"} ELSE {})
           D == {d \in 1..4 : amiss(d)}
<1>1. Amiss(m, n) = Cardinality(D)
  BY Zenon DEF Amiss
<1> HIDE DEF amiss
<1>2. IsFiniteSet(D)
  <2>1. IsFiniteSet(1..4)
    <3>1. 1 \in Int /\ 4 \in Int
      OBVIOUS
    <3> QED BY <3>1, FS_Interval
  <2>2. D \subseteq 1..4
    OBVIOUS
  <2> HIDE DEF D
  <2> QED BY <2>1, <2>2, FS_Subset
<1> HIDE DEF D
<1> QED BY <1>1, <1>2, FS_CardinalityType

\* A child that is not amiss did its work.
LEMMA NothingAmiss ==
  ASSUME EnginesAssumption, NEW e, NEW n \in Nat \ {0}, NEW m \in Metrics(e, n), Amiss(m, n) = 0
  PROVE  IsPlanned(m, n)
<1> DEFINE amiss(d) ==
             CASE d = 1 -> m.left.grid # "planned"
               [] d = 2 -> m.fact.tiles # n
               [] d = 3 -> m.fact.bytes # "same"
               [] d = 4 -> m.has # Columns(IF m.fact.tiles = 0 THEN {"tiles"} ELSE {})
           D == {d \in 1..4 : amiss(d)}
<1>1. Cardinality(D) = 0
  BY Zenon DEF Amiss
<1> HIDE DEF amiss
<1>2. IsFiniteSet(D)
  <2>1. IsFiniteSet(1..4)
    <3>1. 1 \in Int /\ 4 \in Int
      OBVIOUS
    <3> QED BY <3>1, FS_Interval
  <2>2. D \in SUBSET (1..4)
    OBVIOUS
  <2> HIDE DEF D
  <2> QED BY <2>1, <2>2, FS_Subset
<1>3. D = {}
  BY <1>1, <1>2, FS_EmptySet
<1>4. \A d \in 1..4 : ~amiss(d)
  BY <1>3
<1>5. ~amiss(1) /\ ~amiss(2) /\ ~amiss(3) /\ ~amiss(4)
  BY <1>4
<1>6. m.left.grid = "planned"
  BY <1>5 DEF amiss
<1>7. m.fact.tiles = n
  BY <1>5 DEF amiss
<1>8. m.fact.bytes = "same"
  BY <1>5 DEF amiss
<1>9. m.has = Columns(IF m.fact.tiles = 0 THEN {"tiles"} ELSE {})
  BY <1>5 DEF amiss
<1>10. m.has = METRICS
  <2>1. m.fact.tiles # 0
    BY <1>7
  <2> QED BY <1>9, <2>1, Zenon DEF METRICS
<1>11. PICK k \in {0, n - 1, n}, g \in {"planned", "other", "none"}, b \in {"same", "other", Null},
            zero \in {{}, {"secs"}, {"rss"}} :
         m = [by |-> e, has |-> Columns((IF k = 0 THEN {"tiles"} ELSE {}) \cup zero),
              fact |-> [tiles |-> k, bytes |-> b],
              left |-> [tiles |-> k, grid |-> g, walked |-> g # "none" /\ b # Null]]
  BY DEF Metrics
<1>12. m.fact = [tiles |-> k, bytes |-> b] /\ m.left = [tiles |-> k, grid |-> g, walked |-> g # "none" /\ b # Null]
  BY <1>11
<1>13. k = n /\ g = "planned" /\ b = "same"
  BY <1>6, <1>7, <1>8, <1>12
<1>14. Null # "same"
  BY DEF EnginesAssumption
<1>15. m.fact = [tiles |-> n, bytes |-> "same"] /\ m.left = [tiles |-> n, grid |-> "planned", walked |-> TRUE]
  <2>1. (g # "none" /\ b # Null) = TRUE
    BY <1>13, <1>14
  <2> QED BY <1>12, <1>13, <2>1
<1> QED BY <1>10, <1>15 DEF IsPlanned

\* What all values are is what they agree on.
LEMMA AgreedIs ==
  ASSUME NEW values, NEW x, 1 \in DOMAIN values, \A i \in DOMAIN values : values[i] = x
  PROVE  Agreed(values) = x
<1>1. values # <<>>
  OBVIOUS
<1> QED BY <1>1 DEF Agreed

\* An engine that did its work every time.
LEMMA PlannedAgrees ==
  ASSUME EnginesAssumption, NEW e, NEW n,
         1 \in DOMAIN accs[<<e, "timed">>].reps, AllPlanned(accs[<<e, "timed">>].reps, n)
  PROVE  Walked(e) /\ Grid(e) = "planned" /\ TilesOf(e) = n
<1> DEFINE reps == accs[<<e, "timed">>].reps
           L == Left(e)
           g == [i \in DOMAIN L |-> IF L[i].grid = "none" THEN Null ELSE L[i].grid]
           t == [i \in DOMAIN L |-> L[i].tiles]
<1>1. L = [i \in DOMAIN reps |-> reps[i].out.left]
  BY Zenon DEF Left
<1>2. Grid(e) = Agreed(g) /\ TilesOf(e) = Agreed(t) /\ (Walked(e) <=> L # <<>> /\ \A i \in DOMAIN L : L[i].walked)
  BY Zenon DEF Grid, TilesOf, Walked
<1>3. \A i \in DOMAIN reps : reps[i].out.left = [tiles |-> n, grid |-> "planned", walked |-> TRUE]
  BY DEF AllPlanned, IsPlanned
<1>4. 1 \in DOMAIN reps
  OBVIOUS
<1> HIDE DEF L, reps
<1>5. 1 \in DOMAIN L /\ \A i \in DOMAIN L : L[i].grid = "planned" /\ L[i].tiles = n /\ L[i].walked
  BY <1>1, <1>3, <1>4
<1>6. L # <<>>
  BY <1>5
<1>7. 1 \in DOMAIN g /\ \A i \in DOMAIN g : g[i] = "planned"
  BY <1>5
<1>8. 1 \in DOMAIN t /\ \A i \in DOMAIN t : t[i] = n
  BY <1>5
<1> HIDE DEF g, t
<1> QED BY <1>2, <1>5, <1>6, <1>7, <1>8, AgreedIs

\* The timed repetitions of a cell of n tiles that went well.
WentWell(e, n) ==
  /\ <<e, "timed">> \in DOMAIN accs
  /\ Len(accs[<<e, "timed">>].reps) = Reps /\ AllPlanned(accs[<<e, "timed">>].reps, n)

\* attest_group(): engines that all did their work attest one another.
LEMMA EnginesAgree ==
  ASSUME ContestAssumption, EnginesAssumption, QuietInv, NEW n \in Nat,
         \A e \in Range(ENGINES) : WentWell(e, n),
         NEW e \in Range(ENGINES)
  PROVE  IsAttested(e) = TRUE
<1>1. Null # "planned" /\ Null # n
  BY DEF EnginesAssumption, ContestAssumption
<1>2. ASSUME NEW x \in Range(ENGINES)
      PROVE  /\ x \in Measured /\ Walked(x) /\ Grid(x) = "planned" /\ TilesOf(x) = n
  <2> DEFINE a == <<x, "timed">>
             reps == accs[a].reps
  <2>1. a \in DOMAIN accs /\ Len(reps) = Reps /\ AllPlanned(reps, n)
    BY DEF WentWell
  <2>2. IsAcc(accs[a])
    BY <2>1 DEF QuietInv
  <2>3. PICK S : reps \in Seq(S)
    BY <2>2 DEF IsAcc
  <2> HIDE DEF reps
  <2>4. 1 \in DOMAIN reps
    <3>1. DOMAIN reps = 1..Len(reps) /\ Len(reps) \in Nat \ {0}
      BY <2>1, <2>3, LenProperties DEF ContestAssumption
    <3> QED BY <3>1
  <2>5. reps # <<>>
    BY <2>4
  <2>6. x \in Measured
    BY <2>1, <2>5 DEF Measured, reps
  <2> QED BY <2>1, <2>4, <2>6, PlannedAgrees DEF reps
<1>3. \E o \in Range(ENGINES) : o # e
  <2>1. IsInjective(ENGINES) /\ Len(ENGINES) > 1 /\ ENGINES \in Seq(Range(ENGINES))
    BY DEF EnginesAssumption
  <2>2. 1 \in DOMAIN ENGINES /\ 2 \in DOMAIN ENGINES
    BY <2>1, LenProperties
  <2>3. ENGINES[1] # ENGINES[2]
    BY <2>1, <2>2 DEF IsInjective
  <2>4. ENGINES[1] \in Range(ENGINES) /\ ENGINES[2] \in Range(ENGINES)
    BY <2>2 DEF Range
  <2> QED BY <2>3, <2>4
<1>4. PICK o \in Range(ENGINES) : o # e
  BY <1>3
<1>5. o \in Measured \ {e}
  BY <1>2, <1>4
<1>6. Sibling(e)
  BY <1>1, <1>2, <1>5 DEF Sibling
<1>7. Walked(e) /\ Reproduced(e) /\ Grid(e) # Null
  BY <1>1, <1>2 DEF Reproduced
<1> QED BY <1>6, <1>7, Zenon DEF IsAttested

\* And their rows are whole.
LEMMA PlannedRowIsWhole ==
  ASSUME ContestAssumption, EnginesAssumption, QuietInv, NEW n \in Nat, under = 0,
         \A e \in Range(ENGINES) : WentWell(e, n),
         NEW e \in Measured, NEW metric \in METRICS, NEW doubts
  PROVE  IsWhole(RowE(e, metric, doubts), DOMAIN accs)
<1> DEFINE acc == accs[<<e, "timed">>]
           reps == acc.reps
           samples == Series(acc, metric)
           facts == [i \in DOMAIN reps |-> reps[i].out.fact]
           row == RowE(e, metric, doubts)
           name == <<e, "pyramid", metric>>
<1>1. e \in Range(ENGINES) /\ <<e, "timed">> \in DOMAIN accs
  BY DEF Measured
<1>2. Len(reps) = Reps /\ AllPlanned(reps, n) /\ IsAcc(acc)
  BY <1>1 DEF WentWell, QuietInv
<1>3. PICK S : reps \in Seq(S)
  BY <1>2 DEF IsAcc
<1>4. row.reasons = Reasons(name, samples, under, doubts) /\ row.attested = IsAttested(e)
      /\ row.outcome = (IF Agreed(facts) = Null THEN "refused" ELSE "ok")
  BY Zenon DEF RowE
<1>5. IsAttested(e) = TRUE
  BY <1>1, EnginesAgree
<1> HIDE DEF row, name
<1>6. \A i \in DOMAIN reps : reps[i].out.fact = [tiles |-> n, bytes |-> "same"] /\ metric \in reps[i].out.has
  BY <1>2 DEF AllPlanned, IsPlanned
<1> HIDE DEF acc
<1>7. Len(samples) = Reps
  BY <1>2, <1>3, <1>6, SeriesOfAll
<1> HIDE DEF samples, reps
<1>8. 1 \in DOMAIN reps
  <2>1. DOMAIN reps = 1..Len(reps) /\ Len(reps) \in Nat \ {0}
    BY <1>2, <1>3, LenProperties DEF ContestAssumption
  <2> QED BY <2>1
<1> DEFINE fact == [tiles |-> n, bytes |-> "same"]
<1>9. 1 \in DOMAIN facts /\ \A i \in DOMAIN facts : facts[i] = fact
  BY <1>6, <1>8
<1>10. fact # Null
  <2>1. fact \in [tiles : Nat, bytes : {"same"}]
    OBVIOUS
  <2> QED BY <2>1 DEF EnginesAssumption
<1> HIDE DEF facts, fact
<1>11. Agreed(facts) # Null
  BY <1>9, <1>10, AgreedIs
<1>12. row.outcome = "ok" /\ row.attested = TRUE
  BY <1>4, <1>5, <1>11
<1>13. row.reasons \subseteq {"cov", "timer"}
  BY <1>4, <1>7, IdleIsSound
<1> QED BY <1>12, <1>13 DEF IsWhole, row

AccountsE == Range(ENGINES) \X {"discarded", "timed"}

\* What the discarded passes are not counted for, and the walk is.
LEMMA TurnsE ==
  ASSUME ContestAssumption, EnginesAssumption
  PROVE  /\ JobsE \in Seq(JobsOf(AccountsE))
         /\ \A e \in Range(ENGINES) : HowMany(JobsE, {JobOf(<<e, "timed">>)}) = Reps
<1> DEFINE G == JobsOf(AccountsE)
           n == Len(ENGINES)
           pass == [k \in DOMAIN ENGINES |-> [who |-> ENGINES[k], acc |-> <<ENGINES[k], "discarded">>]]
           passes == [w \in 1..WarmUps |-> pass]
           first == FlattenSeq(passes)
           jobsOf == [e \in Range(ENGINES) |-> <<[who |-> e, acc |-> <<e, "timed">>]>>]
           timed == Walk(ENGINES, jobsOf)
<1>1. JobsE = first \o timed
  BY Zenon DEF JobsE
<1>2. n \in Nat \ {0} /\ DOMAIN ENGINES = 1..n /\ WarmUps \in Nat
      /\ \A i, j \in 1..n : ENGINES[i] = ENGINES[j] => i = j
  <2>1. ENGINES \in Seq(Range(ENGINES)) /\ Len(ENGINES) > 1 /\ IsInjective(ENGINES) /\ WarmUps \in Nat
    BY DEF EnginesAssumption
  <2>2. DOMAIN ENGINES = 1..n /\ n \in Nat /\ n # 0
    BY <2>1, LenProperties
  <2>3. \A i, j \in DOMAIN ENGINES : ENGINES[i] = ENGINES[j] => i = j
    BY <2>1 DEF IsInjective
  <2> QED BY <2>1, <2>2, <2>3
<1>3. ASSUME NEW e \in Range(ENGINES), NEW kind \in {"discarded", "timed"}
      PROVE  [who |-> e, acc |-> <<e, kind>>] \in G /\ [who |-> e, acc |-> <<e, kind>>] = JobOf(<<e, kind>>)
  <2> DEFINE p == <<e, kind>>
  <2>1. p \in AccountsE /\ p[1] = e
    BY DEF AccountsE
  <2>2. JobOf(p) = [who |-> e, acc |-> p]
    BY <2>1 DEF JobOf
  <2>3. [who |-> p[1], acc |-> p] \in G
    BY <2>1 DEF JobsOf
  <2> HIDE DEF p
  <2>4. [who |-> e, acc |-> p] \in G
    BY <2>1, <2>3
  <2> QED BY <2>2, <2>4 DEF p
<1> HIDE DEF G
<1>4. pass \in Seq(G) /\ DOMAIN pass = 1..n /\ \A k \in 1..n : \E e \in Range(ENGINES) : pass[k] = JobOf(<<e, "discarded">>)
  <2>1. \A k \in DOMAIN ENGINES : ENGINES[k] \in Range(ENGINES)
    BY DEF Range
  <2>2. \A k \in DOMAIN ENGINES : pass[k] = [who |-> ENGINES[k], acc |-> <<ENGINES[k], "discarded">>]
    OBVIOUS
  <2>3. DOMAIN pass = 1..n
    BY <1>2
  <2>4. pass = [k \in 1..n |-> pass[k]]
    BY <2>3
  <2> HIDE DEF pass, n
  <2>5. ASSUME NEW k \in 1..n
        PROVE  pass[k] \in G /\ \E e \in Range(ENGINES) : pass[k] = JobOf(<<e, "discarded">>)
    <3> DEFINE e == ENGINES[k]
    <3>1. e \in Range(ENGINES) /\ pass[k] = [who |-> e, acc |-> <<e, "discarded">>]
      BY <1>2, <2>1, <2>2
    <3> HIDE DEF e
    <3> DEFINE j == [who |-> e, acc |-> <<e, "discarded">>]
    <3>2. j \in G /\ j = JobOf(<<e, "discarded">>)
      BY <1>3, <3>1
    <3> HIDE DEF j
    <3>3. pass[k] = j
      BY <3>1 DEF j
    <3> QED BY <3>1, <3>2, <3>3
  <2>6. pass \in [1..n -> G]
    BY <2>4, <2>5
  <2>7. pass \in Seq(G)
    BY <1>2, <2>6, SeqDef
  <2> QED BY <2>3, <2>5, <2>7
<1>5. \A e \in Range(ENGINES) : HowMany(pass, {JobOf(<<e, "timed">>)}) = 0
  <2>1. ASSUME NEW e \in Range(ENGINES) PROVE HowMany(pass, {JobOf(<<e, "timed">>)}) = 0
    <3> HIDE DEF pass
    <3>1. \A d : JobOf(<<d, "discarded">>) # JobOf(<<e, "timed">>)
      <4>1. \A a : JobOf(a).acc = a
        BY DEF JobOf
      <4>2. \A d : <<d, "discarded">> # <<e, "timed">>
        OBVIOUS
      <4> QED BY <4>1, <4>2
    <3>2. Places(pass, {JobOf(<<e, "timed">>)}) = {}
      BY <1>4, <3>1 DEF Places
    <3> QED BY <3>2, FS_EmptySet DEF HowMany
  <2> QED BY <2>1
<1>6. Len(passes) = WarmUps /\ \A w \in 1..WarmUps : passes[w] = pass
  BY <1>2
<1>7. WarmUps = 0 => passes = <<>>
  OBVIOUS
<1> HIDE DEF pass, passes
<1>8. first \in Seq(G)
  <2>1. Len(passes) \in Nat /\ \A i \in 1..Len(passes) : passes[i] \in Seq(G)
    BY <1>2, <1>4, <1>6
  <2> QED BY <1>6, <1>7, <2>1, FlatIsSeq
<1>9. ASSUME NEW e \in Range(ENGINES) PROVE HowMany(first, {JobOf(<<e, "timed">>)}) = 0
  <2> DEFINE P == {JobOf(<<e, "timed">>)}
  <2>1. \A i \in 1..WarmUps : HowMany(passes[i], P) = 0
    BY <1>5, <1>6
  <2> HIDE DEF P
  <2>2. CASE WarmUps = 0
    <3>1. first = <<>>
      BY <1>7, <2>2 DEF FlattenSeq
    <3> QED BY <3>1, HowManyOfNone
  <2>3. CASE WarmUps # 0
    <3>1. WarmUps \in Nat \ {0}
      BY <1>2, <2>3
    <3>2. IsPieces(passes, WarmUps, G)
      BY <1>4, <1>6 DEF IsPieces
    <3> DEFINE K == 0
    <3>3. K \in {0, 1} /\ \A i \in 1..WarmUps : HowMany(passes[i], P) = K
      BY <2>1
    <3>4. K # 1
      OBVIOUS
    <3> HIDE DEF K
    <3>5. HowMany(FlattenSeq(passes), P) = IF K = 1 THEN WarmUps ELSE 0
      BY <3>1, <3>2, <3>3, OnceEachLap
    <3> QED BY <3>4, <3>5 DEF P
  <2> QED BY <2>2, <2>3 DEF P
<1>10. \A e \in Range(ENGINES) : jobsOf[e] = <<JobOf(<<e, "timed">>)>> /\ jobsOf[e] \in Seq(G)
  <2>1. ASSUME NEW e \in Range(ENGINES) PROVE jobsOf[e] = <<JobOf(<<e, "timed">>)>> /\ jobsOf[e] \in Seq(G)
    <3>1. jobsOf[e] = <<[who |-> e, acc |-> <<e, "timed">>]>>
      OBVIOUS
    <3>2. [who |-> e, acc |-> <<e, "timed">>] = JobOf(<<e, "timed">>) /\ JobOf(<<e, "timed">>) \in G
      BY <1>3
    <3> DEFINE j == JobOf(<<e, "timed">>)
    <3>3. jobsOf[e] = <<j>> /\ j \in G
      BY <3>1, <3>2
    <3> HIDE DEF j, jobsOf
    <3>4. jobsOf[e] = <<j>> /\ jobsOf[e] \in Seq(G)
      BY <3>3
    <3> QED BY <3>4 DEF j
  <2> HIDE DEF jobsOf
  <2> QED BY <2>1
<1> HIDE DEF jobsOf
<1>11. timed \in Seq(G)
  <2> DEFINE g == ENGINES
  <2>1. Len(g) \in Nat \ {0} /\ DOMAIN g = 1..Len(g) /\ \A w \in Range(g) : jobsOf[w] \in Seq(G)
    BY <1>2, <1>10
  <2> HIDE DEF g
  <2>2. Walk(g, jobsOf) \in Seq(G)
    BY <2>1, WalkIsOfTurns
  <2> QED BY <2>2 DEF g
<1>12. ASSUME NEW e \in Range(ENGINES) PROVE HowMany(timed, {JobOf(<<e, "timed">>)}) = Reps
  <2> DEFINE P == {JobOf(<<e, "timed">>)}
             g == ENGINES
             K == 1
  <2>1. \A w \in Range(ENGINES) : HowMany(jobsOf[w], P) = IF w = e THEN 1 ELSE 0
    <3>1. ASSUME NEW w \in Range(ENGINES) PROVE HowMany(jobsOf[w], P) = IF w = e THEN 1 ELSE 0
      <4>1. HowMany(<<JobOf(<<w, "timed">>)>>, P) = IF <<w, "timed">> = <<e, "timed">> THEN 1 ELSE 0
        BY JobsDiffer
      <4>2. <<w, "timed">> = <<e, "timed">> <=> w = e
        OBVIOUS
      <4> HIDE DEF P
      <4> QED BY <1>10, <4>1, <4>2
    <3> QED BY <3>1
  <2>2. K \in {0, 1} /\ HowMany(jobsOf[e], P) = K /\ K = 1
    BY <2>1
  <2> HIDE DEF K, P
  <2>3. TakesTurns(g, jobsOf, G, P, e, K)
    BY <1>2, <1>10, <2>1, <2>2 DEF TakesTurns
  <2> HIDE DEF g
  <2>4. HowMany(Walk(g, jobsOf), P) = IF K = 1 THEN Reps ELSE 0
    BY <2>3, EveryoneHasTurns
  <2> QED BY <2>2, <2>4 DEF g, P
<1> HIDE DEF first, timed
<1>13. \A e \in Range(ENGINES) : HowMany(first \o timed, {JobOf(<<e, "timed">>)}) = Reps
  <2>1. ASSUME NEW e \in Range(ENGINES) PROVE HowMany(first \o timed, {JobOf(<<e, "timed">>)}) = Reps
    <3> DEFINE P == {JobOf(<<e, "timed">>)}
    <3>1. HowMany(first, P) = 0 /\ HowMany(timed, P) = Reps
      BY <1>9, <1>12
    <3> HIDE DEF P
    <3>2. HowMany(first \o timed, P) = HowMany(first, P) + HowMany(timed, P)
      BY <1>8, <1>11, HowManyBehind
    <3>3. 0 + Reps = Reps
      BY DEF ContestAssumption
    <3> QED BY <3>1, <3>2, <3>3 DEF P
  <2> QED BY <2>1
<1> QED BY <1>1, <1>8, <1>11, <1>13, ConcatProperties DEF G

-----------------------------------------------------------------------------
(* A sweep in which nothing was spent. *)

\* The timed repetitions of an engine, filed and to come.
Counted(e) ==
  /\ <<e, "timed">> \in DOMAIN accs
  /\ Len(accs[<<e, "timed">>].reps) + HowMany(jobs, {JobOf(<<e, "timed">>)}) = Reps

GoesWell ==
  /\ under = 0
  /\ \A a \in DOMAIN accs : AllPlanned(accs[a].reps, EngineCells[cell])
  /\ \A e \in Range(ENGINES) : Counted(e)

Healthy ==
  /\ stage = "child" => under = 0
  /\ \A a \in DOMAIN accs : IsIdle(accs[a])
  /\ HaveAll
  /\ sweep = "engines" /\ stage \in {"gate", "rows"} => GoesWell
  /\ \A row \in rows : IsWhole(row, DOMAIN accs)

Unspent == faults \in Nat /\ (faults = 0 => Healthy)

HealthyInv ==
  /\ AccountedInv
  /\ sweep = "engines" => OnCourse(EngineCells, AccountsE)
  /\ Unspent

LEMMA NothingSpent ==
  ASSUME faults \in Nat, NEW n \in Nat, Spend(n)
  PROVE  faults' \in Nat /\ (faults' = 0 => faults = 0 /\ n = 0)
BY DEF Spend

LEMMA EmptyIsIdle == IsIdle(Empty) /\ \A n : AllPlanned(Empty.reps, n)
<1>1. Empty.reps = <<>> /\ Empty.failures = <<>>
  BY DEF Empty
<1>2. DOMAIN Empty.reps = {}
  BY <1>1
<1> QED BY <1>1, <1>2 DEF IsIdle, AllPlanned

\* What is at the places of a sequence with one more behind it.
LEMMA AppendedIs ==
  ASSUME NEW S, NEW s \in Seq(S), NEW x, NEW i \in DOMAIN Append(s, x)
  PROVE  (i \in DOMAIN s /\ Append(s, x)[i] = s[i]) \/ Append(s, x)[i] = x
<1> DEFINE T == S \cup {x}
           g == Append(s, x)
           n == Len(s)
<1>1. s \in Seq(T) /\ x \in T
  <2>1. n \in Nat /\ DOMAIN s = 1..n /\ s \in [1..n -> S]
    BY LenProperties
  <2>2. s \in [1..n -> T]
    BY <2>1
  <2> HIDE DEF T
  <2>3. s \in Seq(T)
    BY <2>1, <2>2, SeqDef
  <2> QED BY <2>3 DEF T
<1> HIDE DEF T
<1>2. g \in Seq(T) /\ Len(g) = n + 1 /\ (\A k \in 1..n : g[k] = s[k]) /\ g[n + 1] = x
  BY <1>1, AppendProperties
<1>3. DOMAIN g = 1..Len(g) /\ n \in Nat /\ DOMAIN s = 1..n
  BY <1>1, <1>2, LenProperties
<1>4. i \in DOMAIN g
  OBVIOUS
<1> HIDE DEF g, n
<1>5. CASE i \in 1..n
  BY <1>2, <1>3, <1>5 DEF g
<1>6. CASE i \notin 1..n
  <2>1. i = n + 1
    BY <1>2, <1>3, <1>4, <1>6
  <2> QED BY <1>2, <2>1 DEF g
<1> QED BY <1>5, <1>6

\* A result measured on an idle machine leaves an account idle.
LEMMA FilesIdle ==
  ASSUME ContestAssumption, NEW acc, IsAcc(acc), IsIdle(acc), NEW out, under = 0, NEW after, after = 0
  PROVE  LET new == Filed(acc, "ok", out, after)
         IN  /\ IsIdle(new) /\ Len(new.reps) = Len(acc.reps) + 1
             /\ \A n : AllPlanned(acc.reps, n) /\ IsPlanned(out, n) => AllPlanned(new.reps, n)
<1> DEFINE new == Filed(acc, "ok", out, after)
           rep == [out |-> out, load |-> Worse(under, after), saw |-> {under, after}]
           more == Append(acc.reps, rep)
<1>1. PICK S : acc.reps \in Seq(S)
  BY DEF IsAcc
<1>2. Null # 0
  BY DEF ContestAssumption
<1>3. rep.load = 0 /\ rep.out = out
  BY <1>2 DEF Worse
<1>4. new = [acc EXCEPT !.reps = more]
  BY Zenon DEF Filed
<1> HIDE DEF rep
<1>5. \A i \in DOMAIN more : (i \in DOMAIN acc.reps /\ more[i] = acc.reps[i]) \/ more[i] = rep
  BY <1>1, AppendedIs
<1>6. Len(more) = Len(acc.reps) + 1
  BY <1>1, OneLonger
<1> HIDE DEF more, new
<1>7. new.reps = more /\ new.failures = acc.failures
  BY <1>4 DEF IsAcc
<1>8. IsIdle(new)
  BY <1>3, <1>5, <1>7 DEF IsIdle
<1>9. ASSUME NEW n, AllPlanned(acc.reps, n), IsPlanned(out, n) PROVE AllPlanned(new.reps, n)
  BY <1>3, <1>5, <1>7, <1>9 DEF AllPlanned
<1> QED BY <1>6, <1>7, <1>8, <1>9 DEF new

\* And so all accounts stay idle.
LEMMA StaysIdle ==
  ASSUME ContestAssumption, QuietInv, \A a \in DOMAIN accs : IsIdle(accs[a]), under = 0,
         NEW h, NEW out, NEW after, after = 0, accs' = [accs EXCEPT ![h] = Filed(accs[h], "ok", out, after)]
  PROVE  \A a \in DOMAIN accs' : IsIdle(accs'[a])
<1> DEFINE new == Filed(accs[h], "ok", out, after)
<1>1. accs' = [accs EXCEPT ![h] = new]
  OBVIOUS
<1>2. h \in DOMAIN accs => IsIdle(new)
  <2>1. ASSUME h \in DOMAIN accs PROVE IsIdle(new)
    <3>1. IsAcc(accs[h]) /\ IsIdle(accs[h])
      BY <2>1 DEF QuietInv
    <3> QED BY <3>1, FilesIdle
  <2> QED BY <2>1
<1> HIDE DEF new
<1>3. accs' = [x \in DOMAIN accs |-> IF x = h THEN new ELSE accs[x]]
  BY <1>1 DEF QuietInv, IsMap
<1> QED BY <1>2, <1>3

\* What has all its fields goes on to have them if nothing is filed.
LEMMA KeepsAll == ASSUME HaveAll, UNCHANGED <<accs, sweep>> PROVE HaveAll'
<1>1. \A a : Wanted(a)' = Wanted(a)
  BY DEF Wanted
<1> QED BY <1>1 DEF HaveAll

\* The engines' rows are of what each child reports.
LEMMA EnginesHaveAll == ASSUME sweep' = "engines" PROVE HaveAll'
<1>1. \A a : Wanted(a)' = {}
  <2>1. "engines" # "writer" /\ "engines" # "pvec"
    OBVIOUS
  <2> QED BY <2>1, Zenon DEF Wanted
<1> QED BY <1>1 DEF HaveAll

\* Or if what is filed has them.
LEMMA FilesAll ==
  ASSUME QuietInv, HaveAll, NEW h, NEW out, Wanted(h) \subseteq out.has, NEW after,
         accs' = [accs EXCEPT ![h] = Filed(accs[h], "ok", out, after)], sweep' = sweep
  PROVE  HaveAll'
<1> DEFINE new == Filed(accs[h], "ok", out, after)
<1>1. accs' = [x \in DOMAIN accs |-> IF x = h THEN new ELSE accs[x]]
  <2>1. accs' = [accs EXCEPT ![h] = new]
    OBVIOUS
  <2> HIDE DEF new
  <2> QED BY <2>1 DEF QuietInv, IsMap
<1>2. ASSUME h \in DOMAIN accs PROVE \A i \in DOMAIN new.reps : Wanted(h) \subseteq new.reps[i].out.has
  <2> DEFINE acc == accs[h]
             rep == [out |-> out, load |-> Worse(under, after), saw |-> {under, after}]
             g == Append(acc.reps, rep)
  <2>1. IsAcc(acc) /\ \A i \in DOMAIN acc.reps : Wanted(h) \subseteq acc.reps[i].out.has
    BY <1>2 DEF QuietInv, HaveAll
  <2>2. new = [acc EXCEPT !.reps = g] /\ rep.out = out
    BY Zenon DEF Filed
  <2> HIDE DEF rep, acc
  <2>3. PICK S : acc.reps \in Seq(S)
    BY <2>1 DEF IsAcc
  <2>4. \A i \in DOMAIN g : (i \in DOMAIN acc.reps /\ g[i] = acc.reps[i]) \/ g[i] = rep
    BY <2>3, AppendedIs
  <2> HIDE DEF g, new
  <2>5. new.reps = g
    BY <2>1, <2>2 DEF IsAcc
  <2> QED BY <2>1, <2>2, <2>4, <2>5
<1> HIDE DEF new
<1>3. DOMAIN accs' = DOMAIN accs
  BY <1>1
<1>4. ASSUME NEW x \in DOMAIN accs', NEW i \in DOMAIN accs'[x].reps
      PROVE  Wanted(x) \subseteq accs'[x].reps[i].out.has
  <2>1. CASE x = h
    <3>1. accs'[x] = new
      BY <1>1, <1>3, <2>1
    <3> QED BY <1>2, <1>3, <2>1, <3>1
  <2>2. CASE x # h
    <3>1. accs'[x] = accs[x]
      BY <1>1, <1>3, <2>2
    <3> QED BY <1>3, <3>1 DEF HaveAll
  <2> QED BY <2>1, <2>2
<1>5. \A a : Wanted(a)' = Wanted(a)
  BY DEF Wanted
<1> QED BY <1>4, <1>5 DEF HaveAll

LEMMA HealthyInit == ASSUME WriterAssumption, PvecAssumption, EnginesAssumption, Init PROVE HealthyInv
<1>1. AccountedInv
  BY AccountedInit
<1>2. accs = <<>> /\ rows = {} /\ stage = "prepare" /\ cell = 1 /\ jobs = <<>> /\ faults = 0
  BY DEF Init, InitW, InitP, InitE
<1>3. DOMAIN accs = {}
  BY <1>2
<1>4. Len(EngineCells) \in Nat \ {0}
  <2>1. EngineCells \in Seq(Nat \ {0}) /\ EngineCells # <<>>
    BY DEF EnginesAssumption
  <2> DEFINE S == Nat \ {0}
  <2> HIDE DEF S
  <2>2. Len(EngineCells) \in Nat /\ Len(EngineCells) # 0
    <3>1. EngineCells \in Seq(S)
      BY <2>1 DEF S
    <3> QED BY <2>1, <3>1, EmptySeq, LenProperties
  <2> QED BY <2>2
<1>5. OnCourse(EngineCells, AccountsE)
  <2> DEFINE S == JobsOf(AccountsE)
  <2>1. <<>> \in Seq(S)
    <3> HIDE DEF S
    <3> QED OBVIOUS
  <2>2. jobs \in Seq(JobsOf(AccountsE))
    BY <1>2, <2>1
  <2>3. cell \in Nat /\ cell \in 1..Len(EngineCells) /\ stage \notin {"gate", "child"}
    BY <1>2, <1>4
  <2> QED BY <2>2, <2>3 DEF OnCourse
<1>6. Healthy
  BY <1>2, <1>3 DEF Healthy, HaveAll
<1> QED BY <1>1, <1>2, <1>5, <1>6 DEF HealthyInv, Unspent

\* The gate lets a repetition through unspent only if the machine is idle.
LEMMA HealthyGate ==
  ASSUME ContestAssumption, QuietInv, Unspent, Gate
  PROVE  Unspent'
<1>1. PICK r \in Readings : Sleep(r) \/ Start(r)
  BY DEF Gate
<1>2. sweep # "engines" /\ sweep' = sweep /\ UNCHANGED <<accs, rows>> /\ stage = "gate"
  BY <1>1 DEF Gate, Sleep, Start
<1>3. CASE Sleep(r)
  <2>1. faults' = faults /\ stage' = stage
    BY <1>3 DEF Sleep
  <2> QED BY <1>2, <2>1, KeepsAll DEF Unspent, Healthy
<1>4. CASE Start(r)
  <2> DEFINE n == IF Calm(r) THEN 0 ELSE 1
  <2>1. Spend(n) /\ under' = r.cpu /\ stage' = "child"
    BY <1>4 DEF Start
  <2>2. n \in Nat /\ (n = 0 => Calm(r))
    OBVIOUS
  <2> HIDE DEF n
  <2>3. faults' \in Nat /\ (faults' = 0 => faults = 0 /\ n = 0)
    BY <2>1, <2>2, NothingSpent DEF Unspent
  <2>4. Calm(r) => r.cpu = 0
    <3>1. r.cpu \in {0, 1, 2, Null}
      BY DEF ContestAssumption
    <3> QED BY <3>1 DEF Calm
  <2>5. ASSUME faults' = 0 PROVE Healthy'
    <3>1. Healthy /\ under' = 0
      BY <2>1, <2>2, <2>3, <2>4, <2>5 DEF Unspent
    <3> QED BY <1>2, <3>1, KeepsAll DEF Healthy
  <2> QED BY <2>3, <2>5 DEF Unspent
<1> QED BY <1>1, <1>3, <1>4

\* A cell begins with nothing filed.
LEMMA BeginsHealthy ==
  ASSUME NEW schedule, Begin(schedule), rows' = {}, sweep' # "engines"
  PROVE  Healthy'
<1>1. (\A a \in DOMAIN accs' : accs'[a] = Empty) /\ stage' # "child"
  BY DEF Begin
<1>2. \A a \in DOMAIN accs' : IsIdle(accs'[a])
  BY <1>1, EmptyIsIdle
<1>3. HaveAll'
  <2>1. DOMAIN Empty.reps = {}
    BY DEF Empty
  <2> QED BY <1>1, <2>1 DEF HaveAll
<1> QED BY <1>1, <1>2, <1>3 DEF Healthy

\* An answer in order of a child on an idle machine.
LEMMA ReportsHealthy ==
  ASSUME ContestAssumption, QuietInv, Healthy, NEW out, NEW after, after = 0, Report("ok", out, after),
         sweep # "engines", Wanted(Head(jobs).acc) \subseteq out.has
  PROVE  Healthy'
<1> DEFINE h == Head(jobs).acc
<1>1. stage = "child" /\ stage' # "child" /\ UNCHANGED <<sweep, rows>>
  BY DEF Report
<1>2. accs' = [accs EXCEPT ![h] = Filed(accs[h], "ok", out, after)]
  BY Zenon DEF Report
<1>3. HaveAll /\ under = 0 /\ \A a \in DOMAIN accs : IsIdle(accs[a])
  BY <1>1 DEF Healthy
<1>6. Wanted(h) \subseteq out.has /\ sweep' = sweep
  BY <1>1
<1> HIDE DEF h
<1>7. HaveAll'
  BY <1>2, <1>3, <1>6, FilesAll
<1>4. \A a \in DOMAIN accs' : IsIdle(accs'[a])
  BY <1>2, <1>3, StaysIdle
<1>5. rows = {}
  BY <1>1 DEF QuietInv
<1> QED BY <1>1, <1>4, <1>5, <1>7 DEF Healthy

\* Rows are whole if all that can be published are.
LEMMA PublishesHealthy ==
  ASSUME Healthy, NEW published, NEW cells, Publish(published, cells),
         \A row \in published : IsWhole(row, DOMAIN accs)
  PROVE  Healthy'
<1>1. UNCHANGED <<accs, sweep>> /\ rows' = published /\ stage' \in {"prepare", "done"}
  BY DEF Publish
<1> QED BY <1>1, KeepsAll DEF Healthy

\* The steps of the writer sweep.
LEMMA HealthyWriter ==
  ASSUME ContestAssumption, WriterAssumption, TilesAssumption, AccountedInv, Unspent, NextW
  PROVE  Unspent'
<1>1. QuietInv /\ AllRight /\ MeasuredInv
  BY DEF AccountedInv, MeasuredInv
<1>2. sweep = "writer" /\ sweep' = "writer" /\ sweep # "engines"
  BY DEF NextW, NoTileset, PrepareW, RepetitionW, FinishW, Report, Publish
<1>3. OnCourse(WriterCells, AccountsW)
  BY <1>1, <1>2 DEF MeasuredInv
<1>4. CASE NoTileset
  <2>1. Spend(1)
    BY <1>4 DEF NoTileset
  <2>2. faults' \in Nat /\ faults' # 0
    BY <2>1, NothingSpent DEF Unspent
  <2> QED BY <2>2 DEF Unspent
<1>5. CASE PrepareW
  <2>1. PICK go \in BOOLEAN : Spend(IF go \/ GO \notin tools THEN 0 ELSE 1) /\ Begin(JobsW(WriterCells[cell], go))
    BY <1>5, Zenon DEF PrepareW
  <2>2. rows' = {}
    BY <1>5 DEF PrepareW
  <2> DEFINE n == IF go \/ GO \notin tools THEN 0 ELSE 1
  <2>3. n \in Nat /\ Spend(n)
    BY <2>1
  <2> HIDE DEF n
  <2>4. faults' \in Nat
    BY <2>3, NothingSpent DEF Unspent
  <2>5. Healthy'
    BY <1>2, <2>1, <2>2, BeginsHealthy
  <2> QED BY <2>4, <2>5 DEF Unspent
<1>6. CASE RepetitionW
  <2> DEFINE job == Head(jobs)
             c == WriterCells[cell]
  <2>1. PICK reply \in RunChild(job.who, c, job.acc[2], IsReal(c)), r \in Readings :
          /\ Spend((IF InOrder(reply) THEN 0 ELSE 1) + (IF r.cpu = 0 THEN 0 ELSE 1))
          /\ Report(Verdict(reply, c), reply.out, r.cpu)
    BY <1>6, Zenon DEF RepetitionW
  <2> DEFINE n == (IF InOrder(reply) THEN 0 ELSE 1) + (IF r.cpu = 0 THEN 0 ELSE 1)
  <2>2. n \in Nat /\ (n = 0 => InOrder(reply) /\ r.cpu = 0) /\ Spend(n)
    BY <2>1
  <2> HIDE DEF n
  <2>3. faults' \in Nat /\ (faults' = 0 => faults = 0 /\ n = 0)
    BY <2>2, NothingSpent DEF Unspent
  <2>4. IsCell(c)
    <3>1. stage = "child"
      BY <2>1 DEF Report
    <3>2. WriterCells \in Seq({"real", "synthetic"} \X Nat)
      BY DEF WriterAssumption
    <3>3. DOMAIN WriterCells = 1..Len(WriterCells)
      BY <3>2, LenProperties
    <3>4. cell \in DOMAIN WriterCells
      BY <1>3, <3>1, <3>3 DEF OnCourse
    <3> QED BY <3>4 DEF IsCell
  <2> HIDE DEF c
  <2>5. ASSUME faults' = 0 PROVE Healthy'
    <3>1. InOrder(reply) /\ r.cpu = 0 /\ Healthy
      BY <2>2, <2>3, <2>5 DEF Unspent
    <3>2. Verdict(reply, c) = "ok"
      BY <2>1, <2>4, <3>1, OrderIsBelieved
    <3>3. Report("ok", reply.out, r.cpu)
      BY <2>1, <3>2
    <3>4. Wanted(job.acc) \subseteq reply.out.has
      <4>1. reply.verdict = "ok" /\ reply.verdict # "ran" /\ reply.whole
        BY <3>1 DEF InOrder
      <4>2. FieldsOf(ColumnsW(job.acc[2])) \subseteq reply.out.has
        BY <2>1, <4>1, ReplyIsFull
      <4>3. Wanted(job.acc) = FieldsOf(ColumnsW(job.acc[2]))
        <5>1. "writer" # "pvec"
          OBVIOUS
        <5> QED BY <1>2, <5>1, Zenon DEF Wanted
      <4> QED BY <4>2, <4>3
    <3> QED BY <1>1, <1>2, <3>1, <3>3, <3>4, ReportsHealthy
  <2> QED BY <2>3, <2>5 DEF Unspent
<1>7. CASE FinishW
  <2>1. PICK doubts : Publish(RowsW(WriterCells[cell], doubts), Len(WriterCells))
    BY <1>7, Zenon DEF FinishW
  <2> DEFINE published == RowsW(WriterCells[cell], doubts)
  <2>2. faults' = faults /\ stage = "rows"
    BY <2>1 DEF Publish
  <2>3. jobs = <<>> /\ (\A a : a \in DOMAIN accs <=> OpenW(a)) /\ \A a \in DOMAIN accs : Accounted(a)
    BY <1>2, <2>2 DEF AccountedInv
  <2>4. ASSUME faults' = 0 PROVE Healthy'
    <3>1. Healthy
      BY <2>2, <2>4 DEF Unspent
    <3>2. HaveAll /\ \A a \in DOMAIN accs : Accounted(a) /\ IsIdle(accs[a])
      BY <2>3, <3>1 DEF Healthy
    <3>3. ASSUME NEW row \in published PROVE IsWhole(row, DOMAIN accs)
      <4>1. IsFullRow(row)
        BY <1>2, <2>3, WriterRowsAreFull
      <4> QED BY <1>1, <1>2, <2>3, <3>2, <4>1, IdleRowIsWhole
    <3>6. Publish(published, Len(WriterCells))
      BY <2>1
    <3> HIDE DEF published
    <3> QED BY <3>1, <3>6, <3>3, PublishesHealthy
  <2> QED BY <2>2, <2>4 DEF Unspent
<1> QED BY <1>4, <1>5, <1>6, <1>7 DEF NextW

\* The steps of the pvec sweep.
LEMMA HealthyPvec ==
  ASSUME ContestAssumption, PvecAssumption, ScanAssumption, AccountedInv, Unspent, NextP
  PROVE  Unspent'
<1>1. QuietInv /\ AllRight /\ MeasuredInv
  BY DEF AccountedInv, MeasuredInv
<1>2. sweep = "pvec" /\ sweep' = "pvec" /\ sweep # "engines"
  BY DEF NextP, PrepareP, RepetitionP, FinishP, Report, Publish
<1>3. OnCourse(ScanCells, AccountsP)
  BY <1>1, <1>2 DEF MeasuredInv
<1>4. CASE PrepareP
  <2>1. \E schedule : Begin(schedule)
    BY <1>4, Zenon DEF PrepareP
  <2>2. rows' = {}
    BY <1>4 DEF PrepareP
  <2>3. PICK written \in BOOLEAN : Spend(IF written \/ tools = {} THEN 0 ELSE 1)
    BY <1>4, Zenon DEF PrepareP
  <2> DEFINE n == IF written \/ tools = {} THEN 0 ELSE 1
  <2>4. n \in Nat /\ Spend(n)
    BY <2>3
  <2> HIDE DEF n
  <2>5. faults' \in Nat
    BY <2>4, NothingSpent DEF Unspent
  <2>6. Healthy'
    BY <1>2, <2>1, <2>2, BeginsHealthy
  <2> QED BY <2>5, <2>6 DEF Unspent
<1>5. CASE RepetitionP
  <2> DEFINE who == Head(jobs).who
             c == ScanCells[cell]
  <2>1. PICK reply \in RunChildP(who, c), r \in Readings, lister \in BOOLEAN :
          /\ Spend((IF InOrder(reply) THEN 0 ELSE 1)
                    + (IF lister THEN 0 ELSE 1) + (IF r.cpu = 0 THEN 0 ELSE 1))
          /\ Report(IF reply.verdict = "ran" THEN "ran"
                    ELSE IF Attest(who, c, reply.archive, lister) THEN "ok" ELSE "attest",
                    reply.out, r.cpu)
    BY <1>5, Zenon DEF RepetitionP
  <2> DEFINE n == (IF InOrder(reply) THEN 0 ELSE 1) + (IF lister THEN 0 ELSE 1) + (IF r.cpu = 0 THEN 0 ELSE 1)
  <2>2. Spend(n)
    BY <2>1
  <2>3. n \in Nat /\ (n = 0 => InOrder(reply) /\ lister /\ r.cpu = 0)
    OBVIOUS
  <2> HIDE DEF n
  <2>4. faults' \in Nat /\ (faults' = 0 => faults = 0 /\ n = 0)
    BY <2>2, <2>3, NothingSpent DEF Unspent
  <2>5. stage = "child"
    BY <2>1 DEF Report
  <2>6. who \in Range(ALL) /\ IsScan(c)
    BY <1>3, <2>5, JobIsP
  <2> HIDE DEF c
  <2>7. ASSUME faults' = 0 PROVE Healthy'
    <3>1. InOrder(reply) /\ lister = TRUE /\ r.cpu = 0 /\ Healthy
      BY <2>3, <2>4, <2>7 DEF Unspent
    <3>2. reply.verdict = "ok" /\ reply.verdict # "ran" /\ reply.whole
      BY <3>1 DEF InOrder
    <3>3. Attest(who, c, reply.archive, lister)
      <4> HIDE DEF who
      <4> QED BY <2>6, <3>1, OrderIsBelievedP
    <3>4. Report("ok", reply.out, r.cpu)
      BY <2>1, <3>2, <3>3, Zenon
    <3>5. Wanted(Head(jobs).acc) \subseteq reply.out.has
      <4> DEFINE a == Head(jobs).acc
      <4>1. a[1] = who
        BY <1>3, <2>5, JobIsP
      <4> HIDE DEF a, who
      <4>2. FieldsOf(ColumnsP(who)) \subseteq reply.out.has
        BY <3>2, ReplyIsFullP
      <4>3. Wanted(a) = FieldsOf(ColumnsP(a[1]))
        <5>1. "writer" # "pvec"
          OBVIOUS
        <5> QED BY <1>2, <5>1, Zenon DEF Wanted
      <4> QED BY <4>1, <4>2, <4>3 DEF a
    <3> QED BY <1>1, <1>2, <3>1, <3>4, <3>5, ReportsHealthy
  <2> QED BY <2>4, <2>7 DEF Unspent
<1>6. CASE FinishP
  <2>1. PICK doubts : Publish(RowsP(doubts), Len(ScanCells))
    BY <1>6, Zenon DEF FinishP
  <2> DEFINE published == RowsP(doubts)
  <2>2. faults' = faults /\ stage = "rows"
    BY <1>6, <2>1 DEF Publish
  <2>3. jobs = <<>> /\ (\A a : a \in DOMAIN accs <=> OpenP(a)) /\ \A a \in DOMAIN accs : Accounted(a)
    BY <1>2, <2>2 DEF AccountedInv
  <2>4. ASSUME faults' = 0 PROVE Healthy'
    <3>1. Healthy
      BY <2>2, <2>4 DEF Unspent
    <3>2. HaveAll /\ \A a \in DOMAIN accs : Accounted(a) /\ IsIdle(accs[a])
      BY <2>3, <3>1 DEF Healthy
    <3>3. ASSUME NEW row \in published PROVE IsWhole(row, DOMAIN accs)
      <4>1. IsFullRow(row)
        BY <1>2, <2>3, PvecRowsAreFull
      <4> QED BY <1>1, <1>2, <2>3, <3>2, <4>1, IdleRowIsWhole
    <3>6. Publish(published, Len(ScanCells))
      BY <2>1
    <3> HIDE DEF published
    <3> QED BY <3>1, <3>6, <3>3, PublishesHealthy
  <2> QED BY <2>2, <2>4 DEF Unspent
<1> QED BY <1>4, <1>5, <1>6 DEF NextP

\* The engines go from a job to the next, or to the rows.
LEMMA TailOnCourse ==
  ASSUME NEW cells, NEW accounts, OnCourse(cells, accounts), stage = "gate",
         jobs' = Tail(jobs), cell' = cell, stage' = IF Tail(jobs) = <<>> THEN "rows" ELSE "gate"
  PROVE  OnCourse(cells, accounts)' /\ jobs # <<>> /\ jobs \in Seq(JobsOf(accounts))
<1>1. jobs # <<>> /\ jobs \in Seq(JobsOf(accounts))
  BY DEF OnCourse
<1>2. Tail(jobs) \in Seq(JobsOf(accounts))
  BY <1>1, HeadTailProperties
<1>3. (stage' \in {"gate", "child"} => jobs' # <<>>) /\ stage' # "done"
  OBVIOUS
<1> QED BY <1>1, <1>2, <1>3 DEF OnCourse

\* A cell of the engines begins well.
LEMMA BeginsWell ==
  ASSUME ContestAssumption, EnginesAssumption, Begin(JobsE), under' = 0, rows' = {},
         sweep' = "engines"
  PROVE  Healthy'
<1>1. /\ accs' = [a \in {JobsE[i].acc : i \in DOMAIN JobsE} |-> Empty]
      /\ jobs' = JobsE /\ stage' # "child"
  BY DEF Begin
<1>2. \A a \in DOMAIN accs' : accs'[a] = Empty
  BY <1>1
<1>3. \A a \in DOMAIN accs' : IsIdle(accs'[a]) /\ AllPlanned(accs'[a].reps, EngineCells[cell'])
  BY <1>2, EmptyIsIdle
<1>4. ASSUME NEW e \in Range(ENGINES) PROVE Counted(e)'
  <2> DEFINE a == <<e, "timed">>
             places == Places(JobsE, {JobOf(a)})
  <2>1. HowMany(JobsE, {JobOf(a)}) = Reps
    BY TurnsE
  <2>2. places # {}
    <3>1. Cardinality(places) = Reps /\ Reps # 0
      BY <2>1 DEF HowMany, ContestAssumption
    <3> HIDE DEF places
    <3> QED BY <3>1, FS_EmptySet
  <2>3. PICK i \in DOMAIN JobsE : JobsE[i] = JobOf(a)
    BY <2>2 DEF Places
  <2>4. JobOf(a).acc = a /\ JobOf(a)' = JobOf(a)
    BY DEF JobOf
  <2> HIDE DEF places, a
  <2>5. a \in DOMAIN accs'
    BY <1>1, <2>3, <2>4
  <2>6. Len(accs'[a].reps) = 0
    BY <1>2, <2>5 DEF Empty
  <2>7. Len(accs'[a].reps) + HowMany(jobs', {JobOf(a)}) = Reps
    BY <1>1, <2>1, <2>6 DEF ContestAssumption
  <2> QED BY <2>5, <2>7 DEF Counted, a, JobOf
<1>5. GoesWell'
  BY <1>3, <1>4 DEF GoesWell
<1> QED BY <1>1, <1>3, <1>5, EnginesHaveAll DEF Healthy

\* A child that did its work leaves the cell well.
LEMMA GoesOnWell ==
  ASSUME ContestAssumption, QuietInv, Healthy, sweep = "engines", stage = "gate",
         jobs \in Seq(JobsOf(AccountsE)), jobs # <<>>, NEW m, IsPlanned(m, EngineCells[cell]),
         accs' = [accs EXCEPT ![Head(jobs).acc] = Filed(accs[Head(jobs).acc], "ok", m, under)],
         jobs' = Tail(jobs), stage' # "child", UNCHANGED <<sweep, cell, under, rows>>
  PROVE  Healthy'
<1> DEFINE h == Head(jobs).acc
           t == Tail(jobs)
           new == Filed(accs[h], "ok", m, under)
           n == EngineCells[cell]
<1>1. under = 0 /\ (\A a \in DOMAIN accs : AllPlanned(accs[a].reps, n)) /\ \A e \in Range(ENGINES) : Counted(e)
  BY DEF Healthy, GoesWell
<1>2. \A a \in DOMAIN accs : IsIdle(accs[a])
  BY DEF Healthy
<1>3. rows = {} /\ \A a \in DOMAIN accs : IsAcc(accs[a])
  BY DEF QuietInv
<1>4. accs' = [accs EXCEPT ![h] = new] /\ jobs' = t
  OBVIOUS
<1>5. h \in DOMAIN accs => IsIdle(new) /\ Len(new.reps) = Len(accs[h].reps) + 1 /\ AllPlanned(new.reps, n)
  <2>1. ASSUME h \in DOMAIN accs
        PROVE  IsIdle(new) /\ Len(new.reps) = Len(accs[h].reps) + 1 /\ AllPlanned(new.reps, n)
    <3>1. IsAcc(accs[h]) /\ IsIdle(accs[h]) /\ AllPlanned(accs[h].reps, n) /\ IsPlanned(m, n)
      BY <1>1, <1>2, <1>3, <2>1
    <3> HIDE DEF h, n
    <3> QED BY <1>1, <3>1, FilesIdle
  <2> QED BY <2>1
<1>6. Head(jobs) = JobOf(h) /\ t \in Seq(JobsOf(AccountsE))
  <2>1. Head(jobs) = jobs[1] /\ 1 \in DOMAIN jobs
    BY HeadTailProperties, LenProperties, EmptySeq
  <2> QED BY <2>1, JobsAre, HeadTailProperties
<1> HIDE DEF new
<1>7. accs' = [x \in DOMAIN accs |-> IF x = h THEN new ELSE accs[x]]
  BY <1>4 DEF QuietInv, IsMap
<1>8. \A a \in DOMAIN accs' : IsIdle(accs'[a]) /\ AllPlanned(accs'[a].reps, n)
  BY <1>1, <1>2, <1>5, <1>7
<1>9. ASSUME NEW e \in Range(ENGINES) PROVE Counted(e)'
  <2> DEFINE a == <<e, "timed">>
             one == IF a = h THEN 1 ELSE 0
             left == HowMany(t, {JobOf(a)})
             p == Len(accs[a].reps)
  <2>1. a \in DOMAIN accs /\ p + HowMany(jobs, {JobOf(a)}) = Reps
    BY <1>1 DEF Counted
  <2>2. HowMany(jobs, {JobOf(a)}) = one + left
    <3>1. HowMany(jobs, {JobOf(a)}) = (IF Head(jobs) \in {JobOf(a)} THEN 1 ELSE 0) + left
      BY HowManyInTail
    <3>2. Head(jobs) \in {JobOf(a)} <=> a = h
      <4>1. JobOf(h).acc = h /\ JobOf(a).acc = a
        BY DEF JobOf
      <4> QED BY <1>6, <4>1
    <3> QED BY <3>1, <3>2
  <2>3. p \in Nat /\ left \in Nat
    <3>1. PICK S : accs[a].reps \in Seq(S)
      BY <1>3, <2>1 DEF IsAcc
    <3> QED BY <1>6, <3>1, LenProperties, HowManyType
  <2>4. a \in DOMAIN accs' /\ Len(accs'[a].reps) = p + one
    <3>1. a \in DOMAIN accs' /\ accs'[a] = IF a = h THEN new ELSE accs[a]
      BY <1>7, <2>1
    <3>2. CASE a = h
      BY <1>5, <2>1, <3>1, <3>2
    <3>3. CASE a # h
      <4>1. one = 0 /\ Len(accs'[a].reps) = p
        BY <3>1, <3>3
      <4> HIDE DEF one, p
      <4> QED BY <2>3, <3>1, <4>1
    <3> QED BY <3>2, <3>3
  <2>5. one \in Nat
    OBVIOUS
  <2> HIDE DEF one, left, p, a
  <2>6. Len(accs'[a].reps) + left = Reps
    <3> DEFINE all == HowMany(jobs, {JobOf(a)})
               now == Len(accs'[a].reps)
    <3>1. p + all = Reps /\ all = one + left /\ now = p + one
      BY <2>1, <2>2, <2>4
    <3> HIDE DEF all, now
    <3>2. now + left = Reps
      BY <2>3, <2>5, <3>1
    <3> QED BY <3>2 DEF now
  <2>7. HowMany(jobs', {JobOf(a)}) = left
    BY <1>4 DEF left
  <2> QED BY <2>4, <2>6, <2>7 DEF Counted, a, JobOf
<1>10. GoesWell'
  BY <1>1, <1>8, <1>9 DEF GoesWell
<1>11. HaveAll'
  BY EnginesHaveAll
<1> QED BY <1>3, <1>8, <1>10, <1>11 DEF Healthy

\* The steps of the engines.
LEMMA HealthyEngines ==
  ASSUME ContestAssumption, EnginesAssumption, AccountedInv, OnCourse(EngineCells, AccountsE), Unspent, NextE
  PROVE  OnCourse(EngineCells, AccountsE)' /\ Unspent'
<1> DEFINE n == EngineCells[cell]
<1>1. QuietInv
  BY DEF AccountedInv, MeasuredInv
<1>2. sweep = "engines" /\ sweep' = "engines"
  BY DEF NextE, PrepareE, NoMetrics, RepetitionE, FinishE, Publish
<1>3. EngineCells \in Seq(Nat \ {0}) /\ Len(EngineCells) \in Nat /\ DOMAIN EngineCells = 1..Len(EngineCells)
  <2>1. EngineCells \in Seq(Nat \ {0})
    BY DEF EnginesAssumption
  <2> DEFINE S == Nat \ {0}
  <2> HIDE DEF S
  <2>2. EngineCells \in Seq(S) => Len(EngineCells) \in Nat /\ DOMAIN EngineCells = 1..Len(EngineCells)
    BY LenProperties
  <2> QED BY <2>1, <2>2 DEF S
<1>4. stage # "done" => n \in Nat \ {0}
  <2>1. ASSUME stage # "done" PROVE n \in Nat \ {0}
    <3>1. cell \in DOMAIN EngineCells
      BY <1>3, <2>1 DEF OnCourse
    <3> DEFINE S == Nat \ {0}
    <3> HIDE DEF S
    <3>2. EngineCells \in Seq(S) => EngineCells[cell] \in S
      BY <3>1, LenProperties
    <3> QED BY <1>3, <3>2 DEF S
  <2> QED BY <2>1
<1>5. CASE PrepareE
  <2>1. stage = "prepare" /\ Begin(JobsE) /\ rows' = {} /\ cell' = cell
    BY <1>5, Zenon DEF PrepareE
  <2>2. PICK r \in Readings : Spend(IF r.cpu = 0 THEN 0 ELSE 1) /\ under' = r.cpu
    BY <1>5, Zenon DEF PrepareE
  <2>3. OnCourse(EngineCells, AccountsE)'
    BY <2>1, TurnsE, BeginsOnCourse
  <2> DEFINE k == IF r.cpu = 0 THEN 0 ELSE 1
  <2>4. k \in Nat /\ (k = 0 => r.cpu = 0) /\ Spend(k)
    BY <2>2
  <2> HIDE DEF k
  <2>5. faults' \in Nat /\ (faults' = 0 => k = 0)
    BY <2>4, NothingSpent DEF Unspent
  <2>6. ASSUME faults' = 0 PROVE Healthy'
    <3>1. under' = 0
      BY <2>2, <2>4, <2>5, <2>6
    <3> QED BY <1>2, <2>1, <3>1, BeginsWell
  <2> QED BY <2>3, <2>5, <2>6 DEF Unspent
<1>6. CASE NoMetrics
  <2>1. /\ stage = "gate" /\ Spend(1) /\ cell' = cell /\ jobs' = Tail(jobs)
        /\ stage' = IF Tail(jobs) = <<>> THEN "rows" ELSE "gate"
    BY <1>6 DEF NoMetrics
  <2>2. OnCourse(EngineCells, AccountsE)'
    BY <2>1, TailOnCourse
  <2>3. faults' \in Nat /\ faults' # 0
    BY <2>1, NothingSpent DEF Unspent
  <2> QED BY <2>2, <2>3 DEF Unspent
<1>7. CASE RepetitionE
  <2>1. /\ stage = "gate" /\ cell' = cell /\ jobs' = Tail(jobs) /\ UNCHANGED <<under, rows>>
        /\ stage' = IF Tail(jobs) = <<>> THEN "rows" ELSE "gate"
    BY <1>7 DEF RepetitionE
  <2>2. OnCourse(EngineCells, AccountsE)' /\ jobs # <<>> /\ jobs \in Seq(JobsOf(AccountsE))
    BY <2>1, TailOnCourse
  <2>3. PICK m \in Metrics(Head(jobs).who, n) :
          /\ Spend(Amiss(m, n))
          /\ accs' = [accs EXCEPT ![Head(jobs).acc] = Filed(accs[Head(jobs).acc], "ok", m, under)]
    BY <1>7, Zenon DEF RepetitionE
  <2>4. n \in Nat \ {0}
    BY <1>4, <2>1
  <2> HIDE DEF n
  <2>5. Amiss(m, n) \in Nat
    BY AmissCounts
  <2> DEFINE k == Amiss(m, n)
  <2>6. faults' \in Nat /\ (faults' = 0 => faults = 0 /\ k = 0)
    <3>1. k \in Nat /\ Spend(k)
      BY <2>3, <2>5
    <3> HIDE DEF k
    <3> QED BY <3>1, NothingSpent DEF Unspent
  <2>7. ASSUME faults' = 0 PROVE Healthy'
    <3>1. Healthy /\ IsPlanned(m, n)
      BY <2>4, <2>6, <2>7, NothingAmiss DEF Unspent
    <3>2. stage' # "child"
      BY <2>1
    <3>3. UNCHANGED <<sweep, cell, under, rows>>
      BY <1>2, <2>1
    <3> QED BY <1>1, <1>2, <2>1, <2>2, <2>3, <3>1, <3>2, <3>3, GoesOnWell DEF n
  <2> QED BY <2>2, <2>6, <2>7 DEF Unspent
<1>8. CASE FinishE
  <2>1. PICK doubts : Publish(RowsE(doubts), Len(EngineCells))
    BY <1>8, Zenon DEF FinishE
  <2> DEFINE published == RowsE(doubts)
  <2>2. /\ stage = "rows" /\ faults' = faults /\ jobs' = jobs /\ cell' = cell + 1
        /\ stage' = IF cell < Len(EngineCells) THEN "prepare" ELSE "done"
    BY <2>1 DEF Publish
  <2>3. OnCourse(EngineCells, AccountsE)'
    BY <1>3, <2>2, PublishesOnCourse
  <2>4. jobs = <<>>
    BY <2>2 DEF AccountedInv
  <2>5. ASSUME faults' = 0 PROVE Healthy'
    <3>1. Healthy /\ GoesWell
      BY <1>2, <2>2, <2>5 DEF Unspent, Healthy
    <3>2. ASSUME NEW e \in Range(ENGINES) PROVE WentWell(e, n)
      <4> DEFINE a == <<e, "timed">>
                 reps == accs[a].reps
      <4>1. a \in DOMAIN accs /\ Len(reps) + HowMany(jobs, {JobOf(a)}) = Reps
        BY <3>1 DEF GoesWell, Counted
      <4>2. HowMany(jobs, {JobOf(a)}) = 0
        BY <2>4, HowManyOfNone
      <4>3. Len(reps) \in Nat
        <5>1. PICK S : reps \in Seq(S)
          BY <1>1, <4>1 DEF QuietInv, IsAcc
        <5> QED BY <5>1, LenProperties
      <4>4. AllPlanned(reps, n)
        BY <3>1, <4>1 DEF GoesWell
      <4> HIDE DEF reps, n
      <4>5. Len(reps) = Reps
        BY <4>1, <4>2, <4>3
      <4> QED BY <4>1, <4>4, <4>5 DEF WentWell, reps
    <3>3. under = 0 /\ n \in Nat
      BY <1>4, <2>2, <3>1 DEF GoesWell
    <3> HIDE DEF n
    <3>4. \A e \in Measured, metric \in METRICS : IsWhole(RowE(e, metric, doubts), DOMAIN accs)
      BY <1>1, <3>2, <3>3, PlannedRowIsWhole
    <3>5. \A row \in published : IsWhole(row, DOMAIN accs)
      BY <3>4 DEF RowsE
    <3>6. Publish(published, Len(EngineCells))
      BY <2>1
    <3> HIDE DEF published
    <3> QED BY <3>1, <3>6, <3>5, PublishesHealthy
  <2> QED BY <2>2, <2>3, <2>5 DEF Unspent
<1> QED BY <1>5, <1>6, <1>7, <1>8 DEF NextE

LEMMA HealthyStep == ASSUME HealthyInv, [Next]_cvars PROVE HealthyInv'
<1>1. AccountedInv'
  BY AccountedStep DEF HealthyInv
<1>2. AccountedInv /\ QuietInv /\ Unspent /\ (sweep = "engines" => OnCourse(EngineCells, AccountsE))
  BY DEF HealthyInv, AccountedInv, MeasuredInv
<1>3. CASE UNCHANGED cvars
  <2>1. UNCHANGED <<sweep, tools, cell, stage, inputs, jobs, accs, waited, under, rows, faults>>
    BY <1>3 DEF cvars
  <2>2. OnCourse(EngineCells, AccountsE) => OnCourse(EngineCells, AccountsE)'
    BY <2>1 DEF OnCourse
  <2>3. Healthy => Healthy'
    <3>1. GoesWell => GoesWell'
      BY <2>1 DEF GoesWell, Counted
    <3> QED BY <2>1, <3>1, KeepsAll DEF Healthy
  <2> QED BY <1>1, <1>2, <2>1, <2>2, <2>3 DEF HealthyInv, Unspent
<1>4. CASE NextW
  <2>1. sweep' # "engines"
    BY <1>4 DEF NextW, NoTileset, PrepareW, RepetitionW, FinishW, Report, Publish
  <2>2. Unspent'
    BY <1>2, <1>4, ContestAssumption, WriterAssumption, TilesAssumption, HealthyWriter
  <2> QED BY <1>1, <2>1, <2>2 DEF HealthyInv
<1>5. CASE NextP
  <2>1. sweep' # "engines"
    BY <1>5 DEF NextP, PrepareP, RepetitionP, FinishP, Report, Publish
  <2>2. Unspent'
    BY <1>2, <1>5, ContestAssumption, PvecAssumption, ScanAssumption, HealthyPvec
  <2> QED BY <1>1, <2>1, <2>2 DEF HealthyInv
<1>6. CASE NextE
  <2>1. sweep = "engines"
    BY <1>6 DEF NextE, PrepareE, NoMetrics, RepetitionE, FinishE
  <2>2. OnCourse(EngineCells, AccountsE)' /\ Unspent'
    BY <1>2, <1>6, <2>1, ContestAssumption, EnginesAssumption, HealthyEngines
  <2> QED BY <1>1, <2>2 DEF HealthyInv
<1>7. CASE Gate
  <2>1. sweep' # "engines"
    BY <1>7 DEF Gate, Sleep, Start
  <2>2. Unspent'
    BY <1>2, <1>7, ContestAssumption, HealthyGate
  <2> QED BY <1>1, <2>1, <2>2 DEF HealthyInv
<1> QED BY <1>3, <1>4, <1>5, <1>6, <1>7 DEF Next

-----------------------------------------------------------------------------
\* attest_archive(), attest_group() and from_report(): a sweep on a quiet host
\* whose children all did their work refuses nothing.  No comparison of what was
\* written with what was read back, no count of tiles and no agreement of siblings
\* turns such a row away: each is ok and attested, with neither too few samples nor
\* a load held against it, or is of a tool that is not installed.  Whether it is of
\* high confidence is then up to how far its samples lie apart and to how long its
\* median is.
THEOREM HealthySweepsAreWhole == Spec => []HealthyIsWhole
<1>1. ASSUME HealthyInv, [Next]_cvars PROVE HealthyInv'
  BY <1>1, HealthyStep
<1>2. HealthyInv => HealthyIsWhole
  BY DEF HealthyInv, Unspent, Healthy, HealthyIsWhole, IsWhole
<1>3. Init => HealthyInv
  BY WriterAssumption, PvecAssumption, EnginesAssumption, HealthyInit
<1> QED BY <1>1, <1>2, <1>3, PTL DEF Spec
=============================================================================
