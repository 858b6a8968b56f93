---------------------------- MODULE PublishProofs ---------------------------
(***************************************************************************)
(* What capture.py and import-run.mjs publish, for any families, documents *)
(* and number of captures:                                                 *)
(*   - nothing reaches the repository from a capture one family of which   *)
(*     was refused, captures in flight beside it or not;                   *)
(*   - while captures run one after another, the files of the repository   *)
(*     refer to nothing that is not there, between any two copies, and     *)
(*     what was published stays published;                                 *)
(*   - the importer on its own keeps a history of archived runs, in order, *)
(*     none of which disagree, and drops none but the entry of a run whose *)
(*     run id a run of another family has.                                 *)
(* The last two rest on what Kept makes of a history, which is an          *)
(* induction over its length; the second also on what is known of the      *)
(* staged files at every step of the capture at work (Sound).              *)
(***************************************************************************)
EXTENDS Capture, Import, SequenceProofs

Publishing == {"documents", "index", "history", "published"}

Typed ==
  /\ pc \in [Captures -> PC] /\ inRepo \in [Captures -> BOOLEAN]
  /\ run \in [Captures -> [Family -> Doc \cup {NoDoc}]]

\* A capture that has begun to publish, or has copied something and broken off,
\* has an archived and imported document for every family.
Complete(c) ==
  pc[c] \in Publishing \/ inRepo[c] =>
    /\ pc[c] \in Publishing \cup {"failed"}
    /\ \A f \in Family : run[c][f] # NoDoc

CaptureInv == Typed /\ \A c \in Captures : Complete(c)

-----------------------------------------------------------------------------
\* At first nobody publishes.
LEMMA CaptureInit == Init => CaptureInv
<1> SUFFICES ASSUME Init PROVE CaptureInv
  OBVIOUS
<1>1. Typed
  BY DEF Init, Typed, PC
<1>2. \A c \in Captures : pc[c] = "snapshot" /\ inRepo[c] = FALSE
  BY DEF Init
<1> QED BY <1>1, <1>2 DEF CaptureInv, Complete, Publishing

\* A step of one capture is none of another's.
LEMMA Elsewhere ==
  ASSUME CaptureInv, NEW c \in Captures, Typed', Complete(c)',
         \A other \in Captures \ {c} :
           pc'[other] = pc[other] /\ inRepo'[other] = inRepo[other] /\ run'[other] = run[other]
  PROVE  CaptureInv'
<1>1. ASSUME NEW other \in Captures, other # c PROVE Complete(other)'
  BY <1>1 DEF CaptureInv, Complete
<1> QED BY <1>1 DEF CaptureInv

\* Up to the decision a capture has copied nothing, and may record what it likes.
LEMMA Before ==
  ASSUME CaptureInv, NEW c \in Captures,
         pc[c] \notin Publishing \cup {"failed"},
         NEW next \in PC \ Publishing, pc' = [pc EXCEPT ![c] = next],
         NEW d \in Doc \cup {NoDoc}, NEW f,
         run' = run \/ run' = [run EXCEPT ![c][f] = d],
         UNCHANGED inRepo
  PROVE  CaptureInv'
<1>1. Typed'
  <2>1. pc' \in [Captures -> PC]
    BY DEF CaptureInv, Typed
  <2>2. run' \in [Captures -> [Family -> Doc \cup {NoDoc}]]
    <3>1. run' = run \/ run' = [run EXCEPT ![c] = [run[c] EXCEPT ![f] = d]]
      BY SMT DEF CaptureInv, Typed
    <3>2. run[c] \in [Family -> Doc \cup {NoDoc}]
      BY DEF CaptureInv, Typed
    <3> DEFINE mine == [run[c] EXCEPT ![f] = d]
    <3>3. mine = [g \in Family |-> IF g = f THEN d ELSE run[c][g]]
      BY <3>2
    <3>4. mine \in [Family -> Doc \cup {NoDoc}]
      BY <3>2, <3>3
    <3> HIDE DEF mine
    <3> QED BY <3>1, <3>4 DEF CaptureInv, Typed, mine
  <2> QED BY <2>1, <2>2 DEF CaptureInv, Typed
<1>2. ~inRepo[c]
  BY DEF CaptureInv, Complete
<1>3. pc'[c] \notin Publishing /\ ~inRepo'[c]
  BY <1>2 DEF CaptureInv, Typed
<1>4. Complete(c)'
  BY <1>3 DEF Complete
<1>5. \A other \in Captures \ {c} :
        pc'[other] = pc[other] /\ inRepo'[other] = inRepo[other] /\ run'[other] = run[other]
  BY SMT DEF CaptureInv, Typed
<1> QED BY <1>1, <1>4, <1>5, Elsewhere

\* From then on it takes nothing back.
LEMMA After ==
  ASSUME CaptureInv, NEW c \in Captures,
         \A f \in Family : run[c][f] # NoDoc,
         NEW next \in Publishing \cup {"failed"}, pc' = [pc EXCEPT ![c] = next],
         inRepo' \in {inRepo, [inRepo EXCEPT ![c] = TRUE]},
         UNCHANGED run
  PROVE  CaptureInv'
<1>1. Typed'
  <2>1. next \in PC
    BY DEF PC, Publishing
  <2>2. pc' \in [Captures -> PC] /\ inRepo' \in [Captures -> BOOLEAN]
    BY <2>1 DEF CaptureInv, Typed
  <2> QED BY <2>2 DEF CaptureInv, Typed
<1>2. Complete(c)'
  BY SMT DEF CaptureInv, Typed, Complete
<1>3. \A other \in Captures \ {c} :
        pc'[other] = pc[other] /\ inRepo'[other] = inRepo[other] /\ run'[other] = run[other]
  BY SMT DEF CaptureInv, Typed
<1> QED BY <1>1, <1>2, <1>3, Elsewhere

\* Where a capture goes from one family to the next.
LEMMA Turns ==
  ASSUME NEW c \in Captures, NEW first, NEW after, NextFamily(c, first, after)
  PROVE  pc' = [pc EXCEPT ![c] = first] \/ pc' = [pc EXCEPT ![c] = after]
BY Zenon DEF NextFamily, Goto

\* A refusal takes the document away while nothing is published.
LEMMA Refuses ==
  ASSUME CaptureInv, NEW c \in Captures, pc[c] \in {"check", "archive", "verify"}, Refuse(c)
  PROVE  CaptureInv'
<1>1. run' = [run EXCEPT ![c][Here(c)] = NoDoc] /\ inRepo' = inRepo
  BY DEF Refuse, copies
<1>2. PICK next \in {"settle", "import"} : pc' = [pc EXCEPT ![c] = next]
  BY Turns DEF Refuse
<1>3. next \in PC \ Publishing /\ pc[c] \notin Publishing \cup {"failed"}
  BY DEF PC, Publishing
<1> QED BY <1>1, <1>2, <1>3, Before

\* The steps up to the decision.
LEMMA Preparing ==
  ASSUME CaptureInv, NEW c \in Captures,
         \/ Snapshot(c) \/ Settle(c) \/ Sweep(c) \/ Check(c) \/ Archive(c) \/ Verify(c)
         \/ Retrieve(c) \/ Import(c)
  PROVE  CaptureInv'
<1>1. pc[c] \in {"snapshot", "settle", "sweep", "check", "archive", "verify", "retrieve", "import"}
  BY Zenon DEF Snapshot, Settle, Sweep, Check, Archive, Verify, Retrieve, Import
<1>2. CASE pc[c] \in {"check", "archive", "verify"} /\ Refuse(c)
  BY <1>2, Refuses
<1>3. CASE ~(pc[c] \in {"check", "archive", "verify"} /\ Refuse(c))
  <2>1. inRepo' = inRepo
    BY <1>3, SMT DEF Snapshot, Settle, Sweep, Check, Archive, Verify, Retrieve, Import, copies
  <2>2. \E d \in Doc \cup {NoDoc} : \E f : run' = run \/ run' = [run EXCEPT ![c][f] = d]
    BY <1>3, Zenon DEF Snapshot, Settle, Sweep, Check, Archive, Verify, Retrieve, Import
  <2>3. PICK next \in {"settle", "sweep", "refused", "check", "archive", "verify", "retrieve",
                       "import", "decide"} : pc' = [pc EXCEPT ![c] = next]
    <3>1. CASE Retrieve(c) \/ Import(c)
      BY <3>1, Turns DEF Retrieve, Import
    <3>2. CASE Snapshot(c) \/ Settle(c) \/ Sweep(c)
      BY <3>2, Zenon DEF Snapshot, Settle, Sweep, Goto
    <3>3. CASE Check(c) \/ Archive(c) \/ Verify(c)
      BY <1>3, <3>3, Zenon DEF Check, Archive, Verify, Goto
    <3> QED BY <3>1, <3>2, <3>3
  <2>4. next \in PC \ Publishing /\ pc[c] \notin Publishing \cup {"failed"}
    BY <1>1 DEF PC, Publishing
  <2> QED BY <2>1, <2>2, <2>3, <2>4, Before
<1> QED BY <1>2, <1>3

\* Nothing is published but what is complete.
LEMMA Deciding == ASSUME CaptureInv, NEW c \in Captures, Decide(c) PROVE CaptureInv'
<1>1. pc[c] = "decide" /\ UNCHANGED <<run, inRepo>>
  BY DEF Decide, copies
<1>2. CASE (\A f \in Family : run[c][f] # NoDoc) /\ pc' = [pc EXCEPT ![c] = "documents"]
  <2>1. "documents" \in Publishing
    BY DEF Publishing
  <2> QED BY <1>1, <1>2, <2>1, After
<1>3. CASE pc' = [pc EXCEPT ![c] = "refused"]
  <2>1. "refused" \in PC \ Publishing /\ pc[c] \notin Publishing \cup {"failed"}
    BY <1>1 DEF PC, Publishing
  <2>2. \E d \in Doc \cup {NoDoc} : \E f : run' = run \/ run' = [run EXCEPT ![c][f] = d]
    BY <1>1
  <2> QED BY <1>1, <1>3, <2>1, <2>2, Before
<1> QED BY <1>2, <1>3, Zenon DEF Decide, Goto

\* Copying, one file after another, as far as it gets.
LEMMA Copying ==
  ASSUME CaptureInv, NEW c \in Captures, CopyDocument(c) \/ CopyIndex(c) \/ CopyHistory(c)
  PROVE  CaptureInv'
<1>1. pc[c] \in Publishing
  BY DEF CopyDocument, CopyIndex, CopyHistory, Publishing
<1>2. \A f \in Family : run[c][f] # NoDoc
  BY <1>1 DEF CaptureInv, Complete
<1>3. run' = run /\ inRepo' \in {inRepo, [inRepo EXCEPT ![c] = TRUE]}
  BY Zenon DEF CopyDocument, CopyIndex, CopyHistory, copies
<1>4. PICK next \in {"index", "documents", "history", "failed", "published"} :
        pc' = [pc EXCEPT ![c] = next]
  <2>1. CASE CopyDocument(c) \/ CopyHistory(c)
    BY <2>1, Zenon DEF CopyDocument, CopyHistory, Goto
  <2>2. CASE CopyIndex(c)
    BY <2>2, Turns DEF CopyIndex, Goto
  <2> QED BY <2>1, <2>2
<1>5. next \in Publishing \cup {"failed"}
  BY DEF Publishing
<1> QED BY <1>2, <1>3, <1>4, <1>5, After

\* One that breaks off keeps what it copied.
LEMMA Failing == ASSUME CaptureInv, NEW c \in Captures, Fail(c) PROVE CaptureInv'
<1>1. pc' = [pc EXCEPT ![c] = "failed"] /\ UNCHANGED <<run, inRepo>>
  BY DEF Fail, Goto, copies
<1>2. Typed'
  BY <1>1 DEF CaptureInv, Typed, PC
<1>3. Complete(c)'
  BY <1>1 DEF CaptureInv, Typed, Complete, Publishing
<1>4. \A other \in Captures \ {c} :
        pc'[other] = pc[other] /\ inRepo'[other] = inRepo[other] /\ run'[other] = run[other]
  BY <1>1 DEF CaptureInv, Typed
<1> QED BY <1>2, <1>3, <1>4, Elsewhere

\* Every step of a capture, and every stutter, keeps the invariant.
LEMMA CaptureNext == CaptureInv /\ [Next]_vars => CaptureInv'
<1> SUFFICES ASSUME CaptureInv, [Next]_vars PROVE CaptureInv'
  OBVIOUS
<1>1. CASE UNCHANGED vars
  BY <1>1 DEF vars, copies, CaptureInv, Typed, Complete
<1>2. CASE Next
  BY <1>2, Preparing, Deciding, Copying, Failing DEF Next
<1> QED BY <1>1, <1>2

-----------------------------------------------------------------------------
\* main() and publish() of capture.py: whichever gate refuses whichever family,
\* with or without a reason, and wherever a capture breaks off, nothing of it
\* reaches the repository unless every family was archived and imported - also
\* with captures in flight beside it.
THEOREM AllFamiliesOrNone == Spec => []EveryFamilyBeforeTheRepo
<1>1. CaptureInv => EveryFamilyBeforeTheRepo
  BY DEF CaptureInv, Complete, EveryFamilyBeforeTheRepo
<1> QED BY <1>1, CaptureInit, CaptureNext, PTL DEF Spec

-----------------------------------------------------------------------------
(* Histories: what sifting and keeping entries does. *)

\* Capture order, and one entry for a run.
Ordered(S) == {p \in S \X S : p[1].at <= p[2].at /\ p[1].id # p[2].id}

\* A history that is written holds what it held of other runs, and the entry; and
\* it is in order if it was.
LEMMA KeptKeeps ==
  ASSUME NEW S, \A e \in S : e.at \in Nat, NEW h \in Seq(S), NEW x \in S
  PROVE  /\ Kept(h, x) \in Seq(S)
         /\ Range(Kept(h, x)) = {e \in Range(h) : e.id # x.id} \cup {x}
         /\ Pairwise(h, Ordered(S)) => Pairwise(Kept(h, x), Ordered(S))
<1> DEFINE others == {e \in Range(h) : e.id # x.id}
           P == {e \in others : e.at <= x.at}
           Q == {e \in others : e.at > x.at}
           lo == Sifted(h, P)
           hi == Sifted(h, Q)
           one == <<x>>
<1>1. Pairwise(h, S \X S)
  <2>1. \A i \in DOMAIN h : h[i] \in S
    BY LenProperties, ElementOfSeq
  <2> QED BY <2>1 DEF Pairwise
<1>2. Range(h) \subseteq S
  BY LenProperties, ElementOfSeq DEF Range
<1>3. others = P \cup Q /\ P \subseteq Range(h) /\ Q \subseteq Range(h)
  <2>1. \A e \in S : e.at <= x.at \/ e.at > x.at
    BY SMT
  <2> QED BY <1>2, <2>1
<1>4. /\ \A a \in P : <<a, x>> \in Ordered(S)
      /\ \A b \in Q : <<x, b>> \in Ordered(S)
      /\ \A a \in P, b \in Q : a.at <= b.at /\ a # b
  <2>1. ASSUME NEW a \in P PROVE <<a, x>> \in Ordered(S)
    BY <1>2 DEF Ordered
  <2>2. ASSUME NEW b \in Q PROVE <<x, b>> \in Ordered(S)
    <3>1. b \in S /\ x.at <= b.at /\ x.id # b.id
      BY <1>2
    <3> QED BY <3>1 DEF Ordered
  <2>3. ASSUME NEW a \in P, NEW b \in Q PROVE a.at <= b.at /\ a # b
    BY <1>2, SMT
  <2> QED BY <2>1, <2>2, <2>3
<1>5. Pairwise(h, Ordered(S)) => \A a \in P, b \in Q : <<a, b>> \in Ordered(S)
  <2>1. SUFFICES ASSUME Pairwise(h, Ordered(S)), NEW a \in P, NEW b \in Q
                 PROVE  <<a, b>> \in Ordered(S)
    OBVIOUS
  <2>2. PICK i \in DOMAIN h : h[i] = a
    BY DEF Range
  <2>3. PICK j \in DOMAIN h : h[j] = b
    BY DEF Range
  <2>4. i \in Nat /\ j \in Nat /\ i # j
    BY <1>4, <2>2, <2>3, LenProperties, SMT
  <2>5. i < j \/ j < i
    BY <2>4, SMT
  <2>6. a.id # b.id
    <3>1. <<a, b>> \in Ordered(S) \/ <<b, a>> \in Ordered(S)
      BY <2>1, <2>2, <2>3, <2>5 DEF Pairwise
    <3> QED BY <3>1 DEF Ordered
  <2>7. a \in S /\ b \in S /\ a.at <= b.at
    BY <1>2, <1>3, <1>4
  <2> QED BY <2>6, <2>7 DEF Ordered
<1> HIDE DEF P, Q, others
<1>6. /\ lo \in Seq(S) /\ Range(lo) = P /\ hi \in Seq(S) /\ Range(hi) = Q
  <2>1. Range(h) \cap P = P /\ Range(h) \cap Q = Q
    BY <1>3
  <2>2. lo \in Seq(S) /\ Range(lo) = Range(h) \cap P
    BY <1>1, SiftKeeps
  <2>3. hi \in Seq(S) /\ Range(hi) = Range(h) \cap Q
    BY <1>1, SiftKeeps
  <2> QED BY <2>1, <2>2, <2>3
<1>7. Pairwise(h, Ordered(S)) => Pairwise(lo, Ordered(S)) /\ Pairwise(hi, Ordered(S))
  BY SiftKeeps
<1>8. /\ one \in Seq(S) /\ Range(one) = {x} /\ \A R : Pairwise(one, R)
  <2>1. DOMAIN one = {1} /\ one[1] = x
    OBVIOUS
  <2>2. one \in Seq(S)
    OBVIOUS
  <2>3. ~(1 < 1)
    OBVIOUS
  <2> HIDE DEF one
  <2>4. Range(one) = {x}
    BY <2>1 DEF Range
  <2> QED BY <2>1, <2>2, <2>3, <2>4, Zenon DEF Pairwise
<1>9. Kept(h, x) = (lo \o one) \o hi
  BY DEF Kept, P, Q, others
<1> HIDE DEF lo, hi, one
<1>10. /\ lo \o one \in Seq(S) /\ Range(lo \o one) = P \cup {x}
  BY <1>6, <1>8, Behind
<1>11. /\ (lo \o one) \o hi \in Seq(S) /\ Range((lo \o one) \o hi) = (P \cup {x}) \cup Q
  <2> DEFINE front == lo \o one
  <2>1. front \in Seq(S) /\ Range(front) = P \cup {x}
    BY <1>10
  <2> HIDE DEF front
  <2>2. front \o hi \in Seq(S) /\ Range(front \o hi) = Range(front) \cup Range(hi)
    BY <1>6, <2>1, Behind
  <2>3. front \o hi \in Seq(S) /\ Range(front \o hi) = (P \cup {x}) \cup Q
    BY <1>6, <2>1, <2>2
  <2> QED BY <2>3 DEF front
<1>12. ASSUME Pairwise(h, Ordered(S)) PROVE Pairwise((lo \o one) \o hi, Ordered(S))
  <2>1. Pairwise(lo \o one, Ordered(S))
    BY <1>4, <1>6, <1>7, <1>8, <1>12, Behind
  <2>2. \A a \in Range(lo \o one), b \in Range(hi) : <<a, b>> \in Ordered(S)
    BY <1>4, <1>5, <1>6, <1>10, <1>12
  <2> QED BY <1>6, <1>7, <1>10, <1>12, <2>1, <2>2, Behind
<1>13. (P \cup {x}) \cup Q = others \cup {x}
  BY <1>3
<1> QED BY <1>9, <1>11, <1>12, <1>13 DEF others

-----------------------------------------------------------------------------
(* One capture after another: what the repository holds stays whole. *)

FileSet ==
  [files : [Family -> SUBSET Row], torn : [Family -> SUBSET Row],
   index : [Family -> (SUBSET Row) \cup {Torn}],
   history : Seq(EntryOf) \cup {Torn}]

\* What RepoIsCitable says of the repository, of any set of published files.
Citable(s) ==
  /\ \A f \in Family : s.index[f] # Torn => s.index[f] \subseteq There(s, f)
  /\ s.history # Torn =>
       \A e \in Range(s.history) :
         s.index[e.family] # Torn => RowOf(e) \in s.index[e.family]
  /\ s.history # Torn => NoneMoved(s.history)

\* Nothing of s is missing from r, and what is torn in one is in the other.
Grown(s, r) ==
  /\ \A f \in Family :
       /\ There(s, f) \subseteq There(r, f)
       /\ (s.index[f] = Torn <=> r.index[f] = Torn)
       /\ s.index[f] # Torn => s.index[f] \subseteq r.index[f]
  /\ (s.history = Torn <=> r.history = Torn)
  /\ s.history # Torn => Range(s.history) \subseteq Range(r.history)

\* The families before the t-th, and those from it on.
Past(t) == {Families[i] : i \in 1..(t - 1)}
Left(t) == {Families[i] : i \in t..Len(Families)}

\* Of a capture with the documents `docs` and the staged files s: the document of
\* a family is listed ...
Listed(docs, s, f) == s.index[f] # Torn /\ RowOf(docs[f]) \in s.index[f]

\* ... its run is none the history has an entry for ...
Fresh(docs, s, f) ==
  s.history # Torn => \A e \in Range(s.history) : e.id # docs[f].id

\* ... or is one of its entries.
Imported(docs, s, f) == s.history # Torn /\ Entry(docs[f]) \in Range(s.history)

\* Up to the import, with the files `a` on the machine that measures: families
\* before the t-th are archived or refused, those behind it are as they were.
Gathering(next, t, docs, s, a) ==
  LET here == Families[t]
  IN  next \in {"settle", "sweep", "check", "archive", "verify", "retrieve"} =>
        /\ \A f \in Past(t) : docs[f] # NoDoc => Listed(docs, s, f) /\ Fresh(docs, s, f)
        /\ \A f \in Left(t) : There(s, f) \subseteq There(a, f)
        /\ \A f \in Left(t + 1) : a.index[f] = s.index[f]
        /\ next \notin {"settle", "sweep"} => docs[here] # NoDoc
        /\ next \notin {"verify", "retrieve"} => a.index[here] = s.index[here]
        /\ next \in {"verify", "retrieve"} =>
             /\ s.index[here] # Torn /\ Fresh(docs, s, here)
             /\ a.index[here] = s.index[here] \cup {RowOf(docs[here])}

\* Up to the decision: families before the t-th are imported, the others wait.
Importing(next, t, docs, s) ==
  /\ next = "import" =>
       /\ \A f \in Past(t) : docs[f] # NoDoc => Listed(docs, s, f) /\ Imported(docs, s, f)
       /\ \A f \in Left(t) : docs[f] # NoDoc => Listed(docs, s, f) /\ Fresh(docs, s, f)
  /\ next = "decide" =>
       \A f \in Family : docs[f] # NoDoc => Listed(docs, s, f) /\ Imported(docs, s, f)

\* While it is published: families before the t-th are in the repository r.
Copied(next, t, docs, s, r) ==
  LET here == Families[t]
  IN  next \in {"documents", "index", "history"} =>
        /\ \A f \in Family : Listed(docs, s, f) /\ Imported(docs, s, f)
        /\ \A f \in Past(t) : r.index[f] = s.index[f]
        /\ next = "index" => There(s, here) \subseteq There(r, here)
        /\ next = "history" => r.index = s.index

Sound(next, t, docs, s, a, r) ==
  /\ Citable(s) /\ Grown(r, s)
  /\ Gathering(next, t, docs, s, a) /\ Importing(next, t, docs, s) /\ Copied(next, t, docs, s, r)

\* What a capture published is there as long as the file is whole.
Stays(docs, r) ==
  \A f \in Family :
    /\ r.history # Torn => Entry(docs[f]) \in Range(r.history)
    /\ r.index[f] # Torn => RowOf(docs[f]) \in r.index[f]

Active(c) == pc[c] \notin Ended \cup {"snapshot"}

Kinds ==
  /\ repo \in FileSet /\ staging \in [Captures -> FileSet] /\ away \in [Captures -> FileSet]
  /\ turn \in [Captures -> 1..Len(Families)]
  /\ \A c \in Captures : pc[c] \in {"snapshot", "decide"} => turn[c] = 1
  /\ \A c \in Captures, f \in Family : run[c][f] # NoDoc => run[c][f].family = f

RepoInv ==
  /\ Kinds /\ Citable(repo)
  /\ \A c, other \in Captures : Active(c) /\ Active(other) => c = other
  /\ \A c \in Captures : Active(c) => Sound(pc[c], turn[c], run[c], staging[c], away[c], repo)
  /\ \A c \in Captures : pc[c] = "published" => Stays(run[c], repo)

\* Families, one after another.
LEMMA InTurn ==
  ASSUME CaptureAssumption, NEW t \in 1..Len(Families)
  PROVE  /\ Families[t] \in Family /\ Past(t) \subseteq Family /\ Left(t) \subseteq Family
         /\ Past(t + 1) = Past(t) \cup {Families[t]} /\ Families[t] \notin Past(t)
         /\ Left(t) = Left(t + 1) \cup {Families[t]} /\ Families[t] \notin Left(t + 1)
         /\ Past(t) \cap Left(t) = {}
         /\ Past(1) = {} /\ Left(1) = Family
         /\ t = Len(Families) => Past(t + 1) = Family /\ Left(t + 1) = {}
         /\ t < Len(Families) => t + 1 \in 1..Len(Families)
         /\ 1 \in 1..Len(Families)
<1> DEFINE n == Len(Families)
<1>1. n \in Nat /\ DOMAIN Families = 1..n /\ t \in 1..n
  BY LenProperties DEF CaptureAssumption
<1>2. \A i, j \in 1..n : Families[i] = Families[j] => i = j
  BY <1>1 DEF CaptureAssumption, IsInjective
<1>3. Family = {Families[i] : i \in 1..n}
  BY <1>1 DEF CaptureAssumption, Range
<1> HIDE DEF n
<1>4. /\ \A i : i \in 1..((t + 1) - 1) <=> (i = t \/ i \in 1..(t - 1))
      /\ \A i : i \in t..n <=> (i = t \/ i \in (t + 1)..n)
      /\ \A i \in 1..(t - 1) : i \in 1..n /\ i # t /\ i \notin t..n
      /\ \A i \in (t + 1)..n : i \in 1..n /\ i # t
      /\ \A i \in t..n : i \in 1..n
      /\ ~\E i : i \in 1..(1 - 1)
      /\ t = n => (\A i : i \in 1..((t + 1) - 1) <=> i \in 1..n) /\ ~\E i : i \in (t + 1)..n
      /\ t < n => t + 1 \in 1..n
      /\ 1 \in 1..n
  BY <1>1, SMT
<1>5. \A i : Past(i) = {Families[j] : j \in 1..(i - 1)} /\ Left(i) = {Families[j] : j \in i..n}
  BY DEF Past, Left, n
<1>6. Families[t] \in Family /\ Past(t) \subseteq Family /\ Left(t) \subseteq Family
  BY <1>1, <1>3, <1>4, <1>5
<1>7. Past(t + 1) = Past(t) \cup {Families[t]} /\ Left(t) = Left(t + 1) \cup {Families[t]}
  BY <1>4, <1>5
<1>8. Families[t] \notin Past(t) /\ Families[t] \notin Left(t + 1)
  BY <1>1, <1>2, <1>4, <1>5
<1>9. Past(t) \cap Left(t) = {}
  BY <1>1, <1>2, <1>4, <1>5
<1>10. Past(1) = {} /\ Left(1) = Family
  BY <1>3, <1>4, <1>5
<1>11. t = n => Past(t + 1) = Family /\ Left(t + 1) = {}
  BY <1>3, <1>4, <1>5
<1> QED BY <1>4, <1>6, <1>7, <1>8, <1>9, <1>10, <1>11 DEF n

\* A moved invariant is moved for both runs, and no run's against itself.
LEMMA MovedBoth ==
  ASSUME NEW a, NEW b PROVE (Moved(a, b) <=> Moved(b, a)) /\ ~Moved(a, a)
BY DEF Moved, Comparable

\* None has moved where no two of the entries disagree.
LEMMA NoneMovedIff ==
  ASSUME NEW h
  PROVE  NoneMoved(h) <=> \A a, b \in Range(h) : ~Moved(a, b)
<1>1. ASSUME NoneMoved(h), NEW a \in Range(h), NEW b \in Range(h) PROVE ~Moved(a, b)
  <2>1. PICK i \in DOMAIN h : h[i] = a
    BY DEF Range
  <2>2. PICK j \in DOMAIN h : h[j] = b
    BY DEF Range
  <2>3. CASE i = j
    BY <2>1, <2>2, <2>3, MovedBoth, Zenon
  <2>4. CASE i # j
    BY <1>1, <2>1, <2>2, <2>4, Zenon DEF NoneMoved
  <2> QED BY <2>3, <2>4
<1>2. ASSUME \A a, b \in Range(h) : ~Moved(a, b) PROVE NoneMoved(h)
  <2>1. \A i \in DOMAIN h : h[i] \in Range(h)
    BY DEF Range
  <2> QED BY <1>2, <2>1, Zenon DEF NoneMoved
<1> QED BY <1>1, <1>2

\* What has grown twice has grown, and a set of files is its own growth.
LEMMA GrownTwice ==
  ASSUME NEW r, NEW s, Grown(r, s), NEW u, Grown(s, u)
  PROVE  Grown(r, u)
<1>1. ASSUME NEW f \in Family
      PROVE  /\ There(r, f) \subseteq There(u, f)
             /\ (r.index[f] = Torn <=> u.index[f] = Torn)
             /\ r.index[f] # Torn => r.index[f] \subseteq u.index[f]
  <2>1. /\ There(r, f) \subseteq There(s, f) /\ There(s, f) \subseteq There(u, f)
        /\ (r.index[f] = Torn <=> s.index[f] = Torn)
        /\ (s.index[f] = Torn <=> u.index[f] = Torn)
        /\ r.index[f] # Torn => r.index[f] \subseteq s.index[f]
        /\ s.index[f] # Torn => s.index[f] \subseteq u.index[f]
    BY Zenon DEF Grown
  <2> QED BY <2>1
<1>2. /\ (r.history = Torn <=> s.history = Torn) /\ (s.history = Torn <=> u.history = Torn)
      /\ r.history # Torn => Range(r.history) \subseteq Range(s.history)
      /\ s.history # Torn => Range(s.history) \subseteq Range(u.history)
  BY Zenon DEF Grown
<1>3. /\ (r.history = Torn <=> u.history = Torn)
      /\ r.history # Torn => Range(r.history) \subseteq Range(u.history)
  BY <1>2
<1> QED BY <1>1, <1>3, Zenon DEF Grown

\* A set of files has all it had.
LEMMA GrownSame == ASSUME NEW s PROVE Grown(s, s)
BY DEF Grown

\* What is listed, and what is imported, stays so in files that have grown.
LEMMA GrownKeeps ==
  ASSUME NEW s, NEW u, Grown(s, u), NEW f \in Family, NEW docs, NEW later, later[f] = docs[f]
  PROVE  /\ Listed(docs, s, f) => Listed(later, u, f)
         /\ Imported(docs, s, f) => Imported(later, u, f)
         /\ u.history = s.history => (Fresh(docs, s, f) => Fresh(later, u, f))
<1>1. Listed(docs, s, f) => Listed(later, u, f)
  BY DEF Listed, Grown, RowOf
<1>2. Imported(docs, s, f) => Imported(later, u, f)
  BY DEF Imported, Grown, Entry
<1>3. u.history = s.history => (Fresh(docs, s, f) => Fresh(later, u, f))
  BY Zenon DEF Fresh
<1> QED BY <1>1, <1>2, <1>3

-----------------------------------------------------------------------------
(* What a step makes of the files of the capture that takes it. *)

OfKind(t, docs, s, a, r) ==
  /\ t \in 1..Len(Families) /\ s \in FileSet /\ a \in FileSet /\ r \in FileSet
  /\ docs \in [Family -> Doc \cup {NoDoc}]
  /\ \A f \in Family : docs[f] # NoDoc => docs[f].family = f

\* Where a capture goes from one family to the next: on, or to what comes after.
Moves(t, first, after, next, u) ==
  IF t < Len(Families) THEN u = t + 1 /\ next = first ELSE u = 1 /\ next = after

\* The families that are archived, or refused, wait to be imported.
Waiting(fs, docs, s) ==
  \A f \in fs : docs[f] # NoDoc => Listed(docs, s, f) /\ Fresh(docs, s, f)

\* The staging directory starts as a copy.
LEMMA SnapshotSound ==
  ASSUME CaptureAssumption, NEW r, Citable(r), NEW docs
  PROVE  Sound("settle", 1, docs, r, r, r)
<1>1. Past(1) = {}
  <2>1. Len(Families) \in Nat /\ Len(Families) # 0
    BY LenProperties, EmptySeq DEF CaptureAssumption
  <2>2. 1 \in 1..Len(Families)
    BY <2>1, SMT
  <2> QED BY <2>2, InTurn
<1>2. Gathering("settle", 1, docs, r, r)
  BY <1>1 DEF Gathering
<1>3. Importing("settle", 1, docs, r) /\ Copied("settle", 1, docs, r, r)
  BY DEF Importing, Copied
<1> QED BY <1>2, <1>3, GrownSame DEF Sound

\* The steps that leave the files and the documents alone.
LEMMA OnlyOn ==
  ASSUME NEW p, NEW next, <<p, next>> \in {<<"settle", "sweep">>, <<"check", "archive">>, <<"verify", "retrieve">>},
         NEW t, NEW docs, NEW s, NEW a, NEW r, Sound(p, t, docs, s, a, r)
  PROVE  Sound(next, t, docs, s, a, r)
<1>1. Gathering(next, t, docs, s, a)
  BY SMT DEF Sound, Gathering
<1>2. Importing(next, t, docs, s) /\ Copied(next, t, docs, s, r)
  BY SMT DEF Importing, Copied
<1> QED BY <1>1, <1>2 DEF Sound

\* A sweep's document is the family's at hand.
LEMMA SweepSound ==
  ASSUME CaptureAssumption, NEW t, NEW docs, NEW s, NEW a, NEW r, OfKind(t, docs, s, a, r),
         Sound("sweep", t, docs, s, a, r), NEW d \in Doc
  PROVE  Sound("check", t, [docs EXCEPT ![Families[t]] = d], s, a, r)
<1> DEFINE here == Families[t]
           later == [docs EXCEPT ![here] = d]
<1>1. here \in Family /\ here \notin Past(t) /\ Past(t) \subseteq Family
  BY InTurn DEF OfKind
<1>2. later[here] = d /\ d # NoDoc /\ \A f \in Family \ {here} : later[f] = docs[f]
  BY <1>1 DEF OfKind, CaptureAssumption
<1>3. /\ \A f \in Past(t) : docs[f] # NoDoc => Listed(docs, s, f) /\ Fresh(docs, s, f)
      /\ \A f \in Left(t) : There(s, f) \subseteq There(a, f)
      /\ \A f \in Left(t + 1) : a.index[f] = s.index[f]
      /\ a.index[here] = s.index[here]
  BY DEF Sound, Gathering
<1> HIDE DEF later, here
<1>4. \A f \in Past(t) : later[f] # NoDoc => Listed(later, s, f) /\ Fresh(later, s, f)
  BY <1>1, <1>2, <1>3, GrownSame, GrownKeeps
<1>5. Gathering("check", t, later, s, a)
  BY <1>2, <1>3, <1>4 DEF Gathering, here
<1>6. Importing("check", t, later, s) /\ Copied("check", t, later, s, r)
  BY DEF Importing, Copied
<1> QED BY <1>5, <1>6 DEF Sound, later, here

\* When a family is through, the next one is taken up, or the import begins.
LEMMA OnToNext ==
  ASSUME CaptureAssumption, NEW t, NEW docs, NEW s, NEW a, NEW r, OfKind(t, docs, s, a, r),
         Citable(s), Grown(r, s), Waiting(Past(t + 1), docs, s),
         \A f \in Left(t + 1) : There(s, f) \subseteq There(a, f) /\ a.index[f] = s.index[f],
         NEW next, NEW u, Moves(t, "settle", "import", next, u)
  PROVE  Sound(next, u, docs, s, a, r)
<1>1. CASE t < Len(Families)
  <2>1. next = "settle" /\ u = t + 1
    BY <1>1 DEF Moves
  <2>2. u \in 1..Len(Families)
    BY <1>1, <2>1, InTurn DEF OfKind
  <2>3. Left(u) = Left(u + 1) \cup {Families[u]}
    BY <2>2, InTurn
  <2>4. Families[u] \in Left(u) /\ Left(u + 1) \subseteq Left(u)
    BY <2>3
  <2>5. Gathering("settle", u, docs, s, a)
    BY <2>1, <2>4, Zenon DEF Gathering, Waiting
  <2>6. Importing("settle", u, docs, s) /\ Copied("settle", u, docs, s, r)
    BY DEF Importing, Copied
  <2> QED BY <2>1, <2>5, <2>6 DEF Sound
<1>2. CASE ~(t < Len(Families))
  <2>1. next = "import" /\ u = 1
    BY <1>2 DEF Moves
  <2>2. t = Len(Families)
    <3>1. Len(Families) \in Nat
      BY LenProperties DEF CaptureAssumption
    <3> QED BY <1>2, <3>1, SMT DEF OfKind
  <2>3. Past(t + 1) = Family /\ Past(1) = {} /\ Left(1) = Family
    BY <2>2, InTurn DEF OfKind
  <2>4. Importing("import", 1, docs, s)
    BY <2>3, SMT DEF Importing, Waiting
  <2>5. Gathering("import", 1, docs, s, a) /\ Copied("import", 1, docs, s, r)
    BY DEF Gathering, Copied
  <2> QED BY <2>1, <2>4, <2>5 DEF Sound
<1> QED BY <1>1, <1>2

\* A refused family has no document to import.
LEMMA RefuseSound ==
  ASSUME CaptureAssumption, NEW t, NEW docs, NEW s, NEW a, NEW r, OfKind(t, docs, s, a, r),
         NEW p \in {"check", "archive", "verify"}, Sound(p, t, docs, s, a, r),
         NEW next, NEW u, Moves(t, "settle", "import", next, u)
  PROVE  Sound(next, u, [docs EXCEPT ![Families[t]] = NoDoc], s, a, r)
<1> DEFINE here == Families[t]
           later == [docs EXCEPT ![here] = NoDoc]
<1>1. /\ here \in Family /\ here \notin Past(t) /\ Past(t) \subseteq Family
      /\ Past(t + 1) = Past(t) \cup {here} /\ Left(t) = Left(t + 1) \cup {here}
  BY InTurn DEF OfKind
<1>2. later[here] = NoDoc /\ \A f \in Family \ {here} : later[f] = docs[f]
  BY <1>1 DEF OfKind
<1>3. /\ \A f \in Past(t) : docs[f] # NoDoc => Listed(docs, s, f) /\ Fresh(docs, s, f)
      /\ \A f \in Left(t) : There(s, f) \subseteq There(a, f)
      /\ \A f \in Left(t + 1) : a.index[f] = s.index[f]
  BY DEF Sound, Gathering
<1>4. OfKind(t, later, s, a, r)
  <2>1. later \in [Family -> Doc \cup {NoDoc}]
    BY DEF OfKind
  <2> QED BY <1>2, <2>1 DEF OfKind
<1> HIDE DEF later, here
<1>5. \A f \in Past(t) : later[f] # NoDoc => Listed(later, s, f) /\ Fresh(later, s, f)
  BY <1>1, <1>2, <1>3, GrownSame, GrownKeeps
<1>6. Waiting(Past(t + 1), later, s)
  BY <1>1, <1>2, <1>5 DEF Waiting
<1>7. \A f \in Left(t + 1) : There(s, f) \subseteq There(a, f) /\ a.index[f] = s.index[f]
  BY <1>1, <1>3
<1>8. Citable(s) /\ Grown(r, s)
  BY DEF Sound
<1> QED BY <1>4, <1>6, <1>7, <1>8, OnToNext DEF later, here

\* The entries of a history are documents'.
LEMMA EntriesAreDocuments ==
  ASSUME NEW s \in FileSet, s.history # Torn
  PROVE  /\ s.history \in Seq(EntryOf) /\ Range(s.history) \subseteq EntryOf
         /\ \A e \in EntryOf : \E d \in Doc :
              e = Entry(d) /\ e.id = d.id /\ e.family = d.family /\ RowOf(e) = RowOf(d)
<1>1. s.history \in Seq(EntryOf)
  BY DEF FileSet
<1>2. Range(s.history) \subseteq EntryOf
  BY <1>1, LenProperties, ElementOfSeq DEF Range
<1>3. \A e \in EntryOf : \E d \in Doc :
        e = Entry(d) /\ e.id = d.id /\ e.family = d.family /\ RowOf(e) = RowOf(d)
  BY DEF EntryOf, Entry, RowOf
<1> QED BY <1>1, <1>2, <1>3

\* A run the archive does not have is none the staged history has.
LEMMA ArchiveSound ==
  ASSUME CaptureAssumption, NEW t, NEW docs, NEW s, NEW a, NEW r, OfKind(t, docs, s, a, r),
         Sound("archive", t, docs, s, a, r), a.index[Families[t]] # Torn,
         ~\E row \in There(a, Families[t]) : row.id = docs[Families[t]].id,
         NEW b,
         b.torn = a.torn,
         b.files = [a.files EXCEPT ![Families[t]] = a.files[Families[t]] \cup {RowOf(docs[Families[t]])}],
         b.index = [a.index EXCEPT ![Families[t]] = a.index[Families[t]] \cup {RowOf(docs[Families[t]])}]
  PROVE  Sound("verify", t, docs, s, b, r)
<1> DEFINE here == Families[t]
           d == docs[here]
<1>1. /\ here \in Family /\ here \in Left(t) /\ here \notin Left(t + 1) /\ Left(t) \subseteq Family
      /\ Left(t + 1) \subseteq Family /\ Past(t) \subseteq Family
  BY InTurn DEF OfKind
<1>2. /\ \A f \in Past(t) : docs[f] # NoDoc => Listed(docs, s, f) /\ Fresh(docs, s, f)
      /\ \A f \in Left(t) : There(s, f) \subseteq There(a, f)
      /\ \A f \in Left(t + 1) : a.index[f] = s.index[f]
      /\ docs[here] # NoDoc /\ a.index[here] = s.index[here]
      /\ Citable(s) /\ Grown(r, s)
  BY DEF Sound, Gathering
<1>3. d \in Doc /\ d.family = here
  BY <1>1, <1>2 DEF OfKind
<1>4. /\ a.files \in [Family -> SUBSET Row] /\ a.index \in [Family -> (SUBSET Row) \cup {Torn}]
      /\ s \in FileSet
  BY DEF OfKind, FileSet
<1> HIDE DEF d, here
<1>5. /\ b.files[here] = a.files[here] \cup {RowOf(d)}
      /\ b.index[here] = a.index[here] \cup {RowOf(d)}
      /\ \A f \in Family \ {here} : b.files[f] = a.files[f] /\ b.index[f] = a.index[f]
      /\ \A f \in Family : There(a, f) \subseteq There(b, f)
  BY <1>1, <1>4 DEF d, here, There
<1>6. Fresh(docs, s, here)
  <2>1. SUFFICES ASSUME s.history # Torn, NEW e \in Range(s.history) PROVE e.id # d.id
    BY DEF Fresh, d
  <2>2. PICK o \in Doc : e = Entry(o) /\ e.id = o.id /\ e.family = o.family /\ RowOf(e) = RowOf(o)
    BY <1>4, <2>1, EntriesAreDocuments
  <2>3. CASE o.family = here
    <3>1. RowOf(e) \in s.index[here] /\ s.index[here] \subseteq There(s, here)
      <4>1. e.family = here /\ s.index[here] # Torn
        BY <1>2, <2>2, <2>3 DEF here
      <4>2. s.index[e.family] # Torn => RowOf(e) \in s.index[e.family]
        BY <1>2, <2>1, Zenon DEF Citable
      <4>3. s.index[here] \subseteq There(s, here)
        BY <1>1, <1>2, <4>1, Zenon DEF Citable
      <4> QED BY <4>1, <4>2, <4>3
    <3>2. RowOf(e) \in There(a, here)
      BY <1>1, <1>2, <3>1
    <3>3. RowOf(e).id = e.id
      BY DEF RowOf
    <3> QED BY <3>2, <3>3 DEF d, here
  <2>4. CASE o.family # here
    BY <1>3, <2>2, <2>4 DEF CaptureAssumption
  <2> QED BY <2>3, <2>4
<1>7. \A f \in Left(t) : There(s, f) \subseteq There(b, f)
  BY <1>1, <1>2, <1>5
<1>8. \A f \in Left(t + 1) : b.index[f] = s.index[f]
  BY <1>1, <1>2, <1>5
<1>9. Gathering("verify", t, docs, s, b)
  <2>1. s.index[here] # Torn /\ b.index[here] = s.index[here] \cup {RowOf(docs[here])}
    BY <1>2, <1>5 DEF d, here
  <2> QED BY <1>2, <1>6, <1>7, <1>8, <2>1 DEF Gathering, here
<1>10. Importing("verify", t, docs, s) /\ Copied("verify", t, docs, s, r)
  BY DEF Importing, Copied
<1> QED BY <1>2, <1>9, <1>10 DEF Sound

\* What is retrieved is a document and the index that lists it.
LEMMA RetrieveSound ==
  ASSUME CaptureAssumption, NEW t, NEW docs, NEW s, NEW a, NEW r, OfKind(t, docs, s, a, r),
         Sound("retrieve", t, docs, s, a, r), NEW v,
         v.torn = s.torn,
         v.files = [s.files EXCEPT ![Families[t]] = s.files[Families[t]] \cup {RowOf(docs[Families[t]])}],
         v.index = [s.index EXCEPT ![Families[t]] = a.index[Families[t]]],
         v.history = s.history, v \in FileSet,
         NEW next, NEW u, Moves(t, "settle", "import", next, u)
  PROVE  Sound(next, u, docs, v, a, r)
<1> DEFINE here == Families[t]
           row == RowOf(docs[here])
<1>1. /\ here \in Family /\ here \in Left(t) /\ here \notin Left(t + 1) /\ Left(t) \subseteq Family
      /\ Left(t + 1) \subseteq Left(t) /\ Past(t) \subseteq Family /\ here \notin Past(t)
      /\ Past(t + 1) = Past(t) \cup {here}
  BY InTurn DEF OfKind
<1>2. /\ \A f \in Past(t) : docs[f] # NoDoc => Listed(docs, s, f) /\ Fresh(docs, s, f)
      /\ \A f \in Left(t) : There(s, f) \subseteq There(a, f)
      /\ \A f \in Left(t + 1) : a.index[f] = s.index[f]
      /\ docs[here] # NoDoc /\ s.index[here] # Torn /\ Fresh(docs, s, here)
      /\ a.index[here] = s.index[here] \cup {row}
      /\ Citable(s) /\ Grown(r, s)
  BY DEF Sound, Gathering
<1>3. /\ s.files \in [Family -> SUBSET Row] /\ s.index \in [Family -> (SUBSET Row) \cup {Torn}]
  BY DEF OfKind, FileSet
<1> HIDE DEF row, here
<1>4. /\ v.files[here] = s.files[here] \cup {row}
      /\ v.index[here] = s.index[here] \cup {row}
      /\ \A f \in Family \ {here} : There(v, f) = There(s, f) /\ v.index[f] = s.index[f]
      /\ There(v, here) = There(s, here) \cup {row}
  BY <1>1, <1>2, <1>3 DEF row, here, There
<1>5. v.index[here] # Torn
  <2>1. docs[here] \in Doc
    BY <1>1, <1>2 DEF OfKind
  <2>2. s.index[here] \in SUBSET Row /\ row \in Row
    <3>1. s.index[here] \in SUBSET Row
      <4> DEFINE inIndex == s.index[here]
      <4>1. inIndex \in (SUBSET Row) \cup {Torn}
        BY <1>1, <1>3, Zenon
      <4>2. inIndex # Torn
        BY <1>2
      <4> HIDE DEF inIndex
      <4>3. inIndex \in SUBSET Row
        BY <4>1, <4>2
      <4> QED BY <4>3 DEF inIndex
    <3>2. row \in Row
      BY <2>1, Zenon DEF Row, row
    <3> QED BY <3>1, <3>2
  <2>3. v.index[here] \in SUBSET Row
    BY <1>4, <2>2
  <2> QED BY ImporterAssumption, <2>3 DEF CaptureAssumption, ImporterAssumption
<1>6. Grown(s, v)
  <2>1. ASSUME NEW f \in Family
        PROVE  /\ There(s, f) \subseteq There(v, f)
               /\ (s.index[f] = Torn <=> v.index[f] = Torn)
               /\ s.index[f] # Torn => s.index[f] \subseteq v.index[f]
    <3>1. CASE f = here
      BY <1>2, <1>4, <1>5, <3>1
    <3>2. CASE f # here
      BY <1>4, <3>2
    <3> QED BY <3>1, <3>2
  <2> QED BY <2>1, Zenon DEF Grown
<1>7. Citable(v)
  <2>1. ASSUME NEW f \in Family, v.index[f] # Torn PROVE v.index[f] \subseteq There(v, f)
    <3>1. CASE f = here
      BY <1>1, <1>2, <1>4, <3>1 DEF Citable
    <3>2. CASE f # here
      BY <1>2, <1>4, <2>1, <3>2 DEF Citable
    <3> QED BY <3>1, <3>2
  <2>2. ASSUME v.history # Torn, NEW e \in Range(v.history), v.index[e.family] # Torn
        PROVE  RowOf(e) \in v.index[e.family]
    <3>1. e.family \in Family
      <4>1. PICK o \in Doc : e.family = o.family
        BY <2>2, EntriesAreDocuments
      <4> QED BY ImporterAssumption, <4>1 DEF CaptureAssumption, ImporterAssumption
    <3>2. s.index[e.family] # Torn
      BY <1>6, <2>2, <3>1 DEF Grown
    <3>3. RowOf(e) \in s.index[e.family]
      BY <1>2, <2>2, <3>2, Zenon DEF Citable
    <3> QED BY <1>6, <3>1, <3>2, <3>3 DEF Grown
  <2>3. v.history # Torn => NoneMoved(v.history)
    BY <1>2 DEF Citable
  <2> QED BY <2>1, <2>2, <2>3, Zenon DEF Citable
<1>8. Waiting(Past(t + 1), docs, v)
  <2>1. ASSUME NEW f \in Past(t), docs[f] # NoDoc PROVE Listed(docs, v, f) /\ Fresh(docs, v, f)
    BY <1>1, <1>2, <1>6, <2>1, GrownKeeps
  <2>2. Listed(docs, v, here) /\ Fresh(docs, v, here)
    BY <1>2, <1>4, <1>5 DEF Listed, Fresh, row
  <2> QED BY <1>1, <2>1, <2>2 DEF Waiting
<1>9. \A f \in Left(t + 1) : There(v, f) \subseteq There(a, f) /\ a.index[f] = v.index[f]
  BY <1>1, <1>2, <1>4
<1>10. OfKind(t, docs, v, a, r) /\ Grown(r, v)
  BY <1>2, <1>6, GrownTwice DEF OfKind
<1> QED BY <1>7, <1>8, <1>9, <1>10, OnToNext

-----------------------------------------------------------------------------
\* The import and what follows it have nothing to do with the gathering.
LEMMA NotGathering ==
  ASSUME NEW next, next \notin {"settle", "sweep", "check", "archive", "verify", "retrieve"},
         NEW t, NEW docs, NEW s, NEW a
  PROVE  Gathering(next, t, docs, s, a)
BY DEF Gathering

\* An entry more in the staged history.
LEMMA EntrySound ==
  ASSUME CaptureAssumption, NEW s \in FileSet, Citable(s), NEW d \in Doc,
         Refusals(d, s.index[d.family], s.history) = {},
         s.history # Torn => \A e \in Range(s.history) : e.id # d.id,
         NEW v, v.files = s.files, v.torn = s.torn, v.index = s.index, v.history = Kept(s.history, Entry(d))
  PROVE  /\ s.history # Torn /\ v.history \in Seq(EntryOf) /\ v.history # Torn
         /\ Range(v.history) = Range(s.history) \cup {Entry(d)}
         /\ Citable(v) /\ Grown(s, v)
<1>1. HistoryRefusals(d, s.history) = {} /\ IndexRefusals(d, s.index[d.family]) = {}
  BY DEF Refusals
<1>2. s.history # Torn /\ \A e \in Range(s.history) : e.id # d.id /\ ~Moved(e, d)
  <2>1. s.history # Torn
    BY <1>1 DEF HistoryRefusals
  <2>2. ~\E e \in Range(s.history) : e.id # d.id /\ Moved(e, d)
    BY <1>1, <2>1, Zenon DEF HistoryRefusals
  <2> QED BY <2>1, <2>2
<1>3. s.index[d.family] # Torn /\ RowOf(d) \in s.index[d.family]
  <2>1. s.index[d.family] # Torn
    BY <1>1 DEF IndexRefusals
  <2>2. \E row \in s.index[d.family] : row.id = d.id
    BY <1>1, <2>1, Zenon DEF IndexRefusals
  <2>3. RowOf(d) \in s.index[d.family]
    BY <1>1, <2>1, <2>2, Zenon DEF IndexRefusals
  <2> QED BY <2>1, <2>3
<1> DEFINE x == Entry(d)
           h == s.history
<1>4. x.id = d.id /\ x.family = d.family /\ RowOf(x) = RowOf(d) /\ x \in EntryOf
  BY DEF Entry, RowOf, EntryOf
<1>5. /\ h \in Seq(EntryOf) /\ Range(h) \subseteq EntryOf
      /\ \A e \in EntryOf : e.at \in Nat
  <2>1. \A e \in EntryOf : e.at \in Nat
    BY ImporterAssumption DEF EntryOf, Entry, CaptureAssumption, ImporterAssumption
  <2> QED BY <1>2, <2>1, EntriesAreDocuments
<1>6. \A e : (Moved(e, d) <=> Moved(e, x))
  BY DEF Moved, Comparable, Entry
<1> HIDE DEF x, h
<1>7. Kept(h, x) \in Seq(EntryOf) /\ Range(Kept(h, x)) = {e \in Range(h) : e.id # x.id} \cup {x}
  <2>1. h \in Seq(EntryOf)
    BY <1>5
  <2>2. x \in EntryOf
    BY <1>4
  <2>3. \A e \in EntryOf : e.at \in Nat
    BY <1>5
  <2> QED BY <2>1, <2>2, <2>3, KeptKeeps
<1>8. v.history = Kept(h, x)
  BY DEF h, x
<1>9. v.history \in Seq(EntryOf) /\ Range(v.history) = Range(h) \cup {x}
  <2>1. {e \in Range(h) : e.id # x.id} = Range(h)
    BY <1>2, <1>4 DEF h
  <2> QED BY <1>7, <1>8, <2>1
<1>10. v.history # Torn
  BY ImporterAssumption, <1>9 DEF CaptureAssumption, ImporterAssumption
<1>11. Grown(s, v)
  BY <1>2, <1>9, <1>10 DEF Grown, There, h
<1>12. NoneMoved(v.history)
  <2>1. \A a, b \in Range(h) : ~Moved(a, b)
    BY <1>2, NoneMovedIff, Zenon DEF Citable, h
  <2>2. \A a \in Range(h) : ~Moved(a, x) /\ ~Moved(x, a)
    BY <1>2, <1>6, MovedBoth, Zenon DEF h
  <2>3. ~Moved(x, x)
    BY MovedBoth
  <2>4. ASSUME NEW a \in Range(v.history), NEW b \in Range(v.history) PROVE ~Moved(a, b)
    <3>1. (a \in Range(h) \/ a = x) /\ (b \in Range(h) \/ b = x)
      BY <1>9
    <3> QED BY <2>1, <2>2, <2>3, <3>1, Zenon
  <2> QED BY <2>4, NoneMovedIff, Zenon
<1>13. Citable(v)
  <2>1. ASSUME NEW e \in Range(v.history), v.index[e.family] # Torn
        PROVE  RowOf(e) \in v.index[e.family]
    <3>1. CASE e \in Range(h)
      BY <1>2, <2>1, <3>1, Zenon DEF Citable, h
    <3>2. CASE e = x
      BY <1>3, <1>4, <3>2
    <3> QED BY <1>9, <3>1, <3>2
  <2>2. \A f \in Family : There(v, f) = There(s, f)
    BY DEF There
  <2> QED BY <1>12, <2>1, <2>2, Zenon DEF Citable
<1> QED BY <1>2, <1>9, <1>10, <1>11, <1>13 DEF x, h

\* The families that are through with the import, and those that wait for it.
LEMMA ImportsOn ==
  ASSUME CaptureAssumption, NEW t, NEW docs, NEW s, NEW a, NEW r, OfKind(t, docs, s, a, r),
         Citable(s), Grown(r, s),
         \A f \in Past(t + 1) : docs[f] # NoDoc => Listed(docs, s, f) /\ Imported(docs, s, f),
         Waiting(Left(t + 1), docs, s),
         NEW next, NEW u, Moves(t, "import", "decide", next, u)
  PROVE  Sound(next, u, docs, s, a, r)
<1>1. CASE t < Len(Families)
  <2>1. next = "import" /\ u = t + 1
    BY <1>1 DEF Moves
  <2>2. Importing(next, u, docs, s)
    BY <2>1 DEF Importing, Waiting
  <2>3. Gathering(next, u, docs, s, a) /\ Copied(next, u, docs, s, r)
    BY <2>1, NotGathering DEF Copied
  <2> QED BY <2>2, <2>3 DEF Sound
<1>2. CASE ~(t < Len(Families))
  <2>1. next = "decide" /\ u = 1
    BY <1>2 DEF Moves
  <2>2. t = Len(Families)
    <3>1. Len(Families) \in Nat
      BY LenProperties DEF CaptureAssumption
    <3> QED BY <1>2, <3>1, SMT DEF OfKind
  <2>3. Past(t + 1) = Family
    BY <2>2, InTurn DEF OfKind
  <2>4. Importing(next, u, docs, s)
    BY <2>1, <2>3 DEF Importing
  <2>5. Gathering(next, u, docs, s, a) /\ Copied(next, u, docs, s, r)
    BY <2>1, NotGathering DEF Copied
  <2> QED BY <2>4, <2>5 DEF Sound
<1> QED BY <1>1, <1>2

\* A family's import: its entry is added, or it is refused, or there is nothing
\* to import.
LEMMA ImportSound ==
  ASSUME CaptureAssumption, NEW t, NEW docs, NEW s, NEW a, NEW r, OfKind(t, docs, s, a, r),
         Sound("import", t, docs, s, a, r), NEW later, NEW v \in FileSet,
         \/ /\ docs[Families[t]] # NoDoc /\ later = docs
            /\ Refusals(docs[Families[t]], s.index[Families[t]], s.history) = {}
            /\ v.files = s.files /\ v.torn = s.torn /\ v.index = s.index
            /\ v.history = Kept(s.history, Entry(docs[Families[t]]))
         \/ later = [docs EXCEPT ![Families[t]] = NoDoc] /\ v = s
         \/ docs[Families[t]] = NoDoc /\ later = docs /\ v = s,
         NEW next, NEW u, Moves(t, "import", "decide", next, u)
  PROVE  Sound(next, u, later, v, a, r)
<1> DEFINE here == Families[t]
           d == docs[here]
<1>1. /\ here \in Family /\ here \notin Past(t) /\ here \notin Left(t + 1)
      /\ Past(t) \subseteq Family /\ Left(t) \subseteq Family /\ Left(t) = Left(t + 1) \cup {here}
      /\ Past(t + 1) = Past(t) \cup {here}
  BY InTurn DEF OfKind
<1>2. /\ \A f \in Past(t) : docs[f] # NoDoc => Listed(docs, s, f) /\ Imported(docs, s, f)
      /\ \A f \in Left(t) : docs[f] # NoDoc => Listed(docs, s, f) /\ Fresh(docs, s, f)
      /\ Citable(s) /\ Grown(r, s)
  BY DEF Sound, Importing
<1> HIDE DEF here, d
<1>3. CASE v = s /\ later[here] = NoDoc /\ later \in [Family -> Doc \cup {NoDoc}]
           /\ \A f \in Family \ {here} : later[f] = docs[f]
  <2>0. ASSUME NEW f \in Family \ {here}
        PROVE  /\ Listed(docs, s, f) => Listed(later, s, f)
               /\ Imported(docs, s, f) => Imported(later, s, f)
               /\ Fresh(docs, s, f) => Fresh(later, s, f)
               /\ later[f] = docs[f]
    <3>1. Grown(s, s) /\ later[f] = docs[f] /\ f \in Family
      BY <1>3, GrownSame
    <3> QED BY <3>1, GrownKeeps
  <2>1. \A f \in Past(t) : later[f] # NoDoc => Listed(later, s, f) /\ Imported(later, s, f)
    <3>1. Past(t) \subseteq Family \ {here}
      BY <1>1
    <3> QED BY <1>2, <2>0, <3>1, Zenon
  <2>2. \A f \in Left(t + 1) : later[f] # NoDoc => Listed(later, s, f) /\ Fresh(later, s, f)
    <3>1. Left(t + 1) \subseteq Family \ {here} /\ Left(t + 1) \subseteq Left(t)
      BY <1>1
    <3> QED BY <1>2, <2>0, <3>1, Zenon
  <2>3. \A f \in Past(t + 1) : later[f] # NoDoc => Listed(later, s, f) /\ Imported(later, s, f)
    BY <1>1, <1>3, <2>1
  <2>4. OfKind(t, later, s, a, r)
    BY <1>3 DEF OfKind
  <2>5. Waiting(Left(t + 1), later, s)
    BY <2>2 DEF Waiting
  <2>6. Sound(next, u, later, s, a, r)
    BY <1>2, <2>3, <2>4, <2>5, ImportsOn
  <2> QED BY <1>3, <2>6
<1>4. CASE /\ d # NoDoc /\ later = docs /\ Refusals(d, s.index[here], s.history) = {}
           /\ v.files = s.files /\ v.torn = s.torn /\ v.index = s.index
           /\ v.history = Kept(s.history, Entry(d))
  <2>1. d \in Doc /\ d.family = here
    BY <1>1, <1>4 DEF OfKind, d
  <2>2. Listed(docs, s, here) /\ (s.history # Torn => \A e \in Range(s.history) : e.id # d.id)
    BY <1>1, <1>2, <1>4, Zenon DEF Fresh, d
  <2>3. /\ s.history # Torn /\ v.history # Torn
        /\ Range(v.history) = Range(s.history) \cup {Entry(d)}
        /\ Citable(v) /\ Grown(s, v)
    <3>1. Refusals(d, s.index[d.family], s.history) = {}
      BY <1>4, <2>1
    <3>2. s \in FileSet
      BY DEF OfKind
    <3> QED BY <1>2, <1>4, <2>1, <2>2, <3>1, <3>2, EntrySound, Zenon
  <2>4. ASSUME NEW f \in Past(t), docs[f] # NoDoc PROVE Listed(docs, v, f) /\ Imported(docs, v, f)
    BY <1>1, <1>2, <2>3, <2>4, GrownKeeps
  <2>5. Listed(docs, v, here) /\ Imported(docs, v, here)
    <3>1. Listed(docs, v, here)
      BY <1>4, <2>2 DEF Listed
    <3>2. Imported(docs, v, here)
      BY <2>3 DEF Imported, d
    <3> QED BY <3>1, <3>2
  <2>6. ASSUME NEW f \in Left(t + 1), docs[f] # NoDoc PROVE Listed(docs, v, f) /\ Fresh(docs, v, f)
    <3>1. Listed(docs, v, f) /\ Fresh(docs, s, f)
      BY <1>1, <1>2, <2>3, <2>6, GrownKeeps
    <3>2. docs[f] \in Doc /\ docs[f].family = f /\ f # here
      BY <1>1, <2>6 DEF OfKind
    <3>3. d.id # docs[f].id
      BY <2>1, <3>2, Zenon DEF CaptureAssumption
    <3>4. Entry(d).id = d.id
      BY DEF Entry
    <3>5. \A e \in Range(v.history) : e.id # docs[f].id
      BY <2>3, <3>1, <3>3, <3>4, Zenon DEF Fresh
    <3> QED BY <3>1, <3>5, Zenon DEF Fresh
  <2>7. \A f \in Past(t + 1) : docs[f] # NoDoc => Listed(docs, v, f) /\ Imported(docs, v, f)
    BY <1>1, <2>4, <2>5
  <2>8. OfKind(t, docs, v, a, r) /\ Grown(r, v)
    BY <1>2, <2>3, GrownTwice DEF OfKind
  <2>9. Waiting(Left(t + 1), docs, v)
    BY <2>6 DEF Waiting
  <2>10. Sound(next, u, docs, v, a, r)
    BY <2>3, <2>7, <2>8, <2>9, ImportsOn
  <2> QED BY <1>4, <2>10
<1>5. CASE v = s /\ later = [docs EXCEPT ![here] = NoDoc]
  <2>1. later \in [Family -> Doc \cup {NoDoc}] /\ later[here] = NoDoc
        /\ \A f \in Family \ {here} : later[f] = docs[f]
    BY <1>1, <1>5 DEF OfKind
  <2> QED BY <1>3, <1>5, <2>1
<1>6. CASE v = s /\ later = docs /\ docs[here] = NoDoc
  BY <1>3, <1>6 DEF OfKind
<1> QED BY <1>4, <1>5, <1>6, Zenon DEF here, d

-----------------------------------------------------------------------------
\* Every family is imported, and so listed, when a capture begins to publish.
LEMMA DecideSound ==
  ASSUME CaptureAssumption, NEW t, NEW docs, NEW s, NEW a, NEW r,
         Sound("decide", t, docs, s, a, r), \A f \in Family : docs[f] # NoDoc
  PROVE  Sound("documents", 1, docs, s, a, r)
<1>1. Past(1) = {}
  <2>1. Len(Families) \in Nat /\ Len(Families) # 0
    BY LenProperties, EmptySeq DEF CaptureAssumption
  <2>2. 1 \in 1..Len(Families)
    BY <2>1, SMT
  <2> QED BY <2>2, InTurn
<1>2. \A f \in Family : Listed(docs, s, f) /\ Imported(docs, s, f)
  BY DEF Sound, Importing
<1>3. Copied("documents", 1, docs, s, r)
  BY <1>1, <1>2 DEF Copied
<1>4. Gathering("documents", 1, docs, s, a) /\ Importing("documents", 1, docs, s)
  BY NotGathering DEF Importing
<1> QED BY <1>3, <1>4 DEF Sound

\* What the repository needs of what it becomes.
Follows(r, w) ==
  /\ w \in FileSet /\ Citable(w)
  /\ w.history # Torn => r.history # Torn /\ Range(r.history) \subseteq Range(w.history)
  /\ \A f \in Family : w.index[f] # Torn => r.index[f] # Torn /\ r.index[f] \subseteq w.index[f]

\* One document is written after another, the index when all of them are there.
LEMMA DocumentSound ==
  ASSUME CaptureAssumption, NEW t, NEW docs, NEW s, NEW a, NEW r, OfKind(t, docs, s, a, r),
         Sound("documents", t, docs, s, a, r), Citable(r),
         NEW row \in There(s, Families[t]), NEW w \in FileSet,
         w.index = r.index, w.history = r.history,
         There(w, Families[t]) = There(r, Families[t]) \cup {row},
         \A f \in Family \ {Families[t]} : There(w, f) = There(r, f)
  PROVE  /\ Follows(r, w) /\ Sound("documents", t, docs, s, a, w)
         /\ There(s, Families[t]) \subseteq There(w, Families[t]) => Sound("index", t, docs, s, a, w)
<1> DEFINE here == Families[t]
<1>1. here \in Family
  BY InTurn DEF OfKind
<1>2. Grown(r, s) /\ Citable(s)
  BY DEF Sound
<1>3. \A f \in Family : There(r, f) \subseteq There(w, f) /\ There(w, f) \subseteq There(s, f)
  <2>1. \A f \in Family : There(r, f) \subseteq There(s, f)
    BY <1>2, Zenon DEF Grown
  <2> QED BY <1>1, <2>1
<1>4. Grown(w, s)
  BY <1>2, <1>3, Zenon DEF Grown
<1>5. Citable(w)
  <2>1. ASSUME NEW f \in Family, w.index[f] # Torn PROVE w.index[f] \subseteq There(w, f)
    <3>1. r.index[f] \subseteq There(r, f)
      BY <2>1, Zenon DEF Citable
    <3> QED BY <1>3, <3>1
  <2> QED BY <2>1, Zenon DEF Citable
<1>6. /\ \A f \in Family : Listed(docs, s, f) /\ Imported(docs, s, f)
      /\ \A f \in Past(t) : w.index[f] = s.index[f]
  BY DEF Sound, Copied
<1>7. /\ Copied("documents", t, docs, s, w)
      /\ There(s, here) \subseteq There(w, here) => Copied("index", t, docs, s, w)
  BY <1>6 DEF Copied
<1>8. \A next \in {"documents", "index"} : Gathering(next, t, docs, s, a) /\ Importing(next, t, docs, s)
  BY NotGathering DEF Importing
<1>9. Follows(r, w)
  BY <1>5, Zenon DEF Follows
<1> QED BY <1>2, <1>4, <1>7, <1>8, <1>9 DEF Sound

\* ... then the index that lists them; one that is torn lists nothing.
LEMMA IndexSound ==
  ASSUME CaptureAssumption, NEW t, NEW docs, NEW s, NEW a, NEW r, OfKind(t, docs, s, a, r),
         Sound("index", t, docs, s, a, r), Citable(r), NEW w, NEW rows,
         rows = Torn \/ rows = s.index[Families[t]],
         w = [r EXCEPT !.index[Families[t]] = rows]
  PROVE  /\ Follows(r, w)
         /\ rows = s.index[Families[t]] =>
              \A next, u : Moves(t, "documents", "history", next, u) => Sound(next, u, docs, s, a, w)
<1> DEFINE here == Families[t]
<1>1. here \in Family /\ here \notin Past(t) /\ Past(t + 1) = Past(t) \cup {here}
      /\ Past(t) \subseteq Family
  BY InTurn DEF OfKind
<1>2. /\ r.index \in [Family -> (SUBSET Row) \cup {Torn}] /\ s.index \in [Family -> (SUBSET Row) \cup {Torn}]
      /\ r \in FileSet /\ s \in FileSet
  BY DEF OfKind, FileSet
<1>3. /\ Grown(r, s) /\ Citable(s)
      /\ \A f \in Family : Listed(docs, s, f) /\ Imported(docs, s, f)
      /\ \A f \in Past(t) : r.index[f] = s.index[f]
      /\ There(s, here) \subseteq There(r, here)
  BY DEF Sound, Copied
<1> DEFINE index == [r.index EXCEPT ![here] = rows]
<1>4. w = [r EXCEPT !.index = index]
  OBVIOUS
<1>5. index \in [Family -> (SUBSET Row) \cup {Torn}] /\ index[here] = rows
      /\ \A f \in Family \ {here} : index[f] = r.index[f]
  <2>1. rows \in (SUBSET Row) \cup {Torn}
    BY <1>1, <1>2, Zenon
  <2> QED BY <1>1, <1>2, <2>1
<1> HIDE DEF index
<1>6. w \in FileSet /\ w.files = r.files /\ w.index = index /\ w.history = r.history
      /\ \A f : There(w, f) = There(r, f)
  BY <1>2, <1>4, <1>5 DEF FileSet, There
<1> HIDE DEF here
<1>7. \A f \in Family : s.index[f] # Torn
  BY <1>3, Zenon DEF Listed
<1>8. \A f \in Family : r.index[f] # Torn /\ r.index[f] \subseteq s.index[f] /\ There(r, f) \subseteq There(s, f)
  BY <1>3, <1>7, Zenon DEF Grown
<1>9. \A f \in Family : w.index[f] = r.index[f] \/ (f = here /\ w.index[f] = rows)
  BY <1>1, <1>5, <1>6
<1>10. \A f \in Family : w.index[f] # Torn => r.index[f] \subseteq w.index[f]
  BY <1>8, <1>9 DEF here
<1>11. Citable(w)
  <2>1. ASSUME NEW f \in Family, w.index[f] # Torn PROVE w.index[f] \subseteq There(w, f)
    <3>1. CASE w.index[f] = r.index[f]
      BY <1>6, <2>1, <3>1, Zenon DEF Citable
    <3>2. CASE f = here /\ w.index[f] = s.index[f]
      <4>1. s.index[f] \subseteq There(s, f)
        BY <1>3, <1>7, Zenon DEF Citable
      <4> QED BY <1>3, <1>6, <3>2, <4>1
    <3> QED BY <1>9, <2>1, <3>1, <3>2 DEF here
  <2>2. ASSUME w.history # Torn, NEW e \in Range(w.history), w.index[e.family] # Torn
        PROVE  RowOf(e) \in w.index[e.family]
    <3>1. e.family \in Family
      <4>1. PICK o \in Doc : e.family = o.family
        BY <1>6, <2>2, EntriesAreDocuments
      <4> QED BY ImporterAssumption, <4>1 DEF CaptureAssumption, ImporterAssumption
    <3>2. RowOf(e) \in r.index[e.family]
      BY <1>6, <1>8, <2>2, <3>1, Zenon DEF Citable
    <3> QED BY <1>10, <2>2, <3>1, <3>2
  <2>3. w.history # Torn => NoneMoved(w.history)
    BY <1>6 DEF Citable
  <2> QED BY <2>1, <2>2, <2>3, Zenon DEF Citable
<1>12. Follows(r, w)
  BY <1>6, <1>8, <1>10, <1>11, Zenon DEF Follows
<1>13. ASSUME rows = s.index[here], NEW next, NEW u, Moves(t, "documents", "history", next, u)
       PROVE  Sound(next, u, docs, s, a, w)
  <2>1. Grown(w, s)
    <3>1. ASSUME NEW f \in Family
          PROVE  There(w, f) \subseteq There(s, f) /\ w.index[f] # Torn /\ w.index[f] \subseteq s.index[f]
      BY <1>6, <1>7, <1>8, <1>9, <1>13
    <3>2. /\ (w.history = Torn <=> s.history = Torn)
          /\ w.history # Torn => Range(w.history) \subseteq Range(s.history)
      BY <1>3, <1>6, Zenon DEF Grown
    <3> QED BY <1>7, <3>1, <3>2, Zenon DEF Grown
  <2>2. \A f \in Past(t + 1) : w.index[f] = s.index[f]
    BY <1>1, <1>3, <1>5, <1>6, <1>13
  <2>3. CASE t < Len(Families)
    <3>1. next = "documents" /\ u = t + 1
      BY <1>13, <2>3 DEF Moves
    <3>2. Copied(next, u, docs, s, w)
      BY <1>3, <2>2, <3>1 DEF Copied
    <3>3. Gathering(next, u, docs, s, a) /\ Importing(next, u, docs, s)
      BY <3>1, NotGathering DEF Importing
    <3> QED BY <1>3, <2>1, <3>2, <3>3 DEF Sound
  <2>4. CASE ~(t < Len(Families))
    <3>1. next = "history" /\ u = 1
      BY <1>13, <2>4 DEF Moves
    <3>2. t = Len(Families)
      <4>1. Len(Families) \in Nat
        BY LenProperties DEF CaptureAssumption
      <4> QED BY <2>4, <4>1, SMT DEF OfKind
    <3>3. Past(t + 1) = Family /\ Past(1) = {}
      BY <3>2, InTurn DEF OfKind
    <3>4. w.index = s.index
      BY <1>2, <1>5, <1>6, <2>2, <3>3
    <3>5. Copied(next, u, docs, s, w)
      BY <1>3, <3>1, <3>3, <3>4 DEF Copied
    <3>6. Gathering(next, u, docs, s, a) /\ Importing(next, u, docs, s)
      BY <3>1, NotGathering DEF Importing
    <3> QED BY <1>3, <2>1, <3>5, <3>6 DEF Sound
  <2> QED BY <2>3, <2>4
<1> QED BY <1>12, <1>13 DEF here

\* ... and last, when every index is, the history.
LEMMA HistorySound ==
  ASSUME CaptureAssumption, NEW t, NEW docs, NEW s, NEW a, NEW r, OfKind(t, docs, s, a, r),
         Sound("history", t, docs, s, a, r), Citable(r), NEW w, NEW entries,
         entries = Torn \/ entries = s.history,
         w = [r EXCEPT !.history = entries]
  PROVE  Follows(r, w) /\ (entries = s.history => Stays(docs, w))
<1>1. r \in FileSet /\ s \in FileSet
  BY DEF OfKind
<1>2. /\ Grown(r, s) /\ Citable(s) /\ r.index = s.index
      /\ \A f \in Family : Listed(docs, s, f) /\ Imported(docs, s, f)
  BY DEF Sound, Copied
<1>3. w \in FileSet /\ w.files = r.files /\ w.index = r.index /\ w.history = entries
      /\ \A f : There(w, f) = There(r, f)
  BY <1>1 DEF FileSet, There
<1>4. Citable(w)
  <2>1. \A f \in Family : w.index[f] # Torn => w.index[f] \subseteq There(w, f)
    BY <1>3, Zenon DEF Citable
  <2>2. CASE entries = Torn
    BY <1>3, <2>1, <2>2, Zenon DEF Citable
  <2>3. CASE entries = s.history
    BY <1>2, <1>3, <2>1, <2>3, Zenon DEF Citable
  <2> QED BY <2>2, <2>3
<1>5. w.history # Torn => r.history # Torn /\ Range(r.history) \subseteq Range(w.history)
  BY <1>2, <1>3, Zenon DEF Grown
<1>6. \A f \in Family : r.index[f] # Torn
  BY <1>2, Zenon DEF Listed
<1>7. Follows(r, w)
  BY <1>3, <1>4, <1>5, <1>6 DEF Follows
<1>8. entries = s.history => Stays(docs, w)
  BY <1>2, <1>3, Zenon DEF Stays, Listed, Imported
<1> QED BY <1>7, <1>8

-----------------------------------------------------------------------------
(* The steps themselves, each taken by one capture while no other is at work. *)

Alone(c) == \A other \in Captures \ {c} : ~Active(other)

\* A function is itself with what it is at c.
LEMMA SameAt ==
  ASSUME NEW S, NEW T, NEW g \in [S -> T], NEW c \in S PROVE g = [g EXCEPT ![c] = g[c]]
OBVIOUS

\* What is known of the capture at work.
LEMMA AtWork ==
  ASSUME CaptureInv, RepoInv, NEW c \in Captures
  PROVE  /\ OfKind(turn[c], run[c], staging[c], away[c], repo) /\ Citable(repo)
         /\ Follows(repo, repo)
         /\ Active(c) => Sound(pc[c], turn[c], run[c], staging[c], away[c], repo)
<1>1. OfKind(turn[c], run[c], staging[c], away[c], repo)
  BY DEF CaptureInv, Typed, RepoInv, Kinds, OfKind
<1>2. Citable(repo) /\ repo \in FileSet
  BY DEF RepoInv, Kinds
<1>3. Follows(repo, repo)
  BY <1>2, Zenon DEF Follows
<1>4. Active(c) => Sound(pc[c], turn[c], run[c], staging[c], away[c], repo)
  BY DEF RepoInv
<1> QED BY <1>1, <1>2, <1>3, <1>4

\* What is published stays in a repository that follows.
LEMMA FollowsKeeps ==
  ASSUME NEW r, NEW w, Follows(r, w), NEW docs, Stays(docs, r) PROVE Stays(docs, w)
BY DEF Follows, Stays

\* A step of a capture, by what it makes of its own files and of the repository.
Taken(c, next, u, docs, s, a) ==
  /\ next \in PC /\ next # "snapshot" /\ u \in 1..Len(Families) /\ s \in FileSet /\ a \in FileSet
  /\ pc' = [pc EXCEPT ![c] = next] /\ turn' = [turn EXCEPT ![c] = u]
  /\ run' = [run EXCEPT ![c] = docs]
  /\ staging' = [staging EXCEPT ![c] = s] /\ away' = [away EXCEPT ![c] = a]
  /\ \A f \in Family : docs[f] # NoDoc => docs[f].family = f
  /\ next = "decide" => u = 1
  /\ Follows(repo, repo')
  /\ next \notin Ended => Sound(next, u, docs, s, a, repo')
  /\ next = "published" => Stays(docs, repo')

\* It keeps the invariant when no other capture is at work.
LEMMA Takes ==
  ASSUME CaptureAssumption, CaptureInv, RepoInv, NEW c \in Captures, Alone(c),
         NEW next, NEW u, NEW docs, NEW s, NEW a, Taken(c, next, u, docs, s, a)
  PROVE  RepoInv'
<1>1. /\ pc \in [Captures -> PC] /\ DOMAIN run = Captures
      /\ turn \in [Captures -> 1..Len(Families)]
      /\ staging \in [Captures -> FileSet] /\ away \in [Captures -> FileSet]
  BY DEF CaptureInv, Typed, RepoInv, Kinds
<1>2. /\ pc'[c] = next /\ turn'[c] = u /\ run'[c] = docs /\ staging'[c] = s /\ away'[c] = a
      /\ turn' \in [Captures -> 1..Len(Families)]
      /\ staging' \in [Captures -> FileSet] /\ away' \in [Captures -> FileSet]
  BY <1>1 DEF Taken
<1>3. \A other \in Captures \ {c} :
        /\ pc'[other] = pc[other] /\ turn'[other] = turn[other] /\ run'[other] = run[other]
        /\ staging'[other] = staging[other] /\ away'[other] = away[other]
  BY <1>1 DEF Taken
<1>4. repo' \in FileSet /\ Citable(repo')
  BY DEF Follows, Taken
<1>5. Kinds'
  <2>1. \A other \in Captures : pc'[other] \in {"snapshot", "decide"} => turn'[other] = 1
    BY <1>2, <1>3 DEF RepoInv, Kinds, Taken
  <2>2. \A other \in Captures, f \in Family : run'[other][f] # NoDoc => run'[other][f].family = f
    BY <1>2, <1>3 DEF RepoInv, Kinds, Taken
  <2> QED BY <1>2, <1>4, <2>1, <2>2 DEF Kinds
<1>6. \A other \in Captures \ {c} : ~Active(other)'
  BY <1>3 DEF Alone, Active
<1>7. \A d, e \in Captures : Active(d)' /\ Active(e)' => d = e
  BY <1>6
<1>8. ASSUME NEW d \in Captures, Active(d)'
      PROVE  Sound(pc[d], turn[d], run[d], staging[d], away[d], repo)'
  <2>1. d = c /\ pc'[c] \notin Ended
    BY <1>6, <1>8 DEF Active
  <2>2. Sound(next, u, docs, s, a, repo')
    BY <1>2, <2>1 DEF Taken
  <2> QED BY <1>2, <2>1, <2>2
<1>9. ASSUME NEW d \in Captures, pc'[d] = "published" PROVE Stays(run[d], repo)'
  <2>1. CASE d = c
    <3>1. Stays(docs, repo')
      BY <1>2, <1>9, <2>1 DEF Taken
    <3> QED BY <1>2, <2>1, <3>1
  <2>2. CASE d # c
    <3>1. pc[d] = "published" /\ run'[d] = run[d]
      BY <1>3, <1>9, <2>2
    <3>2. Stays(run[d], repo)
      BY <3>1 DEF RepoInv
    <3>3. Stays(run[d], repo')
      BY <3>2, FollowsKeeps DEF Taken
    <3> QED BY <3>1, <3>3
  <2> QED BY <2>1, <2>2
<1> QED BY <1>4, <1>5, <1>7, <1>8, <1>9 DEF RepoInv

\* Where the next family is taken up.
LEMMA NextFamilyMoves ==
  ASSUME NEW c \in Captures, NEW first, NEW after, turn[c] \in 1..Len(Families), Len(Families) \in Nat,
         NextFamily(c, first, after)
  PROVE  \E next \in {first, after}, u \in 1..Len(Families) :
           /\ pc' = [pc EXCEPT ![c] = next] /\ turn' = [turn EXCEPT ![c] = u]
           /\ Moves(turn[c], first, after, next, u) /\ (next = after /\ first # after => u = 1)
<1>1. CASE turn[c] < Len(Families)
  <2>1. turn[c] + 1 \in 1..Len(Families)
    BY <1>1
  <2>2. turn' = [turn EXCEPT ![c] = turn[c] + 1] /\ pc' = [pc EXCEPT ![c] = first]
    BY <1>1 DEF NextFamily, Goto
  <2>3. Moves(turn[c], first, after, first, turn[c] + 1)
    BY <1>1 DEF Moves
  <2> QED BY <2>1, <2>2, <2>3
<1>2. CASE ~(turn[c] < Len(Families))
  <2>1. turn' = [turn EXCEPT ![c] = 1] /\ pc' = [pc EXCEPT ![c] = after]
    BY <1>2 DEF NextFamily, Goto
  <2>2. Moves(turn[c], first, after, after, 1) /\ 1 \in 1..Len(Families)
    BY <1>2 DEF Moves
  <2> QED BY <2>1, <2>2
<1> QED BY <1>1, <1>2

\* Steps that leave all files as they are.
LEMMA StaysPut ==
  ASSUME CaptureAssumption, CaptureInv, RepoInv, NEW c \in Captures, Alone(c),
         NEW next \in PC, next \notin {"snapshot", "decide", "published"},
         pc' = [pc EXCEPT ![c] = next], UNCHANGED <<turn, run, staging, away, repo>>,
         next \notin Ended => Sound(next, turn[c], run[c], staging[c], away[c], repo)
  PROVE  RepoInv'
<1>1. OfKind(turn[c], run[c], staging[c], away[c], repo) /\ Follows(repo, repo)
  BY AtWork
<1>2. /\ turn[c] \in 1..Len(Families) /\ staging[c] \in FileSet /\ away[c] \in FileSet
      /\ \A f \in Family : run[c][f] # NoDoc => run[c][f].family = f
  BY <1>1 DEF OfKind
<1>3. /\ turn' = [turn EXCEPT ![c] = turn[c]] /\ run' = [run EXCEPT ![c] = run[c]]
      /\ staging' = [staging EXCEPT ![c] = staging[c]] /\ away' = [away EXCEPT ![c] = away[c]]
  BY SameAt DEF RepoInv, Kinds, CaptureInv, Typed
<1>4. Follows(repo, repo') /\ (next \notin Ended => Sound(next, turn[c], run[c], staging[c], away[c], repo'))
  BY <1>1
<1> DEFINE t == turn[c]
           docs == run[c]
           s == staging[c]
           a == away[c]
<1> HIDE DEF t, docs, s, a
<1>5. /\ t \in 1..Len(Families) /\ s \in FileSet /\ a \in FileSet
      /\ \A f \in Family : docs[f] # NoDoc => docs[f].family = f
  BY <1>2 DEF t, docs, s, a
<1>6. /\ turn' = [turn EXCEPT ![c] = t] /\ run' = [run EXCEPT ![c] = docs]
      /\ staging' = [staging EXCEPT ![c] = s] /\ away' = [away EXCEPT ![c] = a]
  BY <1>3 DEF t, docs, s, a
<1>7. Follows(repo, repo') /\ (next \notin Ended => Sound(next, t, docs, s, a, repo'))
  BY <1>4 DEF t, docs, s, a
<1>8. /\ next # "snapshot" /\ next # "decide" /\ next # "published"
  OBVIOUS
<1>9. (next = "decide" => t = 1) /\ (next = "published" => Stays(docs, repo'))
  BY <1>8
<1>10. Taken(c, next, t, docs, s, a)
  BY <1>5, <1>6, <1>7, <1>8, <1>9 DEF Taken
<1> QED BY <1>10, Takes

\* The archives are copied.
LEMMA SnapshotKeeps ==
  ASSUME CaptureAssumption, CaptureInv, RepoInv, NEW c \in Captures, Alone(c), Snapshot(c)
  PROVE  RepoInv'
<1>1. OfKind(turn[c], run[c], staging[c], away[c], repo) /\ Follows(repo, repo) /\ Citable(repo)
  BY AtWork
<1>2. turn[c] = 1 /\ repo \in FileSet /\ 1 \in 1..Len(Families)
      /\ \A f \in Family : run[c][f] # NoDoc => run[c][f].family = f
  BY <1>1 DEF OfKind, Snapshot, RepoInv, Kinds
<1>3. /\ pc' = [pc EXCEPT ![c] = "settle"] /\ staging' = [staging EXCEPT ![c] = repo]
      /\ away' = [away EXCEPT ![c] = repo] /\ UNCHANGED <<repo, turn, run>>
  BY DEF Snapshot, Goto
<1>4. /\ turn' = [turn EXCEPT ![c] = 1] /\ run' = [run EXCEPT ![c] = run[c]]
  BY <1>2, <1>3, SameAt DEF RepoInv, Kinds, CaptureInv, Typed
<1>5. Sound("settle", 1, run[c], repo, repo, repo)
  BY <1>1, SnapshotSound
<1> DEFINE next == "settle"
           docs == run[c]
<1>6. /\ next \in PC /\ next # "snapshot" /\ next # "decide" /\ next # "published"
      /\ Sound(next, 1, docs, repo, repo, repo') /\ pc' = [pc EXCEPT ![c] = next]
      /\ run' = [run EXCEPT ![c] = docs]
      /\ \A f \in Family : docs[f] # NoDoc => docs[f].family = f
      /\ Follows(repo, repo')
  BY <1>1, <1>2, <1>3, <1>4, <1>5 DEF PC
<1> HIDE DEF next, docs
<1>7. (next = "decide" => 1 = 1) /\ (next = "published" => Stays(docs, repo'))
      /\ (next \notin Ended => Sound(next, 1, docs, repo, repo, repo'))
  BY <1>6
<1>8. Taken(c, next, 1, docs, repo, repo)
  BY <1>2, <1>3, <1>4, <1>6, <1>7 DEF Taken
<1> QED BY <1>8, Takes

\* A sweep ends with a document of the family at hand.
LEMMA SweepKeeps ==
  ASSUME CaptureAssumption, CaptureInv, RepoInv, NEW c \in Captures, Alone(c), Sweep(c)
  PROVE  RepoInv'
<1> DEFINE t == turn[c]
           docs == run[c]
           s == staging[c]
           a == away[c]
<1>1. OfKind(t, docs, s, a, repo) /\ Follows(repo, repo)
  BY AtWork
<1>2. Sound("sweep", t, docs, s, a, repo)
  BY AtWork DEF Sweep, Active, Ended
<1>3. PICK d \in Doc : d.family = Families[t] /\ run' = [run EXCEPT ![c][Families[t]] = d]
  BY DEF Sweep, Here
<1>4. /\ pc' = [pc EXCEPT ![c] = "check"] /\ UNCHANGED <<repo, staging, away, turn>>
  BY DEF Sweep, Goto
<1> DEFINE later == [docs EXCEPT ![Families[t]] = d]
<1>5. /\ turn' = [turn EXCEPT ![c] = t] /\ run' = [run EXCEPT ![c] = later]
      /\ staging' = [staging EXCEPT ![c] = s] /\ away' = [away EXCEPT ![c] = a]
  <2>1. /\ turn' = [turn EXCEPT ![c] = t]
        /\ staging' = [staging EXCEPT ![c] = s] /\ away' = [away EXCEPT ![c] = a]
    BY <1>4, SameAt DEF RepoInv, Kinds
  <2>2. run' = [run EXCEPT ![c] = later]
    BY <1>3
  <2> QED BY <2>1, <2>2
<1>6. /\ t \in 1..Len(Families) /\ s \in FileSet /\ a \in FileSet
      /\ \A f \in Family : docs[f] # NoDoc => docs[f].family = f
      /\ docs \in [Family -> Doc \cup {NoDoc}]
  BY <1>1 DEF OfKind
<1>7. Families[t] \in Family
  BY <1>6, InTurn
<1>8. \A f \in Family : later[f] # NoDoc => later[f].family = f
  BY <1>3, <1>6, <1>7
<1>9. Sound("check", t, later, s, a, repo)
  BY <1>1, <1>2, SweepSound
<1> DEFINE next == "check"
<1>10. /\ next \in PC /\ next # "snapshot" /\ next # "decide" /\ next # "published"
       /\ Sound(next, t, later, s, a, repo') /\ pc' = [pc EXCEPT ![c] = next]
       /\ Follows(repo, repo')
  BY <1>1, <1>4, <1>9 DEF PC
<1> HIDE DEF next, docs, t, s, a, later
<1>11. (next = "decide" => t = 1) /\ (next = "published" => Stays(later, repo'))
       /\ (next \notin Ended => Sound(next, t, later, s, a, repo'))
  BY <1>10
<1>12. Taken(c, next, t, later, s, a)
  BY <1>5, <1>6, <1>8, <1>10, <1>11 DEF Taken
<1> QED BY <1>12, Takes

\* A gate that refuses takes the document away.
LEMMA RefuseKeeps ==
  ASSUME CaptureAssumption, CaptureInv, RepoInv, NEW c \in Captures, Alone(c),
         NEW p \in {"check", "archive", "verify"}, pc[c] = p, Refuse(c)
  PROVE  RepoInv'
<1> DEFINE t == turn[c]
           docs == run[c]
           s == staging[c]
           a == away[c]
<1>1. OfKind(t, docs, s, a, repo) /\ Follows(repo, repo)
  BY AtWork
<1>2. Sound(p, t, docs, s, a, repo)
  BY AtWork DEF Active, Ended
<1> DEFINE later == [docs EXCEPT ![Families[t]] = NoDoc]
<1>3. /\ run' = [run EXCEPT ![c] = later] /\ UNCHANGED <<repo, staging, away>>
  BY DEF Refuse, Here
<1>4. /\ t \in 1..Len(Families) /\ s \in FileSet /\ a \in FileSet
      /\ \A f \in Family : docs[f] # NoDoc => docs[f].family = f
      /\ docs \in [Family -> Doc \cup {NoDoc}] /\ Len(Families) \in Nat
  BY <1>1, LenProperties DEF OfKind, CaptureAssumption
<1>5. PICK next \in {"settle", "import"}, u \in 1..Len(Families) :
        /\ pc' = [pc EXCEPT ![c] = next] /\ turn' = [turn EXCEPT ![c] = u]
        /\ Moves(t, "settle", "import", next, u)
  BY <1>4, NextFamilyMoves DEF Refuse
<1>6. staging' = [staging EXCEPT ![c] = s] /\ away' = [away EXCEPT ![c] = a]
  BY <1>3, SameAt DEF RepoInv, Kinds
<1>7. Families[t] \in Family
  BY <1>4, InTurn
<1>8. \A f \in Family : later[f] # NoDoc => later[f].family = f
  BY <1>4, <1>7
<1>9. Sound(next, u, later, s, a, repo)
  BY <1>1, <1>2, <1>5, RefuseSound
<1>10. /\ next \in PC /\ next # "snapshot" /\ next # "decide" /\ next # "published"
       /\ Sound(next, u, later, s, a, repo') /\ Follows(repo, repo')
  BY <1>1, <1>3, <1>9 DEF PC
<1> HIDE DEF docs, t, s, a, later
<1>11. (next = "decide" => u = 1) /\ (next = "published" => Stays(later, repo'))
       /\ (next \notin Ended => Sound(next, u, later, s, a, repo'))
  BY <1>10
<1>12. Taken(c, next, u, later, s, a)
  BY <1>3, <1>4, <1>5, <1>6, <1>8, <1>10, <1>11 DEF Taken
<1> QED BY <1>12, Takes

-----------------------------------------------------------------------------
\* A set of files with other files and another index.
LEMMA FilesAndIndex ==
  ASSUME NEW s \in FileSet, NEW files, NEW index
  PROVE  [s EXCEPT !.files = files, !.index = index]
           = [files |-> files, torn |-> s.torn, index |-> index, history |-> s.history]
<1> DEFINE w == [s EXCEPT !.files = files, !.index = index]
<1>1. /\ DOMAIN w = {"files", "torn", "index", "history"}
      /\ w = [field \in {"files", "torn", "index", "history"} |-> w[field]]
  BY DEF FileSet
<1>2. w.files = files /\ w.torn = s.torn /\ w.index = index /\ w.history = s.history
  BY DEF FileSet
<1> HIDE DEF w
<1>3. w = [files |-> w.files, torn |-> w.torn, index |-> w.index, history |-> w.history]
  BY <1>1
<1> QED BY <1>2, <1>3 DEF w

\* Gates that pass, and what ends a capture early.
LEMMA GatesKeep ==
  ASSUME CaptureAssumption, CaptureInv, RepoInv, NEW c \in Captures, Alone(c),
         NEW next,
         \/ pc[c] = "settle" /\ next = "sweep"
         \/ pc[c] = "check" /\ next = "archive"
         \/ pc[c] = "verify" /\ next = "retrieve",
         pc' = [pc EXCEPT ![c] = next], UNCHANGED <<turn, run, staging, away, repo>>
  PROVE  RepoInv'
<1>1. Sound(pc[c], turn[c], run[c], staging[c], away[c], repo)
  BY AtWork DEF Active, Ended
<1>2. <<pc[c], next>> \in {<<"settle", "sweep">>, <<"check", "archive">>, <<"verify", "retrieve">>}
  OBVIOUS
<1>4. Sound(next, turn[c], run[c], staging[c], away[c], repo)
  BY <1>1, <1>2, OnlyOn
<1>3. next \in PC /\ next \notin {"snapshot", "decide", "published"}
  BY DEF PC
<1> QED BY <1>3, <1>4, StaysPut

\* A capture that is over has nothing more to keep.
LEMMA OverKeeps ==
  ASSUME CaptureAssumption, CaptureInv, RepoInv, NEW c \in Captures, Alone(c),
         NEW next \in {"refused", "failed"},
         pc' = [pc EXCEPT ![c] = next], UNCHANGED <<turn, run, staging, away, repo>>
  PROVE  RepoInv'
<1>1. next \in PC /\ next \notin {"snapshot", "decide", "published"} /\ next \in Ended
  BY DEF PC, Ended
<1> QED BY <1>1, StaysPut

\* The document of the family at hand is filed and listed.
LEMMA ArchiveKeeps ==
  ASSUME CaptureAssumption, CaptureInv, RepoInv, NEW c \in Captures, Alone(c), Archive(c)
  PROVE  RepoInv'
<1>1. CASE Refuse(c)
  <2>1. pc[c] = "archive"
    BY DEF Archive
  <2> QED BY <1>1, <2>1, RefuseKeeps
<1>2. CASE ~Refuse(c)
  <2> DEFINE t == turn[c]
             docs == run[c]
             s == staging[c]
             a == away[c]
             here == Families[t]
             row == RowOf(docs[here])
             fs == [a.files EXCEPT ![here] = a.files[here] \cup {row}]
             is == [a.index EXCEPT ![here] = a.index[here] \cup {row}]
             b == [files |-> fs, torn |-> a.torn, index |-> is, history |-> a.history]
  <2>1. OfKind(t, docs, s, a, repo) /\ Follows(repo, repo)
    BY AtWork
  <2>2. Sound("archive", t, docs, s, a, repo)
    BY AtWork DEF Archive, Active, Ended
  <2>3. /\ a.index[here] # Torn /\ ~\E r \in There(a, here) : r.id = docs[here].id
        /\ pc' = [pc EXCEPT ![c] = "verify"] /\ UNCHANGED <<repo, staging, turn, run>>
    BY <1>2 DEF Archive, Here, Goto
  <2>4. away' = [away EXCEPT ![c] = b]
    <3>1. a \in FileSet /\ away \in [Captures -> FileSet]
      BY <2>1 DEF OfKind, RepoInv, Kinds
    <3>2. away' = [away EXCEPT ![c].files[here] = @ \cup {row}, ![c].index[here] = @ \cup {row}]
      BY <1>2 DEF Archive, Here
    <3>3. @ = [away EXCEPT ![c] = [a EXCEPT !.files = fs, !.index = is]]
      BY <3>1 DEF FileSet
    <3>4. [a EXCEPT !.files = fs, !.index = is] = b
      <4> HIDE DEF fs, is, a
      <4> QED BY <3>1, FilesAndIndex
    <3> QED BY <3>2, <3>3, <3>4
  <2>5. /\ t \in 1..Len(Families) /\ s \in FileSet /\ a \in FileSet
        /\ \A f \in Family : docs[f] # NoDoc => docs[f].family = f
        /\ docs \in [Family -> Doc \cup {NoDoc}]
    BY <2>1 DEF OfKind
  <2>6. here \in Family /\ docs[here] \in Doc
    <3>1. here \in Family
      BY <2>5, InTurn
    <3>2. docs[here] # NoDoc
      BY <2>2 DEF Sound, Gathering
    <3> QED BY <2>5, <3>1, <3>2
  <2>7. row \in Row
    BY <2>6 DEF Row
  <2> HIDE DEF row
  <2>8. b.files = [a.files EXCEPT ![here] = a.files[here] \cup {row}]
        /\ b.index = [a.index EXCEPT ![here] = a.index[here] \cup {row}]
        /\ b.history = a.history /\ b.torn = a.torn
        /\ b = [files |-> b.files, torn |-> b.torn, index |-> b.index, history |-> b.history]
    OBVIOUS
  <2>9. b \in FileSet
    <3>1. a.files \in [Family -> SUBSET Row] /\ a.index \in [Family -> (SUBSET Row) \cup {Torn}]
          /\ a.history \in Seq(EntryOf) \cup {Torn} /\ a.torn \in [Family -> SUBSET Row]
      BY <2>5 DEF FileSet
    <3>2. a.files[here] \cup {row} \in SUBSET Row
      BY <2>6, <2>7, <3>1
    <3>3. a.index[here] \cup {row} \in SUBSET Row
      BY <2>3, <2>6, <2>7, <3>1
    <3> HIDE DEF b
    <3>4. b.files \in [Family -> SUBSET Row]
      BY <2>6, <2>8, <3>1, <3>2
    <3>6. b.index \in [Family -> (SUBSET Row) \cup {Torn}]
      BY <2>6, <2>8, <3>1, <3>3
    <3>5. b.history \in Seq(EntryOf) \cup {Torn}
      BY <2>8, <3>1
    <3>7. b.torn \in [Family -> SUBSET Row]
      BY <2>8, <3>1
    <3> QED BY <2>8, <3>4, <3>5, <3>6, <3>7 DEF FileSet
  <2> HIDE DEF b
  <2>10. Sound("verify", t, docs, s, b, repo)
    BY <2>1, <2>2, <2>3, <2>8, ArchiveSound DEF row
  <2>11. /\ turn' = [turn EXCEPT ![c] = t] /\ run' = [run EXCEPT ![c] = docs]
         /\ staging' = [staging EXCEPT ![c] = s]
    BY <2>3, SameAt DEF RepoInv, Kinds, CaptureInv, Typed
  <2> DEFINE next == "verify"
  <2>12. /\ next \in PC /\ next # "snapshot" /\ next # "decide" /\ next # "published"
         /\ Sound(next, t, docs, s, b, repo') /\ Follows(repo, repo') /\ pc' = [pc EXCEPT ![c] = next]
    BY <2>1, <2>3, <2>10 DEF PC
  <2> HIDE DEF next, t, docs, s, a, here
  <2>13. Taken(c, next, t, docs, s, b)
    BY <2>4, <2>5, <2>9, <2>11, <2>12 DEF Taken
  <2> QED BY <2>13, Takes
<1> QED BY <1>1, <1>2

\* The document and the index come back to staging.
LEMMA RetrieveKeeps ==
  ASSUME CaptureAssumption, CaptureInv, RepoInv, NEW c \in Captures, Alone(c), Retrieve(c)
  PROVE  RepoInv'
<1> DEFINE t == turn[c]
           docs == run[c]
           s == staging[c]
           a == away[c]
           here == Families[t]
           row == RowOf(docs[here])
           fs == [s.files EXCEPT ![here] = s.files[here] \cup {row}]
           is == [s.index EXCEPT ![here] = a.index[here]]
           v == [files |-> fs, torn |-> s.torn, index |-> is, history |-> s.history]
<1>1. OfKind(t, docs, s, a, repo) /\ Follows(repo, repo)
  BY AtWork
<1>2. Sound("retrieve", t, docs, s, a, repo)
  BY AtWork DEF Retrieve, Active, Ended
<1>3. staging' = [staging EXCEPT ![c] = v] /\ UNCHANGED <<repo, away, run>>
  <2>1. s \in FileSet /\ staging \in [Captures -> FileSet]
    BY <1>1 DEF OfKind, RepoInv, Kinds
  <2>2. /\ UNCHANGED <<repo, away, run>>
        /\ staging' = [staging EXCEPT ![c].files[here] = @ \cup {row},
                                      ![c].index[here] = away[c].index[here]]
    BY DEF Retrieve, Here
  <2>3. staging' = [staging EXCEPT ![c] = [s EXCEPT !.files = fs, !.index = is]]
    BY <2>1, <2>2 DEF FileSet
  <2>4. [s EXCEPT !.files = fs, !.index = is] = v
    <3> HIDE DEF fs, is, s
    <3> QED BY <2>1, FilesAndIndex
  <2> QED BY <2>2, <2>3, <2>4
<1>4. /\ t \in 1..Len(Families) /\ s \in FileSet /\ a \in FileSet
      /\ \A f \in Family : docs[f] # NoDoc => docs[f].family = f
      /\ docs \in [Family -> Doc \cup {NoDoc}] /\ Len(Families) \in Nat
  BY <1>1, LenProperties DEF OfKind, CaptureAssumption
<1>5. PICK next \in {"settle", "import"}, u \in 1..Len(Families) :
        /\ pc' = [pc EXCEPT ![c] = next] /\ turn' = [turn EXCEPT ![c] = u]
        /\ Moves(t, "settle", "import", next, u)
  BY <1>4, NextFamilyMoves DEF Retrieve
<1>6. here \in Family /\ docs[here] \in Doc
  <2>1. here \in Family
    BY <1>4, InTurn
  <2>2. docs[here] # NoDoc
    BY <1>2 DEF Sound, Gathering
  <2> QED BY <1>4, <2>1, <2>2
<1>7. row \in Row
  BY <1>6 DEF Row
<1> HIDE DEF row
<1>8. /\ v.files = [s.files EXCEPT ![here] = s.files[here] \cup {row}]
      /\ v.index = [s.index EXCEPT ![here] = a.index[here]] /\ v.history = s.history /\ v.torn = s.torn
      /\ v = [files |-> v.files, torn |-> v.torn, index |-> v.index, history |-> v.history]
  OBVIOUS
<1> HIDE DEF v
<1>9. v \in FileSet
  <2>1. /\ s.files \in [Family -> SUBSET Row] /\ s.index \in [Family -> (SUBSET Row) \cup {Torn}]
        /\ s.history \in Seq(EntryOf) \cup {Torn} /\ s.torn \in [Family -> SUBSET Row]
        /\ a.index \in [Family -> (SUBSET Row) \cup {Torn}]
    BY <1>4 DEF FileSet
  <2>2. s.files[here] \cup {row} \in SUBSET Row /\ a.index[here] \in (SUBSET Row) \cup {Torn}
    BY <1>6, <1>7, <2>1
  <2>3. v.files \in [Family -> SUBSET Row]
    BY <1>6, <1>8, <2>1, <2>2
  <2>5. v.index \in [Family -> (SUBSET Row) \cup {Torn}]
    BY <1>6, <1>8, <2>1, <2>2
  <2>4. v.history \in Seq(EntryOf) \cup {Torn}
    BY <1>8, <2>1
  <2>6. v.torn \in [Family -> SUBSET Row]
    BY <1>8, <2>1
  <2> QED BY <1>8, <2>3, <2>4, <2>5, <2>6 DEF FileSet
<1>10. Sound(next, u, docs, v, a, repo)
  BY <1>1, <1>2, <1>5, <1>8, <1>9, RetrieveSound DEF row
<1>11. run' = [run EXCEPT ![c] = docs] /\ away' = [away EXCEPT ![c] = a]
  BY <1>3, SameAt DEF RepoInv, Kinds, CaptureInv, Typed
<1>12. /\ next \in PC /\ next # "snapshot" /\ next # "decide" /\ next # "published"
       /\ Sound(next, u, docs, v, a, repo') /\ Follows(repo, repo')
  BY <1>1, <1>3, <1>10 DEF PC
<1> HIDE DEF t, docs, s, a, here
<1>13. Taken(c, next, u, docs, v, a)
  BY <1>3, <1>4, <1>5, <1>9, <1>11, <1>12 DEF Taken
<1> QED BY <1>13, Takes

\* A family is imported, or refused, or was not archived.
LEMMA ImportKeeps ==
  ASSUME CaptureAssumption, CaptureInv, RepoInv, NEW c \in Captures, Alone(c), Import(c)
  PROVE  RepoInv'
<1> DEFINE t == turn[c]
           docs == run[c]
           s == staging[c]
           a == away[c]
           here == Families[t]
           d == docs[here]
           gone == [docs EXCEPT ![here] = NoDoc]
           kept == [s EXCEPT !.history = Kept(s.history, Entry(d))]
<1>1. OfKind(t, docs, s, a, repo) /\ Follows(repo, repo)
  BY AtWork
<1>2. Sound("import", t, docs, s, a, repo)
  BY AtWork DEF Import, Active, Ended
<1>3. /\ t \in 1..Len(Families) /\ s \in FileSet /\ a \in FileSet
      /\ \A f \in Family : docs[f] # NoDoc => docs[f].family = f
      /\ docs \in [Family -> Doc \cup {NoDoc}] /\ Len(Families) \in Nat
  BY <1>1, LenProperties DEF OfKind, CaptureAssumption
<1>4. UNCHANGED <<repo, away>> /\ NextFamily(c, "import", "decide")
  BY DEF Import
<1>5. PICK next \in {"import", "decide"}, u \in 1..Len(Families) :
        /\ pc' = [pc EXCEPT ![c] = next] /\ turn' = [turn EXCEPT ![c] = u]
        /\ Moves(t, "import", "decide", next, u) /\ (next = "decide" => u = 1)
  BY <1>3, <1>4, NextFamilyMoves
<1>6. here \in Family
  BY <1>3, InTurn
<1>7. \/ /\ d # NoDoc /\ Refusals(d, s.index[here], s.history) = {}
         /\ staging' = [staging EXCEPT ![c] = kept] /\ run' = run
      \/ /\ run' = [run EXCEPT ![c] = gone] /\ staging' = staging
      \/ /\ d = NoDoc /\ staging' = staging /\ run' = run
  BY DEF Import, Here
<1>8. staging = [staging EXCEPT ![c] = s] /\ run = [run EXCEPT ![c] = docs]
      /\ away = [away EXCEPT ![c] = a]
  BY SameAt DEF RepoInv, Kinds, CaptureInv, Typed
<1>9. /\ next \in PC /\ next # "snapshot" /\ next # "published"
  BY DEF PC
<1>10. \A f \in Family : gone[f] # NoDoc => gone[f].family = f
  BY <1>3, <1>6
<1>11. ASSUME NEW later, NEW v \in FileSet, Sound(next, u, later, v, a, repo),
              \A f \in Family : later[f] # NoDoc => later[f].family = f,
              run' = [run EXCEPT ![c] = later], staging' = [staging EXCEPT ![c] = v]
       PROVE  RepoInv'
  <2>1. Follows(repo, repo') /\ Sound(next, u, later, v, a, repo') /\ away' = [away EXCEPT ![c] = a]
    BY <1>1, <1>4, <1>8, <1>11
  <2> HIDE DEF t, docs, s, a, here, d, gone, kept
  <2>2. Taken(c, next, u, later, v, a)
    BY <1>3, <1>5, <1>9, <1>11, <2>1 DEF Taken
  <2> QED BY <2>2, Takes
<1>12. CASE /\ d # NoDoc /\ Refusals(d, s.index[here], s.history) = {}
            /\ staging' = [staging EXCEPT ![c] = kept] /\ run' = run
  <2>1. /\ kept.files = s.files /\ kept.torn = s.torn /\ kept.index = s.index
        /\ kept.history = Kept(s.history, Entry(d))
    BY <1>3 DEF FileSet
  <2>2. kept \in FileSet
    <3>1. d \in Doc /\ d.family = here
      BY <1>3, <1>6, <1>12
    <3>2. Citable(s) /\ Fresh(docs, s, here)
      <4>1. here \in Left(t)
        BY <1>3, InTurn
      <4> QED BY <1>2, <1>12, <4>1 DEF Sound, Importing
    <3>3. s.history # Torn => \A e \in Range(s.history) : e.id # d.id
      BY <3>2 DEF Fresh
    <3>4. Refusals(d, s.index[d.family], s.history) = {}
      BY <1>12, <3>1
    <3> HIDE DEF kept, d, s, here, docs, t
    <3>5. kept.history \in Seq(EntryOf)
      BY <1>3, <2>1, <3>1, <3>2, <3>3, <3>4, EntrySound
    <3> QED BY <1>3, <3>5 DEF FileSet, kept
  <2> HIDE DEF kept
  <2>3. Sound(next, u, docs, kept, a, repo)
    BY <1>1, <1>2, <1>5, <1>12, <2>1, <2>2, ImportSound
  <2> QED BY <1>3, <1>8, <1>11, <1>12, <2>2, <2>3
<1>13. CASE run' = [run EXCEPT ![c] = gone] /\ staging' = staging
  <2>1. Sound(next, u, gone, s, a, repo)
    BY <1>1, <1>2, <1>3, <1>5, ImportSound
  <2> QED BY <1>3, <1>8, <1>10, <1>11, <1>13, <2>1
<1>14. CASE d = NoDoc /\ staging' = staging /\ run' = run
  <2>1. Sound(next, u, docs, s, a, repo)
    BY <1>1, <1>2, <1>3, <1>5, <1>14, ImportSound
  <2> QED BY <1>3, <1>8, <1>11, <1>14, <2>1
<1> QED BY <1>7, <1>12, <1>13, <1>14

\* A capture that decides to publish has imported every family.
LEMMA DecideKeeps ==
  ASSUME CaptureAssumption, CaptureInv, RepoInv, NEW c \in Captures, Alone(c), Decide(c)
  PROVE  RepoInv'
<1>1. pc[c] = "decide" /\ UNCHANGED <<turn, run, staging, away, repo>>
  BY DEF Decide
<1>2. CASE (\A f \in Family : run[c][f] # NoDoc) /\ pc' = [pc EXCEPT ![c] = "documents"]
  <2>1. Sound("decide", turn[c], run[c], staging[c], away[c], repo)
    BY <1>1, AtWork DEF Active, Ended
  <2>2. turn[c] = 1
    BY <1>1 DEF RepoInv, Kinds
  <2>3. Sound("documents", turn[c], run[c], staging[c], away[c], repo)
    BY <1>2, <2>1, <2>2, DecideSound
  <2>4. "documents" \in PC /\ "documents" \notin {"snapshot", "decide", "published"}
    BY DEF PC
  <2> QED BY <1>1, <1>2, <2>3, <2>4, StaysPut
<1>3. CASE pc' = [pc EXCEPT ![c] = "refused"]
  BY <1>1, <1>3, OverKeeps
<1> QED BY <1>2, <1>3, Zenon DEF Decide, Goto

\* A step of the publication changes nothing but the repository.
LEMMA PublishKeeps ==
  ASSUME CaptureAssumption, CaptureInv, RepoInv, NEW c \in Captures, Alone(c),
         NEW next \in PC, next # "snapshot", next # "decide", NEW u \in 1..Len(Families),
         pc' = [pc EXCEPT ![c] = next], turn' = [turn EXCEPT ![c] = u],
         UNCHANGED <<run, staging, away>>, Follows(repo, repo'),
         next \notin Ended => Sound(next, u, run[c], staging[c], away[c], repo'),
         next = "published" => Stays(run[c], repo')
  PROVE  RepoInv'
<1> DEFINE docs == run[c]
           s == staging[c]
           a == away[c]
<1>1. /\ s \in FileSet /\ a \in FileSet
      /\ \A f \in Family : docs[f] # NoDoc => docs[f].family = f
  BY AtWork DEF OfKind
<1>2. /\ run' = [run EXCEPT ![c] = docs] /\ staging' = [staging EXCEPT ![c] = s]
      /\ away' = [away EXCEPT ![c] = a]
  BY SameAt DEF RepoInv, Kinds, CaptureInv, Typed
<1>3. (next \notin Ended => Sound(next, u, docs, s, a, repo')) /\ (next = "published" => Stays(docs, repo'))
  OBVIOUS
<1> HIDE DEF docs, s, a
<1>4. Taken(c, next, u, docs, s, a)
  BY <1>1, <1>2, <1>3 DEF Taken
<1> QED BY <1>4, Takes

\* A document was torn where a capture broke off.
BrokeOff(f, row) == \E c \in Captures : pc[c] = "failed" /\ cut[c] = <<f, row>>

\* What was copied is there, and what is torn was torn by a capture that broke off
\* there, in the repository or in what later captures took from it.
CopiesInv ==
  /\ copied \in [Captures -> SUBSET (Family \X Row)] /\ DOMAIN cut = Captures
  /\ \A c \in Captures : \A p \in copied[c] : p[2] \in There(repo, p[1])
  /\ \A f \in Family : \A row \in repo.torn[f] : BrokeOff(f, row)
  /\ \A c \in Captures, f \in Family : \A row \in staging[c].torn[f] : BrokeOff(f, row)

\* What writing a document makes of the repository.
LEMMA WritesOne ==
  ASSUME repo \in FileSet, NEW f \in Family, NEW row \in Row, NEW torn \in BOOLEAN
  PROVE  /\ Written(f, row, torn) \in FileSet
         /\ Written(f, row, torn).index = repo.index /\ Written(f, row, torn).history = repo.history
         /\ There(Written(f, row, torn), f) = There(repo, f) \cup {row}
         /\ \A g \in Family \ {f} : There(Written(f, row, torn), g) = There(repo, g)
         /\ \A g \in Family : \A x \in Written(f, row, torn).torn[g] :
              x \in repo.torn[g] \/ (torn /\ g = f /\ x = row)
<1> DEFINE w == Written(f, row, torn)
           whole == IF torn THEN repo.files[f] \ {row} ELSE repo.files[f] \cup {row}
           part == IF torn THEN repo.torn[f] \cup {row} ELSE repo.torn[f] \ {row}
           files == [repo.files EXCEPT ![f] = whole]
           parts == [repo.torn EXCEPT ![f] = part]
<1>1. /\ repo.files \in [Family -> SUBSET Row] /\ repo.torn \in [Family -> SUBSET Row]
      /\ repo.index \in [Family -> (SUBSET Row) \cup {Torn}] /\ repo.history \in Seq(EntryOf) \cup {Torn}
      /\ DOMAIN repo = {"files", "torn", "index", "history"}
  BY DEF FileSet
<1>2. w = [repo EXCEPT !.files = files, !.torn = parts]
  BY <1>1 DEF Written
<1>3. whole \in SUBSET Row /\ part \in SUBSET Row
  BY <1>1
<1>4. whole \cup part = There(repo, f) \cup {row}
  BY DEF There
<1>5. \A x \in part : x \in repo.torn[f] \/ (torn /\ x = row)
  OBVIOUS
<1> HIDE DEF whole, part, w
<1>6. /\ files \in [Family -> SUBSET Row] /\ files[f] = whole
      /\ parts \in [Family -> SUBSET Row] /\ parts[f] = part
      /\ \A g \in Family \ {f} : files[g] = repo.files[g] /\ parts[g] = repo.torn[g]
  BY <1>1, <1>3
<1> HIDE DEF files, parts
<1>7. /\ w.files = files /\ w.torn = parts /\ w.index = repo.index /\ w.history = repo.history
      /\ w = [files |-> w.files, torn |-> w.torn, index |-> w.index, history |-> w.history]
  <2>1. /\ DOMAIN w = {"files", "torn", "index", "history"}
        /\ w = [field \in {"files", "torn", "index", "history"} |-> w[field]]
    BY <1>1, <1>2
  <2>2. /\ w.files = files /\ w.torn = parts /\ w.index = repo.index /\ w.history = repo.history
    BY <1>1, <1>2
  <2> QED BY <2>1, <2>2
<1>8. w \in FileSet
  BY <1>1, <1>6, <1>7 DEF FileSet
<1>9. There(w, f) = There(repo, f) \cup {row}
  BY <1>4, <1>6, <1>7 DEF There
<1>10. \A g \in Family \ {f} : There(w, g) = There(repo, g)
  BY <1>6, <1>7 DEF There
<1>11. \A g \in Family : \A x \in w.torn[g] : x \in repo.torn[g] \/ (torn /\ g = f /\ x = row)
  BY <1>5, <1>6, <1>7
<1> QED BY <1>7, <1>8, <1>9, <1>10, <1>11 DEF w

\* What a copy of one document does, broken off or not.
LEMMA CopiesOne ==
  ASSUME CaptureAssumption, CaptureInv, RepoInv, NEW c \in Captures, CopyDocument(c)
  PROVE  /\ pc[c] = "documents" /\ UNCHANGED <<turn, run, staging, away>> /\ Here(c) \in Family
         /\ \E row \in There(staging[c], Here(c)) \cap Row, torn \in BOOLEAN :
              /\ repo' = Written(Here(c), row, torn)
              /\ \/ /\ copied' = [copied EXCEPT ![c] = @ \cup {<<Here(c), row>>}] /\ cut' = cut
                    /\ torn => row \in staging[c].torn[Here(c)]
                    /\ \/ pc' = [pc EXCEPT ![c] = "documents"]
                       \/ pc' = [pc EXCEPT ![c] = "index"] /\ ToCopy(c) = {row}
                 \/ /\ cut' = [cut EXCEPT ![c] = <<Here(c), row>>] /\ copied' = copied
                    /\ pc' = [pc EXCEPT ![c] = "failed"]
<1>1. pc[c] = "documents" /\ UNCHANGED <<turn, run, staging, away>>
  BY DEF CopyDocument
<1>2. Here(c) \in Family /\ staging[c] \in FileSet
  BY InTurn DEF RepoInv, Kinds, Here
<1>3. There(staging[c], Here(c)) \subseteq Row
  BY <1>2 DEF FileSet, There
<1>4. PICK row \in ToCopy(c) :
        \/ /\ repo' = Written(Here(c), row, row \in staging[c].torn[Here(c)])
           /\ copied' = [copied EXCEPT ![c] = @ \cup {<<Here(c), row>>}]
           /\ Goto(c, IF ToCopy(c) = {row} THEN "index" ELSE "documents")
           /\ UNCHANGED cut
        \/ /\ repo' = Written(Here(c), row, TRUE)
           /\ cut' = [cut EXCEPT ![c] = <<Here(c), row>>]
           /\ Goto(c, "failed")
           /\ UNCHANGED copied
  BY Zenon DEF CopyDocument
<1>5. row \in There(staging[c], Here(c)) \cap Row
  BY <1>3 DEF ToCopy
<1>6. CASE /\ repo' = Written(Here(c), row, row \in staging[c].torn[Here(c)])
           /\ copied' = [copied EXCEPT ![c] = @ \cup {<<Here(c), row>>}]
           /\ Goto(c, IF ToCopy(c) = {row} THEN "index" ELSE "documents")
           /\ UNCHANGED cut
  <2> DEFINE torn == row \in staging[c].torn[Here(c)]
  <2>1. torn \in BOOLEAN /\ repo' = Written(Here(c), row, torn)
    BY <1>6
  <2>2. \/ pc' = [pc EXCEPT ![c] = "documents"]
        \/ pc' = [pc EXCEPT ![c] = "index"] /\ ToCopy(c) = {row}
    BY <1>6 DEF Goto
  <2> QED BY <1>1, <1>2, <1>5, <1>6, <2>1, <2>2
<1>7. CASE /\ repo' = Written(Here(c), row, TRUE)
           /\ cut' = [cut EXCEPT ![c] = <<Here(c), row>>]
           /\ Goto(c, "failed")
           /\ UNCHANGED copied
  BY <1>1, <1>2, <1>5, <1>7 DEF Goto
<1> QED BY <1>4, <1>6, <1>7

\* A document is copied, or torn.
LEMMA CopyDocumentKeeps ==
  ASSUME CaptureAssumption, CaptureInv, RepoInv, CopiesInv, NEW c \in Captures, Alone(c),
         CopyDocument(c)
  PROVE  RepoInv'
<1> DEFINE t == turn[c]
           docs == run[c]
           s == staging[c]
           a == away[c]
           here == Families[t]
<1>1. OfKind(t, docs, s, a, repo) /\ Citable(repo) /\ here = Here(c)
  BY AtWork DEF Here
<1>2. /\ Sound("documents", t, docs, s, a, repo) /\ pc[c] = "documents"
      /\ UNCHANGED <<turn, run, staging, away>> /\ here \in Family
  BY AtWork, CopiesOne DEF Active, Ended, Here
<1>3. PICK row \in There(s, here) \cap Row, torn \in BOOLEAN :
        /\ repo' = Written(here, row, torn)
        /\ \/ pc' = [pc EXCEPT ![c] = "documents"] \/ pc' = [pc EXCEPT ![c] = "failed"]
           \/ pc' = [pc EXCEPT ![c] = "index"] /\ ToCopy(c) = {row}
  BY <1>1, CopiesOne, Zenon
<1>4. /\ repo' \in FileSet /\ repo'.index = repo.index /\ repo'.history = repo.history
      /\ There(repo', here) = There(repo, here) \cup {row}
      /\ \A f \in Family \ {here} : There(repo', f) = There(repo, f)
  <2>1. repo \in FileSet
    BY <1>1 DEF OfKind
  <2> QED BY <1>2, <1>3, <2>1, WritesOne
<1>5. /\ Follows(repo, repo') /\ Sound("documents", t, docs, s, a, repo')
      /\ There(s, here) \subseteq There(repo', here) => Sound("index", t, docs, s, a, repo')
  <2>1. row \in There(s, here) /\ Sound("documents", t, docs, s, a, repo)
        /\ OfKind(t, docs, s, a, repo) /\ Citable(repo)
    BY <1>1, <1>2, <1>3
  <2> HIDE DEF t, docs, s, a
  <2> QED BY <1>4, <2>1, DocumentSound
<1>6. ToCopy(c) = {row} => There(s, here) \subseteq There(repo', here)
  <2>1. ASSUME ToCopy(c) = {row}, NEW x \in There(s, here) PROVE x \in There(repo', here)
    <3>1. CASE <<here, x>> \in copied[c]
      <4>1. <<here, x>>[1] = here /\ <<here, x>>[2] = x
        OBVIOUS
      <4>2. x \in There(repo, here)
        BY <3>1, <4>1 DEF CopiesInv
      <4> QED BY <1>4, <4>2
    <3>2. CASE <<here, x>> \notin copied[c]
      <4>1. x = row
        BY <1>1, <2>1, <3>2 DEF ToCopy
      <4> QED BY <1>4, <4>1
    <3> QED BY <3>1, <3>2
  <2> QED BY <2>1
<1>7. PICK next \in {"documents", "index", "failed"} :
        /\ pc' = [pc EXCEPT ![c] = next]
        /\ next # "failed" => Sound(next, t, docs, s, a, repo')
  BY <1>3, <1>5, <1>6
<1>8. turn[c] \in 1..Len(Families) /\ turn' = [turn EXCEPT ![c] = turn[c]]
  BY <1>2, SameAt DEF RepoInv, Kinds
<1>9. /\ next \in PC /\ next # "snapshot" /\ next # "decide" /\ next # "published"
      /\ next \notin Ended => next # "failed"
  BY DEF PC, Ended
<1> QED BY <1>2, <1>5, <1>7, <1>8, <1>9, PublishKeeps

\* Its index is copied, or torn.
LEMMA CopyIndexKeeps ==
  ASSUME CaptureAssumption, CaptureInv, RepoInv, NEW c \in Captures, Alone(c), CopyIndex(c)
  PROVE  RepoInv'
<1> DEFINE t == turn[c]
           docs == run[c]
           s == staging[c]
           a == away[c]
<1>1. OfKind(t, docs, s, a, repo) /\ Citable(repo)
  BY AtWork
<1>2. Sound("index", t, docs, s, a, repo)
  BY AtWork DEF CopyIndex, Active, Ended
<1>3. t \in 1..Len(Families) /\ Len(Families) \in Nat
  BY <1>1, LenProperties DEF OfKind, CaptureAssumption
<1>4. UNCHANGED <<run, staging, away>>
  BY DEF CopyIndex
<1>5. CASE /\ repo' = [repo EXCEPT !.index[Families[t]] = s.index[Families[t]]]
           /\ NextFamily(c, "documents", "history")
  <2>1. PICK next \in {"documents", "history"}, u \in 1..Len(Families) :
          /\ pc' = [pc EXCEPT ![c] = next] /\ turn' = [turn EXCEPT ![c] = u]
          /\ Moves(t, "documents", "history", next, u)
    BY <1>3, <1>5, NextFamilyMoves
  <2>2. Follows(repo, repo') /\ Sound(next, u, docs, s, a, repo')
    BY <1>1, <1>2, <1>5, <2>1, IndexSound
  <2>3. /\ next \in PC /\ next # "snapshot" /\ next # "decide" /\ next # "published"
    BY DEF PC
  <2> QED BY <1>4, <2>1, <2>2, <2>3, PublishKeeps
<1>6. CASE /\ repo' = [repo EXCEPT !.index[Families[t]] = Torn]
           /\ pc' = [pc EXCEPT ![c] = "failed"] /\ turn' = turn
  <2>1. Follows(repo, repo')
    BY <1>1, <1>2, <1>6, IndexSound
  <2>2. turn' = [turn EXCEPT ![c] = turn[c]] /\ turn[c] \in 1..Len(Families)
    BY <1>3, <1>6, SameAt DEF RepoInv, Kinds
  <2> DEFINE next == "failed"
  <2>3. /\ next \in PC /\ next # "snapshot" /\ next # "decide" /\ next # "published" /\ next \in Ended
        /\ pc' = [pc EXCEPT ![c] = next]
    BY <1>6 DEF PC, Ended
  <2> HIDE DEF next
  <2> QED BY <1>4, <2>1, <2>2, <2>3, PublishKeeps
<1>7. \/ /\ repo' = [repo EXCEPT !.index[Families[t]] = s.index[Families[t]]]
         /\ NextFamily(c, "documents", "history")
      \/ /\ repo' = [repo EXCEPT !.index[Families[t]] = Torn]
         /\ pc' = [pc EXCEPT ![c] = "failed"] /\ turn' = turn
  BY DEF CopyIndex, Here, Goto
<1> QED BY <1>5, <1>6, <1>7

\* The history is copied, or torn.
LEMMA CopyHistoryKeeps ==
  ASSUME CaptureAssumption, CaptureInv, RepoInv, NEW c \in Captures, Alone(c), CopyHistory(c)
  PROVE  RepoInv'
<1> DEFINE t == turn[c]
           docs == run[c]
           s == staging[c]
           a == away[c]
<1>1. OfKind(t, docs, s, a, repo) /\ Citable(repo)
  BY AtWork
<1>2. Sound("history", t, docs, s, a, repo)
  BY AtWork DEF CopyHistory, Active, Ended
<1>3. UNCHANGED <<turn, run, staging, away>>
  BY DEF CopyHistory
<1>4. turn[c] \in 1..Len(Families) /\ turn' = [turn EXCEPT ![c] = turn[c]]
  BY <1>3, SameAt DEF RepoInv, Kinds
<1>5. CASE repo' = [repo EXCEPT !.history = s.history] /\ pc' = [pc EXCEPT ![c] = "published"]
  <2>1. Follows(repo, repo') /\ Stays(docs, repo')
    BY <1>1, <1>2, <1>5, HistorySound
  <2> DEFINE next == "published"
  <2>2. /\ next \in PC /\ next # "snapshot" /\ next # "decide" /\ next \in Ended
        /\ pc' = [pc EXCEPT ![c] = next]
    BY <1>5 DEF PC, Ended
  <2> HIDE DEF next
  <2> QED BY <1>3, <1>4, <2>1, <2>2, PublishKeeps
<1>6. CASE repo' = [repo EXCEPT !.history = Torn] /\ pc' = [pc EXCEPT ![c] = "failed"]
  <2>1. Follows(repo, repo')
    BY <1>1, <1>2, <1>6, HistorySound
  <2> DEFINE next == "failed"
  <2>2. /\ next \in PC /\ next # "snapshot" /\ next # "decide" /\ next \in Ended /\ next # "published"
        /\ pc' = [pc EXCEPT ![c] = next]
    BY <1>6 DEF PC, Ended
  <2> HIDE DEF next
  <2> QED BY <1>3, <1>4, <2>1, <2>2, PublishKeeps
<1> QED BY <1>5, <1>6 DEF CopyHistory, Goto

-----------------------------------------------------------------------------
\* At first the repository is empty and nobody is at work.
LEMMA RepoInit == ASSUME CaptureAssumption, Init PROVE RepoInv
<1>1. /\ repo = Empty /\ \A c \in Captures : pc[c] = "snapshot"
      /\ \A c \in Captures, f \in Family : run[c][f] = NoDoc
  BY DEF Init
<1>2. Empty \in FileSet
  <2>1. <<>> \in Seq(EntryOf)
    BY EmptySeq
  <2> QED BY <2>1 DEF Empty, FileSet
<1>3. Citable(Empty)
  <2>1. Range(<<>>) = {}
    BY DEF Range
  <2>2. NoneMoved(<<>>)
    BY DEF NoneMoved
  <2> QED BY <2>1, <2>2 DEF Citable, Empty
<1>4. 1 \in 1..Len(Families)
  <2>1. Len(Families) \in Nat /\ Len(Families) # 0
    BY LenProperties, EmptySeq DEF CaptureAssumption
  <2> QED BY <2>1
<1>5. Kinds
  BY <1>1, <1>2, <1>4 DEF Init, Kinds
<1>6. \A c \in Captures : ~Active(c) /\ pc[c] # "published"
  BY <1>1 DEF Active
<1> QED BY <1>1, <1>3, <1>5, <1>6 DEF RepoInv

\* One capture after another: whichever takes a step is alone at work.
LEMMA StepsAlone ==
  ASSUME CaptureInv, RepoInv, OneAtATime, NEW c \in Captures, pc[c] \notin Ended,
         pc[c] = "snapshot" => pc'[c] # "snapshot"
  PROVE  Alone(c)
<1>1. CASE pc[c] = "snapshot"
  BY <1>1 DEF OneAtATime, Alone, Active
<1>2. CASE pc[c] # "snapshot"
  BY <1>2 DEF RepoInv, Alone, Active
<1> QED BY <1>1, <1>2

\* Every step of a capture alone at work keeps the invariant.
LEMMA RepoStep ==
  ASSUME CaptureAssumption, CaptureInv, RepoInv, CopiesInv, NEW c \in Captures, Alone(c),
         \/ Snapshot(c) \/ Settle(c) \/ Sweep(c)
         \/ Check(c) \/ Archive(c) \/ Verify(c) \/ Retrieve(c)
         \/ Import(c) \/ Decide(c)
         \/ CopyDocument(c) \/ CopyIndex(c) \/ CopyHistory(c)
         \/ Fail(c)
  PROVE  RepoInv'
<1>1. CASE Settle(c)
  <2>1. pc[c] = "settle" /\ UNCHANGED <<turn, run, staging, away, repo>>
    BY <1>1 DEF Settle
  <2>2. PICK next \in {"sweep", "refused"} : pc' = [pc EXCEPT ![c] = next]
    BY <1>1 DEF Settle, Goto
  <2>3. CASE next = "sweep"
    BY <2>1, <2>2, <2>3, GatesKeep
  <2>4. CASE next = "refused"
    BY <2>1, <2>2, <2>4, OverKeeps
  <2> QED BY <2>3, <2>4
<1>2. CASE Check(c)
  <2>1. pc[c] = "check"
    BY <1>2 DEF Check
  <2>2. CASE Refuse(c)
    BY <2>1, <2>2, RefuseKeeps
  <2>3. CASE pc' = [pc EXCEPT ![c] = "archive"] /\ UNCHANGED <<turn, run, staging, away, repo>>
    BY <2>1, <2>3, GatesKeep
  <2> QED BY <1>2, <2>2, <2>3 DEF Check, Goto
<1>3. CASE Verify(c)
  <2>1. pc[c] = "verify"
    BY <1>3 DEF Verify
  <2>2. CASE Refuse(c)
    BY <2>1, <2>2, RefuseKeeps
  <2>3. CASE pc' = [pc EXCEPT ![c] = "retrieve"] /\ UNCHANGED <<turn, run, staging, away, repo>>
    BY <2>1, <2>3, GatesKeep
  <2> QED BY <1>3, <2>2, <2>3 DEF Verify, Goto
<1>4. CASE Fail(c)
  <2>1. pc' = [pc EXCEPT ![c] = "failed"] /\ UNCHANGED <<turn, run, staging, away, repo>>
    BY <1>4 DEF Fail, Goto
  <2> QED BY <2>1, OverKeeps
<1> QED BY <1>1, <1>2, <1>3, <1>4, SnapshotKeeps, SweepKeeps, ArchiveKeeps, RetrieveKeeps,
           ImportKeeps, DecideKeeps, CopyDocumentKeeps, CopyIndexKeeps, CopyHistoryKeeps

\* Every step of the captures, one after another, and every stutter.
LEMMA RepoNext ==
  ASSUME CaptureAssumption, CaptureInv, RepoInv, CopiesInv, [Next /\ OneAtATime]_vars PROVE RepoInv'
<1>1. CASE UNCHANGED vars
  BY <1>1 DEF vars, RepoInv, Kinds, Active
<1>2. CASE Next /\ OneAtATime
  <2>1. PICK c \in Captures :
         \/ Snapshot(c) \/ Settle(c) \/ Sweep(c)
         \/ Check(c) \/ Archive(c) \/ Verify(c) \/ Retrieve(c)
         \/ Import(c) \/ Decide(c)
         \/ CopyDocument(c) \/ CopyIndex(c) \/ CopyHistory(c)
         \/ Fail(c)
    BY <1>2 DEF Next
  <2>2. pc[c] \notin Ended
    BY <2>1 DEF Ended, Snapshot, Settle, Sweep, Check, Archive, Verify, Retrieve, Import, Decide,
                CopyDocument, CopyIndex, CopyHistory, Fail
  <2>3. ASSUME pc[c] = "snapshot" PROVE pc'[c] # "snapshot"
    <3>1. Snapshot(c) \/ Fail(c)
      BY <2>1, <2>3 DEF Settle, Sweep, Check, Archive, Verify, Retrieve, Import, Decide,
                CopyDocument, CopyIndex, CopyHistory
    <3>2. pc'[c] \in {"settle", "failed"}
      BY <3>1 DEF Snapshot, Fail, Goto, CaptureInv, Typed
    <3> QED BY <3>2
  <2>4. Alone(c)
    BY <1>2, <2>2, <2>3, StepsAlone
  <2> QED BY <2>1, <2>4, RepoStep
<1> QED BY <1>1, <1>2

\* At first nothing is copied or torn.
LEMMA CopiesInit == ASSUME Init PROVE CopiesInv
<1>1. /\ copied = [c \in Captures |-> {}] /\ cut = [c \in Captures |-> NoDoc]
      /\ \A f \in Family : repo.torn[f] = {}
      /\ \A c \in Captures, f \in Family : staging[c].torn[f] = {}
  BY DEF Init, Empty
<1> QED BY <1>1 DEF CopiesInv

\* Steps that copy no document: at most a capture takes what the repository has.
LEMMA CopiesStay ==
  ASSUME CaptureInv, CopiesInv, UNCHANGED <<copied, cut>>,
         repo'.files = repo.files, repo'.torn = repo.torn,
         \A c \in Captures : pc[c] = "failed" => pc'[c] = "failed",
         \A c \in Captures : staging'[c].torn \in {staging[c].torn, repo.torn}
  PROVE  CopiesInv'
<1>1. \A f \in Family : \A row : BrokeOff(f, row) => BrokeOff(f, row)'
  BY DEF BrokeOff
<1>2. \A f : There(repo, f)' = There(repo, f)
  BY DEF There
<1>3. \A c \in Captures, f \in Family : \A row \in staging'[c].torn[f] : BrokeOff(f, row)
  BY DEF CopiesInv
<1> QED BY <1>1, <1>2, <1>3 DEF CopiesInv

\* A copy of one document.
LEMMA CopiesKept ==
  ASSUME CaptureAssumption, CaptureInv, RepoInv, CopiesInv, NEW c \in Captures, CopyDocument(c)
  PROVE  CopiesInv'
<1>0. PICK f : f = Here(c)
  OBVIOUS
<1>1. /\ pc[c] = "documents" /\ staging' = staging /\ f \in Family
  BY <1>0, CopiesOne
<1>2. PICK row \in There(staging[c], f) \cap Row, torn \in BOOLEAN :
        /\ repo' = Written(f, row, torn)
        /\ \/ /\ copied' = [copied EXCEPT ![c] = @ \cup {<<f, row>>}] /\ cut' = cut
              /\ torn => row \in staging[c].torn[f]
              /\ \/ pc' = [pc EXCEPT ![c] = "documents"]
                 \/ pc' = [pc EXCEPT ![c] = "index"] /\ ToCopy(c) = {row}
           \/ /\ cut' = [cut EXCEPT ![c] = <<f, row>>] /\ copied' = copied
              /\ pc' = [pc EXCEPT ![c] = "failed"]
  BY <1>0, CopiesOne
<1>3. /\ There(repo', f) = There(repo, f) \cup {row}
      /\ \A g \in Family \ {f} : There(repo', g) = There(repo, g)
      /\ \A g \in Family : \A x \in repo'.torn[g] : x \in repo.torn[g] \/ (torn /\ g = f /\ x = row)
  <2>1. repo \in FileSet
    BY DEF RepoInv, Kinds
  <2> QED BY <1>1, <1>2, <2>1, WritesOne
<1>4. /\ pc \in [Captures -> PC] /\ copied \in [Captures -> SUBSET (Family \X Row)]
      /\ DOMAIN cut = Captures
  BY DEF CaptureInv, Typed, CopiesInv
<1>5. \A g \in Family : \A x : BrokeOff(g, x) => BrokeOff(g, x)'
  <2>1. \A d \in Captures : pc[d] = "failed" => pc'[d] = "failed" /\ cut'[d] = cut[d]
    BY <1>1, <1>2, <1>4
  <2> QED BY <2>1 DEF BrokeOff
<1>6. /\ copied' \in [Captures -> SUBSET (Family \X Row)] /\ DOMAIN cut' = Captures
      /\ \A d \in Captures : \A p \in copied'[d] : p \in copied[d] \/ p = <<f, row>>
  BY <1>1, <1>2, <1>4
<1>7. ASSUME NEW d \in Captures, NEW p \in copied'[d] PROVE p[2] \in There(repo', p[1])
  <2>1. CASE p \in copied[d]
    <3>1. p[1] \in Family /\ p[2] \in There(repo, p[1])
      BY <1>4, <2>1 DEF CopiesInv
    <3> QED BY <1>3, <3>1
  <2>2. CASE p = <<f, row>>
    BY <1>3, <2>2
  <2> QED BY <1>6, <1>7, <2>1, <2>2
<1>8. ASSUME torn PROVE BrokeOff(f, row)'
  <2>1. CASE row \in staging[c].torn[f]
    BY <1>1, <1>5, <2>1 DEF CopiesInv
  <2>2. CASE cut' = [cut EXCEPT ![c] = <<f, row>>] /\ pc' = [pc EXCEPT ![c] = "failed"]
    <3>1. cut'[c] = <<f, row>> /\ pc'[c] = "failed"
      BY <1>4, <2>2
    <3> QED BY <3>1 DEF BrokeOff
  <2> QED BY <1>2, <1>8, <2>1, <2>2
<1>9. ASSUME NEW g \in Family, NEW x \in repo'.torn[g] PROVE BrokeOff(g, x)'
  <2>1. CASE x \in repo.torn[g]
    BY <1>5, <2>1 DEF CopiesInv
  <2>2. CASE torn /\ g = f /\ x = row
    BY <1>8, <2>2
  <2> QED BY <1>3, <1>9, <2>1, <2>2
<1>10. \A d \in Captures, g \in Family : \A x \in staging'[d].torn[g] : BrokeOff(g, x)'
  BY <1>1, <1>5 DEF CopiesInv
<1> QED BY <1>6, <1>7, <1>9, <1>10 DEF CopiesInv

\* Every step of the captures, and every stutter.
LEMMA CopiesNext ==
  ASSUME CaptureAssumption, CaptureInv, RepoInv, CopiesInv, [Next]_vars PROVE CopiesInv'
<1>1. CASE UNCHANGED vars
  <2>1. UNCHANGED <<repo, staging, pc, copied, cut>>
    BY <1>1 DEF vars, copies
  <2> QED BY <2>1, CopiesStay
<1>2. ASSUME NEW c \in Captures, CopyDocument(c) PROVE CopiesInv'
  BY <1>2, CopiesKept
<1>3. ASSUME NEW c \in Captures,
             \/ Snapshot(c) \/ Settle(c) \/ Sweep(c)
             \/ Check(c) \/ Archive(c) \/ Verify(c) \/ Retrieve(c)
             \/ Import(c) \/ Decide(c) \/ CopyIndex(c) \/ CopyHistory(c) \/ Fail(c)
      PROVE  CopiesInv'
  <2>1. UNCHANGED <<copied, cut>>
    BY <1>3, Zenon DEF Snapshot, Settle, Sweep, Check, Refuse, Archive, Verify, Retrieve, Import,
       Decide, CopyIndex, CopyHistory, Fail, copies
  <2>2. /\ repo \in FileSet /\ staging \in [Captures -> FileSet] /\ pc \in [Captures -> PC]
    BY DEF RepoInv, Kinds, CaptureInv, Typed
  <2>3. repo'.files = repo.files /\ repo'.torn = repo.torn
    <3>1. \/ repo' = repo
          \/ \E index : repo' = [repo EXCEPT !.index[Here(c)] = index]
          \/ \E entries : repo' = [repo EXCEPT !.history = entries]
      BY <1>3, Zenon DEF Snapshot, Settle, Sweep, Check, Refuse, Archive, Verify, Retrieve, Import,
         Decide, CopyIndex, CopyHistory, Fail
    <3> QED BY <2>2, <3>1 DEF FileSet
  <2>4. ASSUME NEW d \in Captures, pc[d] = "failed" PROVE pc'[d] = "failed"
    <3>1. pc[c] # "failed"
      BY <1>3 DEF Snapshot, Settle, Sweep, Check, Refuse, Archive, Verify, Retrieve, Import,
         Decide, CopyIndex, CopyHistory, Fail, Ended
    <3>2. \E next : pc' = [pc EXCEPT ![c] = next]
      <4>1. CASE Retrieve(c) \/ Import(c) \/ Refuse(c) \/ CopyIndex(c)
        BY <4>1, Turns, Zenon DEF Retrieve, Import, Refuse, CopyIndex, Goto
      <4>2. CASE ~(Retrieve(c) \/ Import(c) \/ Refuse(c) \/ CopyIndex(c))
        BY <1>3, <4>2, Zenon DEF Snapshot, Settle, Sweep, Check, Archive, Verify, Decide,
           CopyHistory, Fail, Goto
      <4> QED BY <4>1, <4>2
    <3> QED BY <2>2, <2>4, <3>1, <3>2
  <2>5. ASSUME NEW d \in Captures PROVE staging'[d].torn \in {staging[d].torn, repo.torn}
    <3>1. CASE staging' = staging
      BY <3>1
    <3>2. CASE staging' = [staging EXCEPT ![c] = repo]
      BY <2>2, <3>2
    <3>3. CASE Retrieve(c)
      BY <2>2, <3>3 DEF Retrieve, FileSet
    <3>4. CASE \E entries : staging' = [staging EXCEPT ![c].history = entries]
      BY <2>2, <3>4 DEF FileSet
    <3> QED BY <1>3, <3>1, <3>2, <3>3, <3>4, Zenon DEF Snapshot, Settle, Sweep, Check, Refuse,
            Archive, Verify, Import, Decide, CopyIndex, CopyHistory, Fail
  <2> QED BY <2>1, <2>3, <2>4, <2>5, CopiesStay
<1> QED BY <1>1, <1>2, <1>3, Zenon DEF Next

\* The three invariants hold of captures that run one after another.
LEMMA SerialInv == SerialSpec => [](CaptureInv /\ RepoInv /\ CopiesInv)
<1>1. Init => CaptureInv /\ RepoInv /\ CopiesInv
  BY CaptureAssumption, CaptureInit, RepoInit, CopiesInit
<1>2. (CaptureInv /\ RepoInv /\ CopiesInv) /\ [Next /\ OneAtATime]_vars
        => (CaptureInv /\ RepoInv /\ CopiesInv)'
  BY CaptureAssumption, CaptureNext, RepoNext, CopiesNext DEF vars
<1> QED BY <1>1, <1>2, PTL DEF SerialSpec

\* publish() of capture.py: the files of the repository refer to nothing that is
\* not there, between the copies of any two files and wherever a publication
\* breaks off: a whole index lists documents that have been copied, and each copy
\* that broke off has torn no other; an entry of a whole history is listed by its
\* family's index, and no two entries of one tree disagree about an invariant.
\* For any number of captures one after another, any families and any documents.
THEOREM RepoStaysCitable == SerialSpec => []RepoIsCitable
<1>1. RepoInv /\ CopiesInv => RepoIsCitable
  BY DEF RepoInv, Citable, CopiesInv, BrokeOff, RepoIsCitable
<1> QED BY <1>1, SerialInv, PTL

\* publish() of capture.py: what it copies over the repository holds everything
\* the repository held when the capture began, so that an entry and a row that
\* were once published stay published.
THEOREM PublishedIsKept == SerialSpec => []PublishedStays
<1>1. RepoInv => PublishedStays
  BY DEF RepoInv, Stays, PublishedStays
<1> QED BY <1>1, SerialInv, PTL
-----------------------------------------------------------------------------
(* The importer on its own: a history that is whole is the archive's.        *)

\* What a history promises when `rows` are listed in the archives.
Whole(h, rows) ==
  /\ h \in Seq(EntryOf) /\ OneEntryPerId(h) /\ Chronological(h) /\ NoneMoved(h)
  /\ \A e \in Range(h) : RowOf(e) \in rows[e.family]

\* What the importer has made sure of before it writes the entry of d.
Admitted(d, h, rows) ==
  /\ RowOf(d) \in rows[d.family]
  /\ \A e \in Range(h) : e.id # d.id => ~Moved(e, d)

\* A history has an entry under the run id of each of these runs: its own, or that
\* of another of them.
Stands(names, h) ==
  \A n \in names : \E e \in Range(h) : e.id = n[2] /\ (e.family = n[1] \/ Name(e) \in names)

\* A history that was read is still there when it is emptied, and one that was
\* emptied is in the hands of the importer, or needs somebody to check it out.
ImportInv ==
  /\ listed \in [Family -> SUBSET Row] /\ doc \in Doc
  /\ Whole(committed, listed)
  /\ history # Torn => Whole(history, listed) /\ Stands(imported, history)
  /\ step = "history" /\ why = {} => RowOf(doc) \in listed[doc.family]
  /\ step \in {"baseline", "open"} => seen = history /\ history # Torn /\ Admitted(doc, seen, listed)
  /\ step = "write" =>
       Whole(seen, listed) /\ Stands(imported, seen) /\ Admitted(doc, seen, listed)

\* Order in time, with one entry a run, is a relation between any two entries.
LEMMA InOrder ==
  ASSUME NEW h \in Seq(EntryOf)
  PROVE  OneEntryPerId(h) /\ Chronological(h) <=> Pairwise(h, Ordered(EntryOf))
<1>1. DOMAIN h \subseteq Nat /\ \A i \in DOMAIN h : h[i] \in EntryOf
  BY LenProperties, ElementOfSeq
<1>2. ASSUME OneEntryPerId(h), Chronological(h), NEW i \in DOMAIN h, NEW j \in DOMAIN h, i < j
      PROVE  <<h[i], h[j]>> \in Ordered(EntryOf)
  <2>1. i # j /\ h[i].at <= h[j].at
    BY <1>1, <1>2 DEF Chronological
  <2>2. h[i].id # h[j].id
    BY <1>2, <2>1 DEF OneEntryPerId
  <2> QED BY <1>1, <2>1, <2>2 DEF Ordered
<1>3. ASSUME Pairwise(h, Ordered(EntryOf))
      PROVE  OneEntryPerId(h) /\ Chronological(h)
  <2>1. \A i, j \in DOMAIN h : i < j => h[i].at <= h[j].at /\ h[i].id # h[j].id
    BY <1>3 DEF Pairwise, Ordered
  <2>2. ASSUME NEW i \in DOMAIN h, NEW j \in DOMAIN h, h[i].id = h[j].id PROVE i = j
    <3>1. ~(i < j) /\ ~(j < i)
      BY <2>1, <2>2
    <3> QED BY <1>1, <3>1
  <2> QED BY <2>1, <2>2 DEF OneEntryPerId, Chronological
<1> QED BY <1>2, <1>3 DEF Pairwise

\* A run's name is that of its entry.
LEMMA NameIsId ==
  ASSUME NEW d \in Doc, NEW e \in EntryOf
  PROVE  /\ Entry(d).id = d.id /\ Entry(d).at = d.at /\ Entry(d).family = d.family
         /\ RowOf(Entry(d)) = RowOf(d) /\ Name(Entry(d)) = Name(d)
         /\ \A x : Moved(x, Entry(d)) <=> Moved(x, d)
         /\ e.at \in Nat /\ e.family \in Family
<1>1. PICK c \in Doc : e = Entry(c)
  BY DEF EntryOf
<1>2. e.id = c.id /\ e.family = c.family /\ e.at = c.at
  BY <1>1 DEF Entry
<1>4. e.at \in Nat /\ e.family \in Family
  BY <1>2, ImporterAssumption DEF ImporterAssumption
<1>5. \A x : Moved(x, Entry(d)) <=> Moved(x, d)
  BY DEF Moved, Comparable, Entry
<1> QED BY <1>4, <1>5 DEF Entry, RowOf, Name

\* The history the importer writes.
LEMMA WrittenIsWhole ==
  ASSUME NEW rows, NEW h, Whole(h, rows), NEW d \in Doc, Admitted(d, h, rows)
  PROVE  /\ Whole(Kept(h, Entry(d)), rows)
         /\ \A names : Stands(names, h) => Stands(names \cup {Name(d)}, Kept(h, Entry(d)))
<1> DEFINE x == Entry(d)
           g == Kept(h, x)
<1>1. h \in Seq(EntryOf) /\ x \in EntryOf /\ Range(h) \subseteq EntryOf
  <2>1. h \in Seq(EntryOf)
    BY DEF Whole
  <2>2. x \in EntryOf
    BY DEF EntryOf
  <2> QED BY <2>1, <2>2, LenProperties, ElementOfSeq DEF Range
<1>2. /\ x.id = d.id /\ x.family = d.family /\ RowOf(x) = RowOf(d) /\ Name(x) = Name(d)
      /\ \A y : Moved(y, x) <=> Moved(y, d)
  BY <1>1, NameIsId
<1>3. \A e \in EntryOf : e.at \in Nat
  BY NameIsId
<1> HIDE DEF x
<1>5. /\ g \in Seq(EntryOf) /\ Range(g) = {e \in Range(h) : e.id # x.id} \cup {x}
      /\ Pairwise(h, Ordered(EntryOf)) => Pairwise(g, Ordered(EntryOf))
  BY <1>1, <1>3, KeptKeeps
<1> HIDE DEF g
<1>6. OneEntryPerId(g) /\ Chronological(g)
  <2>1. Pairwise(h, Ordered(EntryOf))
    BY <1>1, InOrder DEF Whole
  <2>2. Pairwise(g, Ordered(EntryOf))
    BY <1>5, <2>1
  <2> QED BY <1>5, <2>2, InOrder
<1>7. NoneMoved(g)
  <2>1. \A a, b \in Range(h) : ~Moved(a, b)
    BY NoneMovedIff DEF Whole
  <2>2. \A a \in Range(h) : a.id # x.id => ~Moved(a, x) /\ ~Moved(x, a)
    BY <1>2, MovedBoth DEF Admitted
  <2>3. ~Moved(x, x)
    BY MovedBoth
  <2>4. \A a, b \in Range(g) : ~Moved(a, b)
    BY <1>5, <2>1, <2>2, <2>3
  <2> QED BY <2>4, NoneMovedIff
<1>8. \A e \in Range(g) : RowOf(e) \in rows[e.family]
  BY <1>2, <1>5 DEF Whole, Admitted
<1>9. Whole(g, rows)
  BY <1>5, <1>6, <1>7, <1>8 DEF Whole
<1>10. ASSUME NEW names, Stands(names, h) PROVE Stands(names \cup {Name(d)}, g)
  <2> DEFINE all == names \cup {Name(d)}
  <2>1. x \in Range(g) /\ Name(x) \in all
    BY <1>2, <1>5
  <2> SUFFICES ASSUME NEW n \in all
               PROVE  \E e \in Range(g) : e.id = n[2] /\ (e.family = n[1] \/ Name(e) \in all)
    BY DEF Stands
  <2>2. CASE n = Name(d)
    <3>1. x.id = n[2] /\ x.family = n[1]
      BY <1>2, <2>2 DEF Name
    <3> QED BY <2>1, <3>1
  <2>3. CASE n # Name(d)
    <3>1. PICK e \in Range(h) : e.id = n[2] /\ (e.family = n[1] \/ Name(e) \in names)
      BY <1>10, <2>3 DEF Stands
    <3>2. CASE e.id = x.id
      BY <2>1, <3>1, <3>2
    <3>3. CASE e.id # x.id
      BY <1>5, <3>1, <3>3
    <3> QED BY <3>2, <3>3
  <2> QED BY <2>2, <2>3
<1> QED BY <1>9, <1>10 DEF g, x

\* What holds of a history holds while the archives grow.
LEMMA ArchivesGrow ==
  ASSUME NEW rows, NEW more, \A f \in Family : rows[f] \subseteq more[f]
  PROVE  /\ \A h : Whole(h, rows) => Whole(h, more)
         /\ \A d \in Doc : \A h : Admitted(d, h, rows) => Admitted(d, h, more)
<1>1. ASSUME NEW h, Whole(h, rows) PROVE Whole(h, more)
  <2>1. \A e \in Range(h) : e.family \in Family
    <3>1. Range(h) \subseteq EntryOf
      BY <1>1, LenProperties, ElementOfSeq DEF Range, Whole
    <3> QED BY <3>1, NameIsId DEF EntryOf
  <2> QED BY <1>1, <2>1 DEF Whole
<1>2. \A d \in Doc : d.family \in Family
  BY ImporterAssumption DEF ImporterAssumption
<1> QED BY <1>1, <1>2 DEF Admitted

\* At first everything is empty and no importer runs.
LEMMA ImportInit == InitImport => ImportInv
<1> SUFFICES ASSUME InitImport PROVE ImportInv
  OBVIOUS
<1>1. history = <<>> /\ committed = <<>> /\ step = "idle" /\ imported = {} /\ doc \in Doc
  BY DEF InitImport
<1>2. listed \in [Family -> SUBSET Row]
  BY DEF InitImport
<1>3. Whole(<<>>, listed)
  <2>1. <<>> \in Seq(EntryOf) /\ Range(<<>>) = {} /\ DOMAIN <<>> = {}
    BY EmptySeq DEF Range
  <2> QED BY <2>1 DEF Whole, OneEntryPerId, Chronological, NoneMoved
<1> QED BY <1>1, <1>2, <1>3 DEF ImportInv, Stands

\* A call that begins, dies, or has yet to read.
LEMMA BeginKeeps == ASSUME ImportInv, Begin \/ Die PROVE ImportInv'
<1>1. step' \in {"index", "idle"} /\ doc' \in Doc
  BY DEF Begin, Die, ImportInv, call
<1>2. UNCHANGED <<listed, committed, history, imported>>
  BY DEF Begin, Die, archive
<1> QED BY <1>1, <1>2 DEF ImportInv

\* The row in the archive index.
LEMMA ReadIndexKeeps == ASSUME ImportInv, ReadIndex PROVE ImportInv'
<1>1. /\ step' = "history" /\ UNCHANGED <<listed, committed, history, imported, doc>>
      /\ why' = (doc.faults \cap {"import"}) \cup IndexRefusals(doc, listed[doc.family])
  BY DEF ReadIndex, archive, call
<1>2. why' = {} => RowOf(doc) \in listed[doc.family]
  <2>1. IndexRefusals(doc, listed[doc.family]) = {} => RowOf(doc) \in listed[doc.family]
    BY DEF IndexRefusals
  <2> QED BY <1>1, <2>1
<1> QED BY <1>1, <1>2 DEF ImportInv

\* The history, and the decision.
LEMMA ReadHistoryKeeps == ASSUME ImportInv, ReadHistory PROVE ImportInv'
<1>1. /\ step = "history" /\ UNCHANGED <<listed, committed, history, imported, doc>>
      /\ seen' = Readable(history) /\ why' = why \cup HistoryRefusals(doc, history)
      /\ step' = (IF why' = {} THEN "baseline" ELSE "idle")
  BY DEF ReadHistory, archive, call
<1>2. CASE why' = {}
  <2>1. why = {} /\ HistoryRefusals(doc, history) = {}
    BY <1>1, <1>2
  <2>2. history # Torn /\ \A e \in Range(history) : e.id # doc.id => ~Moved(e, doc)
    BY <2>1 DEF HistoryRefusals
  <2>3. seen' = history /\ Admitted(doc, history, listed)
    BY <1>1, <2>1, <2>2 DEF Readable, Admitted, ImportInv
  <2> QED BY <1>1, <1>2, <2>2, <2>3 DEF ImportInv
<1>3. CASE why' # {}
  BY <1>1, <1>3 DEF ImportInv
<1> QED BY <1>2, <1>3

\* The baseline changes nothing that is known of the history.
LEMMA ReadBaselineKeeps == ASSUME ImportInv, ReadBaseline PROVE ImportInv'
<1>1. /\ step = "baseline" /\ step' \in {"idle", "open"}
      /\ UNCHANGED <<listed, committed, history, imported, doc, seen>>
  BY DEF ReadBaseline, archive, call
<1> QED BY <1>1 DEF ImportInv

\* The history is emptied; what it held has been read.
LEMMA OpenHistoryKeeps == ASSUME ImportInv, OpenHistory PROVE ImportInv'
<1>1. /\ step = "open" /\ step' = "write" /\ history' = Torn
      /\ UNCHANGED <<listed, committed, imported, doc, seen>>
  BY DEF OpenHistory, archive, call
<1>2. /\ seen = history /\ history # Torn /\ Admitted(doc, seen, listed)
      /\ Whole(history, listed) /\ Stands(imported, history)
  BY <1>1 DEF ImportInv
<1> QED BY <1>1, <1>2 DEF ImportInv

\* What was read is written, and the entry.
LEMMA WriteHistoryKeeps == ASSUME ImportInv, WriteHistory PROVE ImportInv'
<1>1. /\ step = "write" /\ step' = "idle" /\ history' = Kept(seen, Entry(doc))
      /\ imported' = imported \cup {Name(doc)} /\ UNCHANGED <<listed, committed, doc>>
  BY DEF WriteHistory, archive, call
<1>2. /\ Whole(seen, listed) /\ Stands(imported, seen) /\ Admitted(doc, seen, listed)
      /\ doc \in Doc
  BY <1>1 DEF ImportInv
<1>3. /\ Whole(history', listed)
      /\ Stands(imported \cup {Name(doc)}, history')
  BY <1>1, <1>2, WrittenIsWhole
<1> QED BY <1>1, <1>3 DEF ImportInv

\* A document is filed under the importer's eyes.
LEMMA FileRunKeeps == ASSUME ImportInv, NEW d \in Doc, FileRun(d) PROVE ImportInv'
<1>1. /\ listed' = [listed EXCEPT ![d.family] = listed[d.family] \cup {RowOf(d)}]
      /\ UNCHANGED <<history, committed, step, doc, why, seen, imported>>
  BY DEF FileRun, call
<1>2. d.family \in Family /\ RowOf(d) \in Row /\ doc.family \in Family
  BY ImporterAssumption DEF ImporterAssumption, Row, ImportInv
<1>3. listed' \in [Family -> SUBSET Row] /\ \A f \in Family : listed[f] \subseteq listed'[f]
  BY <1>1, <1>2 DEF ImportInv
<1>4. /\ \A h : Whole(h, listed) => Whole(h, listed')
      /\ \A c \in Doc : \A h : Admitted(c, h, listed) => Admitted(c, h, listed')
  BY <1>3, ArchivesGrow
<1>5. /\ Whole(committed, listed) => Whole(committed, listed')
      /\ Whole(history, listed) => Whole(history, listed')
      /\ Whole(seen, listed) => Whole(seen, listed')
      /\ Admitted(doc, seen, listed) => Admitted(doc, seen, listed')
  BY <1>4 DEF ImportInv
<1> QED BY <1>1, <1>2, <1>3, <1>5 DEF ImportInv

\* A whole history is committed, or the committed one checked out.
LEMMA CommitKeeps == ASSUME ImportInv, Commit \/ Checkout PROVE ImportInv'
<1>1. CASE Commit
  BY <1>1 DEF Commit, ImportInv, call
<1>2. CASE Checkout
  <2>1. /\ step = "idle" /\ step' = "idle" /\ history' = committed
        /\ imported' \subseteq {Name(e) : e \in Range(committed)}
        /\ UNCHANGED <<listed, committed, doc>>
    BY <1>2 DEF Checkout, archive, call
  <2>2. Stands(imported', committed)
    <3>1. \A e : Name(e)[1] = e.family /\ Name(e)[2] = e.id
      BY DEF Name
    <3> QED BY <2>1, <3>1 DEF Stands
  <2> QED BY <2>1, <2>2 DEF ImportInv
<1> QED BY <1>1, <1>2

\* Every step around the history, and every stutter.
LEMMA ImportNext == ImportInv /\ [NextImport]_ivars => ImportInv'
<1> SUFFICES ASSUME ImportInv, [NextImport]_ivars PROVE ImportInv'
  OBVIOUS
<1>1. CASE UNCHANGED ivars
  BY <1>1 DEF ivars, ImportInv
<1> QED BY <1>1, BeginKeeps, ReadIndexKeeps, ReadHistoryKeeps, ReadBaselineKeeps, OpenHistoryKeeps,
           WriteHistoryKeeps, FileRunKeeps, CommitKeeps DEF NextImport

\* It holds throughout.
LEMMA ImportHolds == SpecImport => []ImportInv
BY ImportInit, ImportNext, PTL DEF SpecImport

\* The gates of import-run.mjs on the archive index and the rewriting of the
\* history: whatever was edited or filed under the same run id, and in whichever
\* order runs are imported, a history that is whole holds only entries of
\* documents their archives list, one for a run, in capture order.
THEOREM HistoryStaysTheArchives == SpecImport => []HistoryIsOfTheArchive
<1>1. ImportInv => HistoryIsOfTheArchive
  BY DEF ImportInv, Whole, HistoryIsOfTheArchive, EntriesAreArchived, HistoryInOrder
<1> QED BY <1>1, ImportHolds, PTL

\* The gate of import-run.mjs on invariants: in whichever order the runs of a
\* tree are imported, again or late, no two of them disagree in the history.
THEOREM EntriesNeverDisagree == SpecImport => []InvariantsAgree
<1>1. ImportInv => InvariantsAgree
  BY DEF ImportInv, Whole, InvariantsAgree
<1> QED BY <1>1, ImportHolds, PTL

\* The rewriting of the history by import-run.mjs: the entry of a run imported
\* once stays, also when a call dies between emptying the file and writing it,
\* until an older history is checked out or a run of another family is imported
\* under the same run id.
THEOREM ImportedIsKept == SpecImport => []ImportedRunStays
<1>1. ImportInv => ImportedRunStays
  BY DEF ImportInv, ImportedRunStays, Stands
<1> QED BY <1>1, ImportHolds, PTL
=============================================================================
