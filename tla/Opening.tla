------------------------------- MODULE Opening -----------------------------
(***************************************************************************)
(* The scenarios about opening an archive and what that fetches: open,     *)
(* first_lookup and the split of a cold open (open.rs, first_lookup.rs),   *)
(* decode_root (decode_root.rs) and requests (requests.rs over the         *)
(* counting source of counting.rs).                                        *)
(*                                                                         *)
(* The reader is the core library's: opening it fetches the header and the *)
(* root directory, a tile of a leaf costs the leaf unless the reader has   *)
(* it, and the tile.  A range is named for what it holds.                  *)
(***************************************************************************)
EXTENDS Scenario

VARIABLES
  cache,   \* the leaves the reader at hand has
  counter, \* the ranges the counting source remembers
  served,  \* the ranges the file served since that source was made (history)
  counts,  \* operation -> requests
  pids     \* processes of the children so far

ovars == <<svars, cache, counter, served, counts, pids>>
unread == <<cache, counter, served, counts, pids>>

Opened == <<"header", "root">>

\* The leaves that the first n lookups of a walk go through.
Leaves(walk, n) == {LeafOf[walk[i]] : i \in 1..n} \ {Null}

\* What the n-th lookup of a walk fetches with a reader that had these leaves.
Ranges(walk, n, has) ==
  LET leaf == LeafOf[walk[n]]
  IN  IF leaf \in {Null} \cup has \cup Leaves(walk, n - 1) THEN <<walk[n]>> ELSE <<leaf, walk[n]>>

\* What all of them fetch, and the leaves the reader has then.
Fetch(walk, has) ==
  [ranges |-> FlattenSeq([n \in 1..Len(walk) |-> Ranges(walk, n, has)]),
   has |-> has \cup Leaves(walk, Len(walk))]

\* A reader of one's own has nothing but the root.
Fresh == {}

-----------------------------------------------------------------------------
(* Cold scenarios. *)

\* The timed open; and for an archive, another one through the counting source,
\* which must not have fetched tile data.
Open ==
  /\ Start({"open"})
  /\ \/ \E seen \in {Opened, Opened \o <<Head(Plan)>>} :
          IF job.backend = "directory" \/ Range(seen) \cap ToSet(Plan) = {}
          THEN Answer("ok", [m \in {"p50"} |-> <<[ranges |-> seen]>>])
                 /\ UNCHANGED <<left, kept, discarded, faults>>
          ELSE Fault /\ Failed
     \/ Fault /\ Failed
  /\ UNCHANGED <<job, coords, unread>>

FirstLookup ==
  /\ Start({"first_lookup"})
  /\ \/ Answer("ok", [m \in {"p50"} |-> <<[ranges |-> Opened \o Fetch(<<RootAddressed>>, Fresh).ranges]>>])
          /\ UNCHANGED <<left, kept, discarded, faults>>
     \/ Fault /\ Failed
  /\ UNCHANGED <<job, coords, unread>>

\* first_lookup::run(): a process for each repetition.  Only its line is looked
\* at, not its exit status, and a process id may come again.
SpawnChild ==
  /\ stage \in {"start", "children"} /\ job.scenario = "first_lookup_children"
  /\ \/ \E pid \in 1..Reps :
          /\ pids' = Append(pids, pid) /\ Keep([hit |-> TRUE])
          /\ left' = left - 1
          /\ IF left = 1 THEN Answer("ok", [m \in {"p50"} |-> kept']) ELSE stage' = "children" /\ UNCHANGED run
          /\ UNCHANGED <<discarded, faults>>
     \/ Fault /\ Failed /\ UNCHANGED pids
  /\ UNCHANGED <<job, coords, cache, counter, served, counts>>

\* Mutant of OwnReader: the reader of the coordinate before is looked up in.
OwnReader_Kept == cache

\* split_pass() opens a reader for the phases of a coordinate and one for the whole.
OwnReader == Fresh

\* One coordinate of split_pass(): the phases of an open by hand, then a lookup,
\* whose reader is opened off the clock; then both as one.
SplitOne ==
  /\ stage \in {"start", "split"} /\ job.scenario = "split_pass" /\ kept # Walk
  /\ \/ LET tile == Walk[Len(kept) + 1]
            apart == Fetch(<<tile>>, OwnReader)
            whole == Fetch(<<tile>>, Fresh)
        IN  /\ Keep([split |-> Opened \o apart.ranges, combined |-> Opened \o whole.ranges])
            /\ cache' = apart.has
            /\ IF Len(kept') = Len(Walk) THEN Answer("ok", [m \in {"split"} |-> kept'])
               ELSE stage' = "split" /\ UNCHANGED run
            /\ UNCHANGED <<left, discarded, faults>>
     \/ Fault /\ Failed /\ UNCHANGED cache
  /\ UNCHANGED <<job, coords, counter, served, counts, pids>>

\* decode_root: a warm-up and the repetitions, over a root read once for each.
DecodeRoot ==
  /\ stage \in {"start", "decode"} /\ job.scenario = "decode_root"
  /\ \/ job.backend = "directory" /\ Skipped
     \/ /\ job.backend = "pmtiles" /\ stage = "start"
        /\ discarded' = Append(discarded, [root |-> TRUE]) /\ left' = left - 1 /\ stage' = "decode"
        /\ UNCHANGED <<kept, run, faults>>
     \/ /\ stage = "decode"
        /\ kept' = [i \in 1..left |-> [nth |-> Len(discarded) + i]]
        /\ \E entries \in {{"p50"}, {"p50", "ns_per_entry"}} : Answer("ok", [m \in entries |-> kept'])
        /\ UNCHANGED <<left, discarded, faults>>
     \/ job.backend = "pmtiles" /\ Fault /\ Failed
  /\ UNCHANGED <<job, coords, unread>>

-----------------------------------------------------------------------------
(* requests *)

\* CountingFactory::fresh_counting(): the ranges of the open are put aside.
FreshCounting ==
  /\ Start({"requests"}) /\ job.backend = "pmtiles"
  /\ \/ /\ served' = Opened /\ counter' = <<>> /\ cache' = Fresh
        /\ counts' = [op \in {"open"} |-> Len(Opened)]
        /\ stage' = "root_lookup" /\ UNCHANGED <<left, kept, discarded, run, faults>>
     \/ Fault /\ Failed /\ UNCHANGED <<cache, counter, served, counts>>
  /\ UNCHANGED <<job, coords, pids>>

\* What an operation looks up, and the one after it.
Operations ==
  [root_lookup |-> [walk |-> <<RootAddressed>>,
                    next |-> IF job.leaf = Null THEN "random_walk" ELSE "leaf_lookup_cold"],
   leaf_lookup_cold |-> [walk |-> <<job.leaf>>, next |-> "leaf_lookup_warm"],
   leaf_lookup_warm |-> [walk |-> <<job.leaf>>, next |-> "random_walk"],
   random_walk |-> [walk |-> Walk, next |-> "counted"]]

\* Mutant of Forget: what is counted is counted again.
Forget_Not == counter

\* CountingSource::forget()
Forget == <<>>

\* CountingReader::counted()
Counted ==
  /\ stage \in DOMAIN Operations
  /\ \/ LET op == Operations[stage]
            got == Fetch(op.walk, cache)
        IN  /\ counter' = Forget \o got.ranges /\ served' = served \o got.ranges
            /\ cache' = got.has
            /\ counts' = [o \in DOMAIN counts \cup {stage} |-> IF o = stage THEN Len(counter') ELSE counts[o]]
            /\ stage' = op.next /\ UNCHANGED <<left, kept, discarded, run, faults>>
     \/ Fault /\ Failed /\ UNCHANGED <<cache, counter, served, counts>>
  /\ UNCHANGED <<job, coords, pids>>

\* directory(): a tile is a file, so what a server would see is declared.
DeclareDirectory ==
  /\ Start({"requests"}) /\ job.backend = "directory"
  /\ counts' = [op \in {"open"} |-> 0] @@ [op \in {"root_lookup"} |-> 1]
                 @@ [op \in IF job.leaf = Null THEN {} ELSE {"leaf_lookup_cold", "leaf_lookup_warm"} |-> 1]
                 @@ [op \in {"random_walk"} |-> Min({Len(Walk), Len(Plan)})]
  /\ stage' = "counted"
  /\ UNCHANGED <<job, coords, left, kept, discarded, run, faults, cache, counter, served, pids>>

Total ==
  LET of(op) == IF op \in DOMAIN counts THEN counts[op] ELSE 0
  IN  of("open") + of("root_lookup") + of("leaf_lookup_cold") + of("leaf_lookup_warm") + of("random_walk")

\* What was observed and what was declared have names of their own.
AnswerRequests ==
  /\ stage = "counted"
  /\ Keep([requests |-> Total])
  /\ Answer("ok", [m \in IF job.backend = "pmtiles" THEN {"requests", "request_bytes"}
                         ELSE {"requests_declared", "request_bytes_declared"} |-> kept'])
  /\ UNCHANGED <<job, coords, left, discarded, faults, unread>>

Opening ==
  \/ Open \/ FirstLookup \/ SpawnChild \/ SplitOne \/ DecodeRoot
  \/ FreshCounting \/ Counted \/ DeclareDirectory \/ AnswerRequests

InitOpening == cache = {} /\ counter = <<>> /\ served = <<>> /\ counts = [op \in {} |-> 0] /\ pids = <<>>
=============================================================================
