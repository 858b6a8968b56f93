------------------------------- MODULE Reading -----------------------------
(***************************************************************************)
(* The scenarios that walk tiles: the three ordered passes (reference.rs)  *)
(* and the rungs of the concurrent curve (concurrent_curve.rs).  An        *)
(* ordered pass is a walk of one thread.                                   *)
(***************************************************************************)
EXTENDS Scenario

VARIABLE threads \* the lookup threads: what each has to do, has done, and how it stands

rvars == <<svars, threads>>

OVERSUBSCRIPTION_LIMIT == 2
ThreadLadder == {1, 2, 4, 8}

\* ladder(): past twice the cores a rung is not measured.
Declined(rung, ncpu) == rung > ncpu * OVERSUBSCRIPTION_LIMIT

\* Mutant of Chunks: what does not divide is left out.
Chunks_Even(walk, n) ==
  LET base == Len(walk) \div n
  IN  [t \in 1..n |-> SubSeq(walk, (t - 1) * base + 1, t * base)]

\* chunks(): contiguous pieces; the first ones take the remainder, one each.
Chunks(walk, n) ==
  LET base == Len(walk) \div n
      Before(t) == (t - 1) * base + Min({t - 1, Len(walk) % n})
  IN  [t \in 1..n |-> SubSeq(walk, Before(t) + 1, Before(t + 1))]

\* A reader is opened once for all passes, the discarded one included.
BeginWalk ==
  /\ Start(Walks)
  /\ \/ Declined(job.threads, job.ncpu) /\ Skipped
     \/ ~Declined(job.threads, job.ncpu) /\ Fault /\ Failed
     \/ /\ ~Declined(job.threads, job.ncpu)
        /\ stage' = "between" /\ UNCHANGED <<left, kept, discarded, run, faults>>
  /\ UNCHANGED <<job, coords, threads>>

\* run_arm() up to the last spawn.
StartPass ==
  /\ stage = "between" /\ job.scenario \in Walks /\ left > 0
  /\ stage' = "pass"
  /\ threads' = [t \in 1..job.threads |->
                   [todo |-> Chunks(Walk, job.threads)[t], looked |-> <<>>, stands |-> "walking"]]
  /\ UNCHANGED <<job, coords, left, kept, discarded, run, faults>>

\* walk(): a thread looks its next tile up and times that, or is through.
Lookup(t) ==
  /\ threads[t].stands = "walking"
  /\ threads' = IF threads[t].todo = <<>>
                THEN [threads EXCEPT ![t].stands = "through"]
                ELSE [threads EXCEPT ![t].looked = Append(@, Head(threads[t].todo)),
                                     ![t].todo = Tail(@)]
  /\ UNCHANGED svars

\* The reader returns an error, or the thread panics: its join says so.
Break(t) ==
  /\ threads[t].stands = "walking" /\ threads[t].todo # <<>>
  /\ Fault
  /\ threads' = [threads EXCEPT ![t].stands = "failed"]
  /\ UNCHANGED <<job, coords, stage, left, kept, discarded, run>>

\* A panic on the calling thread, where the only thread of a pass runs, is not
\* caught: the child dies without an answer, and its parent calls it failed.
Unwind ==
  /\ stage = "pass" /\ job.threads = 1 /\ threads[1].stands = "walking"
  /\ Fault /\ Failed
  /\ UNCHANGED <<job, coords, threads>>

\* Mutant of Joined: a thread that failed is waited for.
Joined_Through == \A t \in DOMAIN threads : threads[t].stands = "through"

\* The scope ends when every thread has, also when the first has failed.
Joined == \A t \in DOMAIN threads : threads[t].stands # "walking"

\* The rest of run_arm(), and what run() keeps of a pass.  A pass the clock did
\* not move for has no rate: the concurrent scenario fails on a measured one,
\* an ordered pass loses the series.
Join(quick) ==
  /\ stage = "pass" /\ Joined
  /\ LET pass == [looked |-> FlattenSeq([t \in DOMAIN threads |-> threads[t].looked]), quick |-> quick]
         warm == left > RepsHere(job.scenario)
         rate == job.scenario = "read_concurrent"
     IN  \/ \E t \in DOMAIN threads : threads[t].stands = "failed" /\ Failed
         \/ /\ \A t \in DOMAIN threads : threads[t].stands = "through"
            /\ IF rate /\ quick /\ ~warm THEN Failed
               ELSE /\ left' = left - 1 /\ stage' = "between" /\ UNCHANGED run
                    /\ IF warm THEN /\ discarded' = Append(discarded, pass) /\ UNCHANGED kept
                       ELSE Keep(pass) /\ UNCHANGED discarded
  /\ IF quick THEN Fault ELSE UNCHANGED faults
  /\ UNCHANGED <<job, coords, threads>>

\* p99 under its own name only where there are enough latencies for one.
TailMetric == IF Len(Walk) < P99Min THEN "max" ELSE "p99"

EndOfWalk ==
  /\ stage = "between" /\ job.scenario \in Walks /\ left = 0
  /\ LET always == IF job.scenario = "read_concurrent" THEN {"lookups_per_s", "p50"}
                   ELSE {"p50", TailMetric}
         rates == IF \E i \in DOMAIN kept : kept[i].quick THEN {} ELSE {"lookups_per_s"}
     IN  Answer("ok", [m \in always \cup rates |-> kept])
  /\ UNCHANGED <<job, coords, left, kept, discarded, faults, threads>>

Reading ==
  \/ BeginWalk \/ StartPass \/ EndOfWalk \/ Unwind
  \/ stage = "pass" /\ \E t \in DOMAIN threads : Lookup(t) \/ Break(t)
  \/ \E quick \in BOOLEAN : Join(quick)

\* Threads of a pass are scheduled and a lookup in a local file returns.
ThreadsRun ==
  /\ \A t \in 1..Max(ThreadLadder) :
       WF_rvars(stage = "pass" /\ t \in DOMAIN threads /\ Lookup(t))
  /\ WF_rvars(\E quick \in BOOLEAN : Join(quick))
=============================================================================
