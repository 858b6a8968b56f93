------------------------------- MODULE Writing -----------------------------
(***************************************************************************)
(* The scenarios that write a pyramid: generate (reference.rs) and its two *)
(* phases (write_split.rs).  The engine writes the tiles and asks its sink *)
(* to finish; the split puts DeferFinish between them, so that it can time *)
(* the finish on its own.                                                  *)
(***************************************************************************)
EXTENDS Scenario

VARIABLES
  sink,  \* the core library's sink: its tiles, and who had finished it when
  asked, \* times_asked() of DeferFinish
  clock  \* the phase whose clock runs

wvars == <<svars, sink, asked, clock>>

Split == {"generate_ingest", "generate_finalize"}

Tiles == Len(Plan)
Unwritten == [tiles |-> 0, finishes |-> <<>>]

\* A finish of the sink itself, and what was there and which clock ran.
Finished == Append(sink.finishes, [tiles |-> sink.tiles, clock |-> clock])

\* A repetition has its own scratch directory, and a sink on it.
BeginWrite ==
  /\ stage \in {"start", "written"} /\ job.scenario \in Writes /\ left > 0
  /\ \/ /\ sink' = Unwritten /\ asked' = 0 /\ clock' = "ingest" /\ stage' = "write"
        /\ UNCHANGED <<left, kept, discarded, run, faults>>
     \/ Fault /\ Failed /\ UNCHANGED <<sink, asked, clock>>
  /\ UNCHANGED <<job, coords>>

\* DeferFinish passes tiles on.
WriteTile ==
  /\ stage = "write" /\ sink.tiles < Tiles
  /\ \/ sink' = [sink EXCEPT !.tiles = @ + 1] /\ UNCHANGED <<stage, left, kept, discarded, run, faults>>
     \/ Fault /\ Failed /\ UNCHANGED sink
  /\ UNCHANGED <<job, coords, asked, clock>>

\* Mutant of Finish: DeferFinish passes it on.
Finish_PassedOn == sink' = [sink EXCEPT !.finishes = Finished] /\ asked' = asked + 1

\* TileSink::finish(): generate has no DeferFinish; the split only notes it.
Finish ==
  IF job.scenario \in Split THEN asked' = asked + 1 /\ UNCHANGED sink
  ELSE sink' = [sink EXCEPT !.finishes = Finished] /\ UNCHANGED asked

\* The engine asks once when the tiles are written; one that asks early or
\* again, or never, is a fault.
EngineFinishes ==
  /\ stage = "write"
  /\ IF sink.tiles = Tiles /\ asked = 0 /\ sink.finishes = <<>> THEN UNCHANGED faults ELSE Fault
  /\ Finish
  /\ UNCHANGED <<job, coords, stage, left, kept, discarded, run, clock>>

\* "the ingest phase is not what it says it is" unless it asked once
BoundaryHeld == asked = 1

\* run_collect() returns, and the clock of the ingest is read.
EngineReturns ==
  /\ stage = "write" /\ sink.tiles = Tiles
  /\ \/ /\ job.scenario \in Split /\ BoundaryHeld
        /\ clock' = "finalize" /\ stage' = "finalize"
        /\ UNCHANGED <<left, kept, discarded, run, faults>>
     \/ /\ job.scenario \in Split /\ ~BoundaryHeld
        /\ Failed /\ UNCHANGED clock
        /\ IF asked = 0 THEN Fault ELSE UNCHANGED faults
     \/ /\ job.scenario = "generate" /\ sink.finishes # <<>>
        /\ Keep(sink) /\ stage' = "written" /\ left' = left - 1
        /\ UNCHANGED <<discarded, run, faults, clock>>
  /\ UNCHANGED <<job, coords, sink, asked>>

\* The sink is finished by hand.
Finalize ==
  /\ stage = "finalize"
  /\ \/ /\ sink' = [sink EXCEPT !.finishes = Finished]
        /\ Keep(sink') /\ stage' = "written" /\ left' = left - 1
        /\ UNCHANGED <<discarded, run, faults>>
     \/ Fault /\ Failed /\ UNCHANGED sink
  /\ UNCHANGED <<job, coords, asked, clock>>

\* generate has a rate beside its wall, unless a wall was zero.
EndOfWrites ==
  /\ stage = "written" /\ left = 0
  /\ \E rates \in {{}, {"tiles_per_s"}} :
       /\ rates # {} => job.scenario = "generate"
       /\ Answer("ok", [m \in {"wall"} \cup rates |-> kept])
  /\ UNCHANGED <<job, coords, left, kept, discarded, faults, sink, asked, clock>>

Writing == BeginWrite \/ WriteTile \/ EngineFinishes \/ EngineReturns \/ Finalize \/ EndOfWrites

InitWriting == sink = Unwritten /\ asked = 0 /\ clock = "ingest"
=============================================================================
