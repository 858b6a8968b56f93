---------------------------- MODULE ArchiveStore ----------------------------
(***************************************************************************)
(* What the archive promises its readers, without temporary files, process *)
(* states or crashes: an append-only map from run identity to document and *)
(* an index that only ever lists what is filed.                            *)
(*                                                                         *)
(* A document is identified with its `document` digest, so two elements of *)
(* Doc are two documents that digest differently.                          *)
(***************************************************************************)
CONSTANTS
  Doc,         \* documents, up to the `document` digest
  RunId,       \* run identities
  Admissible,  \* the documents admit() has no refusal for
  RunIdOf,     \* the identity run_id() derives from each document
  NoDoc        \* the value of a run identity nothing is filed under

VARIABLES
  store,       \* run identity -> the document filed under it, or NoDoc
  listed       \* the rows of the index

vars == <<store, listed>>

Row == [runId : RunId, digest : Doc]

RowOf(d) == [runId |-> RunIdOf[d], digest |-> d]

Init ==
  /\ store = [r \in RunId |-> NoDoc]
  /\ listed = {}

\* A document enters once, under an identity nothing else holds.
File(d) ==
  /\ store[RunIdOf[d]] = NoDoc
  /\ store' = [store EXCEPT ![RunIdOf[d]] = d]
  /\ UNCHANGED listed

\* The index gains a row for a document that is already filed.
List(d) ==
  /\ store[RunIdOf[d]] = d
  /\ RowOf(d) \notin listed
  /\ listed' = listed \cup {RowOf(d)}
  /\ UNCHANGED store

Next == \E d \in Admissible : File(d) \/ List(d)

Spec == Init /\ [][Next]_vars
=============================================================================
