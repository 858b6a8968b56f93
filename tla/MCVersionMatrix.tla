-------------------------- MODULE MCVersionMatrix --------------------------
(***************************************************************************)
(* Instances of VersionMatrix: two commits of one version, one of another  *)
(* and one of another package.                                             *)
(***************************************************************************)
EXTENDS VersionMatrix, TLC

CONSTANTS m, n, k, q, r, old, fix, head, fork, cell, engines, vips

MCVersionOf == old :> "0.2" @@ fix :> "0.2" @@ head :> "0.3" @@ fork :> "0.3"

MCRef == {old, fix, head, fork}

MCNamed == {old, fix, head}

Earlier(family) ==
  [by |-> Before, nth |-> 1, ref |-> old, linked |-> old, sha |-> TRUE,
   family |-> family, runs |-> {cell}]

MCPast == {<<>>, <<Earlier(engines)>>, <<Earlier(vips)>>, Unreadable}

\* One matrix over two commits of a version and a report run, one after the
\* other; two matrices of different families at once; or one over three commits,
\* the first and the last of one version.
MCRefs == m :> <<old, fix>> @@ q :> <<old, head, fix>> @@ k :> <<old>> @@ n :> <<fork, head>>
MCFamily == m :> engines @@ r :> engines @@ q :> engines @@ k :> engines @@ n :> vips

MCSessions == {[drivers |-> {m, r}, serial |-> TRUE], [drivers |-> {k, n}, serial |-> FALSE],
               [drivers |-> {q}, serial |-> TRUE]}
=============================================================================
