------------------------------- MODULE MCPaper -----------------------------
(***************************************************************************)
(* Instances of the life of a document: every host, trees that are clean,  *)
(* edited, shared with forced modes or without a repository, sweeps whose  *)
(* cells are sound, failed, unattested or of another profile's walk.       *)
(***************************************************************************)
EXTENDS Paper

Tidy == [head |-> "main", commit |-> 2, edited |-> FALSE, modes |-> FALSE, git |-> "repository"]

Plain == [cpu |-> "named", fs |-> "ext4", flags |-> "plain", debug |-> FALSE, lock |-> TRUE]

\* Whatever can be read of a translator, with one other thing amiss.
HostsAll ==
  {h \in Host : Cardinality({f \in DOMAIN Plain : h[f] # Plain[f]}) <= 1}

PlainHost ==
  Plain @@
    [translated |-> FALSE, maps |-> "clean", binfmt |-> "empty", daemon |-> Null, uname |-> "same"]

TreesMany ==
  [Tree -> {Tidy, [Tidy EXCEPT !.edited = TRUE], [Tidy EXCEPT !.modes = TRUE, !.commit = 1],
            [Tidy EXCEPT !.git = "dangling"], [Tidy EXCEPT !.git = "worktree", !.commit = 3]}]
TidyTrees == [t \in Tree |-> Tidy]

StartsAll ==
  [trees : {TidyTrees}, host : HostsAll] \cup [trees : TreesMany, host : {PlainHost}]
StartsTidy == {[trees |-> TidyTrees, host |-> PlainHost]}
ChangesOf == [h \in HostsAll |-> IF h = PlainHost THEN 1 ELSE 0]
ChangesTwo == [h \in HostsAll |-> 2]

R(backend, outcome, attested, samples, walked) ==
  [backend |-> backend, outcome |-> outcome, attested |-> attested, samples |-> samples,
   declared |-> 2, walked |-> walked, fact |-> IF outcome = "ok" THEN 7 ELSE Null]
Sound == <<R("pmtiles", "ok", TRUE, 2, Null), R("directory", "ok", TRUE, 2, "full")>>
ReportsAll ==
  [rows : {Sound}, noise : {Null, "plain", "residue"}]
    \cup [rows : {<<R("pmtiles", "failed", FALSE, 0, Null), R("directory", "ok", TRUE, 2, "ci")>>,
                  <<R("pmtiles", "ok", FALSE, 2, Null)>>,
                  <<>>}, noise : {Null}]
WalkOf == [p \in {"ci", "full"} |-> IF p = "ci" THEN 2 ELSE 3]
EditsAll == {"cells", "outcome", "runner", "measurement", "native", "host", "scenarios", "unsealed", "stamp"}
=============================================================================
