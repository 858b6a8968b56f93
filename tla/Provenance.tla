------------------------------ MODULE Provenance ---------------------------
(***************************************************************************)
(* What a binary says of itself and of its host: build.rs stamps the state *)
(* of the two source trees while the crate is compiled, src/emulation.rs   *)
(* looks for a translator under the running process, src/provenance.rs     *)
(* puts both into the provenance block of a document.                      *)
(*                                                                         *)
(* Commits are numbered along one line of history of which origin/main is  *)
(* commit Main.  Cargo, git and the kernel are external: what they answer  *)
(* is part of the trees and of the host.                                   *)
(***************************************************************************)
EXTENDS Integers, Sequences, FiniteSets

CONSTANTS
  Null,      \* None
  Main,      \* where the library's own origin/main is
  MaxCommit, \* bound on the commits of a tree
  Hosts      \* the hosts: see Host

Tree == {"harness", "library"}

\* A source tree: what HEAD names, the commit it resolves to, whether a tracked
\* file differs, whether git sees every file's mode changed, and what .git is.
Trees ==
  [head : {"main", "topic"}, commit : 1..MaxCommit, edited : BOOLEAN, modes : BOOLEAN,
   git : {"repository", "worktree", "dangling", "none"}]

\* A host as a process can see it.  `translated` is the fact; a translator maps
\* itself into the process, and the daemon, where a runner names it, is of
\* another architecture; but /proc may be unreadable and no runner need be there.
\* A binfmt handler is for this binary's architecture ("own") or not ("other").
Host ==
  {h \in [translated : BOOLEAN, maps : {"translator", "clean", "unreadable"},
          binfmt : {"own", "other", "empty", "unreadable"},
          daemon : {"same", "other", Null}, uname : {"same", "other", Null},
          cpu : {"named", Null}, fs : {"ext4", "tmpfs", Null},
          flags : {"plain", "perturbing"}, debug : BOOLEAN, lock : BOOLEAN] :
     IF h.translated
     THEN h.maps # "clean" /\ h.daemon # "same"
     ELSE h.maps # "translator" /\ h.daemon # "other" /\ h.uname # "other" /\ h.binfmt # "own"}

ASSUME ProvenanceAssumption ==
  /\ MaxCommit \in Nat \ {0} /\ Main \in 1..MaxCommit
  /\ Null \notin Trees
  /\ Hosts \subseteq Host

-----------------------------------------------------------------------------
(* build.rs: git_tree_state(). *)

\* git answers where .git leads to a repository; a worktree whose gitdir is not
\* mounted and a tree without .git have none.  Who owns the tree does not
\* matter: every call names it as a safe directory.
Readable(t) == t.git \in {"repository", "worktree"}

\* The mode-ignoring answer is the one that is published, and the other only
\* makes a note.
Dirty(t, compareModes) == IF Readable(t) THEN t.edited \/ (compareModes /\ t.modes) ELSE Null

ModeOnlyDirt(ignoring, comparing) == comparing /\ ~ignoring

Notes(t) ==
  (CASE t.git = "dangling" -> {"gitdir not here", "git sees no repository"}
     [] t.git = "none" -> {"no .git", "git sees no repository"}
     [] OTHER -> {})
    \cup (IF Readable(t) /\ ModeOnlyDirt(Dirty(t, FALSE), Dirty(t, TRUE))
          THEN {"modes only"} ELSE {})

MainRelation(t) ==
  CASE ~Readable(t) -> "unknown"
    [] Readable(t) /\ t.commit = Main -> "at-main"
    [] Readable(t) /\ t.commit < Main -> "behind"
    [] Readable(t) /\ t.commit > Main -> "diverged"

GitTreeState(t) ==
  [commit |-> IF Readable(t) THEN t.commit ELSE Null, dirty |-> Dirty(t, FALSE),
   notes |-> Notes(t), relation |-> MainRelation(t)]

\* The paths and variables cargo is told to watch: of each tree HEAD, the file,
\* where there is one; the manifests, which a version bump changes and nothing
\* here does; the flags.
Watched(trees, host) ==
  [flags |-> host.flags, lock |-> host.lock,
   heads |-> [t \in Tree |-> IF Readable(trees[t]) THEN trees[t].head ELSE Null]]

\* main() of build.rs: what is stamped into the binary.  The lock file only
\* gives the dependency graph and its hash.
Stamps(trees, host) ==
  [trees |-> [t \in Tree |-> GitTreeState(trees[t])],
   rustflags |-> host.flags, lockfileHash |-> IF host.lock THEN "sha256" ELSE Null]

-----------------------------------------------------------------------------
(* src/emulation.rs: probe(). *)

MapsEvidence(h) ==
  CASE h.maps = "translator" -> "emulated"
    [] h.maps = "clean" -> "native"
    [] h.maps = "unreadable" -> "inconclusive"

\* An absent handler is no evidence.
BinfmtEvidence(h) == IF h.binfmt = "own" THEN "emulated" ELSE "inconclusive"

DaemonEvidence(h) ==
  CASE h.daemon = "other" -> "emulated"
    [] h.daemon = "same" -> "native"
    [] h.daemon = Null -> "inconclusive"

\* Mutant of UnameEvidence: a machine name that matches is believed.
UnameEvidence_Believed(h) ==
  CASE h.uname = "other" -> "emulated"
    [] h.uname = "same" -> "native"
    [] h.uname = Null -> "inconclusive"

\* A matching machine name is what a translator would make uname say too.
UnameEvidence(h) == IF h.uname = "other" THEN "emulated" ELSE "inconclusive"

Probe(h) ==
  LET evidence == {MapsEvidence(h), BinfmtEvidence(h), DaemonEvidence(h), UnameEvidence(h)}
  IN  CASE "emulated" \in evidence -> "true"
        [] "emulated" \notin evidence /\ "native" \in evidence -> "false"
        [] OTHER -> "unknown"

-----------------------------------------------------------------------------
(* src/provenance.rs. *)

\* cpu_model() and fs_type_name(): the first source of the host that answers, or
\* the word the code writes when none does, which is not the absence of an answer.
CpuModel(h) == IF h.cpu = Null THEN "unknown" ELSE h.cpu

FsTypeName(h) == IF h.fs = Null THEN "unknown" ELSE h.fs

\* SourceTrees::stamped(): a stamp that is empty is None, dirt is TRUE, FALSE or
\* None, and a relation git could not tell is "unknown".
Stamped(stamps) ==
  [t \in Tree |-> [field \in {"commit", "dirty", "relation"} |-> stamps.trees[t][field]]]

\* Provenance::capture_for_document() and to_document_block().
Block(stamps, host, allowDirty) ==
  LET source == Stamped(stamps)
  IN
  [commit |-> source["harness"].commit, dirty |-> source["harness"].dirty,
   libraryCommit |-> source["library"].commit,
   libraryDirty |-> source["library"].dirty,
   mainRelation |-> source["library"].relation,
   allowDirty |-> allowDirty, emulated |-> Probe(host),
   cpuModel |-> CpuModel(host), fsType |-> FsTypeName(host), declaredTmpfs |-> FALSE,
   debugAssertions |-> host.debug, buildProfile |-> IF host.debug THEN "debug" ELSE "release",
   rustflags |-> stamps.rustflags, lockfileHash |-> stamps.lockfileHash]

\* A tree whose stamp is missing, or that had dirt in it.
TreeWarnings(commit, dirty) ==
  IF commit = Null \/ dirty = Null THEN {"unstamped"} ELSE IF dirty THEN {"dirty"} ELSE {}

\* document_provenance_warnings(), by what they are about.
Warnings(block) ==
  (IF block.emulated = "false" THEN {} ELSE {"emulated"})
    \cup TreeWarnings(block.commit, block.dirty)
    \cup TreeWarnings(block.libraryCommit, block.libraryDirty)
    \cup (IF block.mainRelation = "at-main" THEN {} ELSE {"off-main"})
    \cup (IF block.debugAssertions THEN {"debug-build"} ELSE {})
    \cup (IF block.fsType = "tmpfs" /\ ~block.declaredTmpfs THEN {"tmpfs"} ELSE {})
=============================================================================
