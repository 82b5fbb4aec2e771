--------------------------- MODULE WorkspaceFiles ---------------------------
(***************************************************************************)
(* Files that the server publishes in a workspace: graphs that are saved,  *)
(* and exports, which are a bundle (a directory) and an archive of it.     *)
(*                                                                         *)
(* Everything is staged under another name and put in place by one rename. *)
(* Bundle and archive have a lock file of their own meanwhile, which a     *)
(* process that dies leaves behind.  A process serves one such request at  *)
(* a time; several processes may share the workspace.                      *)
(*                                                                         *)
(* Graphs that no export or save accepts are left out.                     *)
(***************************************************************************)
EXTENDS FiniteSets

CONSTANTS
  Writer,     \* processes that export or save a graph
  Place,      \* destinations of exports, and names of graph files
  Graph,      \* what is exported or saved
  File        \* the files of a bundle, or the pieces a graph file is written in

ASSUME FilesAssumption == File # {} /\ IsFiniteSet(File)

VARIABLES
  out,        \* [Kind \X Place -> what is in place: files of graphs]
  lock,       \* the lock files
  job,        \* [Writer -> its request]
  orphan      \* history: locks of writers that died

files == <<out, lock, job, orphan>>

Kind == {"bundle", "archive", "graph"}
NoJob == [at |-> "idle"]
Whole(g) == {g} \X File

FilesInit ==
  /\ out = [k \in Kind \X Place |-> {}]
  /\ lock = {} /\ orphan = {}
  /\ job = [w \in Writer |-> NoJob]

Key(w) == <<job[w].kind, job[w].place>>
Become(w, j) == job' = [job EXCEPT ![w] = j]

\* A request whose destination is free.
Begin(w, kind, p, g) ==
  /\ job[w] = NoJob /\ kind # "archive" /\ out[<<kind, p>>] = {}
  /\ Become(w, [at |-> IF kind = "graph" THEN "stage" ELSE "lock",
                kind |-> kind, place |-> p, graph |-> g, staged |-> {}])
  /\ UNCHANGED <<out, lock, orphan>>

Lock(w) ==
  /\ job[w].at = "lock" /\ Key(w) \notin lock
  /\ lock' = lock \cup {Key(w)}
  /\ Become(w, [job[w] EXCEPT !.at = "stage"])
  /\ UNCHANGED <<out, orphan>>

\* What is staged in the end: an archive is made of what the bundle holds.
Goal(w) ==
  IF job[w].kind = "archive" THEN out[<<"bundle", job[w].place>>] ELSE Whole(job[w].graph)

\* Mutant: files are written where they are to be.
StageInPlace(w, x) ==
  /\ job[w].at = "stage" /\ x \in Goal(w) \ job[w].staged
  /\ Become(w, [job[w] EXCEPT !.staged = @ \cup {x}])
  /\ out' = [out EXCEPT ![Key(w)] = @ \cup {x}]
  /\ UNCHANGED <<lock, orphan>>

\* One more file is written under another name.
Stage(w, x) ==
  /\ job[w].at = "stage" /\ x \in Goal(w) \ job[w].staged
  /\ Become(w, [job[w] EXCEPT !.staged = @ \cup {x}])
  /\ UNCHANGED <<out, lock, orphan>>

\* The rename.  Only a graph file is not looked for again before.
Publish(w) ==
  /\ job[w].at = "stage" /\ job[w].staged = Goal(w)
  /\ job[w].kind = "graph" \/ out[Key(w)] = {}
  /\ out' = [out EXCEPT ![Key(w)] = job[w].staged]
  /\ Become(w, IF job[w].kind = "graph" THEN NoJob ELSE [job[w] EXCEPT !.at = "unlock"])
  /\ UNCHANGED <<lock, orphan>>

\* The bundle is done and its archive follows, if there is none.
Archive(w) ==
  /\ job[w].at = "unlock" /\ job[w].kind = "bundle"
  /\ out[<<"archive", job[w].place>>] = {}
  /\ Become(w, [job[w] EXCEPT !.at = "lock", !.kind = "archive", !.staged = {}])
  /\ lock' = lock \ {Key(w)}
  /\ UNCHANGED <<out, orphan>>

\* The archive is done: the export has succeeded.
Answer(w) ==
  /\ job[w].at = "unlock" /\ job[w].kind = "archive"
  /\ Become(w, [at |-> "answered", place |-> job[w].place, graph |-> job[w].graph])
  /\ lock' = lock \ {Key(w)}
  /\ UNCHANGED <<out, orphan>>

Return(w) == job[w].at = "answered" /\ Become(w, NoJob) /\ UNCHANGED <<out, lock, orphan>>

Held(w) == IF job[w].at \in {"stage", "unlock"} /\ job[w].kind # "graph" THEN {Key(w)} ELSE {}

\* Mutant: an error leaves the lock.
FailLocked(w) ==
  /\ job[w].at \in {"lock", "stage", "unlock"} /\ Become(w, NoJob)
  /\ UNCHANGED <<out, lock, orphan>>

\* The destination is busy or taken by now, or the disk fails: what was staged
\* and the lock are removed.  A bundle in place stays.
Fail(w) ==
  /\ job[w].at \in {"lock", "stage", "unlock"} /\ Become(w, NoJob)
  /\ lock' = lock \ Held(w)
  /\ UNCHANGED <<out, orphan>>

\* The process dies.
Die(w) ==
  /\ job[w] # NoJob /\ Become(w, NoJob)
  /\ orphan' = orphan \cup Held(w)
  /\ UNCHANGED <<out, lock>>

\* Somebody removes an output, or a lock file that is left over, of a place
\* where nobody is at work.
Remove(k, p) ==
  /\ \A w \in Writer : job[w] # NoJob => job[w].place # p
  /\ out[<<k, p>>] # {} \/ <<k, p>> \in lock
  /\ out' = [out EXCEPT ![<<k, p>>] = {}]
  /\ lock' = lock \ {<<k, p>>} /\ orphan' = orphan \ {<<k, p>>}
  /\ UNCHANGED job

FilesNext ==
  \/ \E w \in Writer, k \in Kind, p \in Place, g \in Graph : Begin(w, k, p, g)
  \/ \E w \in Writer, x \in Graph \X File : Stage(w, x)
  \/ \E w \in Writer : Lock(w) \/ Publish(w) \/ Archive(w) \/ Answer(w) \/ Return(w)
                         \/ Fail(w) \/ Die(w)
  \/ \E k \in Kind, p \in Place : Remove(k, p)

-----------------------------------------------------------------------------
(* Properties                                                              *)

\* What is in place is all of one graph, whatever failed or died on the way,
\* and an export that succeeds has put both its bundle and its archive there
\* (generator.py, export_bundle and package_zip; api.py, save_graph).
PublishedIsWhole ==
  /\ \A k \in Kind \X Place : out[k] = {} \/ \E g \in Graph : out[k] = Whole(g)
  /\ \A w \in Writer : job[w].at = "answered" =>
       \A k \in {"bundle", "archive"} : out[<<k, job[w].place>>] = Whole(job[w].graph)

\* A lock file is that of one request under way, or was left by a process that
\* died; errors leave none (generator.py, the finally of both).
LocksHaveHolders ==
  /\ lock = (UNION {Held(w) : w \in Writer}) \cup orphan
  /\ \A w, v \in Writer : w # v => Held(w) \cap Held(v) = {}
=============================================================================
