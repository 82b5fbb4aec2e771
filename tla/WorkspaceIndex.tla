--------------------------- MODULE WorkspaceIndex ---------------------------
(***************************************************************************)
(* The index of a workspace: a rebuild reads all files, in one go, and     *)
(* then replaces the table and counts its version up in one transaction.   *)
(*                                                                         *)
(* Rebuilds wait for each other's lock; pausing and resuming do not.  The  *)
(* contents of the workspace are one number that grows with every change,  *)
(* its edition.                                                            *)
(***************************************************************************)
EXTENDS Integers

CONSTANTS
  Rebuild,       \* requests to rebuild the index
  MaxEdition,    \* bound: changes of the workspace
  MaxVersion     \* bound: versions of the index

ASSUME IndexAssumption == {MaxEdition, MaxVersion} \subseteq Nat

VARIABLES
  edition,   \* of the workspace
  table,     \* the index on disk: its version, and the edition it was read from
  status,    \* WorkspaceIndexService._status
  rebuild,   \* [Rebuild -> the request]
  broken     \* history: the last rebuild ended with an error that is not handled

index == <<edition, table, status, rebuild, broken>>

Off == [at |-> "off"]

IndexInit ==
  /\ edition = 0
  /\ table = [version |-> 0, of |-> 0]
  /\ status = "idle"
  /\ rebuild = [r \in Rebuild |-> Off]
  /\ broken = FALSE

Turn(r, q) == rebuild' = [rebuild EXCEPT ![r] = q]

\* The service's lock, free if no rebuild is past it.
Locked == \E r \in Rebuild : rebuild[r].at \in {"write", "done"}

\* Somebody writes a file, or a graph or a bundle is published.
Change ==
  /\ edition < MaxEdition
  /\ edition' = edition + 1
  /\ UNCHANGED <<table, status, rebuild, broken>>

\* Mutant: rebuilds do not wait for each other.
ScanUnlocked(r) ==
  /\ rebuild[r] = Off /\ status # "paused"
  /\ status' = "running" /\ Turn(r, [at |-> "write", of |-> edition])
  /\ broken' = FALSE
  /\ UNCHANGED <<edition, table>>

\* A request that finds the index paused is refused; otherwise it reads the
\* files, or fails because there are too many or one cannot be read.  What is
\* read of a file may also be refused by the contract of a record, for too many
\* symbols or for a snippet that grew when it was redacted: no one handles that
\* error, and the status stays.
Scan(r) ==
  /\ rebuild[r] = Off /\ ~Locked /\ status # "paused"
  /\ \/ status' = "running" /\ broken' = FALSE /\ Turn(r, [at |-> "write", of |-> edition])
     \/ status' = "failed" /\ broken' = FALSE /\ UNCHANGED rebuild
     \/ status' = "running" /\ broken' = TRUE /\ UNCHANGED rebuild
  /\ UNCHANGED <<edition, table>>

\* The transaction: the table with a new version.
Commit(r) ==
  /\ rebuild[r].at = "write" /\ table.version < MaxVersion
  /\ table' = [version |-> table.version + 1, of |-> rebuild[r].of]
  /\ Turn(r, [at |-> "done"])
  /\ UNCHANGED <<edition, status, broken>>

\* The rebuild goes on and has succeeded, also if the index was paused since.
Succeed(r) ==
  /\ rebuild[r].at = "done"
  /\ status' = "succeeded" /\ Turn(r, Off)
  /\ UNCHANGED <<edition, table, broken>>

\* Mutant: no error is handled, and none is known to be unhandled.
AbortSilently(r) ==
  /\ rebuild[r].at = "write"
  /\ Turn(r, Off)
  /\ UNCHANGED <<edition, table, status, broken>>

\* The transaction is rolled back by an error of the files; or an error of the
\* database or the end of the request, before or after the transaction, leaves
\* the status as it is.
Abort(r) ==
  /\ \/ rebuild[r].at = "write" /\ status' = "failed" /\ UNCHANGED broken
     \/ rebuild[r].at \in {"write", "done"} /\ broken' = TRUE /\ UNCHANGED status
  /\ Turn(r, Off)
  /\ UNCHANGED <<edition, table>>

Pause == status' = "paused" /\ UNCHANGED <<edition, table, rebuild, broken>>

Resume ==
  /\ status = "paused" /\ status' = "idle"
  /\ UNCHANGED <<edition, table, rebuild, broken>>

\* The server starts again.
Reopen ==
  /\ status' = "idle" /\ broken' = FALSE
  /\ rebuild' = [r \in Rebuild |-> Off]
  /\ UNCHANGED <<edition, table>>

IndexNext ==
  \/ Change \/ Pause \/ Resume
  \/ \E r \in Rebuild : Scan(r) \/ Commit(r) \/ Succeed(r) \/ Abort(r)

-----------------------------------------------------------------------------
(* Properties                                                              *)

\* The index never goes back to an older reading of the workspace, and each
\* version is a new reading or the same, however rebuilds, failures and restarts
\* mix (service.py, rebuild; writer.py, rebuild).
IndexNeverGoesBack == [][table'.of >= table.of /\ table'.version >= table.version]_index

\* The status says that a rebuild is running only while one is, or after one
\* that was ended by what the service does not handle: a file's record that is
\* refused, an error of the database, the end of the request (service.py,
\* rebuild).
RunningIsTrue == status = "running" => Locked \/ broken
=============================================================================
