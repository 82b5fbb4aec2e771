------------------------------ MODULE Refiner -------------------------------
(***************************************************************************)
(* The continual refiner: suggestions to replace the text of a file, the   *)
(* approvals they need, and the files and backups they change.             *)
(*                                                                         *)
(* apply and rollback run one at a time under the service's lock, reject   *)
(* and the file's other editors at any moment.  A call gives way while it  *)
(* waits for the row, for the gate and for the transition of the row; what *)
(* it does to files in between is one step, which may fail half way.  The  *)
(* row's transition compares and sets in one transaction.                  *)
(*                                                                         *)
(* A text stands for its hash, a suggestion for its id, run, session and   *)
(* patch; the gates are those of GateContract, each bound to one action.   *)
(***************************************************************************)
EXTENDS Integers

CONSTANTS
  Suggestion, Path, Text,
  PathOf, Old, New,    \* the patch of a suggestion
  First,               \* [Path -> the file's first text]
  Gate, For,           \* [Gate -> the suggestion it is bound to]
  NoText               \* no backup, or one that is not whole

ASSUME PatchAssumption ==
  /\ PathOf \in [Suggestion -> Path]
  /\ Old \in [Suggestion -> Text] /\ New \in [Suggestion -> Text]
  /\ \A s \in Suggestion : Old[s] # New[s]
  /\ First \in [Path -> Text]
  /\ For \in [Gate -> Suggestion]
  /\ NoText \notin Text

VARIABLES
  file,      \* [Path -> text of the file]
  status,    \* [Suggestion -> status column, or "absent"]
  expired,   \* suggestions whose time is over
  backup,    \* [Suggestion -> text of its backup file]
  work,      \* the call that holds the lock
  grant, over, served,    \* the gates, as in GateContract
  edited,    \* history: files that something else than the refiner changed
  struck     \* history: files that a failure caught between write and commit

gates == <<grant, over, served>>
history == <<edited, struck>>
vars == <<file, status, expired, backup, work, gates, history>>

Gates == INSTANCE GateContract

Status == {"pending", "applied", "rejected", "rolled_back"}

Work ==
  [at : {"idle"}]
    \cup [at : {"gate", "gated"}, s : Suggestion, gate : Gate]
    \cup [at : {"undo"}, s : Suggestion, expects : Text]
    \cup [at : {"written"}, s : Suggestion, from : {"pending", "applied"},
          read : Text]

Idle == [at |-> "idle"]

Init ==
  /\ file = First
  /\ status = [s \in Suggestion |-> "absent"]
  /\ expired = {}
  /\ backup = [s \in Suggestion |-> NoText]
  /\ work = Idle
  /\ Gates!Init
  /\ edited = {} /\ struck = {}

-----------------------------------------------------------------------------
(* Suggestions, and the world around                                       *)

\* analyze, with a patch the policy admits.
Propose(s) ==
  /\ status[s] = "absent"
  /\ status' = [status EXCEPT ![s] = "pending"]
  /\ UNCHANGED <<file, expired, backup, work, gates, history>>

\* reject takes no lock.
Reject(s) ==
  /\ status[s] = "pending"
  /\ status' = [status EXCEPT ![s] = "rejected"]
  /\ UNCHANGED <<file, expired, backup, work, gates, history>>

Expire(s) ==
  /\ expired' = expired \cup {s}
  /\ UNCHANGED <<file, status, backup, work, gates, history>>

\* Somebody edits the file; no call of the refiner looks before it replaces it.
Edit(p, text) ==
  /\ file' = [file EXCEPT ![p] = text]
  /\ edited' = edited \cup {p}
  /\ UNCHANGED <<status, expired, backup, work, gates, struck>>

\* What becomes of gates apart from their use by apply.
GateMoves ==
  /\ \/ \E g \in Gate : Gates!Offer(g) \/ Gates!Grant(g)
     \/ \E S \in SUBSET Gate : Gates!Close(S)
     \/ Gates!Pass
  /\ UNCHANGED <<file, status, expired, backup, work, history>>

-----------------------------------------------------------------------------
(* apply                                                                   *)

\* Under the lock, with the row read: a pending suggestion whose time is not
\* over goes on to the gate that the request names.
StartApply(s, g) ==
  /\ work = Idle
  /\ status[s] = "pending" /\ s \notin expired
  /\ work' = [at |-> "gate", s |-> s, gate |-> g]
  /\ UNCHANGED <<file, status, expired, backup, gates, history>>

\* The gate is consumed; what it is bound to is looked at afterwards.
UseGate ==
  /\ work.at = "gate"
  /\ Gates!Use(work.gate)
  /\ work' = [at |-> "gated", s |-> work.s, gate |-> work.gate]
  /\ UNCHANGED <<file, status, expired, backup, history>>

\* Mutant: what the gate is bound to is not looked at.
MayPatchUnbound == file[PathOf[work.s]] = Old[work.s]

\* The gate's own binding, and the text the suggestion was made for.
MayPatch ==
  /\ For[work.gate] = work.s
  /\ file[PathOf[work.s]] = Old[work.s]

\* The backup is written, then the file replaced.
Patch ==
  LET s == work.s IN
  /\ work.at = "gated" /\ MayPatch
  /\ backup' = [backup EXCEPT ![s] = file[PathOf[s]]]
  /\ file' = [file EXCEPT ![PathOf[s]] = New[s]]
  /\ work' = [at |-> "written", s |-> s, from |-> "pending",
              read |-> file[PathOf[s]]]
  /\ UNCHANGED <<status, expired, gates, history>>

\* The backup cannot be written, in part or at all, or the file not replaced.
PatchFails ==
  /\ work.at = "gated" /\ MayPatch
  /\ backup' \in {[backup EXCEPT ![work.s] = text] :
                    text \in {NoText, backup[work.s], file[PathOf[work.s]]}}
  /\ work' = Idle
  /\ UNCHANGED <<file, status, expired, gates, history>>

-----------------------------------------------------------------------------
(* rollback                                                                *)

\* Under the lock, with the row read; the request names the text it expects.
StartRollback(s, text) ==
  /\ work = Idle
  /\ status[s] = "applied"
  /\ work' = [at |-> "undo", s |-> s, expects |-> text]
  /\ UNCHANGED <<file, status, expired, backup, gates, history>>

Undo ==
  LET s == work.s IN
  /\ work.at = "undo"
  /\ file[PathOf[s]] = work.expects
  /\ backup[s] # NoText
  /\ file' = [file EXCEPT ![PathOf[s]] = backup[s]]
  /\ work' = [at |-> "written", s |-> s, from |-> "applied",
              read |-> file[PathOf[s]]]
  /\ UNCHANGED <<status, expired, backup, gates, history>>

-----------------------------------------------------------------------------
(* The end of apply and rollback                                           *)

Follower(from) == IF from = "pending" THEN "applied" ELSE "rolled_back"

\* Mutant: the transition sets the status without comparing it.
CommitUnchecked ==
  /\ work.at = "written"
  /\ status' = [status EXCEPT ![work.s] = Follower(work.from)]
  /\ work' = Idle
  /\ UNCHANGED <<file, expired, backup, gates, history>>

\* The row moves on from what the call had read it to be.
Commit ==
  /\ work.at = "written"
  /\ status[work.s] = work.from
  /\ status' = [status EXCEPT ![work.s] = Follower(work.from)]
  /\ work' = Idle
  /\ UNCHANGED <<file, expired, backup, gates, history>>

\* Mutant: a refused transition leaves the new text in the file.
PutNothingBack ==
  /\ work.at = "written"
  /\ status[work.s] # work.from
  /\ work' = Idle
  /\ UNCHANGED <<file, status, expired, backup, gates, history>>

\* The row is no longer what it was: the text that was read is put back.
PutBack ==
  /\ work.at = "written"
  /\ status[work.s] # work.from
  /\ file' = [file EXCEPT ![PathOf[work.s]] = work.read]
  /\ work' = Idle
  /\ UNCHANGED <<status, expired, backup, gates, history>>

\* A call ends before it has written: refused, aborted or failed.
Refuse ==
  /\ work.at \in {"gate", "gated", "undo"}
  /\ work' = Idle
  /\ UNCHANGED <<file, status, expired, backup, gates, history>>

\* The database raises another error than a conflict, or the process stops,
\* when the file has been replaced; or the text cannot be put back.
Strike ==
  /\ work.at = "written"
  /\ struck' = struck \cup {PathOf[work.s]}
  /\ work' = Idle
  /\ UNCHANGED <<file, status, expired, backup, gates, edited>>

Next ==
  \/ \E s \in Suggestion : Propose(s) \/ Reject(s) \/ Expire(s)
  \/ \E p \in Path, text \in Text : Edit(p, text)
  \/ GateMoves
  \/ \E s \in Suggestion, g \in Gate : StartApply(s, g)
  \/ \E s \in Suggestion, text \in Text : StartRollback(s, text)
  \/ UseGate \/ Patch \/ PatchFails \/ Undo
  \/ Commit \/ PutBack \/ Refuse \/ Strike

Spec == Init /\ [][Next]_vars

-----------------------------------------------------------------------------
(* Properties                                                              *)

\* The shape of rows, files and of the call at work.
TypeOK ==
  /\ file \in [Path -> Text]
  /\ status \in [Suggestion -> Status \cup {"absent"}]
  /\ expired \subseteq Suggestion
  /\ backup \in [Suggestion -> Text \cup {NoText}]
  /\ work \in Work
  /\ grant \in [Gate -> Gates!Stage] /\ over \subseteq Gate
  /\ served \in [Gate -> Nat]
  /\ edited \subseteq Path /\ struck \subseteq Path

Changing(p) == work.at = "written" /\ PathOf[work.s] = p

\* What the rows account for in a file: its first text, what an applied
\* suggestion put there, what a rolled-back one put back.
Accounted(p) ==
  {First[p]} \cup {New[s] : s \in {t \in Suggestion : PathOf[t] = p /\
                                     status[t] = "applied"}}
             \cup {Old[s] : s \in {t \in Suggestion : PathOf[t] = p /\
                                     status[t] = "rolled_back"}}

\* The text of a rejected or of a pending suggestion is not left in a file,
\* in whatever order reject, apply and rollback came (apply, rollback and the
\* restoring of the text when the row's transition is refused).
FileIsAccountedFor ==
  \A p \in Path \ (edited \cup struck) : Changing(p) \/ file[p] \in Accounted(p)

\* An applied suggestion can be taken back: its backup is whole and holds the
\* text it replaced, after failed attempts too (apply, the backup's writing).
AppliedHasBackup ==
  \A s \in Suggestion : status[s] = "applied" => backup[s] = Old[s]

\* Every file can be brought back to a text that the rows account for (apply and
\* rollback): both of the above.
FilesAreRecoverable == FileIsAccountedFor /\ AppliedHasBackup

\* A suggestion is in a file or was there only on an approval of its own, used
\* for it alone.
PatchedOnOwnApproval ==
  \A s \in Suggestion :
    (status[s] \in {"applied", "rolled_back"} \/ (work.at = "written" /\ work.s = s)) =>
      \E g \in Gate : For[g] = s /\ grant[g] = "used" /\ served[g] = 1

\* A decision about a suggestion is final: what was rejected is never applied,
\* what was rolled back never comes back, though reject takes no lock.
DecisionsAreFinal ==
  [][\A s \in Suggestion : status[s] \in {"rejected", "rolled_back"}
                             => status'[s] = status[s]]_vars
=============================================================================
