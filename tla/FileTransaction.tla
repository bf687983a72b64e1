--------------------------- MODULE FileTransaction ---------------------------
(***************************************************************************)
(* The installer, the recovery and the configuration write several files   *)
(* as one (install/posix_transaction.py): every target is read and bound   *)
(* to its directory, then written in order by renaming a staged file over  *)
(* it, verified, and put back in reverse order if a later step fails.      *)
(* Other processes may replace or delete a target at any moment, move its  *)
(* directory, and every system call may fail.                              *)
(*                                                                         *)
(* A target is known by its inode and digest; what matters is who made     *)
(* that version.  A step is what lies between two looks at the target: the *)
(* check, the rename (or the unlink of a new file), and the look after it. *)
(***************************************************************************)
EXTENDS Integers

CONSTANTS
    N,          \* the number of targets, numbered in the order of "changes"
    Missing,    \* those that did not exist
    MaxForeign  \* bound: changes by other processes

Targets == 1 .. N

ASSUME FileAssumption ==
    /\ N \in Nat \ {0} /\ Missing \subseteq Targets
    /\ MaxForeign \in Nat

VARIABLES
    preserve, \* preserve_earlier_writes_on_rollback_failure
    file,     \* the version that a target's name stands for
    moved,    \* targets whose directory is no longer at its path
    phase,    \* bind, write, undo, verify, validate, back or over
    step,     \* within a write: check, rename, confirm
    at,       \* the target at hand
    written,  \* targets up to this one are written, and not yet put back
    failed,   \* something could not be put back
    outcome,  \* running, done, refused, or review: "manual review required"
    foreign,  \* number of changes by other processes
    touched,  \* history: the targets they changed, since these were verified
    raced,    \* history: those changed between the check and the rename
    stranded  \* history: new versions that the rollback does not know of: they were
              \* renamed into place but could not be read back, or not undone

job == <<phase, step, at, written, failed, outcome>>
others == <<preserve, moved, foreign, touched, raced>>
vars == <<file, job, others, stranded>>

Versions == {"none", "original", "ours", "restored", "foreign"}
Original(t) == IF t \in Missing THEN "none" ELSE "original"

TypeOK ==
    /\ file \in [Targets -> Versions] /\ moved \subseteq Targets
    /\ phase \in {"bind", "write", "undo", "verify", "validate", "back", "over"}
    /\ step \in {"check", "rename", "confirm"}
    /\ at \in 0 .. N + 1 /\ written \in 0 .. N /\ failed \in BOOLEAN
    /\ preserve \in BOOLEAN
    /\ outcome \in {"running", "done", "refused", "review"}
    /\ foreign \in 0 .. MaxForeign
    /\ touched \subseteq Targets /\ raced \subseteq Targets /\ stranded \subseteq Targets
    /\ (outcome = "running") <=> (phase # "over")
    /\ phase \in {"bind", "write", "undo", "verify", "back"} => at \in Targets
    /\ phase \in {"write", "undo"} => written = at - 1
    /\ phase \in {"verify", "validate"} => written = N

Init ==
    /\ file = [t \in Targets |-> Original(t)] /\ moved = {}
    /\ preserve \in BOOLEAN
    /\ phase = "bind" /\ step = "check" /\ at = 1 /\ written = 0
    /\ failed = FALSE /\ outcome = "running"
    /\ foreign = 0 /\ touched = {} /\ raced = {} /\ stranded = {}

-----------------------------------------------------------------------------
(* Ways on.  None of these touches a file. *)

Goes(p, t) == phase' = p /\ at' = t /\ step' = "check"
Over(how) == Goes("over", at) /\ outcome' = how

\* The rollback of what is written up to target n; f: something failed for good.
Back(n, f) ==
    /\ failed' = f /\ written' = n
    /\ IF n = 0 THEN Over(IF f THEN "review" ELSE "refused")
       ELSE Goes("back", n) /\ outcome' = outcome

PutBackLater(t) == Back(t - 1, TRUE)                              \* mutant
\* A target could not be put back: the loop breaks, or goes on with the others.
NotPutBack(t) ==
    IF preserve THEN Over("review") /\ failed' = TRUE /\ written' = t
    ELSE Back(t - 1, TRUE)

\* A step of the target at hand fails.
Fails ==
    /\ CASE phase \in {"write", "verify", "validate"} -> Back(written, failed)
         [] phase = "undo" -> Back(written, TRUE)
         [] phase = "back" -> NotPutBack(at)
    /\ stranded' = IF phase = "undo" \/ (phase = "write" /\ step = "confirm")
                   THEN stranded \cup {at} ELSE stranded

-----------------------------------------------------------------------------
(* Targets are read and bound, and the caller's precondition looked at. *)

Bind ==
    /\ phase = "bind" /\ UNCHANGED <<file, others, stranded>>
    /\ \/ /\ file[at] = Original(at) /\ at \notin moved
          /\ IF at < N THEN Goes("bind", at + 1) ELSE Goes("write", 1)
          /\ UNCHANGED <<written, failed, outcome>>
       \/ Over("refused") /\ UNCHANGED <<written, failed>>

-----------------------------------------------------------------------------
(* _atomic_write_text and its parts, in three roles: "write" puts the new    *)
(* version in place; "undo" takes it away again if the directory has moved;  *)
(* "back" does so when a later step has failed.                              *)

Undone(t) == IF t \in Missing THEN "none" ELSE "restored"
ExpectsAnything(t) == file[t]                                    \* mutant
Expects(t) == IF phase = "write" THEN Original(t) ELSE "ours"
Result(t) == IF phase = "write" THEN "ours" ELSE Undone(t)

Writing == phase \in {"write", "undo", "back"}

\* Bound state is read, copies are staged, and the target is read again.
Check ==
    /\ Writing /\ step = "check" /\ UNCHANGED <<file, others>>
    /\ \/ /\ file[at] = Expects(at) /\ step' = "rename"
          /\ UNCHANGED <<phase, at, written, failed, outcome, stranded>>
       \/ Fails

\* os.replace, or os.unlink of a file that did not exist.
Rename ==
    /\ Writing /\ step = "rename" /\ UNCHANGED others
    /\ \/ /\ file' = [file EXCEPT ![at] = Result(at)] /\ step' = "confirm"
          /\ UNCHANGED <<phase, at, written, failed, outcome, stranded>>
       \/ file' = file /\ Fails

\* After the write of a target: the next one, or the verification of all.
Written ==
    /\ written' = at /\ UNCHANGED <<failed, outcome>>
    /\ IF at < N THEN Goes("write", at + 1) ELSE Goes("verify", 1)

\* The target is read once more.  A write then also wants its path to lead to
\* the bound directory, and is undone otherwise.
Confirm ==
    /\ Writing /\ step = "confirm" /\ UNCHANGED <<file, others>>
    /\ \/ /\ file[at] = Result(at) /\ stranded' = stranded
          /\ \/ phase = "write" /\ at \notin moved /\ Written
             \/ /\ phase = "write" /\ at \in moved
                /\ Goes("undo", at) /\ UNCHANGED <<written, failed, outcome>>
             \/ phase # "write" /\ Back(at - 1, failed)
       \/ Fails

-----------------------------------------------------------------------------
(* Everything is written: each target is looked at, then the caller looks. *)

StillOursOrNot(t) == TRUE                                        \* mutant
StillOurs(t) == file[t] = "ours" /\ t \notin moved

Verify ==
    /\ phase = "verify" /\ UNCHANGED <<file, preserve, moved, foreign, raced>>
    /\ \/ /\ StillOurs(at) /\ touched' = touched \ {at}
          /\ IF at < N THEN Goes("verify", at + 1) ELSE Goes("validate", at)
          /\ UNCHANGED <<written, failed, outcome, stranded>>
       \/ Fails /\ touched' = touched

Validate ==
    /\ phase = "validate" /\ UNCHANGED <<file, others>>
    /\ \/ Over("done") /\ UNCHANGED <<written, failed, stranded>>
       \/ Fails

-----------------------------------------------------------------------------
(* Other processes. *)

Change(t) ==
    /\ foreign < MaxForeign /\ foreign' = foreign + 1
    /\ \E v \in {"foreign", "none"} : file' = [file EXCEPT ![t] = v]
    /\ touched' = touched \cup {t}
    /\ raced' = IF Writing /\ step = "rename" /\ at = t THEN raced \cup {t} ELSE raced
    /\ UNCHANGED <<preserve, moved, job, stranded>>

Move(t) ==
    /\ foreign < MaxForeign /\ foreign' = foreign + 1
    /\ moved' = moved \cup {t}
    /\ UNCHANGED <<preserve, file, job, touched, raced, stranded>>

Next ==
    \/ Bind \/ Check \/ Rename \/ Confirm \/ Verify \/ Validate
    \/ \E t \in Targets : Change(t) \/ Move(t)

Spec == Init /\ [][Next]_vars

-----------------------------------------------------------------------------
\* The transaction is a switch.  If it says done, every target is new; if it
\* raises another error than "manual review required", every target has its
\* former contents.  Excepted are targets that another process has changed, since
\* they were verified, and a new version that could not be read back.
AllOrNothing ==
    \A t \in Targets \ touched :
        /\ outcome = "done" => file[t] = "ours"
        /\ outcome = "refused" /\ t \notin stranded => file[t] \in {Original(t), Undone(t)}

\* Backups come first in an installation: if what it wrote can be neither kept
\* nor put back, the earlier writes stay, and no new version is left without
\* those it relies on, but for a stranded one.
EvidenceKept ==
    preserve /\ outcome # "running" =>
        \A s, t \in Targets :
            s < t /\ file[t] = "ours" /\ t \notin stranded => file[s] = "ours" \/ s \in touched

\* What another process puts in a target's place is overwritten or deleted only
\* if it came between the check and the rename.
OnlyRacedIsLost ==
    [][\A t \in Targets :
        file[t] = "foreign" /\ file'[t] # "foreign" /\ foreign' = foreign => t \in raced]_vars
=============================================================================
