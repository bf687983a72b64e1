----------------------------- MODULE CardRestart -----------------------------
(***************************************************************************)
(* One turn's card across crashes of the sidecar: the session in memory,   *)
(* its checkpoint on disk (session_store.py), the delivery of the end of   *)
(* the turn by PATCH, retries and one recovery card                        *)
(* (terminal_delivery.py), and the refresh that follows a restart          *)
(* (_restore_card_checkpoints).  Hermes sends the end of the turn again    *)
(* until it is answered.                                                   *)
(*                                                                         *)
(* An end comes in one of three ways, and only the first saves it at once: *)
(*   - to the turn's own key: its handler holds the key's lock and saves;  *)
(*   - by an alias of the key: once the turn has ended the alias leads     *)
(*     nowhere, so that the handler finds nothing to save;                 *)
(*   - another turn of the chat replaces this one, without a checkpoint.   *)
(*                                                                         *)
(* The flush controller appears as what FlushController proves of it: one  *)
(* rendering at a time, of the latest update.  A card is what the user     *)
(* sees of it: the turn running, reconnecting, or ended.  Cards handed     *)
(* over to native delivery are never checkpointed and are left out.        *)
(***************************************************************************)
EXTENDS Integers

CONSTANTS
    MaxCrashes, MaxUpdates,   \* bounds on the environment
    MaxTries                  \* PATCH attempts before the recovery

ASSUME RestartAssumption ==
    /\ MaxCrashes \in Nat /\ MaxUpdates \in Nat /\ MaxTries \in Nat \ {0}

VARIABLES
    up,         \* whether the sidecar runs
    mem, disk,  \* the session, and its checkpoint
    touched,    \* the session changed since it was restored
    handler,    \* the handler that applied the turn's end and drains
    want,       \* the latest scheduled update not yet begun
    sending,    \* what the rendering in progress sends, and its attempts
    refresh,    \* the refresh after a restart
    card,       \* what the card shows
    recovery,   \* a recovery card exists
    answered,   \* Hermes has the answer to the turn's end
    unsaved,    \* a checkpoint could not be saved
    gap,        \* the end was applied by a handler that does not save it, and
                \* nobody has saved it since ("open"), or a crash came ("lost")
    outage,     \* a call to Feishu failed
    crashes, updates

vars == <<up, mem, disk, unsaved, gap, touched, handler, want, sending, refresh,
          card, recovery, outage, answered, crashes, updates>>
store == <<disk, unsaved, gap>>
local == <<handler, want, sending, refresh, touched>>
feishu == <<card, recovery, outage>>

Idle == [what |-> "none", tries |-> 0]
\* A turn is active, asks the user something, has ended, or was given up by a
\* restart because the question it asked is no longer valid.
Turn(s) == [status |-> s, delivery |-> "idle"]
Ended(d) == [status |-> "ended", delivery |-> d]
Live == {"active", "asking"}

Deliveries == {"idle", "pending", "recovering", "delivered", "recovered", "unknown", "not_sent"}

\* A delivery state goes with an ended turn, and only with it; a turn that was
\* replaced has none.
TypeOK ==
    /\ up \in BOOLEAN /\ touched \in BOOLEAN /\ outage \in BOOLEAN
    /\ recovery \in BOOLEAN /\ answered \in BOOLEAN /\ unsaved \in BOOLEAN
    /\ {mem, disk} \subseteq {Turn(s) : s \in {"active", "asking", "expired"}}
                          \cup {Ended(d) : d \in Deliveries}
    /\ gap \in {"none", "open", "lost"}
    /\ handler \in {"idle", "direct", "aliased", "replacing"}
    /\ want \in {"none", "update", "final", "replaced"}
    /\ sending \in [what : {"none", "update", "final", "replaced", "recovery"}, tries : 0 .. MaxTries]
    /\ refresh \in {"none", "ready", "reconnecting", "expired", "ended"}
    /\ card \in {"running", "reconnecting", "expired", "ended"}
    /\ crashes \in 0 .. MaxCrashes /\ updates \in 0 .. MaxUpdates

\* The card was sent and checkpointed when the turn started.
Init ==
    /\ up = TRUE /\ touched = FALSE /\ recovery = FALSE /\ answered = FALSE
    /\ unsaved = FALSE /\ gap = "none" /\ outage = FALSE
    /\ mem = Turn("active") /\ disk = Turn("active")
    /\ handler = "idle" /\ want = "none" /\ sending = Idle /\ refresh = "none"
    /\ card = "running"
    /\ crashes = 0 /\ updates = 0

\* _checkpoint_session with a key that has a session and a card.  A failure is
\* noted and changes nothing else.
NotSaved == UNCHANGED store                                      \* mutant
Save == \/ disk' = mem' /\ unsaved' = unsaved /\ gap' = (IF gap = "open" THEN "none" ELSE gap)
        \/ disk' = disk /\ unsaved' = TRUE /\ gap' = gap

\* With a key that leads to no session it returns: nothing is saved, nothing noted.
NothingToSave == UNCHANGED store

-----------------------------------------------------------------------------
(* Events, under the message lock. *)

Update ==
    /\ up /\ handler = "idle" /\ mem.status \in Live /\ updates < MaxUpdates
    /\ updates' = updates + 1
    /\ want' = "update" /\ touched' = TRUE /\ mem' \in {Turn("active"), Turn("asking")}
    /\ Save
    /\ UNCHANGED <<up, handler, sending, refresh, feishu, answered, crashes>>

Accepted == Ended("pending")

\* load: a question that was open is not asked again, the turn is given up.
Restored == IF disk.status = "asking" THEN Turn("expired") ELSE disk

\* The end that is being applied stays unsaved, unless a restart will settle
\* the turn all the same.
LeftUnsaved ==
    /\ gap' = IF gap = "none" /\ Restored.status \in Live THEN "open" ELSE gap
    /\ UNCHANGED <<disk, unsaved>>

\* The end of the turn is applied; then the handler drains the controller.  The
\* key is resolved before, when the turn is active, and again after.
Accept ==
    /\ up /\ handler = "idle" /\ mem.status \in Live
    /\ mem' = Accepted /\ touched' = TRUE
    /\ \/ handler' = "direct" /\ UNCHANGED store
       \/ handler' = "aliased" /\ LeftUnsaved
    /\ UNCHANGED <<up, want, sending, refresh, feishu, answered, crashes, updates>>

\* A new turn of the chat ends this one, under a lock of its own.
Abandon ==
    /\ up /\ handler = "idle" /\ mem.status \in Live
    /\ mem' = Ended("idle") /\ touched' = TRUE /\ handler' = "replacing"
    /\ LeftUnsaved
    /\ UNCHANGED <<up, want, sending, refresh, feishu, answered, crashes, updates>>

\* The drain is over, or timed out: the last update is scheduled.
Schedules(what) ==
    /\ up /\ handler' = "idle" /\ want' = what
    /\ UNCHANGED <<up, mem, touched, sending, refresh, feishu, crashes, updates>>

\* The handler saves and answers; the answer may not reach Hermes.
Finish ==
    /\ handler = "direct" /\ Schedules("final")
    /\ Save
    /\ answered' \in {answered, TRUE}

\* resolve_session_key skips the alias of a turn that is over.
FinishAliased ==
    /\ handler = "aliased" /\ Schedules("final")
    /\ NothingToSave
    /\ answered' \in {answered, TRUE}

\* What is answered then is the start of the new turn.
FinishAbandonment ==
    /\ handler = "replacing" /\ Schedules("replaced")
    /\ NothingToSave
    /\ UNCHANGED answered

\* An event for a turn that is over: its end is "already handled", any other is
\* ignored, and both save.  The handlers that came by an alias or from another
\* turn do not hold this key's lock.
Late ==
    /\ up /\ handler # "direct" /\ mem.status \notin Live /\ mem' = mem
    /\ answered' \in {answered, TRUE}
    /\ Save
    /\ UNCHANGED <<up, local, feishu, crashes, updates>>

\* The end of a turn that is over, sent by an alias which leads nowhere any
\* more: the event-id fence or a session of the alias answers it.
AnsweredElsewhere ==
    /\ up /\ handler \in {"idle", "replacing"} /\ mem.status \notin Live
    /\ answered' = TRUE
    /\ UNCHANGED <<up, mem, store, local, feishu, crashes, updates>>

-----------------------------------------------------------------------------
(* The controller's task. *)

BeginRendering ==
    /\ up /\ sending = Idle /\ want # "none"
    /\ sending' = [what |-> want, tries |-> 0] /\ want' = "none"
    /\ UNCHANGED <<up, mem, store, touched, handler, refresh, feishu, answered, crashes, updates>>

Patches == {"update", "final", "replaced"}
Sent == IF sending.what = "update" THEN "running" ELSE "ended"

\* The state of the delivery after its last failed PATCH.
AfterFailure == Ended("recovering")

PatchOk ==
    /\ up /\ sending.what \in Patches
    /\ card' = Sent /\ sending' = Idle
    /\ mem' = IF sending.what = "final" THEN Ended("delivered") ELSE mem
    /\ IF sending.what = "final" THEN Save ELSE UNCHANGED store
    /\ UNCHANGED <<up, touched, handler, want, refresh, recovery, outage, answered, crashes, updates>>

\* An attempt that fails may have reached the card.  The last failure of a
\* final update is followed by its recovery, once; that of a replaced turn is not.
PatchFails ==
    /\ up /\ sending.what \in Patches /\ outage' = TRUE
    /\ card' \in {card, Sent}
    /\ IF sending.tries + 1 < MaxTries
       THEN sending' = [what |-> sending.what, tries |-> sending.tries + 1] /\ mem' = mem
       ELSE IF sending.what = "final"
            THEN sending' = [what |-> "recovery", tries |-> 0] /\ mem' = AfterFailure
            ELSE sending' = Idle /\ mem' = mem
    /\ UNCHANGED <<up, store, touched, handler, want, refresh, recovery, answered, crashes, updates>>

\* The recovery card's create has an outcome, which settles the delivery.
RecoveryReturns ==
    /\ up /\ sending.what = "recovery"
    /\ sending' = Idle
    /\ \/ recovery' = TRUE /\ mem' = Ended("recovered")
       \/ recovery' \in BOOLEAN /\ (recovery => recovery') /\ mem' = Ended("unknown")
       \/ recovery' = recovery /\ mem' = Ended("not_sent")
    /\ Save
    /\ UNCHANGED <<up, touched, handler, want, refresh, card, outage, answered, crashes, updates>>

-----------------------------------------------------------------------------
(* Crash and restart. *)

\* What was in flight may still reach Feishu.
Crash ==
    /\ up /\ crashes < MaxCrashes
    /\ up' = FALSE /\ crashes' = crashes + 1
    /\ card' \in {card} \cup (IF sending.what \in Patches THEN {Sent} ELSE {})
                        \cup ({refresh} \ {"none", "ready"})
    /\ recovery' \in {recovery, recovery \/ sending.what = "recovery"}
    /\ handler' = "idle" /\ want' = "none" /\ sending' = Idle /\ refresh' = "none"
    /\ gap' = IF gap = "open" THEN "lost" ELSE gap
    /\ UNCHANGED <<mem, disk, unsaved, touched, outage, answered, updates>>

Restart ==
    /\ ~up
    /\ up' = TRUE /\ mem' = Restored /\ touched' = FALSE /\ refresh' = "ready"
    /\ UNCHANGED <<store, handler, want, sending, feishu, answered, crashes, updates>>

\* The refresh looks at the restored session once more before its PATCH.
Current == ~touched

\* What it shows: the end of the turn or that its question has expired, else
\* that execution is to be synchronised.  A recovered end is not shown twice.
AlwaysReconnects == "reconnecting"                               \* mutant
Refreshed == IF mem.status \in Live THEN "reconnecting" ELSE mem.status

RefreshBegins ==
    /\ up /\ refresh = "ready"
    /\ refresh' = IF Current /\ mem.delivery \notin {"recovered", "unknown"}
                  THEN Refreshed ELSE "none"
    /\ UNCHANGED <<up, mem, store, touched, handler, want, sending, feishu, answered, crashes, updates>>

RefreshReturns ==
    /\ up /\ refresh \notin {"none", "ready"}
    /\ \/ card' = refresh /\ outage' = outage
       \/ card' = card /\ outage' = TRUE
    /\ refresh' = "none"
    /\ UNCHANGED <<up, mem, store, touched, handler, want, sending, recovery, answered, crashes, updates>>

Next ==
    \/ Update \/ Accept \/ Abandon \/ Finish \/ FinishAliased \/ FinishAbandonment
    \/ Late \/ AnsweredElsewhere
    \/ BeginRendering \/ PatchOk \/ PatchFails \/ RecoveryReturns
    \/ Crash \/ Restart \/ RefreshBegins \/ RefreshReturns

Spec == Init /\ [][Next]_vars

\* A sidecar that crashed is restarted; its tasks run, and Feishu calls end.
FairSpec ==
    /\ Spec
    /\ WF_vars(Finish \/ FinishAliased \/ FinishAbandonment) /\ WF_vars(BeginRendering)
    /\ WF_vars(PatchOk \/ PatchFails) /\ WF_vars(RecoveryReturns)
    /\ WF_vars(Restart) /\ WF_vars(RefreshBegins) /\ WF_vars(RefreshReturns)

-----------------------------------------------------------------------------
Settled == {"ended", "expired"}

\* When Hermes has its answer, what a restart reads from the disk is over: no crash
\* makes the sidecar wait for an end that Hermes will not send again.  Excepted
\* are a save that failed, and an end that came by an alias or a replacement for
\* as long as nobody has saved it (_apply_event_locked resolves the key again).
AnsweredIsDurable == answered /\ ~unsaved /\ gap = "none" => Restored.status \in Settled

\* Only a refresh that began before the turn's end was applied takes the end off
\* the card again: no late update, no retry and no crash, unless a save failed or
\* the crash struck before an end that its handler does not save was saved.
OnlyEarlyRefreshHidesEnd ==
    [][(card \in Settled /\ card' \notin Settled /\ ~unsaved /\ gap # "lost")
           => (refresh = "reconnecting" /\ touched /\ mem.status \in Settled)]_vars

\* When Feishu and the disk work and no crash meets an unsaved end, the card of
\* an answered end comes to show it (the closures, the refresh and the restart
\* each pass it on); a refresh in flight may then hide it, see above.
AnsweredIsShown ==
    [](~outage /\ ~unsaved /\ gap # "lost") => (<>answered => <>(card \in Settled))
=============================================================================
