---------------------------- MODULE Interactions ----------------------------
(***************************************************************************)
(* The questions one Hermes turn asks the user: approvals and clarifying   *)
(* questions that a card shows and a click answers.                        *)
(*                                                                         *)
(* A Hermes thread asks and waits on a handle of its own.  The plugin      *)
(* (hermes_plugin_runtime.py) holds an entry per question, through which   *)
(* the sidecar may run the resolver that answers the handle, and announces *)
(* the question; only the proof that the card was delivered lets it own    *)
(* the question, which Hermes otherwise asks in its own way.  The sidecar  *)
(* (server.py) sends the card with the session's lock released and the     *)
(* session reserved; a click has Hermes asked, again without the lock.     *)
(* Ends and resets of the turn wait for resolutions under way, for a time. *)
(*                                                                         *)
(* A step is what runs under one lock of the plugin, or on the sidecar's   *)
(* event loop from one await to the next.  Time is the set of deadlines    *)
(* that have passed.  Any post and any call may be late or lost.           *)
(***************************************************************************)
EXTENDS Integers, FiniteSets

CONSTANTS
    Questions,  \* the questions of the turn, each asked once
    Choices,    \* the answers a card offers
    Clicks,     \* requests of /card/actions
    Ends,       \* calls of on_session_end for the turn
    Resets,     \* calls of on_session_reset or on_session_finalize
    Deadlines,  \* the deadlines that may pass
    Allowance   \* bound: how many clicks, clean-ups and deadlines there may be
                \* with so many questions

Nobody == "nobody"

ASSUME InteractionsAssumption ==
    /\ Deadlines \subseteq {"descriptor", "entry", "card"}
    /\ Allowance \in [0 .. Cardinality(Questions) -> Nat]
    /\ Nobody \notin Questions
    /\ Choices \cap {"none", "open", "closed"} = {}
    /\ Ends \cap Resets = {} /\ (Ends \cup Resets) \cap {"live", "gone"} = {}

Cleaners == Ends \cup Resets

VARIABLES
    asker,      \* Hermes' thread that asks a question
    handle,     \* what it waits on: open, closed or the choice it was given
    entry,      \* _PatchInteraction of the question
    turn,       \* live, gone, or the end that owns its terminal event
    cleaning,   \* the turn is in _interaction_cleanup_turns
    deferred,   \* and in _deferred_interaction_cleanup_turns
    cleaner,    \* the threads that end or reset the turn
    overdue,    \* the deadlines of a question that have passed
    before,     \* the questions numbered before a question
    session,    \* the sidecar's session: its status, and the questions whose
                \* number is below its last_sequence
    inter,      \* its active_interaction
    reserved,   \* the question whose delivery reserves the session
    rollback,   \* the snapshot taken for it
    post,       \* the announcement of a question
    shown,      \* questions whose card Feishu shows
    click,      \* card actions
    call        \* the requests that they send to Hermes

asking == <<asker, before>>
plugin == <<entry, turn, cleaning, deferred>>
threads == <<cleaner, click, call>>
sidecar == <<session, inter, reserved, rollback, post, shown>>
vars == <<asking, handle, plugin, overdue, sidecar, threads>>

Option == Choices \cup {"none"}
Absent == [held |-> FALSE, resolving |-> "none", selected |-> "none"]
Registered == [Absent EXCEPT !.held = TRUE]
Unclicked == [at |-> "idle", q |-> Nobody, choice |-> "none", copy |-> 0]

AskerSteps == {"idle", "posting", "owned", "native", "answered"}
ClickSteps == {"idle", "calling", "success", "refused"}
CallSteps == {"none", "sent", "resolving", "taken", "untaken", "accepted", "rejected", "yes", "no"}
CleanerSteps == {"idle", "waiting", "late", "deferring", "ready", "posting", "posted", "done"}
PostSteps == {"none", "wire", "sending", "exact", "plain", "error"}
SessionState == [status : {"running", "ended", "abandoned"}, passed : SUBSET Questions]
InteractionState ==
    [q : Questions \cup {Nobody}, status : {"none", "pending", "completed", "failed"},
     admission : BOOLEAN, choice : Option, copy : Nat]

TypeOK ==
    /\ asker \in [Questions -> AskerSteps]
    /\ handle \in [Questions -> Choices \cup {"none", "open", "closed"}]
    /\ entry \in [Questions -> [held : BOOLEAN, resolving : Option, selected : Option]]
    /\ turn \in {"live", "gone"} \cup Ends
    /\ cleaning \in BOOLEAN /\ deferred \in BOOLEAN
    /\ cleaner \in [Cleaners -> [at : CleanerSteps, watched : SUBSET Clicks]]
    /\ overdue \in [Questions -> SUBSET Deadlines]
    /\ before \in [Questions -> SUBSET Questions]
    /\ session \in SessionState /\ inter \in InteractionState
    /\ reserved \in Questions \cup {Nobody}
    /\ rollback \in [session : SessionState, inter : InteractionState]
    /\ post \in [Questions -> PostSteps]
    /\ shown \subseteq Questions
    /\ \A q \in Questions : entry[q].selected # "none" => entry[q].resolving = "none"
    /\ click \in [Clicks -> [at : ClickSteps, q : Questions \cup {Nobody},
                             choice : Option, copy : Nat]]
    /\ call \in [Clicks -> CallSteps]

NoInteraction == [q |-> Nobody, status |-> "none", admission |-> FALSE, choice |-> "none", copy |-> 0]
NewSession == [status |-> "running", passed |-> {}]
NoSnapshot == [session |-> NewSession, inter |-> NoInteraction]

Init ==
    /\ asker = [q \in Questions |-> "idle"] /\ handle = [q \in Questions |-> "none"]
    /\ entry = [q \in Questions |-> Absent]
    /\ turn = "live" /\ cleaning = FALSE /\ deferred = FALSE
    /\ cleaner = [c \in Cleaners |-> [at |-> "idle", watched |-> {}]]
    /\ overdue = [q \in Questions |-> {}]
    /\ before = [q \in Questions |-> {}]
    /\ session = NewSession /\ inter = NoInteraction
    /\ reserved = Nobody /\ rollback = NoSnapshot
    /\ post = [q \in Questions |-> "none"] /\ shown = {}
    /\ click = [k \in Clicks |-> Unclicked] /\ call = [k \in Clicks |-> "none"]

Numbered == {q \in Questions : post[q] # "none"}

Asked == Cardinality({q \in Questions : asker[q] # "idle"})
Spent ==
    Cardinality({k \in Clicks : click[k].at # "idle"})
    + Cardinality({c \in Cleaners : cleaner[c].at # "idle"})
    + Cardinality({x \in Questions \X Deadlines : x[2] \in overdue[x[1]]})
MayGoOn == Spent < Allowance[Asked]

\* Deadlines: the descriptor's is the first, the card's counts from its arrival.
Pass(q, deadline) ==
    /\ MayGoOn /\ q \in Numbered /\ deadline \notin overdue[q]
    /\ deadline # "descriptor" => "descriptor" \in overdue[q]
    /\ deadline = "card" => post[q] \notin {"none", "wire"}
    /\ overdue' = [overdue EXCEPT ![q] = @ \cup {deadline}]
    /\ UNCHANGED <<asking, handle, plugin, sidecar, threads>>

-----------------------------------------------------------------------------
(* The plugin's entries. *)

SweptAll == [q \in Questions |-> IF "entry" \in overdue[q] THEN Absent ELSE entry[q]]   \* mutant
\* _expire_locked, at the head of every operation: not while a resolver runs.
Swept == [q \in Questions |->
    IF "entry" \in overdue[q] /\ entry[q].resolving = "none" THEN Absent ELSE entry[q]]

\* _cleanup_turn_locked
Forget ==
    /\ turn' = "gone" /\ entry' = [q \in Questions |-> Absent]
    /\ cleaning' = FALSE /\ deferred' = FALSE

\* _complete_deferred_interaction_cleanup
CompleteDeferred ==
    IF deferred /\ \A q \in Questions : entry[q].resolving = "none"
    THEN Forget ELSE UNCHANGED plugin

-----------------------------------------------------------------------------
(* Hermes asks: admit_patch_interaction. *)

\* The question is registered, armed, numbered and posted; or asked natively.
Ask(q) ==
    /\ asker[q] = "idle" /\ Spent <= Allowance[Asked + 1] /\ handle' = [handle EXCEPT ![q] = "open"]
    /\ \/ /\ turn = "live" /\ ~cleaning
          /\ asker' = [asker EXCEPT ![q] = "posting"]
          /\ entry' = [Swept EXCEPT ![q] = Registered]
          /\ before' = [before EXCEPT ![q] = Numbered]
          /\ post' = [post EXCEPT ![q] = "wire"]
       \/ /\ turn # "live" \/ cleaning
          /\ asker' = [asker EXCEPT ![q] = "native"] /\ entry' = Swept
          /\ UNCHANGED <<before, post>>
    /\ UNCHANGED <<turn, cleaning, deferred, overdue, session, inter, reserved,
                   rollback, shown, threads>>

ConfirmedByAny(q) == post[q] \in {"exact", "plain"}                \* mutant
\* The exact answer, or the receipt that confirm_interaction_delivery asks for
\* when there is no answer, or an error.
Confirmed(q) == post[q] = "exact"

\* The delivery is proved; the entry is looked at again.
Admit(q) ==
    /\ asker[q] = "posting" /\ Confirmed(q) /\ entry' = Swept
    /\ LET owns == Swept[q].held /\ ~cleaning /\ "descriptor" \notin overdue[q]
       IN  asker' = [asker EXCEPT ![q] = IF owns THEN "owned" ELSE "native"]
    /\ UNCHANGED <<before, handle, turn, cleaning, deferred, overdue, sidecar, threads>>

\* Another answer, or no receipt in time.
Decline(q) ==
    /\ asker[q] = "posting" /\ asker' = [asker EXCEPT ![q] = "native"]
    /\ UNCHANGED <<before, handle, plugin, overdue, sidecar, threads>>

\* Hermes' wait is over: a choice, its own timeout, or an answer given natively.
Return(q) ==
    /\ asker[q] \in {"owned", "native"} /\ asker' = [asker EXCEPT ![q] = "answered"]
    /\ handle' = [handle EXCEPT ![q] = IF @ = "open" THEN "closed" ELSE @]
    /\ UNCHANGED <<before, plugin, overdue, sidecar, threads>>

-----------------------------------------------------------------------------
(* The sidecar: _apply_event_locked and _complete_runtime_interaction_delivery. *)

FailedState(i) == [i EXCEPT !.status = "failed", !.admission = FALSE]
CardOverdue(i) == i.q # Nobody /\ "card" \in overdue[i.q]           \* mutant
CardExpired(i) == i.status = "pending" /\ "card" \in overdue[i.q]
\* InteractionState.expire
Expired(i) == IF CardExpired(i) THEN FailedState(i) ELSE i
\* _expire_runtime_admission_locked
AdmissionExpired(i) ==
    IF i.status = "pending" /\ i.admission /\ overdue[i.q] \cap {"descriptor", "card"} # {}
    THEN FailedState(i) ELSE i

UnreservedAlways == TRUE                                         \* mutant
Unreserved == reserved = Nobody
Fresh(q) == session.status = "running" /\ q \notin session.passed

Requested(q) == [q |-> q, status |-> "pending", admission |-> TRUE, choice |-> "none", copy |-> 0]

\* The announcement arrives; an applied one reserves the session, with a copy
\* of what was there.
Announced(q) ==
    /\ post[q] = "wire"
    /\ \/ /\ ~Unreserved /\ post' = [post EXCEPT ![q] = "error"]
          /\ UNCHANGED <<session, inter, reserved, rollback>>
       \/ /\ Unreserved /\ ~Fresh(q) /\ post' = [post EXCEPT ![q] = "plain"]
          /\ inter' = Expired(inter) /\ UNCHANGED <<session, reserved, rollback>>
       \/ /\ Unreserved /\ Fresh(q) /\ post' = [post EXCEPT ![q] = "sending"]
          /\ rollback' = [session |-> session, inter |-> [inter EXCEPT !.copy = @ + 1]]
          /\ session' = [session EXCEPT !.passed = @ \cup before[q]]
          /\ inter' = Requested(q) /\ reserved' = q
    /\ UNCHANGED <<asking, handle, plugin, overdue, shown, threads>>

SameRequest(q) == inter.q = q /\ inter.copy = 0 /\ inter.admission
StillOwner(q) ==
    /\ reserved = q /\ SameRequest(q) /\ inter.status = "pending"
    /\ q \notin session.passed

\* The card is sent; the outcome may be unknown although the card is there.
\* Under the lock again: the receipt and the exact answer, or the copy is put
\* back; a request that is no longer the owner loses its admission.
Settle(q) ==
    /\ post[q] = "sending" /\ shown' \in {shown, shown \cup {q}}
    /\ reserved' = IF reserved = q THEN Nobody ELSE reserved
    /\ rollback' = IF reserved = q THEN NoSnapshot ELSE rollback
    /\ \/ /\ StillOwner(q) /\ q \in shown' /\ post' = [post EXCEPT ![q] = "exact"]
          /\ UNCHANGED <<session, inter>>
       \/ /\ StillOwner(q) /\ post' = [post EXCEPT ![q] = "error"]
          /\ session' = rollback.session /\ inter' = rollback.inter
       \/ /\ ~StillOwner(q) /\ post' = [post EXCEPT ![q] = "error"]
          /\ inter' = IF SameRequest(q) THEN [inter EXCEPT !.admission = FALSE] ELSE inter
          /\ UNCHANGED session
    /\ UNCHANGED <<asking, handle, plugin, overdue, threads>>

\* Another event of the turn, of a higher number than the questions so far.
OtherEvent ==
    /\ Unreserved /\ session.status = "running"
    /\ session' = [session EXCEPT !.passed = Numbered]
    /\ inter' = Expired(inter)
    /\ UNCHANGED <<asking, handle, plugin, overdue, reserved, rollback, post,
                   shown, threads>>

\* The turn's end, while its post lasts or after it was given up.
EndArrives ==
    /\ \E e \in Ends : cleaner[e].at \in {"posting", "posted"}
    /\ Unreserved /\ session.status = "running"
    /\ session' = [session EXCEPT !.status = "ended"]
    /\ inter' = IF inter.status = "pending" THEN FailedState(inter)
                ELSE [inter EXCEPT !.admission = FALSE]
    /\ UNCHANGED <<asking, handle, plugin, overdue, reserved, rollback, post,
                   shown, threads>>

\* _abandon_stale_sessions_for_chat: another turn of the chat starts.
Abandon ==
    /\ session.status = "running"
    /\ session' = [session EXCEPT !.status = "abandoned"]
    /\ UNCHANGED <<asking, handle, plugin, overdue, inter, reserved, rollback, post,
                   shown, threads>>

\* _expire_pending_interactions, of the clean-up loop and of polls.
ExpireCard ==
    /\ CardExpired(inter) /\ inter' = FailedState(inter)
    /\ UNCHANGED <<asking, handle, plugin, overdue, session, reserved, rollback, post,
                   shown, threads>>

-----------------------------------------------------------------------------
(* A click: _interaction_action. *)

Completed(i, choice) ==
    IF session.status = "running"
    THEN [i EXCEPT !.status = "completed", !.choice = choice, !.admission = FALSE]
    ELSE i

Refuse(k) == click' = [click EXCEPT ![k].at = "refused"]

\* The first locked section: refuse, or have Hermes asked about a request that
\* has an admission; one that has none is completed at once.
Click(k, q, choice) ==
    /\ click[k].at = "idle" /\ MayGoOn /\ q \in shown
    /\ \/ /\ inter.q # q \/ ~Unreserved
          /\ Refuse(k) /\ UNCHANGED <<inter, call>>
       \/ /\ inter.q = q /\ Unreserved /\ Expired(inter).status # "pending"
          /\ inter' = Expired(inter) /\ Refuse(k) /\ UNCHANGED call
       \/ /\ inter.q = q /\ Unreserved /\ Expired(inter).status = "pending"
          /\ inter' = IF inter.admission THEN inter ELSE Completed(inter, choice)
          /\ click' = [click EXCEPT ![k] =
                [at |-> IF inter.admission THEN "calling" ELSE "success",
                 q |-> q, choice |-> choice, copy |-> inter.copy]]
          /\ call' = [call EXCEPT ![k] = IF inter.admission THEN "sent" ELSE @]
    /\ UNCHANGED <<asking, handle, plugin, overdue, session, reserved, rollback, post,
                   shown, cleaner>>

Claimable(e) == e.held /\ e.selected = "none" /\ e.resolving = "none"

\* resolve_runtime_interaction_payload: the request claims the entry, or is
\* answered by what was selected before.
Claim(k) ==
    LET q == click[k].q  choice == click[k].choice  e == Swept[q]
        admits == ~cleaning /\ "descriptor" \notin overdue[q]
    IN  /\ call[k] = "sent"
        /\ \/ /\ admits /\ Claimable(e)
              /\ call' = [call EXCEPT ![k] = "resolving"]
              /\ entry' = [Swept EXCEPT ![q].resolving = choice]
           \/ /\ ~(admits /\ Claimable(e))
              /\ call' = [call EXCEPT ![k] = IF admits /\ e.selected = choice THEN "yes" ELSE "no"]
              /\ entry' = Swept
        /\ UNCHANGED <<asking, handle, turn, cleaning, deferred, overdue, sidecar, cleaner, click>>

\* The resolver of Hermes' patch: an open handle takes the choice.
Resolve(k) ==
    LET q == click[k].q
    IN  /\ call[k] = "resolving"
        /\ call' = [call EXCEPT ![k] = IF handle[q] = "open" THEN "taken" ELSE "untaken"]
        /\ handle' = [handle EXCEPT ![q] = IF @ = "open" THEN click[k].choice ELSE @]
        /\ UNCHANGED <<asking, plugin, overdue, sidecar, cleaner, click>>

\* The claim is given back; a choice that was taken is remembered.
Record(k) ==
    LET q == click[k].q
        accepted == call[k] = "taken" /\ entry[q].resolving = click[k].choice
    IN  /\ call[k] \in {"taken", "untaken"}
        /\ call' = [call EXCEPT ![k] = IF accepted THEN "accepted" ELSE "rejected"]
        /\ entry' = [entry EXCEPT ![q].resolving = "none",
                                  ![q].selected = IF accepted THEN click[k].choice ELSE @]
        /\ UNCHANGED <<asking, handle, turn, cleaning, deferred, overdue, sidecar, cleaner, click>>

\* A clean-up that waited for it, and the answer.
Respond(k) ==
    /\ call[k] \in {"accepted", "rejected"}
    /\ call' = [call EXCEPT ![k] = IF @ = "accepted" THEN "yes" ELSE "no"]
    /\ CompleteDeferred
    /\ UNCHANGED <<asking, handle, overdue, sidecar, cleaner, click>>

\* RuntimeCallbackSnapshot.is_current, and the object it holds.
SameObject(k) == inter.q = click[k].q /\ inter.copy = click[k].copy
IsCurrent(k) == SameObject(k) /\ inter.status = "pending" /\ inter.admission

\* Hermes says no, or too late, or nothing within the time of the call.
Unresolved(k) ==
    /\ click[k].at = "calling" /\ click' = [click EXCEPT ![k].at = "refused"]
    /\ inter' = IF SameObject(k) THEN AdmissionExpired(inter) ELSE inter
    /\ UNCHANGED <<asking, handle, plugin, overdue, session, reserved, rollback, post,
                   shown, cleaner, call>>

\* Hermes says yes in time; the request may no longer be the one clicked.
Resolved(k) ==
    /\ click[k].at = "calling" /\ call[k] = "yes" /\ "descriptor" \notin overdue[click[k].q]
    /\ click' = [click EXCEPT ![k].at = IF IsCurrent(k) THEN "success" ELSE "refused"]
    /\ inter' = CASE IsCurrent(k) -> Completed(inter, click[k].choice)
                  [] SameObject(k) /\ ~IsCurrent(k) -> [inter EXCEPT !.admission = FALSE]
                  [] OTHER -> inter
    /\ UNCHANGED <<asking, handle, plugin, overdue, session, reserved, rollback, post,
                   shown, cleaner, call>>

-----------------------------------------------------------------------------
(* The turn ends or its session is reset. *)

Resolving == {k \in Clicks : call[k] \in {"resolving", "taken", "untaken"}}

WatchNobody(c) == [cleaner EXCEPT ![c] = [at |-> "waiting", watched |-> {}]]   \* mutant
\* _prepare_turn_cleanup: no new resolution; those under way are waited for.
Watch(c) == [cleaner EXCEPT ![c] =
    [at |-> "waiting", watched |-> {k \in Resolving : entry[click[k].q].held}]]

Prepare(c) ==
    /\ cleaner[c].at = "idle" /\ MayGoOn /\ (c \in Resets => turn # "gone")
    /\ cleaning' = TRUE /\ cleaner' = Watch(c)
    /\ UNCHANGED <<asking, handle, entry, turn, deferred, overdue, sidecar, click, call>>

Goes(c, where) == cleaner' = [cleaner EXCEPT ![c] = [at |-> where, watched |-> {}]]

WaitOver(c) ==
    /\ cleaner[c].at = "waiting" /\ cleaner[c].watched \cap Resolving = {}
    /\ Goes(c, "ready")
    /\ UNCHANGED <<asking, handle, plugin, overdue, sidecar, click, call>>

\* The wait was too long; even what has just ended may count as too late.
WaitFails(c) ==
    /\ cleaner[c].at = "waiting" /\ cleaner[c].watched # {}
    /\ Goes(c, "late")
    /\ UNCHANGED <<asking, handle, plugin, overdue, sidecar, click, call>>

\* The clean-up is left to the last resolution, which may be over by now.
PutOff(c) ==
    /\ cleaner[c].at = "late" /\ Goes(c, "deferring") /\ deferred' = TRUE
    /\ UNCHANGED <<asking, handle, entry, turn, cleaning, overdue, sidecar, click, call>>

DeferNothing(c) ==                                               \* mutant
    cleaner[c].at = "deferring" /\ UNCHANGED plugin
LookAgain(c) == cleaner[c].at = "deferring" /\ CompleteDeferred

Defer(c) ==
    /\ LookAgain(c) /\ Goes(c, "done")
    /\ UNCHANGED <<asking, handle, overdue, sidecar, click, call>>

\* handle_on_session_end: own the terminal event, or end without one.
End(e) ==
    /\ cleaner[e].at = "ready"
    /\ \/ /\ turn # "live" /\ cleaning' = FALSE /\ entry' = Swept
          /\ UNCHANGED <<turn, deferred>> /\ Goes(e, "done")
       \/ turn = "live" /\ Forget /\ Goes(e, "done")
       \/ /\ turn = "live" /\ turn' = e /\ entry' = Swept
          /\ UNCHANGED <<cleaning, deferred>> /\ Goes(e, "posting")
    /\ UNCHANGED <<asking, handle, overdue, sidecar, click, call>>

EndPosted(e) ==
    /\ cleaner[e].at = "posting" /\ Goes(e, "posted")
    /\ IF turn = e THEN Forget ELSE UNCHANGED plugin
    /\ UNCHANGED <<asking, handle, overdue, sidecar, click, call>>

\* _cleanup_session
Reset(r) ==
    /\ cleaner[r].at = "ready" /\ Goes(r, "done")
    /\ IF turn = "gone" THEN entry' = Swept /\ UNCHANGED <<turn, cleaning, deferred>>
       ELSE Forget
    /\ UNCHANGED <<asking, handle, overdue, sidecar, click, call>>

-----------------------------------------------------------------------------
Asks(q) == Ask(q) \/ Admit(q) \/ Decline(q) \/ Return(q)
Delivers(q) == Announced(q) \/ Settle(q)
Serves(k) == Resolve(k) \/ Record(k) \/ Respond(k)
Cleans(c) == Prepare(c) \/ WaitOver(c) \/ WaitFails(c) \/ PutOff(c) \/ Defer(c)

Next ==
    \/ \E q \in Questions : Asks(q) \/ Delivers(q)
    \/ \E q \in Questions, deadline \in Deadlines : Pass(q, deadline)
    \/ OtherEvent \/ EndArrives \/ Abandon \/ ExpireCard
    \/ \E k \in Clicks :
           \/ \E q \in Questions, choice \in Choices : Click(k, q, choice)
           \/ Claim(k) \/ Serves(k) \/ Unresolved(k) \/ Resolved(k)
    \/ \E c \in Cleaners : Cleans(c)
    \/ \E e \in Ends : End(e) \/ EndPosted(e)
    \/ \E r \in Resets : Reset(r)

Spec == Init /\ [][Next]_vars

-----------------------------------------------------------------------------
(* What is promised. *)

\* A card that shows a choice, and a click that was told it counts, have
\* Hermes' own handle hold exactly that choice: nothing is completed on the
\* sidecar's side alone.
ChosenIsAnswered ==
    /\ inter.status = "completed" => handle[inter.q] = inter.choice
    /\ \A k \in Clicks : click[k].at = "success" => handle[click[k].q] = click[k].choice

\* The plugin owns a question, which Hermes then does not ask natively, only
\* if Feishu shows its card.
OwnedIsDelivered == \A q \in Questions : asker[q] = "owned" => q \in shown

\* An end has come to nothing while another posted: the flag of the clean-up,
\* which the first still relied on, may be down (it is shared by the turn).
EndedTwice == \E e, f \in Ends :
    e # f /\ cleaner[e].at \in {"posting", "posted"} /\ cleaner[f].at = "done"

\* A choice that Hermes' handle has taken is recorded as taken: no clean-up, no
\* deadline removes the entry while its resolver runs, but for a turn that was
\* ended twice.
AcceptedIsResolved ==
    [][\A k \in Clicks :
         call[k] = "taken" /\ call'[k] # "taken" => call'[k] = "accepted" \/ EndedTwice]_vars

\* A clean-up that was put off is in somebody's hands until it is done: the
\* last of the resolutions under way, or the thread that put it off and looks
\* again.  There is no other wake-up.
PutOffHasKeeper ==
    deferred =>
        \/ \E q \in Questions : entry[q].resolving # "none"
        \/ \E k \in Clicks : call[k] \in {"accepted", "rejected"}
        \/ \E c \in Cleaners : cleaner[c].at = "deferring"

\* What a card says of its question: the session's request, or the copy of it
\* that is kept while a later question is sent.
SaysOf(i) == CASE i.status = "completed" -> i.choice [] i.status = "pending" -> "open" [] OTHER -> "failed"
CardOf(q) ==
    CASE inter.q = q -> SaysOf(inter)
      [] inter.q # q /\ rollback.inter.q = q -> SaysOf(rollback.inter)
      [] inter.q # q /\ rollback.inter.q # q ->
            IF post[q] \in {"none", "wire"} THEN "none" ELSE "withdrawn"
ToldTo(k) ==
    IF click[k].at = "success" THEN [question |-> click[k].q, choice |-> click[k].choice]
    ELSE [question |-> "none", choice |-> "none"]

OA == INSTANCE OneAnswer WITH answer <- handle,
    card <- [q \in Questions |-> CardOf(q)], told <- [k \in Clicks |-> ToldTo(k)]

\* The questions implement OneAnswer: a decided card is never opened again, not
\* by the snapshot that is put back when a later question cannot be sent, and
\* Hermes' answer, the card and the clicks that count agree.
AnsweredOnce == OA!Spec

\* A session that another turn of its chat has replaced stays ended.
AbandonedStaysEnded ==
    [][session.status = "abandoned" => session'.status # "running"]_vars
=============================================================================
