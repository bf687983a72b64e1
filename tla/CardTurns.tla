------------------------------ MODULE CardTurns ------------------------------
(***************************************************************************)
(* The turns that use one session key, one after the other, each with its  *)
(* session, its card and its flush controller (server.py): the /events     *)
(* handlers of the key, which run under its message lock; handlers that    *)
(* reach the session without that lock, through an alias of its key or     *)
(* because a turn of another key abandons it; the animation of the card,   *)
(* which waits for the controller's task; and the reset by which a new     *)
(* turn takes the key over.  A new turn's session is under the key before  *)
(* its card exists: whoever finds it then finds no card to update.         *)
(*                                                                         *)
(* A step is what the event loop runs between two awaits.  What a PATCH    *)
(* carries is abstracted to whether it shows the turn as running or as     *)
(* ended; its failures, retries and recovery are in CardRestart.           *)
(***************************************************************************)
EXTENDS FlushOps, Sequences, FiniteSets

CONSTANTS
    Turns,      \* number of turns that reuse the key
    MaxCalls,   \* bound on the updates of a turn before its end
    Aliased,    \* handlers that complete a turn through an alias of its key
    Others      \* handlers of other keys that abandon a turn

Owner == "owner"     \* the handler that holds the key's message lock

ASSUME TurnsAssumption ==
    /\ Turns \in Nat \ {0} /\ MaxCalls \in Nat
    /\ Owner \notin Aliased \cup Others /\ Aliased \cap Others = {}

Turn == 1 .. Turns
Finishers == {Owner} \cup Aliased \cup Others

VARIABLES
    current,    \* the turn whose session the key leads to; 0: none, or a copy
    opening,    \* the turn whose card the holder of the lock is creating
    early,      \* turns that were given up before their card existed
    status,     \* of each turn's session
    ctl,        \* each turn's flush controller
    calls,      \* what each scheduled update of a turn will render
    patch,      \* what the rendering in progress sends
    shown,      \* what the turn's card shows, from its creation
    anim,       \* each turn's animation: off, sleeping, or the task it awaits
    finisher,   \* the turn each handler is ending, and the task it drains
    cancelled   \* the controller tasks that were cancelled

vars == <<current, opening, early, status, ctl, calls, patch, shown, anim, finisher, cancelled>>

Nobody == [turn |-> 0, task |-> 0]

Off == [is |-> "off", task |-> 0]
Sleeping == [is |-> "sleeping", task |-> 0]
Waiting(k) == [is |-> "waiting", task |-> k]

\* Nothing is in flight outside a rendering.
TypeOK ==
    /\ current \in 0 .. Turns /\ opening \in 0 .. Turns /\ early \subseteq Turn
    /\ status \in [Turn -> {"none", "active", "ended"}]
    /\ ctl \in [Turn -> Controller]
    /\ calls \in [Turn -> Seq({"update", "animation", "final", "abandon"})]
    /\ \A t \in Turn :
           /\ Len(calls[t]) = ctl[t].latest
           /\ patch[t] # "none" => ctl[t].phase = "rendering"
    /\ patch \in [Turn -> {"none", "running", "ended"}]
    /\ shown \in [Turn -> {"running", "ended"}]
    /\ anim \in [Turn -> [is : {"off", "sleeping", "waiting"}, task : Nat]]
    /\ finisher \in [Finishers -> [turn : 0 .. Turns, task : Nat]]
    /\ cancelled \subseteq Turn \X Nat

Init ==
    /\ current = 0 /\ opening = 0 /\ early = {}
    /\ status = [t \in Turn |-> "none"]
    /\ ctl = [t \in Turn |-> NewController]
    /\ calls = [t \in Turn |-> <<>>]
    /\ patch = [t \in Turn |-> "none"]
    /\ shown = [t \in Turn |-> "running"]
    /\ anim = [t \in Turn |-> Off]
    /\ finisher = [h \in Finishers |-> Nobody]
    /\ cancelled = {}

LockIgnored == TRUE                                              \* mutant
LockFree == finisher[Owner] = Nobody /\ opening = 0

\* What only the start of a turn changes.
starts == <<current, opening, early>>

\* The session of turn t is under the key and accepts its end.
OpenIgnoringStatus(t) == current = t                             \* mutant
Open(t) == current = t /\ status[t] = "active"

\* What the closure of kind k sends when turn t's task calls it.
ContentByKey(t, k) ==                                            \* mutant
    IF current = t THEN IF k \in {"final", "abandon"} THEN "ended" ELSE "running"
    ELSE "none"
Content(t, k) ==
    CASE k = "final" -> "ended"
      [] k = "abandon" /\ current = t -> "ended"
      [] k = "update" /\ current = t -> "running"
      [] k = "animation" /\ Open(t) -> "running"
      [] OTHER -> "none"

\* Turn t's controller becomes d; if d renders, its closure is called now.
Becomes(t, d) ==
    /\ ctl' = [ctl EXCEPT ![t] = d]
    /\ patch' = [patch EXCEPT ![t] =
                    IF d.phase = "rendering"
                    THEN Content(t, calls[t][d.render]) ELSE "none"]

Call(t, k, d) ==
    /\ ctl' = [ctl EXCEPT ![t] = d]
    /\ calls' = [calls EXCEPT ![t] = Append(@, k)]

-----------------------------------------------------------------------------
(* Events of the key, each under its message lock. *)

\* A controller task that somebody cancels ends where it is; its PATCH, if one
\* was in flight, has reached Feishu or not.
Cancel(t) ==
    /\ ctl' = [ctl EXCEPT ![t] = TaskEnds(Close(@))]
    /\ cancelled' = cancelled \cup {<<t, ctl[t].task>>}
    /\ patch' = [patch EXCEPT ![t] = "none"]
    /\ shown' \in {shown, [shown EXCEPT ![t] = IF patch[t] = "none" THEN @ ELSE patch[t]]}

\* The reset closes the controller and cancels the animation, and with it the
\* task the animation awaits.
Reset(t) ==
    IF TaskActive(ctl[t]) /\ anim[t] = Waiting(ctl[t].task)
    THEN Cancel(t)
    ELSE /\ ctl' = [ctl EXCEPT ![t] = Close(@)]
         /\ UNCHANGED <<cancelled, patch, shown>>

\* message.started of turn t: the turn before it has ended, whether its end is
\* displayed yet or not, and loses the key.  Then stale turns of other keys are
\* given up, which may take a while.
TakeOver(t) ==
    /\ LockFree /\ status[t] = "none"
    /\ t > 1 => status[t - 1] = "ended"
    /\ opening' = t
    /\ IF current = 0
       THEN UNCHANGED <<current, ctl, patch, shown, anim, cancelled>>
       ELSE /\ Reset(current)
            /\ anim' = [anim EXCEPT ![current] = Off]
            /\ current' = 0
    /\ UNCHANGED <<early, status, calls, finisher>>

\* Its session is under the key from now on, while the card is being sent.
Register ==
    /\ opening # 0 /\ status[opening] = "none"
    /\ current' = opening
    /\ status' = [status EXCEPT ![opening] = "active"]
    /\ UNCHANGED <<opening, early, ctl, calls, patch, shown, anim, finisher, cancelled>>

\* The card was rendered before it was sent.
CardCreated ==
    /\ opening # 0 /\ status[opening] # "none"
    /\ opening' = 0
    /\ anim' = [anim EXCEPT ![opening] = IF Open(opening) THEN Sleeping ELSE Off]
    /\ UNCHANGED <<current, early, status, ctl, calls, patch, shown, finisher, cancelled>>

\* The session is dropped, and the start may come again.  What the key leads to
\* is nothing, or a copy of the session before it that no closure refers to.
CardRefused ==
    /\ opening # 0 /\ status[opening] # "none"
    /\ opening' = 0 /\ current' = 0
    /\ status' = [status EXCEPT ![opening] = "none"] /\ early' = early \ {opening}
    /\ UNCHANGED <<ctl, calls, patch, shown, anim, finisher, cancelled>>

Update ==
    \E t \in Turn :
        /\ LockFree /\ Open(t)
        /\ Len(calls[t]) < MaxCalls /\ Admits(ctl[t], FALSE)
        /\ Call(t, "update", Scheduled(ctl[t], ctl[t].latest + 1, FALSE))
        /\ UNCHANGED <<starts, status, patch, shown, anim, finisher, cancelled>>

\* A handler ends turn t: it schedules the last update and closes.
Finish(h, t, k) ==
    /\ Call(t, k, Close(Scheduled(ctl[t], ctl[t].latest + 1, TRUE)))
    /\ finisher' = [finisher EXCEPT ![h] = Nobody]

\* The session's status is settled first; then the controller is drained, in
\* one step with the end when no task is active.
BeginFinish(h, t, k) ==
    /\ finisher[h] = Nobody
    /\ Open(t)
    /\ status' = [status EXCEPT ![t] = "ended"]
    /\ IF TaskActive(ctl[t])
       THEN /\ finisher' = [finisher EXCEPT ![h] = [turn |-> t, task |-> ctl[t].task]]
            /\ UNCHANGED <<ctl, calls>>
       ELSE Finish(h, t, k)
    /\ UNCHANGED <<starts, patch, shown, anim, cancelled>>

LastCall(h) == IF h \in Others THEN "abandon" ELSE "final"

\* message.completed or message.failed of the turn, refused as long as it has no
\* card.
Complete ==
    \E h \in {Owner} \cup Aliased, t \in Turn : opening # t /\ BeginFinish(h, t, "final")

\* message.started of another key of the conversation.
Abandon == \E h \in Others, t \in Turn : opening # t /\ BeginFinish(h, t, "abandon")

\* Without a card there is nothing to update, now or when the card exists.
AbandonEarly ==
    \E h \in Others, t \in Turn :
        /\ finisher[h] = Nobody /\ opening = t /\ Open(t)
        /\ status' = [status EXCEPT ![t] = "ended"] /\ early' = early \cup {t}
        /\ UNCHANGED <<current, opening, ctl, calls, patch, shown, anim, finisher, cancelled>>

Drained(h) ==
    LET t == finisher[h].turn IN
    /\ finisher[h] # Nobody
    /\ ~TaskActive(ctl[t]) \/ ctl[t].task # finisher[h].task
    /\ <<t, finisher[h].task>> \notin cancelled
    /\ Finish(h, t, LastCall(h))
    /\ UNCHANGED <<starts, status, patch, shown, anim, cancelled>>

DrainTimeoutSendsEnd(h) ==                                       \* mutant
    /\ finisher[h] # Nobody
    /\ shown' = [shown EXCEPT ![finisher[h].turn] = "ended"]
    /\ finisher' = [finisher EXCEPT ![h] = Nobody]
    /\ UNCHANGED <<starts, status, ctl, calls, patch, anim, cancelled>>
DrainTimeout(h) ==
    /\ finisher[h] # Nobody
    /\ Finish(h, finisher[h].turn, LastCall(h))
    /\ UNCHANGED <<starts, status, patch, shown, anim, cancelled>>

\* The cancellation of the drained task leaves drain() and ends the handler.
DrainRaises(h) ==
    /\ finisher[h] # Nobody
    /\ <<finisher[h].turn, finisher[h].task>> \in cancelled
    /\ finisher' = [finisher EXCEPT ![h] = Nobody]
    /\ UNCHANGED <<starts, status, ctl, calls, patch, shown, anim, cancelled>>

-----------------------------------------------------------------------------
(* The tasks of turn t: its controller's and its animation's. *)

StartTask(t) ==
    /\ ctl[t].phase = "created"
    /\ \E d \in Tops(ctl[t]) : Becomes(t, d)
    /\ UNCHANGED <<starts, status, calls, shown, anim, finisher, cancelled>>

WakeUp(t) ==
    /\ ctl[t].phase = "sleeping"
    /\ Becomes(t, Taken(ctl[t], FALSE))
    /\ UNCHANGED <<starts, status, calls, shown, anim, finisher, cancelled>>

RenderDone(t) ==
    /\ ctl[t].phase = "rendering"
    /\ \E d \in AfterRender(ctl[t]) : Becomes(t, d)
    /\ shown' = [shown EXCEPT ![t] = IF patch[t] = "none" THEN @ ELSE patch[t]]
    /\ UNCHANGED <<starts, status, calls, anim, finisher, cancelled>>

\* The animation schedules an update and awaits the task that carries it.
AnimationTick(t) ==
    /\ anim[t] = Sleeping /\ Open(t)
    /\ Len(calls[t]) < MaxCalls /\ Admits(ctl[t], FALSE)
    /\ LET d == Scheduled(ctl[t], ctl[t].latest + 1, FALSE) IN
           /\ Call(t, "animation", d)
           /\ anim' = [anim EXCEPT ![t] = Waiting(d.task)]
    /\ UNCHANGED <<starts, status, patch, shown, finisher, cancelled>>

\* It goes on after the task, and stops once the turn has ended.
AnimationResumes(t) ==
    /\ anim[t].is = "waiting"
    /\ ~TaskActive(ctl[t]) \/ anim[t] # Waiting(ctl[t].task)
    /\ anim' = [anim EXCEPT ![t] = IF Open(t) THEN Sleeping ELSE Off]
    /\ UNCHANGED <<starts, status, ctl, calls, patch, shown, finisher, cancelled>>

AnimationStops(t) ==
    /\ anim[t] = Sleeping /\ ~Open(t)
    /\ anim' = [anim EXCEPT ![t] = Off]
    /\ UNCHANGED <<starts, status, ctl, calls, patch, shown, finisher, cancelled>>

Task(t) == StartTask(t) \/ WakeUp(t) \/ RenderDone(t)

Next ==
    \/ \E t \in Turn : TakeOver(t)
    \/ Register \/ CardCreated \/ CardRefused
    \/ Update \/ Complete \/ Abandon \/ AbandonEarly
    \/ \E h \in Finishers : Drained(h) \/ DrainTimeout(h) \/ DrainRaises(h)
    \/ \E t \in Turn : Task(t)
    \/ \E t \in Turn : AnimationTick(t) \/ AnimationResumes(t) \/ AnimationStops(t)

Spec == Init /\ [][Next]_vars

\* The event loop runs the tasks that are ready; a PATCH, a drain and the sending
\* of a card end, for all have timeouts.  Nothing is assumed of the events and the animation.
FairSpec ==
    /\ Spec
    /\ WF_vars(Register) /\ WF_vars(CardCreated \/ CardRefused)
    /\ \A t \in Turn : WF_vars(Task(t))
    /\ \A h \in Finishers : WF_vars(Drained(h) \/ DrainTimeout(h) \/ DrainRaises(h))

-----------------------------------------------------------------------------
IsLast(k) == k \in {"final", "abandon"}

\* One handler at most ends a turn, though the handlers that may do so hold
\* different locks: the last update of a turn is scheduled once.
OneFinisher ==
    \A t \in Turn :
        Cardinality({h \in Finishers : finisher[h].turn = t})
          + Cardinality({u \in DOMAIN calls[t] : IsLast(calls[t][u])}) <= 1

\* The cancellation that a new turn causes never ends the handler that holds
\* the key's lock while it reports the end of the old turn.
ReporterSurvives == <<finisher[Owner].turn, finisher[Owner].task>> \notin cancelled

\* How turn t ended: what its last update was, if that is scheduled.
EndOf(t) ==
    IF calls[t] # <<>> /\ IsLast(calls[t][Len(calls[t])])
    THEN calls[t][Len(calls[t])] ELSE "none"

\* The turns of a key implement OneEnd: the end of a turn is scheduled once, its
\* card shows it only then, and no update that was scheduled or in flight
\* before, and no animation, overwrites it.
OE == INSTANCE OneEnd WITH end <- [t \in Turn |-> EndOf(t)]
EndsOnce == OE!Spec

EndAccepted(t) == \E u \in DOMAIN calls[t] : calls[t][u] = "final"

\* The controller comes to rest with nothing left to show: when no task runs, an
\* end that was accepted is displayed or its task was cancelled, and that of the
\* turn the key leads to is displayed or its handler is about to report it, unless
\* the turn was given up before its card existed.
NoEndLeftBehind ==
    \A t \in Turn : ~TaskActive(ctl[t]) =>
        /\ EndAccepted(t) => \/ shown[t] = "ended"
                             \/ \E task \in 1 .. ctl[t].task : <<t, task>> \in cancelled
        /\ current = t /\ status[t] = "ended" /\ t \notin early =>
               \/ shown[t] = "ended"
               \/ \E h \in Finishers : finisher[h].turn = t

\* A card never stays "running" after its turn: unless the key moves on to
\* another turn, the end of the turn is displayed, but for a turn that was given
\* up before its card existed.
EndDisplayed ==
    \A t \in Turn :
        current = t /\ status[t] = "ended" /\ t \notin early ~> shown[t] = "ended" \/ current # t

\* "The old card stays stuck at "生成中" forever.  This function finds such
\* orphaned sessions and ends them" (server.py:7828, of the abandonment): the card
\* of every turn that was given up comes to say so, unless the key moves on.
StaleCardEnds ==
    \A t \in Turn : current = t /\ status[t] = "ended" ~> shown[t] = "ended" \/ current # t

\* The end of a turn that Hermes reported and the sidecar accepted is
\* displayed even if a new turn takes the key over meanwhile, unless that turn
\* cancels the task that carries it.
UncancelledEndDisplayed ==
    \A t \in Turn : EndAccepted(t) ~> \/ shown[t] = "ended"
                                      \/ \E task \in 1 .. ctl[t].task : <<t, task>> \in cancelled

\* "A new turn may reuse the key while this terminal PATCH retries. Keep
\* recovery content and routing bound to the accepted old turn." (server.py:5442)
AcceptedEndDisplayed == \A t \in Turn : EndAccepted(t) ~> shown[t] = "ended"
=============================================================================
