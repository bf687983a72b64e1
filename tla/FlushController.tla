-------------------------- MODULE FlushController --------------------------
(***************************************************************************)
(* One flush controller and the handlers that use it: any number of        *)
(* handlers and animations that schedule updates, and the one handler that *)
(* ends the turn (server.py, _apply_event_locked_inner and                 *)
(* _schedule_abandoned_session_terminal_update): it drains the controller, *)
(* schedules the terminal update and closes the controller.  The session's *)
(* status admits one such handler (CardTurns models that).                 *)
(***************************************************************************)
EXTENDS FlushOps

CONSTANTS
    MaxScheduled    \* bound on the updates scheduled (model checking only)

ASSUME FlushAssumption == MaxScheduled \in Nat

VARIABLES
    c,          \* the controller
    begun,      \* the last update whose rendering began
    finisher,   \* the handler that ends the turn
    awaited,    \* the task drain() waits for
    terminal,   \* number of the terminal update, 0 before it is scheduled
    failed      \* tasks that ended by an exception or a cancellation

flushVars == <<c, begun, finisher, awaited, terminal, failed>>

FlushTypeOK ==
    /\ c \in Controller
    /\ begun \in 0 .. c.latest
    /\ finisher \in {"idle", "draining", "done", "aborted"}
    /\ awaited \in 0 .. c.task
    /\ terminal \in 0 .. c.latest
    /\ failed \subseteq 1 .. c.task

FlushInit ==
    /\ c = NewController
    /\ begun = 0
    /\ finisher = "idle"
    /\ awaited = 0
    /\ terminal = 0
    /\ failed = {}

\* The controller becomes d; if that starts a rendering, it begins now.
Becomes(d) ==
    /\ c' = d
    /\ begun' = IF d.phase = "rendering" THEN d.render ELSE begun

-----------------------------------------------------------------------------
\* A handler or an animation schedules an update that is not terminal.
Schedule ==
    /\ c.latest < MaxScheduled
    /\ Admits(c, FALSE)
    /\ c' = Scheduled(c, c.latest + 1, FALSE)
    /\ UNCHANGED <<begun, finisher, awaited, terminal, failed>>

\* schedule(terminal=True) and close(), with no await between them.
FinishTurn ==
    /\ c' = Close(Scheduled(c, c.latest + 1, TRUE))
    /\ terminal' = c.latest + 1
    /\ finisher' = "done"
    /\ UNCHANGED <<begun, failed>>

\* drain() returns at once when no task is active, else waits for the task.
BeginTerminal ==
    /\ finisher = "idle"
    /\ IF TaskActive(c)
       THEN /\ finisher' = "draining" /\ awaited' = c.task
            /\ UNCHANGED <<c, begun, terminal, failed>>
       ELSE FinishTurn /\ UNCHANGED awaited

TaskOver == ~TaskActive(c) \/ c.task # awaited

Drained ==
    /\ finisher = "draining" /\ TaskOver /\ awaited \notin failed
    /\ FinishTurn /\ UNCHANGED awaited

DrainTimeout ==
    /\ finisher = "draining"
    /\ FinishTurn /\ UNCHANGED awaited

\* The awaited task's exception leaves drain() and ends the handler.
DrainRaises ==
    /\ finisher = "draining" /\ TaskOver /\ awaited \in failed
    /\ finisher' = "aborted"
    /\ UNCHANGED <<c, begun, awaited, terminal, failed>>

-----------------------------------------------------------------------------
(* The _run task. *)

StartTask ==
    /\ c.phase = "created"
    /\ \E d \in Tops(c) : Becomes(d)
    /\ UNCHANGED <<finisher, awaited, terminal, failed>>

WakeUp ==
    /\ c.phase = "sleeping"
    /\ Becomes(Taken(c, FALSE))
    /\ UNCHANGED <<finisher, awaited, terminal, failed>>

\* render_update() returned, whether the PATCH succeeded or not.
RenderDone ==
    /\ c.phase = "rendering"
    /\ \E d \in AfterRender(c) : Becomes(d)
    /\ UNCHANGED <<finisher, awaited, terminal, failed>>

\* render_update() raised, or the task was cancelled.
TaskFails ==
    /\ TaskActive(c)
    /\ c' = TaskEnds(c)
    /\ failed' = failed \cup {c.task}
    /\ UNCHANGED <<begun, finisher, awaited, terminal>>

FlushNext ==
    \/ Schedule \/ BeginTerminal \/ Drained \/ DrainTimeout \/ DrainRaises
    \/ StartTask \/ WakeUp \/ RenderDone \/ TaskFails

FlushSpec == FlushInit /\ [][FlushNext]_flushVars

\* The event loop runs what is ready, a sleep and a render end (every Feishu
\* call has a timeout), and drain() has one.
FlushFairSpec ==
    /\ FlushSpec
    /\ WF_flushVars(StartTask) /\ WF_flushVars(WakeUp) /\ WF_flushVars(RenderDone)
    /\ WF_flushVars(Drained \/ DrainTimeout \/ DrainRaises)

-----------------------------------------------------------------------------
\* No lost wake-up: whenever no task is active, the latest scheduled update
\* is the last one rendered, however the calls interleaved with the task's
\* end, unless that last task failed.
IdleMeansLatest == ~TaskActive(c) /\ c.task \notin failed => begun = c.latest

\* Once the turn's end is accepted, the terminal update is rendered, unless a
\* task fails: drained, timed out behind a slow update, or coalesced into the
\* running task.
TerminalRendered ==
    finisher = "draining" ~> (terminal # 0 /\ begun = terminal) \/ failed # {}

LW == INSTANCE LatestWins WITH
          submitted <- c.latest, displayed <- begun, sealed <- c.closed

\* The controller implements the display it promises, even when renderings
\* fail: the display only ever moves to the latest update, and nothing is
\* accepted or displayed after the terminal one.
DisplaysLatest == LW!Spec

\* When none fails, the latest update is displayed in the end.
LatestIsDisplayed == [](failed = {}) => LW!Live
=============================================================================
