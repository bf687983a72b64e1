----------------------------- MODULE FlushOps -----------------------------
(***************************************************************************)
(* The state of one FlushController (flush.py) as a record, and what its   *)
(* methods and the segments of its _run task do to it.  A segment is what  *)
(* the event loop runs without a switch: from one await to the next.       *)
(*                                                                         *)
(* An update is numbered in the order of the schedule calls; 0 is none.    *)
(* Counters kept for metrics only (_pending_count) are left out, and       *)
(* _last_flush_at is seen through its effect: a pass of the loop that is   *)
(* not terminal may have to sleep first.                                   *)
(***************************************************************************)
EXTENDS Integers

Controller ==
    [phase: {"none", "created", "sleeping", "rendering"},  \* of _task
     task: Nat,              \* which _task this is
     final: BOOLEAN,         \* the local "terminal" of _run
     render: Nat,            \* update whose render_update() is awaited
     latest: Nat,            \* _latest_render
     pending: BOOLEAN, pendingTerminal: BOOLEAN, closed: BOOLEAN]

NewController ==
    [phase |-> "none", task |-> 0, final |-> FALSE, render |-> 0, latest |-> 0,
     pending |-> FALSE, pendingTerminal |-> FALSE, closed |-> FALSE]

TaskActive(c) == c.phase # "none"

\* schedule() ignores a non-terminal update once the controller is closed.
AdmitsAlways(c, terminal) == TRUE                                \* mutant
Admits(c, terminal) == terminal \/ ~c.closed

\* schedule() of update u: join the task that is running, or start one.
ScheduledUnflagged(c, u, terminal) ==                            \* mutant
    IF TaskActive(c)
    THEN [c EXCEPT !.latest = u, !.pendingTerminal = @ \/ terminal]
    ELSE [c EXCEPT !.latest = u, !.phase = "created", !.task = @ + 1,
                   !.pending = FALSE, !.pendingTerminal = terminal]
Scheduled(c, u, terminal) ==
    IF TaskActive(c)
    THEN [c EXCEPT !.latest = u, !.pending = TRUE,
                   !.pendingTerminal = @ \/ terminal]
    ELSE [c EXCEPT !.latest = u, !.phase = "created", !.task = @ + 1,
                   !.pending = FALSE, !.pendingTerminal = terminal]

Close(c) == [c EXCEPT !.closed = TRUE]

\* _run takes the latest update and starts to render it.
Taken(c, final) ==
    [c EXCEPT !.phase = "rendering", !.final = final, !.render = c.latest,
              !.pending = FALSE, !.pendingTerminal = FALSE]

\* The top of the loop: a terminal pass never sleeps.
Tops(c) ==
    IF c.pendingTerminal
    THEN {Taken(c, TRUE)}
    ELSE {Taken(c, FALSE), [c EXCEPT !.phase = "sleeping", !.final = FALSE]}

\* _run ends; "finally" clears _task.  Flags set meanwhile stay behind.
TaskEnds(c) == [c EXCEPT !.phase = "none", !.render = 0]

\* What may follow a render that returned: the end of the task, or another
\* pass for the update that came in meanwhile.
AfterRenderForgets(c) == {TaskEnds(c)}                              \* mutant
AfterRender(c) ==
    IF c.final \/ ~c.pending THEN {TaskEnds(c)} ELSE Tops(c)
=============================================================================
