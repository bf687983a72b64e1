-------------------------- MODULE CardTurns_proofs --------------------------
(***************************************************************************)
(* Proofs about CardTurns, for any number of turns on the key, any number  *)
(* of updates and any handlers that reach a turn without the key's lock:   *)
(* who ends a turn, whom the reset may cancel, and that the end of a turn, *)
(* once shown, stays shown and is never left behind by a task that ended.  *)
(***************************************************************************)
EXTENDS CardTurns, FiniteSetTheorems, TLAPS

Kinds == {"update", "animation", "final", "abandon"}

\* starts is only a name for three variables.
USE DEF starts

\* The last update of turn t was scheduled; a handler is about to do so.
LastScheduled(t) == \E u \in DOMAIN calls[t] : IsLast(calls[t][u])
Ending(t) == \E h \in Finishers : finisher[h].turn = t
Cancelled(t) == \E task \in 1 .. ctl[t].task : <<t, task>> \in cancelled

\* The key goes from turn to turn in order.
Succession ==
    /\ \A t, u \in Turn : t < u /\ status[t] # "ended" => status[u] = "none"
    /\ current # 0 => /\ status[current] # "none"
                      /\ \A t \in Turn : t > current => status[t] = "none"
    /\ opening # 0 => /\ IF status[opening] = "none" THEN current = 0 ELSE current = opening
                      /\ \A t \in Turn : /\ t < opening => status[t] = "ended"
                                         /\ t > opening => status[t] = "none"

\* Nobody reports the end of a turn that has no card yet.
OpeningQuiet == opening # 0 => ~LastScheduled(opening) /\ ~Ending(opening)

\* A handler that ends a turn is the only one, and nobody scheduled the end.
EndingAlone ==
    /\ \A h \in Finishers : finisher[h].turn = 0 => finisher[h] = Nobody
    /\ \A h \in Finishers : finisher[h].turn # 0 =>
           /\ status[finisher[h].turn] = "ended"
           /\ finisher[h].task <= ctl[finisher[h].turn].task
           /\ ~LastScheduled(finisher[h].turn)
    /\ \A h, i \in Finishers :
           finisher[h].turn # 0 /\ finisher[h].turn = finisher[i].turn => h = i

\* Only a task of a turn that the key has left was ever cancelled.
CancelledPast ==
    \A t \in Turn : \A task \in Nat : <<t, task>> \in cancelled =>
        /\ t # current /\ status[t] = "ended"
        /\ task \in 1 .. ctl[t].task
        /\ task = ctl[t].task => ~TaskActive(ctl[t])

\* A turn that ended under the key, and had a card by then, has its end scheduled,
\* or a handler at it.
EndReported ==
    \A t \in Turn : current = t /\ status[t] = "ended" /\ t \notin early =>
        LastScheduled(t) \/ Ending(t)

\* The last update is the latest one, of an ended turn with a closed controller.
LastIsLatest(t) ==
    \A u \in DOMAIN calls[t] :
        IsLast(calls[t][u]) =>
            u = ctl[t].latest /\ ctl[t].closed /\ status[t] = "ended"

\* What a task renders was scheduled, and its PATCH shows the turn as ended
\* only if that is the last update.
Rendering(t) ==
    /\ TaskActive(ctl[t]) => ctl[t].latest > 0 /\ ctl[t].task > 0
    /\ ctl[t].phase = "rendering" => ctl[t].render \in DOMAIN calls[t]
    /\ patch[t] = "running" => ~IsLast(calls[t][ctl[t].render])
    /\ patch[t] = "ended" => IsLast(calls[t][ctl[t].render])
    /\ ctl[t].pendingTerminal => LastScheduled(t)
    /\ ctl[t].phase = "rendering" /\ ctl[t].final =>
           LastScheduled(t) /\ ~ctl[t].pending
    /\ shown[t] = "ended" => LastScheduled(t)
    /\ shown[t] = "ended" /\ ctl[t].phase = "rendering" =>
           ctl[t].render = ctl[t].latest

\* An end that must be shown is shown, in flight, ahead of the task, or lost
\* with a task that was cancelled.
EndCarried(t) ==
    LastScheduled(t) /\ (EndAccepted(t) \/ current = t) =>
        \/ shown[t] = "ended"
        \/ Cancelled(t)
        \/ ctl[t].phase \in {"created", "sleeping"}
        \/ ctl[t].phase = "rendering" /\ (ctl[t].pending \/ patch[t] = "ended")

OfTurn(t) == LastIsLatest(t) /\ Rendering(t) /\ EndCarried(t)

IInv ==
    /\ TypeOK
    /\ Succession /\ OpeningQuiet /\ EndingAlone /\ CancelledPast /\ EndReported
    /\ \A t \in Turn : OfTurn(t)

-----------------------------------------------------------------------------
(* The controller's operators. *)

\* What schedule() leaves, whether it joined a task or started one.
LEMMA ScheduledFacts ==
    ASSUME NEW c \in Controller, NEW u \in Nat, NEW terminal \in BOOLEAN,
           NEW d, d = Scheduled(c, u, terminal)
    PROVE  /\ d \in Controller
           /\ TaskActive(d) /\ d.latest = u /\ d.closed = c.closed
           /\ d.final = c.final /\ d.render = c.render
           /\ d.pending <=> TaskActive(c)
           /\ d.pendingTerminal <=> (TaskActive(c) /\ c.pendingTerminal) \/ terminal
           /\ TaskActive(c) => d.phase = c.phase /\ d.task = c.task
           /\ ~TaskActive(c) => d.phase = "created" /\ d.task = c.task + 1
<1> USE DEF Controller, TaskActive
<1>2. CASE TaskActive(c)
  <2> DEFINE pt == c.pendingTerminal \/ terminal
  <2>1. d = [c EXCEPT !.latest = u, !.pending = TRUE, !.pendingTerminal = pt]
    BY <1>2 DEF Scheduled
  <2>2. pt \in BOOLEAN  OBVIOUS
  <2>3. pt <=> (c.pendingTerminal \/ terminal)  OBVIOUS
  <2> HIDE DEF pt
  <2>4. d.pendingTerminal = pt  BY <2>1, <2>2
  <2>5. /\ d \in Controller /\ TaskActive(d) /\ d.latest = u
        /\ d.closed = c.closed /\ d.final = c.final /\ d.render = c.render
        /\ d.pending /\ d.phase = c.phase /\ d.task = c.task
    BY <1>2, <2>1, <2>2
  <2>6. d.pendingTerminal <=> (TaskActive(c) /\ c.pendingTerminal) \/ terminal
    BY <1>2, <2>3, <2>4, Zenon
  <2> HIDE DEF Controller, TaskActive
  <2> QED BY <1>2, <2>5, <2>6
<1>3. CASE ~TaskActive(c)
  <2> DEFINE k == c.task + 1
  <2>0. k \in Nat  OBVIOUS
  <2>1. d = [c EXCEPT !.latest = u, !.phase = "created", !.task = k,
                      !.pending = FALSE, !.pendingTerminal = terminal]
    BY <1>3 DEF Scheduled
  <2> HIDE DEF k
  <2>2. /\ d \in Controller /\ TaskActive(d) /\ d.latest = u
        /\ d.closed = c.closed /\ d.final = c.final /\ d.render = c.render
        /\ d.pending = FALSE
        /\ d.pendingTerminal = terminal /\ d.phase = "created" /\ d.task = k
    BY <1>3, <2>0, <2>1
  <2> HIDE DEF Controller, TaskActive
  <2> QED BY <1>3, <2>2 DEF k
<1> QED BY <1>2, <1>3

LEMMA CloseFacts ==
    ASSUME NEW c \in Controller
    PROVE  /\ Close(c) \in Controller /\ Close(c).closed
           /\ Close(c).phase = c.phase /\ Close(c).task = c.task
           /\ Close(c).latest = c.latest /\ Close(c).render = c.render
           /\ Close(c).final = c.final /\ Close(c).pending = c.pending
           /\ Close(c).pendingTerminal = c.pendingTerminal
BY DEF Close, Controller

LEMMA TaskEndsFacts ==
    ASSUME NEW c \in Controller
    PROVE  /\ TaskEnds(c) \in Controller /\ TaskEnds(c).phase = "none"
           /\ TaskEnds(c).task = c.task /\ TaskEnds(c).latest = c.latest
           /\ TaskEnds(c).closed = c.closed
           /\ TaskEnds(c).pendingTerminal = c.pendingTerminal
BY DEF TaskEnds, Controller

LEMMA TakenFacts ==
    ASSUME NEW c \in Controller, NEW final \in BOOLEAN,
           NEW d \in {Taken(c, final)}
    PROVE  /\ d \in Controller /\ d.phase = "rendering" /\ d.render = c.latest
           /\ d.final = final /\ d.pending = FALSE /\ d.pendingTerminal = FALSE
           /\ d.task = c.task /\ d.latest = c.latest /\ d.closed = c.closed
BY DEF Taken, Controller

\* The top of the loop takes the latest update or sleeps first.
LEMMA TopsFacts ==
    ASSUME NEW c \in Controller, NEW d \in Tops(c)
    PROVE  \/ \E final \in BOOLEAN :
                 d = Taken(c, final) /\ (final => c.pendingTerminal)
           \/ /\ d \in Controller /\ d.phase = "sleeping" /\ ~d.final
              /\ d.task = c.task /\ d.latest = c.latest /\ d.closed = c.closed
              /\ d.pendingTerminal = c.pendingTerminal
<1>1. CASE d = Taken(c, TRUE) /\ c.pendingTerminal
  BY <1>1
<1>2. CASE d = Taken(c, FALSE)
  BY <1>2
<1>3. CASE d = [c EXCEPT !.phase = "sleeping", !.final = FALSE]
  BY <1>3 DEF Controller
<1> QED BY <1>1, <1>2, <1>3 DEF Tops

\* What a scheduling call leaves of the list of updates.
LEMMA CallFacts ==
    ASSUME TypeOK, NEW t \in Turn, NEW k \in Kinds, NEW d \in Controller,
           d.latest = ctl[t].latest + 1, Call(t, k, d)
    PROVE  /\ ctl' \in [Turn -> Controller] /\ ctl'[t] = d
           /\ calls' \in [Turn -> Seq(Kinds)]
           /\ \A x \in Turn : x # t => ctl'[x] = ctl[x] /\ calls'[x] = calls[x]
           /\ \A x \in Turn : Len(calls'[x]) = ctl'[x].latest
           /\ DOMAIN calls[t] = 1 .. ctl[t].latest
           /\ DOMAIN calls'[t] = 1 .. d.latest
           /\ ctl[t].latest \in Nat
           /\ \A u \in DOMAIN calls[t] : calls'[t][u] = calls[t][u]
           /\ calls'[t][d.latest] = k
<1>1. /\ ctl \in [Turn -> Controller] /\ calls \in [Turn -> Seq(Kinds)]
      /\ \A x \in Turn : Len(calls[x]) = ctl[x].latest
  BY DEF TypeOK, Kinds
<1>2. /\ ctl' = [ctl EXCEPT ![t] = d]
      /\ calls' = [calls EXCEPT ![t] = Append(calls[t], k)]
  BY DEF Call
<1>3. calls[t] \in Seq(Kinds)  BY <1>1
<1>4. /\ Append(calls[t], k) \in Seq(Kinds)
      /\ Len(Append(calls[t], k)) = Len(calls[t]) + 1
      /\ DOMAIN calls[t] = 1 .. Len(calls[t]) /\ Len(calls[t]) \in Nat
      /\ DOMAIN Append(calls[t], k) = 1 .. Len(calls[t]) + 1
      /\ \A u \in 1 .. Len(calls[t]) : Append(calls[t], k)[u] = calls[t][u]
      /\ Append(calls[t], k)[Len(calls[t]) + 1] = k
  BY <1>3
<1>5. calls'[t] = Append(calls[t], k) /\ ctl'[t] = d
  BY <1>1, <1>2
<1>6. /\ ctl' \in [Turn -> Controller] /\ calls' \in [Turn -> Seq(Kinds)]
      /\ \A x \in Turn : x # t => ctl'[x] = ctl[x] /\ calls'[x] = calls[x]
  BY <1>1, <1>2, <1>4
<1>7. \A x \in Turn : Len(calls'[x]) = ctl'[x].latest
  BY <1>1, <1>4, <1>5, <1>6
<1> QED BY <1>1, <1>4, <1>5, <1>6, <1>7

-----------------------------------------------------------------------------
(* What the steps of a turn's task do. *)

LEMMA BecomesFacts ==
    ASSUME TypeOK, NEW t \in Turn, NEW d \in Controller,
           d.latest = ctl[t].latest, Becomes(t, d)
    PROVE  /\ ctl' \in [Turn -> Controller] /\ ctl'[t] = d
           /\ patch' \in [Turn -> {"none", "running", "ended"}]
           /\ \A x \in Turn : x # t => ctl'[x] = ctl[x] /\ patch'[x] = patch[x]
           /\ \A x \in Turn : ctl'[x].latest = ctl[x].latest
           /\ \A x \in Turn : patch'[x] # "none" => ctl'[x].phase = "rendering"
           /\ d.phase = "rendering" => patch'[t] = Content(t, calls[t][d.render])
           /\ d.phase # "rendering" => patch'[t] = "none"
<1> DEFINE p == IF d.phase = "rendering"
                THEN Content(t, calls[t][d.render]) ELSE "none"
<1>1. /\ ctl \in [Turn -> Controller]
      /\ patch \in [Turn -> {"none", "running", "ended"}]
      /\ \A x \in Turn : patch[x] # "none" => ctl[x].phase = "rendering"
  BY DEF TypeOK
<1>2. ctl' = [ctl EXCEPT ![t] = d] /\ patch' = [patch EXCEPT ![t] = p]
  BY DEF Becomes
<1>3. p \in {"none", "running", "ended"}
  <2>1. \A k : Content(t, k) \in {"none", "running", "ended"}
    BY DEF Content
  <2> QED BY <2>1
<1>4. /\ d.phase = "rendering" => p = Content(t, calls[t][d.render])
      /\ d.phase # "rendering" => p = "none"
  OBVIOUS
<1> HIDE DEF p
<1>5. ctl'[t] = d /\ patch'[t] = p
  BY <1>1, <1>2
<1>6. \A x \in Turn : x # t => ctl'[x] = ctl[x] /\ patch'[x] = patch[x]
  BY <1>1, <1>2
<1>7. /\ ctl' \in [Turn -> Controller]
      /\ patch' \in [Turn -> {"none", "running", "ended"}]
  BY <1>1, <1>2, <1>3
<1>8. \A x \in Turn : /\ ctl'[x].latest = ctl[x].latest
                      /\ patch'[x] # "none" => ctl'[x].phase = "rendering"
  BY <1>1, <1>4, <1>5, <1>6
<1> QED BY <1>4, <1>5, <1>6, <1>7, <1>8

\* A task goes on: it takes the latest update, sleeps before it does, or ends
\* after a rendering that is final or that no update came in behind.
Continues(c, d) ==
    /\ d.task = c.task /\ d.latest = c.latest /\ d.closed = c.closed
    /\ \/ \E final \in BOOLEAN : /\ d = Taken(c, final)
                                 /\ final => c.pendingTerminal
       \/ d.phase = "sleeping" /\ d.pendingTerminal = c.pendingTerminal
       \/ /\ d.phase = "none" /\ d.pendingTerminal = c.pendingTerminal
          /\ c.phase = "rendering" /\ (c.final \/ ~c.pending)

LEMMA TakenContinues ==
    ASSUME NEW c \in Controller, NEW final \in BOOLEAN, final => c.pendingTerminal,
           NEW d \in {Taken(c, final)}
    PROVE  d \in Controller /\ Continues(c, d)
<1>1. d \in Controller /\ d.task = c.task /\ d.latest = c.latest /\ d.closed = c.closed
  BY TakenFacts
<1> QED BY <1>1 DEF Continues

LEMMA TopsContinue ==
    ASSUME NEW c \in Controller, NEW d \in Tops(c)
    PROVE  d \in Controller /\ Continues(c, d)
<1>1. CASE \E final \in BOOLEAN : d = Taken(c, final) /\ (final => c.pendingTerminal)
  BY <1>1, TakenContinues
<1>2. CASE /\ d \in Controller /\ d.phase = "sleeping"
           /\ d.task = c.task /\ d.latest = c.latest /\ d.closed = c.closed
           /\ d.pendingTerminal = c.pendingTerminal
  BY <1>2 DEF Continues
<1> QED BY <1>1, <1>2, TopsFacts

LEMMA AfterRenderContinues ==
    ASSUME NEW c \in Controller, c.phase = "rendering", NEW d \in AfterRender(c)
    PROVE  d \in Controller /\ Continues(c, d)
<1>1. CASE (c.final \/ ~c.pending) /\ d = TaskEnds(c)
  BY <1>1, TaskEndsFacts DEF Continues
<1>2. CASE d \in Tops(c)
  BY <1>2, TopsContinue
<1> QED BY <1>1, <1>2 DEF AfterRender

\* A task step; what was in flight is now shown.
LEMMA TaskFacts ==
    ASSUME TypeOK, NEW t \in Turn, Task(t)
    PROVE  /\ TaskActive(ctl[t]) /\ ctl[t] \in Controller
           /\ UNCHANGED <<starts, status, calls, anim, finisher, cancelled>>
           /\ shown' \in [Turn -> {"running", "ended"}]
           /\ shown'[t] = IF patch[t] = "none" THEN shown[t] ELSE patch[t]
           /\ \A x \in Turn : x # t => shown'[x] = shown[x]
           /\ \E d \in Controller : Becomes(t, d) /\ Continues(ctl[t], d)
<1>1. /\ ctl[t] \in Controller /\ patch[t] \in {"none", "running", "ended"}
      /\ patch[t] # "none" => ctl[t].phase = "rendering"
      /\ shown \in [Turn -> {"running", "ended"}]
  BY DEF TypeOK
<1>2. /\ TaskActive(ctl[t])
      /\ UNCHANGED <<starts, status, calls, anim, finisher, cancelled>>
  BY DEF Task, StartTask, WakeUp, RenderDone, TaskActive
<1>3. /\ shown' \in [Turn -> {"running", "ended"}]
      /\ shown'[t] = IF patch[t] = "none" THEN shown[t] ELSE patch[t]
      /\ \A x \in Turn : x # t => shown'[x] = shown[x]
  <2>1. CASE StartTask(t) \/ WakeUp(t)
    BY <1>1, <2>1 DEF StartTask, WakeUp
  <2>2. CASE RenderDone(t)
    BY <1>1, <2>2 DEF RenderDone
  <2> QED BY <2>1, <2>2 DEF Task
<1>4. \E d \in Controller : Becomes(t, d) /\ Continues(ctl[t], d)
  <2>1. CASE StartTask(t)
    BY <1>1, <2>1, TopsContinue DEF StartTask
  <2>2. CASE WakeUp(t)
    <3>1. Becomes(t, Taken(ctl[t], FALSE))
      BY <2>2 DEF WakeUp
    <3>2. /\ Taken(ctl[t], FALSE) \in Controller
          /\ Continues(ctl[t], Taken(ctl[t], FALSE))
      BY <1>1, TakenContinues
    <3> QED BY <3>1, <3>2
  <2>3. CASE RenderDone(t)
    BY <1>1, <2>3, AfterRenderContinues DEF RenderDone
  <2> QED BY <2>1, <2>2, <2>3 DEF Task
<1> QED BY <1>1, <1>2, <1>3, <1>4

-----------------------------------------------------------------------------
(* What a scheduling call, the end of a turn and the reset do. *)

\* d is what schedule() makes of c, but for the "closed" that close() sets.
Joins(c, d, terminal) ==
    /\ d.latest = c.latest + 1
    /\ d.final = c.final /\ d.render = c.render
    /\ d.pending <=> TaskActive(c)
    /\ d.pendingTerminal <=> (TaskActive(c) /\ c.pendingTerminal) \/ terminal
    /\ TaskActive(c) => d.phase = c.phase /\ d.task = c.task
    /\ ~TaskActive(c) => d.phase = "created" /\ d.task = c.task + 1

LEMMA ScheduledJoins ==
    ASSUME NEW c \in Controller, NEW terminal \in BOOLEAN,
           NEW d, d = Scheduled(c, c.latest + 1, terminal)
    PROVE  /\ d \in Controller /\ Joins(c, d, terminal) /\ d.closed = c.closed
           /\ Close(d) \in Controller /\ Joins(c, Close(d), terminal) /\ Close(d).closed
<1>1. c.latest + 1 \in Nat  BY DEF Controller
<1>2. /\ d \in Controller /\ d.closed = c.closed /\ d.latest = c.latest + 1
      /\ d.final = c.final /\ d.render = c.render
      /\ d.pending <=> TaskActive(c)
      /\ d.pendingTerminal <=> (TaskActive(c) /\ c.pendingTerminal) \/ terminal
      /\ TaskActive(c) => d.phase = c.phase /\ d.task = c.task
      /\ ~TaskActive(c) => d.phase = "created" /\ d.task = c.task + 1
  BY <1>1, ScheduledFacts
<1>3. Joins(c, d, terminal)
  BY <1>2, Zenon DEF Joins
<1>4. /\ Close(d) \in Controller /\ Close(d).closed
      /\ Close(d).phase = d.phase /\ Close(d).task = d.task
      /\ Close(d).latest = d.latest /\ Close(d).render = d.render
      /\ Close(d).final = d.final /\ Close(d).pending = d.pending
      /\ Close(d).pendingTerminal = d.pendingTerminal
  BY <1>2, CloseFacts
<1>5. Joins(c, Close(d), terminal)
  BY <1>3, <1>4, Zenon DEF Joins
<1> QED BY <1>2, <1>3, <1>4, <1>5

\* A handler that ends turn t schedules its last update and is done.
LEMMA FinishFacts ==
    ASSUME TypeOK, NEW t \in Turn, NEW h \in Finishers,
           NEW k \in {"final", "abandon"}, Finish(h, t, k)
    PROVE  /\ ctl[t] \in Controller
           /\ \E d \in Controller : Call(t, k, d) /\ Joins(ctl[t], d, TRUE) /\ d.closed
           /\ finisher' \in [Finishers -> [turn : 0 .. Turns, task : Nat]]
           /\ finisher'[h] = Nobody
           /\ \A i \in Finishers : i # h => finisher'[i] = finisher[i]
<1>1. /\ ctl[t] \in Controller
      /\ finisher \in [Finishers -> [turn : 0 .. Turns, task : Nat]]
  BY DEF TypeOK
<1>2. \E d \in Controller : Call(t, k, d) /\ Joins(ctl[t], d, TRUE) /\ d.closed
  <2>1. Call(t, k, Close(Scheduled(ctl[t], ctl[t].latest + 1, TRUE)))
    BY DEF Finish
  <2>2. /\ Close(Scheduled(ctl[t], ctl[t].latest + 1, TRUE)) \in Controller
        /\ Joins(ctl[t], Close(Scheduled(ctl[t], ctl[t].latest + 1, TRUE)), TRUE)
        /\ Close(Scheduled(ctl[t], ctl[t].latest + 1, TRUE)).closed
    BY <1>1, ScheduledJoins, Zenon
  <2> QED BY <2>1, <2>2
<1>3. Nobody \in [turn : 0 .. Turns, task : Nat]
  BY TurnsAssumption DEF Nobody
<1>4. finisher' = [finisher EXCEPT ![h] = Nobody]
  BY DEF Finish
<1> QED BY <1>1, <1>2, <1>3, <1>4

\* The reset of turn t for a new one closes its controller; or it also ends its
\* task where it is, and the PATCH in flight is shown or is not.
LEMMA ResetFacts ==
    ASSUME TypeOK, NEW t \in Turn, Reset(t)
    PROVE  /\ ctl' \in [Turn -> Controller]
           /\ patch' \in [Turn -> {"none", "running", "ended"}]
           /\ shown' \in [Turn -> {"running", "ended"}]
           /\ \A x \in Turn : x # t =>
                 ctl'[x] = ctl[x] /\ patch'[x] = patch[x] /\ shown'[x] = shown[x]
           /\ ctl'[t].latest = ctl[t].latest /\ ctl'[t].task = ctl[t].task
           /\ ctl'[t].closed /\ ctl'[t].pendingTerminal = ctl[t].pendingTerminal
           /\ \/ /\ TaskActive(ctl[t]) /\ ctl'[t].phase = "none"
                 /\ cancelled' = cancelled \cup {<<t, ctl[t].task>>}
                 /\ patch'[t] = "none"
                 /\ shown'[t] = shown[t] \/ (patch[t] # "none" /\ shown'[t] = patch[t])
              \/ /\ ctl'[t].phase = ctl[t].phase /\ ctl'[t].render = ctl[t].render
                 /\ ctl'[t].pending = ctl[t].pending /\ ctl'[t].final = ctl[t].final
                 /\ UNCHANGED <<cancelled, patch, shown>>
<1>1. /\ ctl \in [Turn -> Controller] /\ ctl[t] \in Controller
      /\ patch \in [Turn -> {"none", "running", "ended"}]
      /\ shown \in [Turn -> {"running", "ended"}]
  BY DEF TypeOK
<1>2. CASE TaskActive(ctl[t]) /\ Cancel(t)
  <2> DEFINE d == TaskEnds(Close(ctl[t]))
  <2>1. /\ d \in Controller /\ d.phase = "none" /\ d.task = ctl[t].task
        /\ d.latest = ctl[t].latest /\ d.closed
        /\ d.pendingTerminal = ctl[t].pendingTerminal
    BY <1>1, CloseFacts, TaskEndsFacts
  <2>2. ctl' = [ctl EXCEPT ![t] = d]
    BY <1>2 DEF Cancel
  <2> HIDE DEF d
  <2>3. /\ ctl' \in [Turn -> Controller] /\ ctl'[t] = d
        /\ \A x \in Turn : x # t => ctl'[x] = ctl[x]
    BY <1>1, <2>1, <2>2
  <2>4. /\ patch' \in [Turn -> {"none", "running", "ended"}]
        /\ patch'[t] = "none"
        /\ \A x \in Turn : x # t => patch'[x] = patch[x]
    BY <1>1, <1>2 DEF Cancel
  <2>5. /\ shown' \in [Turn -> {"running", "ended"}]
        /\ \A x \in Turn : x # t => shown'[x] = shown[x]
        /\ shown'[t] = shown[t] \/ (patch[t] # "none" /\ shown'[t] = patch[t])
    BY <1>1, <1>2 DEF Cancel
  <2>6. cancelled' = cancelled \cup {<<t, ctl[t].task>>}
    BY <1>2 DEF Cancel
  <2> QED BY <1>2, <2>1, <2>3, <2>4, <2>5, <2>6
<1>3. CASE ctl' = [ctl EXCEPT ![t] = Close(@)] /\ UNCHANGED <<cancelled, patch, shown>>
  <2>1. ctl' = [ctl EXCEPT ![t] = Close(ctl[t])]
    BY <1>3
  <2>2. Close(ctl[t]) \in Controller
    BY <1>1, CloseFacts
  <2>3. /\ ctl' \in [Turn -> Controller] /\ ctl'[t] = Close(ctl[t])
        /\ \A x \in Turn : x # t => ctl'[x] = ctl[x]
    BY <1>1, <2>1, <2>2
  <2> QED BY <1>1, <1>3, <2>3, CloseFacts
<1> QED BY <1>2, <1>3 DEF Reset

-----------------------------------------------------------------------------
(* Each kind of step, for the turn it is about. *)

\* What only a step of turn x changes is as it was; time goes on elsewhere.
LEMMA OtherTurn ==
    ASSUME NEW x \in Turn, OfTurn(x),
           ctl'[x] = ctl[x], calls'[x] = calls[x],
           patch'[x] = patch[x], shown'[x] = shown[x],
           LastScheduled(x) /\ status[x] = "ended" => status'[x] = "ended",
           cancelled \subseteq cancelled',
           current' = x => current = x \/ status[x] # "ended"
    PROVE  OfTurn(x)'
<1>1. /\ LastScheduled(x)' <=> LastScheduled(x)
      /\ EndAccepted(x)' <=> EndAccepted(x)
  BY DEF LastScheduled, EndAccepted
<1>2. LastIsLatest(x)'
  BY DEF OfTurn, LastIsLatest, LastScheduled
<1>3. Rendering(x)'
  BY <1>1 DEF OfTurn, Rendering, TaskActive
<1>4. EndCarried(x)'
  <2>1. LastScheduled(x) => status[x] = "ended"
    BY DEF OfTurn, LastIsLatest, LastScheduled
  <2>2. Cancelled(x) => Cancelled(x)'
    BY DEF Cancelled
  <2> QED BY <1>1, <2>1, <2>2 DEF OfTurn, EndCarried
<1> QED BY <1>2, <1>3, <1>4 DEF OfTurn

\* A turn that is not the last to be scheduled has no end to show yet.
LEMMA NotLastYet ==
    ASSUME NEW t \in Turn, OfTurn(t), ~LastScheduled(t)
    PROVE  /\ ~ctl[t].pendingTerminal /\ ~EndAccepted(t)
           /\ shown[t] # "ended"
           /\ ~(ctl[t].phase = "rendering" /\ ctl[t].final)
           /\ \A u \in DOMAIN calls[t] : ~IsLast(calls[t][u])
BY DEF OfTurn, Rendering, LastScheduled, EndAccepted, IsLast

\* A scheduling call keeps the types, whatever it schedules.
LEMMA CallTypes ==
    ASSUME TypeOK, NEW t \in Turn, NEW k \in Kinds, NEW d \in Controller,
           NEW terminal \in BOOLEAN, Joins(ctl[t], d, terminal), Call(t, k, d),
           UNCHANGED <<patch, shown, cancelled>>,
           current' \in 0 .. Turns, opening' \in 0 .. Turns, early' \subseteq Turn,
           status' \in [Turn -> {"none", "active", "ended"}],
           anim' \in [Turn -> [is : {"off", "sleeping", "waiting"}, task : Nat]],
           finisher' \in [Finishers -> [turn : 0 .. Turns, task : Nat]]
    PROVE  TypeOK'
<1>1. /\ ctl' \in [Turn -> Controller] /\ ctl'[t] = d
      /\ calls' \in [Turn -> Seq(Kinds)]
      /\ \A x \in Turn : x # t => ctl'[x] = ctl[x] /\ calls'[x] = calls[x]
      /\ \A x \in Turn : Len(calls'[x]) = ctl'[x].latest
  BY CallFacts DEF Joins
<1>2. \A x \in Turn : patch'[x] # "none" => ctl'[x].phase = "rendering"
  <2>1. patch[t] # "none" => d.phase = "rendering"
    BY DEF TypeOK, Joins, TaskActive
  <2> QED BY <1>1, <2>1 DEF TypeOK
<1> QED BY <1>1, <1>2 DEF TypeOK, Kinds

\* An update of a turn that has not ended.
LEMMA UpdateOfTurn ==
    ASSUME TypeOK, NEW t \in Turn, OfTurn(t), ~LastScheduled(t),
           NEW k \in {"update", "animation"}, NEW d \in Controller,
           Joins(ctl[t], d, FALSE), d.closed = ctl[t].closed, Call(t, k, d),
           UNCHANGED <<patch, shown>>
    PROVE  OfTurn(t)' /\ ~LastScheduled(t)'
<1>1. /\ ctl'[t] = d /\ ctl[t].latest \in Nat
      /\ DOMAIN calls[t] = 1 .. ctl[t].latest
      /\ DOMAIN calls'[t] = 1 .. d.latest
      /\ \A u \in DOMAIN calls[t] : calls'[t][u] = calls[t][u]
      /\ calls'[t][d.latest] = k
      /\ d.latest = ctl[t].latest + 1
  BY CallFacts DEF Joins, Kinds
<1>2. \A u \in DOMAIN calls'[t] : ~IsLast(calls'[t][u])
  <2> SUFFICES ASSUME NEW u \in DOMAIN calls'[t]
               PROVE  ~IsLast(calls'[t][u])
    OBVIOUS
  <2>1. CASE u = d.latest
    BY <1>1, <2>1 DEF IsLast
  <2>2. CASE u # d.latest
    <3>1. u \in DOMAIN calls[t]  BY <1>1, <2>2
    <3> QED BY <1>1, <3>1, NotLastYet
  <2> QED BY <2>1, <2>2
<1>3. ~LastScheduled(t)' /\ LastIsLatest(t)' /\ EndCarried(t)'
  BY <1>2 DEF LastScheduled, LastIsLatest, EndCarried
<1>4. Rendering(t)'
  <2>1. /\ ~ctl[t].pendingTerminal /\ shown[t] # "ended"
        /\ ~(ctl[t].phase = "rendering" /\ ctl[t].final)
    BY NotLastYet
  <2>2. d.latest > 0 /\ d.task > 0
    BY <1>1 DEF Joins, OfTurn, Rendering, Controller, TaskActive, TypeOK
  <2>3. d.phase = "rendering" => /\ ctl[t].phase = "rendering"
                                 /\ d.render = ctl[t].render
                                 /\ d.render \in DOMAIN calls[t]
    BY DEF Joins, TaskActive, OfTurn, Rendering
  <2>4. patch[t] # "none" => d.phase = "rendering"
    BY DEF Joins, TaskActive, TypeOK
  <2>5. /\ d.phase = "rendering" => d.render \in DOMAIN calls'[t]
        /\ patch[t] = "running" => ~IsLast(calls'[t][d.render])
        /\ patch[t] # "ended"
    <3>1. d.phase = "rendering" => calls'[t][d.render] = calls[t][ctl[t].render]
      BY <1>1, <2>3
    <3> QED BY <1>1, <1>2, <2>3, <2>4, <3>1, NotLastYet DEF OfTurn, Rendering
  <2>6. ~d.pendingTerminal /\ ~(d.phase = "rendering" /\ d.final)
    BY <2>1, <2>3, Zenon DEF Joins
  <2> QED BY <1>1, <2>1, <2>2, <2>5, <2>6 DEF Rendering
<1> QED BY <1>3, <1>4 DEF OfTurn

\* The end of a turn that nobody scheduled the end of before.
LEMMA LastOfTurn ==
    ASSUME TypeOK, NEW t \in Turn, OfTurn(t), ~LastScheduled(t),
           NEW k \in {"final", "abandon"}, NEW d \in Controller,
           Joins(ctl[t], d, TRUE), d.closed, Call(t, k, d),
           status'[t] = "ended", UNCHANGED <<patch, shown>>
    PROVE  OfTurn(t)' /\ LastScheduled(t)'
<1>1. /\ ctl'[t] = d /\ ctl[t].latest \in Nat
      /\ DOMAIN calls[t] = 1 .. ctl[t].latest
      /\ DOMAIN calls'[t] = 1 .. d.latest
      /\ \A u \in DOMAIN calls[t] : calls'[t][u] = calls[t][u]
      /\ calls'[t][d.latest] = k
      /\ d.latest = ctl[t].latest + 1
  BY CallFacts DEF Joins, Kinds
<1>2. /\ ~ctl[t].pendingTerminal /\ shown[t] # "ended"
      /\ ~(ctl[t].phase = "rendering" /\ ctl[t].final)
      /\ \A u \in DOMAIN calls[t] : ~IsLast(calls[t][u])
  BY NotLastYet
<1>3. LastScheduled(t)'
  <2>1. d.latest \in DOMAIN calls'[t] /\ IsLast(calls'[t][d.latest])
    BY <1>1 DEF IsLast
  <2> QED BY <2>1 DEF LastScheduled
<1>4. LastIsLatest(t)'
  <2> SUFFICES ASSUME NEW u \in DOMAIN calls'[t], IsLast(calls'[t][u])
               PROVE  u = d.latest
    BY <1>1 DEF LastIsLatest
  <2>1. u \notin DOMAIN calls[t]
    BY <1>1, <1>2
  <2> QED BY <1>1, <2>1
<1>5. d.phase = "rendering" => /\ ctl[t].phase = "rendering" /\ ~d.final
                               /\ d.render = ctl[t].render /\ d.pending
                               /\ d.render \in DOMAIN calls[t]
                               /\ calls'[t][d.render] = calls[t][d.render]
  <2>1. d.phase = "rendering" => TaskActive(ctl[t]) /\ ctl[t].phase = "rendering"
    BY DEF Joins, TaskActive
  <2>2. d.final = ctl[t].final /\ d.render = ctl[t].render
        /\ (d.pending <=> TaskActive(ctl[t]))
    BY DEF Joins
  <2>3. d.phase = "rendering" => ctl[t].render \in DOMAIN calls[t]
    BY <2>1 DEF OfTurn, Rendering
  <2> QED BY <1>1, <1>2, <2>1, <2>2, <2>3
<1>6. Rendering(t)'
  <2>1. d.latest > 0 /\ d.task > 0
    BY <1>1 DEF Joins, OfTurn, Rendering, Controller, TaskActive, TypeOK
  <2>2. patch[t] # "none" => d.phase = "rendering"
    BY DEF Joins, TaskActive, TypeOK
  <2>3. /\ d.phase = "rendering" => d.render \in DOMAIN calls'[t]
        /\ patch[t] = "running" => ~IsLast(calls'[t][d.render])
        /\ patch[t] # "ended"
    BY <1>1, <1>2, <1>5, <2>2 DEF OfTurn, Rendering
  <2> QED BY <1>1, <1>2, <1>3, <1>5, <2>1, <2>3 DEF Rendering
<1>7. EndCarried(t)'
  <2>1. d.phase \in {"created", "sleeping"} \/ (d.phase = "rendering" /\ d.pending)
    BY DEF Joins, TaskActive, Controller, TypeOK
  <2> QED BY <1>1, <2>1 DEF EndCarried
<1> QED BY <1>3, <1>4, <1>6, <1>7 DEF OfTurn

\* What the latest update shows, once it is the last one.
LEMMA LastContent ==
    ASSUME TypeOK, NEW t \in Turn, OfTurn(t)
    PROVE  /\ LastScheduled(t) =>
                  /\ ctl[t].latest \in DOMAIN calls[t]
                  /\ IsLast(calls[t][ctl[t].latest])
                  /\ EndAccepted(t) \/ current = t =>
                         Content(t, calls[t][ctl[t].latest]) = "ended"
           /\ \A k : /\ Content(t, k) = "running" => ~IsLast(k)
                     /\ Content(t, k) = "ended" => IsLast(k)
<1>1. \A k : /\ Content(t, k) = "running" => ~IsLast(k)
             /\ Content(t, k) = "ended" => IsLast(k)
  BY DEF Content, IsLast
<1>2. ASSUME LastScheduled(t)
      PROVE  /\ ctl[t].latest \in DOMAIN calls[t]
             /\ IsLast(calls[t][ctl[t].latest])
  BY <1>2 DEF LastScheduled, OfTurn, LastIsLatest
<1>3. ASSUME EndAccepted(t)
      PROVE  calls[t][ctl[t].latest] = "final"
  BY <1>3 DEF EndAccepted, OfTurn, LastIsLatest, IsLast
<1>4. ASSUME LastScheduled(t), EndAccepted(t) \/ current = t
      PROVE  Content(t, calls[t][ctl[t].latest]) = "ended"
  BY <1>2, <1>3, <1>4 DEF Content, IsLast
<1> QED BY <1>1, <1>2, <1>4

\* A step of the turn's task.
LEMMA TaskOfTurn ==
    ASSUME TypeOK, NEW t \in Turn, OfTurn(t), Task(t)
    PROVE  /\ OfTurn(t)' /\ TypeOK'
           /\ shown[t] = "ended" => shown'[t] = "ended"
<1> DEFINE c == ctl[t]
<1>0. /\ TaskActive(c) /\ c \in Controller
      /\ UNCHANGED <<starts, status, calls, anim, finisher, cancelled>>
      /\ shown' \in [Turn -> {"running", "ended"}]
      /\ shown'[t] = IF patch[t] = "none" THEN shown[t] ELSE patch[t]
      /\ \E d \in Controller : Becomes(t, d) /\ Continues(c, d)
  BY TaskFacts
<1> PICK d \in Controller : Becomes(t, d) /\ Continues(c, d)
  BY <1>0
<1>1. d.task = c.task /\ d.latest = c.latest /\ d.closed = c.closed
  BY DEF Continues
<1>2. /\ ctl' \in [Turn -> Controller] /\ ctl'[t] = d
      /\ patch' \in [Turn -> {"none", "running", "ended"}]
      /\ \A x \in Turn : ctl'[x].latest = ctl[x].latest
      /\ \A x \in Turn : patch'[x] # "none" => ctl'[x].phase = "rendering"
      /\ d.phase = "rendering" => patch'[t] = Content(t, calls[t][d.render])
      /\ d.phase # "rendering" => patch'[t] = "none"
  BY <1>1, BecomesFacts
<1>3. TypeOK'
  BY <1>0, <1>2 DEF TypeOK
<1>4. shown[t] = "ended" => shown'[t] = "ended"
  <2> SUFFICES ASSUME shown[t] = "ended", patch[t] = "running"
               PROVE  FALSE
    BY <1>0 DEF TypeOK
  <2>1. c.phase = "rendering" /\ c.render = c.latest /\ LastScheduled(t)
    BY DEF TypeOK, OfTurn, Rendering
  <2> QED BY <2>1, LastContent DEF OfTurn, Rendering
<1>5. shown'[t] = "ended" => LastScheduled(t)
  BY <1>0, LastContent DEF OfTurn, Rendering, TypeOK, LastScheduled
<1>6. /\ LastScheduled(t)' <=> LastScheduled(t)
      /\ EndAccepted(t)' <=> EndAccepted(t)
      /\ Cancelled(t)' <=> Cancelled(t)
  BY <1>0, <1>1, <1>2 DEF LastScheduled, EndAccepted, Cancelled
<1>7. LastIsLatest(t)'
  BY <1>0, <1>1, <1>2 DEF OfTurn, LastIsLatest
<1>8. c.latest > 0 /\ c.task > 0 /\ c.latest \in DOMAIN calls[t]
  <2>1. c.latest > 0 /\ c.task > 0
    BY <1>0 DEF OfTurn, Rendering
  <2>2. DOMAIN calls[t] = 1 .. c.latest /\ c.latest \in Nat
    BY <1>0 DEF TypeOK, Controller
  <2> QED BY <2>1, <2>2
<1>9. CASE \E final \in BOOLEAN : d = Taken(c, final) /\ (final => c.pendingTerminal)
  <2> PICK final \in BOOLEAN : d = Taken(c, final) /\ (final => c.pendingTerminal)
    BY <1>9
  <2>1. /\ d.phase = "rendering" /\ d.render = c.latest
        /\ d.final = final /\ d.pending = FALSE /\ d.pendingTerminal = FALSE
    BY <1>0, TakenFacts
  <2>2. patch'[t] = Content(t, calls[t][c.latest])
    BY <1>2, <2>1
  <2>3. d.final => LastScheduled(t)
    BY <2>1 DEF OfTurn, Rendering
  <2>4. Rendering(t)'
    BY <1>0, <1>1, <1>2, <1>5, <1>6, <1>8, <2>1, <2>2, <2>3, LastContent
       DEF Rendering
  <2>5. EndCarried(t)'
    BY <1>0, <1>2, <1>6, <2>1, <2>2, LastContent DEF EndCarried
  <2> QED BY <1>3, <1>4, <1>7, <2>4, <2>5 DEF OfTurn
<1>10. CASE d.phase = "sleeping" /\ d.pendingTerminal = c.pendingTerminal
  <2>1. Rendering(t)'
    BY <1>0, <1>1, <1>2, <1>5, <1>6, <1>8, <1>10 DEF OfTurn, Rendering
  <2>2. EndCarried(t)'
    BY <1>2, <1>10 DEF EndCarried
  <2> QED BY <1>3, <1>4, <1>7, <2>1, <2>2 DEF OfTurn
<1>11. CASE /\ d.phase = "none" /\ d.pendingTerminal = c.pendingTerminal
            /\ c.phase = "rendering" /\ (c.final \/ ~c.pending)
  <2>1. Rendering(t)'
    BY <1>0, <1>1, <1>2, <1>5, <1>6, <1>11 DEF OfTurn, Rendering, TaskActive
  <2>2. ~c.pending
    BY <1>11 DEF OfTurn, Rendering
  <2>3. patch[t] = "ended" => shown'[t] = "ended"
    BY <1>0
  <2>4. EndCarried(t)'
    BY <1>0, <1>4, <1>6, <1>11, <2>2, <2>3 DEF OfTurn, EndCarried
  <2> QED BY <1>3, <1>4, <1>7, <2>1, <2>4 DEF OfTurn
<1> QED BY <1>9, <1>10, <1>11 DEF Continues

\* The reset of an ended turn that the key leaves.
LEMMA ResetOfTurn ==
    ASSUME TypeOK, NEW t \in Turn, OfTurn(t), Reset(t),
           status[t] = "ended", status'[t] = "ended", calls' = calls, current' # t
    PROVE  OfTurn(t)' /\ (shown[t] = "ended" => shown'[t] = "ended")
<1>1. /\ ctl'[t].latest = ctl[t].latest /\ ctl'[t].task = ctl[t].task
      /\ ctl'[t].closed /\ ctl'[t].pendingTerminal = ctl[t].pendingTerminal
  BY ResetFacts
<1>2. /\ LastScheduled(t)' <=> LastScheduled(t)
      /\ EndAccepted(t)' <=> EndAccepted(t)
  BY DEF LastScheduled, EndAccepted
<1>3. LastIsLatest(t)'
  BY <1>1 DEF OfTurn, LastIsLatest
<1>4. CASE /\ TaskActive(ctl[t]) /\ ctl'[t].phase = "none"
           /\ cancelled' = cancelled \cup {<<t, ctl[t].task>>}
           /\ patch'[t] = "none"
           /\ shown'[t] = shown[t] \/ (patch[t] # "none" /\ shown'[t] = patch[t])
  <2>1. shown[t] = "ended" => shown'[t] = "ended"
    <3> SUFFICES ASSUME shown[t] = "ended", patch[t] = "running"
                 PROVE  FALSE
      BY <1>4 DEF TypeOK
    <3>1. ctl[t].phase = "rendering" /\ ctl[t].render = ctl[t].latest /\ LastScheduled(t)
      BY DEF TypeOK, OfTurn, Rendering
    <3> QED BY <3>1, LastContent DEF OfTurn, Rendering
  <2>2. shown'[t] = "ended" => LastScheduled(t)
    BY <1>4, LastContent DEF OfTurn, Rendering, TypeOK, LastScheduled
  <2>3. Rendering(t)'
    BY <1>1, <1>2, <1>4, <2>2 DEF OfTurn, Rendering, TaskActive
  <2>4. Cancelled(t)'
    <3>1. ctl[t].task \in 1 .. ctl'[t].task
      BY <1>1, <1>4 DEF OfTurn, Rendering, TypeOK, Controller
    <3> QED BY <1>4, <3>1 DEF Cancelled
  <2>5. EndCarried(t)'
    BY <2>4 DEF EndCarried
  <2> QED BY <1>3, <2>1, <2>3, <2>5 DEF OfTurn
<1>5. CASE /\ ctl'[t].phase = ctl[t].phase /\ ctl'[t].render = ctl[t].render
           /\ ctl'[t].pending = ctl[t].pending /\ ctl'[t].final = ctl[t].final
           /\ UNCHANGED <<cancelled, patch, shown>>
  <2>1. Rendering(t)'
    BY <1>1, <1>2, <1>5 DEF OfTurn, Rendering, TaskActive
  <2>2. Cancelled(t)' <=> Cancelled(t)
    BY <1>1, <1>5 DEF Cancelled
  <2>3. EndCarried(t)'
    BY <1>2, <1>5, <2>2 DEF OfTurn, EndCarried
  <2> QED BY <1>3, <1>5, <2>1, <2>3 DEF OfTurn
<1> QED BY <1>4, <1>5, ResetFacts

-----------------------------------------------------------------------------
(* The inductive invariant. *)

LEMMA Initially == Init => IInv
<1> SUFFICES ASSUME Init PROVE IInv
  OBVIOUS
<1>1. NewController \in Controller /\ NewController.phase = "none"
      /\ NewController.latest = 0 /\ NewController.pendingTerminal = FALSE
  BY DEF NewController, Controller
<1>2. TypeOK
  <2>1. /\ Nobody \in [turn : 0 .. Turns, task : Nat]
        /\ Off \in [is : {"off", "sleeping", "waiting"}, task : Nat]
        /\ 0 \in 0 .. Turns
    BY TurnsAssumption DEF Nobody, Off
  <2>2. <<>> \in Seq(Kinds) /\ Len(<<>>) = 0
    OBVIOUS
  <2> QED BY <1>1, <2>1, <2>2 DEF Init, TypeOK, Kinds
<1>3. \A t \in Turn : DOMAIN calls[t] = {} /\ ctl[t] = NewController
                      /\ shown[t] = "running" /\ patch[t] = "none"
  BY DEF Init
<1>4. \A t \in Turn : OfTurn(t)
  BY <1>1, <1>3 DEF OfTurn, LastIsLatest, Rendering, EndCarried, LastScheduled,
     TaskActive
<1>5. Succession /\ OpeningQuiet /\ CancelledPast /\ EndReported
  BY DEF Init, Succession, OpeningQuiet, CancelledPast, EndReported
<1>6. EndingAlone
  BY DEF Init, EndingAlone, Nobody
<1> QED BY <1>2, <1>4, <1>5, <1>6 DEF IInv

\* An active turn: nobody is ending it, and none of its tasks was cancelled.
LEMMA ActiveTurn ==
    ASSUME IInv, NEW t \in Turn, status[t] # "ended"
    PROVE  /\ ~LastScheduled(t) /\ ~Ending(t) /\ shown[t] # "ended"
           /\ \A task \in Nat : <<t, task>> \notin cancelled
<1>1. ~LastScheduled(t)
  BY DEF IInv, OfTurn, LastIsLatest, LastScheduled
<1>2. ~Ending(t)
  <2>1. t # 0  BY DEF Turn
  <2> QED BY <2>1 DEF IInv, EndingAlone, Ending
<1>3. shown[t] # "ended"
  BY <1>1 DEF IInv, OfTurn, Rendering
<1>4. \A task \in Nat : <<t, task>> \notin cancelled
  BY DEF IInv, CancelledPast
<1> QED BY <1>1, <1>2, <1>3, <1>4

\* What every step keeps that is not about the start of a turn.
LEMMA SameOpening ==
    ASSUME IInv, UNCHANGED starts,
           \A x \in Turn : /\ status'[x] = "none" <=> status[x] = "none"
                           /\ status[x] = "ended" => status'[x] = "ended",
           \A x \in Turn : x = opening => /\ LastScheduled(x)' => LastScheduled(x)
                                          /\ Ending(x)' => Ending(x)
    PROVE  Succession' /\ OpeningQuiet'
<1>1. /\ current # 0 => current \in Turn
      /\ opening # 0 => opening \in Turn
  BY TurnsAssumption DEF IInv, TypeOK, Turn
<1>2. Succession'
  BY <1>1 DEF IInv, Succession
<1>3. OpeningQuiet'
  <2> SUFFICES ASSUME opening # 0
               PROVE  ~LastScheduled(opening)' /\ ~Ending(opening)'
    BY DEF OpeningQuiet, LastScheduled, Ending
  <2> QED BY <1>1 DEF IInv, OpeningQuiet
<1> QED BY <1>2, <1>3

\* A new turn takes the key from an ended one.
LEMMA TakeOverStep ==
    ASSUME IInv, NEW t \in Turn, TakeOver(t)
    PROVE  IInv' /\ \A x \in Turn : shown[x] = "ended" => shown'[x] = "ended"
<1> USE DEF IInv
<1>0. /\ opening = 0 /\ opening' = t /\ status[t] = "none" /\ current' = 0
      /\ t > 1 => status[t - 1] = "ended"
      /\ UNCHANGED <<early, status, calls, finisher>>
  BY DEF TakeOver, LockFree
<1>1. \A x \in Turn : (x < t => status[x] = "ended") /\ (x > t => status[x] = "none")
  <2>1. \A x \in Turn : x > t => status[x] = "none"
    BY <1>0 DEF Succession
  <2>2. ASSUME NEW x \in Turn, x < t
        PROVE  status[x] = "ended"
    <3>1. t - 1 \in Turn /\ status[t - 1] = "ended"
      BY <1>0, <2>2, TurnsAssumption DEF Turn
    <3> QED BY <2>2, <3>1, TurnsAssumption DEF Succession, Turn
  <2> QED BY <2>1, <2>2
<1>2. \A x : (LastScheduled(x)' <=> LastScheduled(x)) /\ (Ending(x)' <=> Ending(x))
  BY <1>0 DEF LastScheduled, Ending
<1>3. Succession' /\ OpeningQuiet'
  <2>1. ~LastScheduled(t) /\ ~Ending(t) /\ t # 0
    BY <1>0, ActiveTurn DEF Turn
  <2>2. ~LastScheduled(t)' /\ ~Ending(t)'
    BY <1>2, <2>1
  <2>3. OpeningQuiet'
    BY <1>0, <2>2 DEF OpeningQuiet, LastScheduled, Ending
  <2> QED BY <1>0, <1>1, <2>1, <2>3 DEF Succession
<1>4. EndReported'
  BY <1>0 DEF EndReported, Turn
<1>5. \A h \in Finishers : finisher[h].turn # 0 => finisher[h].turn \in Turn
  BY TurnsAssumption DEF TypeOK, Turn
<1>6. CASE current = 0
  <2>1. UNCHANGED <<ctl, patch, shown, anim, cancelled>>
    BY <1>6 DEF TakeOver
  <2>2. TypeOK'
    BY <1>0, <2>1 DEF TypeOK, Turn
  <2>3. \A x \in Turn : OfTurn(x)'
    BY <1>0, <1>6, <2>1, OtherTurn DEF Turn
  <2>4. EndingAlone'
    BY <1>0, <1>2, <1>5, <2>1 DEF EndingAlone
  <2>5. CancelledPast'
    BY <1>0, <2>1 DEF CancelledPast, Turn
  <2> QED BY <1>3, <1>4, <2>1, <2>2, <2>3, <2>4, <2>5
<1>7. CASE current # 0
  <2> PICK c \in Turn : c = current
    BY <1>7, TurnsAssumption DEF TypeOK, Turn
  <2>1. Reset(c) /\ anim' = [anim EXCEPT ![c] = Off]
    BY <1>7 DEF TakeOver
  <2>2. status[c] = "ended" /\ c # 0
    BY <1>0, <1>1, <1>7 DEF Succession, Turn
  <2>3. /\ ctl' \in [Turn -> Controller]
        /\ patch' \in [Turn -> {"none", "running", "ended"}]
        /\ shown' \in [Turn -> {"running", "ended"}]
        /\ \A x \in Turn : x # c =>
              ctl'[x] = ctl[x] /\ patch'[x] = patch[x] /\ shown'[x] = shown[x]
        /\ ctl'[c].latest = ctl[c].latest /\ ctl'[c].task = ctl[c].task
        /\ \/ /\ ctl'[c].phase = "none" /\ patch'[c] = "none"
              /\ cancelled' = cancelled \cup {<<c, ctl[c].task>>}
              /\ TaskActive(ctl[c])
           \/ ctl'[c].phase = ctl[c].phase /\ patch' = patch /\ cancelled' = cancelled
    BY <2>1, ResetFacts
  <2>4. TypeOK'
    <3>1. \A x \in Turn : /\ Len(calls[x]) = ctl'[x].latest
                          /\ patch'[x] # "none" => ctl'[x].phase = "rendering"
      BY <2>3 DEF TypeOK
    <3>2. cancelled' \subseteq Turn \X Nat
      <4>1. <<c, ctl[c].task>> \in Turn \X Nat
        BY DEF TypeOK, Controller
      <4> QED BY <2>3, <4>1 DEF TypeOK
    <3>3. current' \in 0 .. Turns /\ opening' \in 0 .. Turns
      BY <1>0, TurnsAssumption DEF Turn
    <3>4. anim' \in [Turn -> [is : {"off", "sleeping", "waiting"}, task : Nat]]
      BY <2>1 DEF TypeOK, Off
    <3> QED BY <1>0, <2>3, <3>1, <3>2, <3>3, <3>4 DEF TypeOK
  <2>5. OfTurn(c)' /\ (shown[c] = "ended" => shown'[c] = "ended")
    BY <1>0, <2>1, <2>2, ResetOfTurn
  <2>6. \A x \in Turn : x # c => OfTurn(x)'
    <3> SUFFICES ASSUME NEW x \in Turn, x # c
                 PROVE  OfTurn(x)'
      OBVIOUS
    <3>1. /\ OfTurn(x) /\ ctl'[x] = ctl[x] /\ calls'[x] = calls[x]
          /\ patch'[x] = patch[x] /\ shown'[x] = shown[x]
      BY <1>0, <2>3
    <3>2. /\ status[x] = "ended" => status'[x] = "ended"
          /\ current' # x /\ cancelled \subseteq cancelled'
      BY <1>0, <2>3 DEF Turn
    <3> QED BY <3>1, <3>2, OtherTurn
  <2>7. \A x \in Turn : ctl'[x].task = ctl[x].task
    BY <2>3
  <2>8. EndingAlone'
    BY <1>0, <1>2, <1>5, <2>7 DEF EndingAlone
  <2>9. CancelledPast'
    <3> SUFFICES ASSUME NEW x \in Turn, NEW task \in Nat, <<x, task>> \in cancelled'
                 PROVE  /\ x # current' /\ status'[x] = "ended"
                        /\ task \in 1 .. ctl'[x].task
                        /\ task = ctl'[x].task => ~TaskActive(ctl'[x])
      BY DEF CancelledPast, TaskActive
    <3>1. CASE <<x, task>> \in cancelled
      <4>1. /\ status[x] = "ended" /\ task \in 1 .. ctl[x].task
            /\ task = ctl[x].task => ~TaskActive(ctl[x])
        BY <3>1 DEF CancelledPast
      <4>2. ~TaskActive(ctl[x]) => ~TaskActive(ctl'[x])
        BY <2>3 DEF TaskActive
      <4> QED BY <1>0, <2>7, <4>1, <4>2 DEF Turn
    <3>2. CASE x = c /\ task = ctl[c].task /\ TaskActive(ctl[c]) /\ ctl'[c].phase = "none"
      BY <1>0, <2>2, <2>3, <3>2 DEF OfTurn, Rendering, TaskActive
    <3>3. \/ <<x, task>> \in cancelled
          \/ /\ <<x, task>> = <<c, ctl[c].task>>
             /\ TaskActive(ctl[c]) /\ ctl'[c].phase = "none"
      BY <2>3
    <3> QED BY <3>1, <3>2, <3>3
  <2> QED BY <1>3, <1>4, <2>3, <2>4, <2>5, <2>6, <2>8, <2>9
<1> QED BY <1>6, <1>7

\* The creation of a turn's card: the session comes under the key, may be given
\* up by another key's turn, and has a card or is dropped.
LEMMA OpeningStep ==
    ASSUME IInv, Register \/ CardCreated \/ CardRefused \/ AbandonEarly
    PROVE  IInv' /\ shown' = shown
<1> USE DEF IInv
<1> DEFINE o == opening
<1>1. /\ o # 0 /\ UNCHANGED <<ctl, calls, patch, shown, finisher, cancelled>>
  BY DEF Register, CardCreated, CardRefused, AbandonEarly, Turn
<1>2. o \in Turn /\ 0 \notin Turn
  BY <1>1, TurnsAssumption DEF TypeOK, Turn
<1>3. /\ status' \in [Turn -> {"none", "active", "ended"}]
      /\ \A x \in Turn : x # o => status'[x] = status[x]
      /\ current' \in {0, o} /\ opening' \in {0, o} /\ early' \subseteq Turn
      /\ current' = 0 \/ current' = current \/ status[o] # "ended"
  <2>1. IF status[o] = "none" THEN current = 0 ELSE current = o
    BY <1>1 DEF Succession
  <2>2. CASE Register
    BY <1>2, <2>2 DEF Register, TypeOK
  <2>3. CASE CardCreated
    BY <1>2, <2>1, <2>3 DEF CardCreated, TypeOK
  <2>4. CASE CardRefused
    BY <1>2, <2>4 DEF CardRefused, TypeOK
  <2>5. CASE AbandonEarly
    BY <1>2, <2>1, <2>5 DEF AbandonEarly, TypeOK, Open
  <2> QED BY <2>2, <2>3, <2>4, <2>5
<1>4. ~LastScheduled(o) /\ ~Ending(o)
  BY <1>1 DEF OpeningQuiet
<1>5. \A x : (LastScheduled(x)' <=> LastScheduled(x)) /\ (Ending(x)' <=> Ending(x))
  BY <1>1 DEF LastScheduled, Ending
<1>6. TypeOK'
  <2>1. anim' \in [Turn -> [is : {"off", "sleeping", "waiting"}, task : Nat]]
    <3>1. /\ Off \in [is : {"off", "sleeping", "waiting"}, task : Nat]
          /\ Sleeping \in [is : {"off", "sleeping", "waiting"}, task : Nat]
      BY DEF Off, Sleeping
    <3> QED BY <3>1 DEF TypeOK, Register, CardCreated, CardRefused, AbandonEarly
  <2>2. current' \in 0 .. Turns /\ opening' \in 0 .. Turns
    BY <1>2, <1>3, TurnsAssumption DEF Turn
  <2> QED BY <1>1, <1>3, <2>1, <2>2 DEF TypeOK
<1>7. Succession'
  <2>1. /\ IF status[o] = "none" THEN current = 0 ELSE current = o
        /\ \A x \in Turn : /\ x < o => status[x] = "ended"
                           /\ x > o => status[x] = "none"
    BY <1>1 DEF Succession
  <2>2. \A x, u \in Turn : x < u /\ status'[x] # "ended" => status'[u] = "none"
    <3> SUFFICES ASSUME NEW x \in Turn, NEW u \in Turn, x < u, status'[x] # "ended"
                 PROVE  status'[u] = "none"
      OBVIOUS
    <3> QED BY <1>2, <1>3, <2>1 DEF Turn
  <2>3. CASE Register
    <3>1. current' = o /\ opening' = o /\ status'[o] = "active"
      BY <1>2, <2>3 DEF Register, TypeOK
    <3> QED BY <1>1, <1>2, <1>3, <2>1, <2>2, <3>1 DEF Succession, Turn
  <2>4. CASE CardCreated
    <3>1. current' = o /\ opening' = 0 /\ status'[o] = status[o] /\ status[o] # "none"
      BY <1>2, <2>1, <2>4 DEF CardCreated, TypeOK
    <3> QED BY <1>1, <1>2, <1>3, <2>1, <2>2, <3>1 DEF Succession, Turn
  <2>5. CASE CardRefused
    BY <2>2, <2>5 DEF CardRefused, Succession
  <2>6. CASE AbandonEarly
    <3>1. current' = o /\ opening' = o /\ status'[o] = "ended"
      BY <1>2, <2>1, <2>6 DEF AbandonEarly, TypeOK, Open
    <3> QED BY <1>1, <1>2, <1>3, <2>1, <2>2, <3>1 DEF Succession, Turn
  <2> QED BY <2>3, <2>4, <2>5, <2>6
<1>8. OpeningQuiet'
  BY <1>3, <1>4, <1>5 DEF OpeningQuiet, LastScheduled, Ending
<1>9. EndingAlone'
  <2>1. \A h \in Finishers : finisher[h].turn # 0 =>
            finisher[h].turn \in Turn /\ finisher[h].turn # o
    BY <1>4, TurnsAssumption DEF TypeOK, Turn, Ending
  <2> QED BY <1>1, <1>3, <1>5, <2>1 DEF EndingAlone
<1>10. CancelledPast'
  <2> SUFFICES ASSUME NEW x \in Turn, NEW task \in Nat, <<x, task>> \in cancelled
               PROVE  x # current' /\ status'[x] = "ended"
    BY <1>1 DEF CancelledPast, TaskActive
  <2>1. x # current /\ status[x] = "ended"
    BY DEF CancelledPast
  <2>2. x # o
    BY <1>1, <2>1 DEF Succession
  <2> QED BY <1>2, <1>3, <2>1, <2>2
<1>11. EndReported'
  <2> SUFFICES ASSUME current' = o, status'[o] = "ended", o \notin early'
               PROVE  FALSE
    BY <1>2, <1>3 DEF EndReported
  <2>1. CASE Register
    BY <1>2, <2>1 DEF Register, TypeOK
  <2>2. CASE CardCreated
    BY <1>2, <1>4, <2>2 DEF CardCreated, EndReported
  <2>3. CASE CardRefused
    BY <1>1, <2>3 DEF CardRefused
  <2>4. CASE AbandonEarly
    BY <2>4 DEF AbandonEarly
  <2> QED BY <2>1, <2>2, <2>3, <2>4
<1>12. \A x \in Turn : OfTurn(x)'
  <2> SUFFICES ASSUME NEW x \in Turn
               PROVE  OfTurn(x)'
    OBVIOUS
  <2>1. LastScheduled(x) /\ status[x] = "ended" => status'[x] = "ended"
    BY <1>3, <1>4
  <2>2. current' = x => current = x \/ status[x] # "ended"
    BY <1>2, <1>3
  <2> QED BY <1>1, <2>1, <2>2, OtherTurn
<1> QED BY <1>1, <1>6, <1>7, <1>8, <1>9, <1>10, <1>11, <1>12

\* A scheduling call that is not the end: an event's or the animation's.
LEMMA UpdateStep ==
    ASSUME IInv, NEW t \in Turn, status[t] = "active",
           NEW k \in {"update", "animation"}, NEW d \in Controller,
           Joins(ctl[t], d, FALSE), d.closed = ctl[t].closed, Call(t, k, d),
           anim' \in [Turn -> [is : {"off", "sleeping", "waiting"}, task : Nat]],
           UNCHANGED <<starts, status, patch, shown, finisher, cancelled>>
    PROVE  IInv'
<1> USE DEF IInv
<1>0. /\ ~LastScheduled(t) /\ ~Ending(t)
      /\ \A task \in Nat : <<t, task>> \notin cancelled
  BY ActiveTurn
<1>1. TypeOK'
  <2>1. /\ k \in Kinds /\ current' \in 0 .. Turns
        /\ opening' \in 0 .. Turns /\ early' \subseteq Turn
        /\ status' \in [Turn -> {"none", "active", "ended"}]
        /\ finisher' \in [Finishers -> [turn : 0 .. Turns, task : Nat]]
    BY DEF Kinds, TypeOK
  <2> QED BY <2>1, CallTypes
<1>2. OfTurn(t)' /\ ~LastScheduled(t)'
  BY <1>0, UpdateOfTurn
<1>3. \A x \in Turn : x # t => ctl'[x] = ctl[x] /\ calls'[x] = calls[x]
  BY CallFacts DEF Joins, Kinds
<1>4. \A x \in Turn : OfTurn(x)'
  <2> SUFFICES ASSUME NEW x \in Turn, x # t
               PROVE  OfTurn(x)'
    BY <1>2
  <2> QED BY <1>3, OtherTurn
<1>5. \A x \in Turn : LastScheduled(x)' <=> LastScheduled(x)
  BY <1>0, <1>2, <1>3 DEF LastScheduled
<1>6. Succession' /\ OpeningQuiet'
  <2>1. \A x \in Turn : Ending(x)' <=> Ending(x)
    BY DEF Ending
  <2> QED BY <1>5, <2>1, SameOpening
<1>7. EndingAlone'
  <2>1. \A h \in Finishers : finisher[h].turn # 0 =>
            finisher[h].turn \in Turn /\ finisher[h].turn # t
    BY <1>0, TurnsAssumption DEF TypeOK, Turn, Ending
  <2> QED BY <1>3, <1>5, <2>1 DEF EndingAlone
<1>8. CancelledPast'
  BY <1>0, <1>3 DEF CancelledPast
<1>9. EndReported'
  <2>1. \A x \in Turn : Ending(x)' <=> Ending(x)
    BY DEF Ending
  <2> QED BY <1>5, <2>1 DEF EndReported
<1> QED BY <1>1, <1>4, <1>6, <1>7, <1>8, <1>9

\* The end of a turn whose status is settled, by the one handler that ends it.
LEMMA FinishStep ==
    ASSUME IInv, NEW t \in Turn, NEW h \in Finishers,
           NEW k \in {"final", "abandon"}, Finish(h, t, k),
           \/ finisher[h].turn = t /\ status' = status
           \/ /\ finisher[h] = Nobody /\ status[t] = "active" /\ opening # t
              /\ status' = [status EXCEPT ![t] = "ended"],
           UNCHANGED <<starts, patch, shown, anim, cancelled>>
    PROVE  IInv'
<1> USE DEF IInv
<1>a. t # 0  BY DEF Turn
<1>0. /\ ~LastScheduled(t) /\ status[t] # "none"
      /\ \A i \in Finishers : i # h => finisher[i].turn # t
  <2>1. CASE finisher[h].turn = t
    BY <1>a, <2>1 DEF EndingAlone
  <2>2. CASE status[t] = "active"
    BY <2>2, ActiveTurn DEF Ending
  <2> QED BY <2>1, <2>2
<1>1. /\ status' \in [Turn -> {"none", "active", "ended"}] /\ status'[t] = "ended"
      /\ \A x \in Turn : x # t => status'[x] = status[x]
  <2>1. CASE finisher[h].turn = t /\ status' = status
    BY <1>a, <2>1 DEF EndingAlone, TypeOK
  <2>2. CASE status' = [status EXCEPT ![t] = "ended"]
    BY <2>2 DEF TypeOK
  <2> QED BY <2>1, <2>2
<1>2. /\ ctl[t] \in Controller
      /\ \E d \in Controller : Call(t, k, d) /\ Joins(ctl[t], d, TRUE) /\ d.closed
      /\ finisher' \in [Finishers -> [turn : 0 .. Turns, task : Nat]]
      /\ finisher'[h] = Nobody
      /\ \A i \in Finishers : i # h => finisher'[i] = finisher[i]
  BY FinishFacts
<1> PICK d \in Controller : Call(t, k, d) /\ Joins(ctl[t], d, TRUE) /\ d.closed
  BY <1>2
<1>3. TypeOK'
  <2>1. /\ k \in Kinds /\ current' \in 0 .. Turns /\ TRUE \in BOOLEAN
        /\ opening' \in 0 .. Turns /\ early' \subseteq Turn
        /\ anim' \in [Turn -> [is : {"off", "sleeping", "waiting"}, task : Nat]]
    BY DEF Kinds, TypeOK
  <2> QED BY <1>1, <1>2, <2>1, CallTypes
<1>4. OfTurn(t)' /\ LastScheduled(t)'
  BY <1>0, <1>1, LastOfTurn
<1>5. ctl'[t] = d /\ \A x \in Turn : x # t => ctl'[x] = ctl[x] /\ calls'[x] = calls[x]
  BY CallFacts DEF Joins, Kinds
<1>6. \A x \in Turn : OfTurn(x)'
  <2> SUFFICES ASSUME NEW x \in Turn, x # t
               PROVE  OfTurn(x)'
    BY <1>4
  <2> QED BY <1>1, <1>5, OtherTurn
<1>7. \A x \in Turn : x # t => (LastScheduled(x)' <=> LastScheduled(x))
  BY <1>5 DEF LastScheduled
<1>8. Succession' /\ OpeningQuiet'
  <2>1. \A x \in Turn : /\ status'[x] = "none" <=> status[x] = "none"
                        /\ status[x] = "ended" => status'[x] = "ended"
    BY <1>0, <1>1
  <2>2. opening # t
    BY <1>a DEF OpeningQuiet, Ending
  <2>3. \A x \in Turn : x = opening => (LastScheduled(x)' => LastScheduled(x))
    BY <1>7, <2>2
  <2>4. \A x \in Turn : Ending(x)' => Ending(x)
    <3>1. \A x \in Turn : x # Nobody.turn
      BY DEF Nobody, Turn
    <3> QED BY <1>2, <3>1 DEF Ending
  <2> QED BY <2>1, <2>3, <2>4, SameOpening
<1>9. EndingAlone'
  <2>1. Nobody.turn = 0  BY DEF Nobody
  <2>2. \A i \in Finishers : finisher'[i].turn # 0 =>
            /\ i # h /\ finisher'[i] = finisher[i] /\ finisher[i].turn # t
            /\ finisher[i].turn \in Turn
    BY <1>0, <1>2, <2>1, TurnsAssumption DEF TypeOK, Turn
  <2> QED BY <1>1, <1>2, <1>5, <1>7, <2>2 DEF EndingAlone
<1>10. CancelledPast'
  <2> SUFFICES ASSUME NEW x \in Turn, NEW task \in Nat, <<x, task>> \in cancelled
               PROVE  /\ x # current /\ status'[x] = "ended"
                      /\ task \in 1 .. ctl'[x].task
                      /\ task = ctl'[x].task => ~TaskActive(ctl'[x])
    BY DEF CancelledPast, TaskActive
  <2>1. /\ x # current /\ status[x] = "ended"
        /\ task \in 1 .. ctl[x].task
        /\ task = ctl[x].task => ~TaskActive(ctl[x])
    BY DEF CancelledPast
  <2>2. CASE x # t
    BY <1>1, <1>5, <2>1, <2>2
  <2>3. CASE x = t
    <3>1. CASE TaskActive(ctl[t])
      BY <1>1, <1>5, <2>1, <2>3, <3>1 DEF Joins
    <3>2. CASE ~TaskActive(ctl[t])
      BY <1>1, <1>2, <1>5, <2>1, <2>3, <3>2 DEF Joins, Controller
    <3> QED BY <3>1, <3>2
  <2> QED BY <2>2, <2>3
<1>11. EndReported'
  <2> SUFFICES ASSUME NEW x \in Turn, x # t, current = x, status[x] = "ended",
                      x \notin early
               PROVE  LastScheduled(x)' \/ Ending(x)'
    BY <1>1, <1>4 DEF EndReported
  <2>1. CASE LastScheduled(x)
    BY <1>7, <2>1
  <2>2. CASE Ending(x)
    <3>1. PICK i \in Finishers : finisher[i].turn = x
      BY <2>2 DEF Ending
    <3>2. i # h
      <4>1. x # 0 /\ Nobody.turn = 0  BY DEF Turn, Nobody
      <4> QED BY <3>1, <4>1
    <3> QED BY <1>2, <3>1, <3>2 DEF Ending
  <2> QED BY <2>1, <2>2 DEF EndReported
<1> QED BY <1>3, <1>6, <1>8, <1>9, <1>10, <1>11

\* Completion or abandonment settles the status, then drains or finishes.
LEMMA BeginFinishStep ==
    ASSUME IInv, NEW t \in Turn, NEW h \in Finishers,
           NEW k \in {"final", "abandon"}, BeginFinish(h, t, k), opening # t
    PROVE  IInv'
<1> USE DEF IInv
<1>0. /\ finisher[h] = Nobody /\ status[t] = "active"
      /\ status' = [status EXCEPT ![t] = "ended"]
      /\ UNCHANGED <<starts, patch, shown, anim, cancelled>>
  BY DEF BeginFinish, Open
<1>1. CASE Finish(h, t, k)
  BY <1>0, <1>1, FinishStep
<1>2. CASE /\ TaskActive(ctl[t])
           /\ finisher' = [finisher EXCEPT ![h] = [turn |-> t, task |-> ctl[t].task]]
           /\ UNCHANGED <<ctl, calls>>
  <2> DEFINE f == [turn |-> t, task |-> ctl[t].task]
  <2>0. ctl[t].task \in Nat
    BY DEF TypeOK, Controller
  <2>1. f \in [turn : 0 .. Turns, task : Nat] /\ f.turn = t /\ f.task = ctl[t].task
        /\ t # 0
    BY <2>0, TurnsAssumption DEF Turn
  <2> HIDE DEF f
  <2>2. finisher' = [finisher EXCEPT ![h] = f]
    BY <1>2 DEF f
  <2>3. /\ finisher' \in [Finishers -> [turn : 0 .. Turns, task : Nat]]
        /\ finisher'[h] = f
        /\ \A i \in Finishers : i # h => finisher'[i] = finisher[i]
    BY <2>1, <2>2 DEF TypeOK
  <2>4. /\ status' \in [Turn -> {"none", "active", "ended"}] /\ status'[t] = "ended"
        /\ \A x \in Turn : x # t => status'[x] = status[x]
    BY <1>0 DEF TypeOK
  <2>5. ~LastScheduled(t) /\ ~Ending(t) /\ \A task \in Nat : <<t, task>> \notin cancelled
    BY <1>0, ActiveTurn
  <2>6. \A x \in Turn : LastScheduled(x)' <=> LastScheduled(x)
    BY <1>2 DEF LastScheduled
  <2>7. TypeOK'
    BY <1>0, <1>2, <2>3, <2>4 DEF TypeOK
  <2>8. \A x \in Turn : OfTurn(x)'
    <3> SUFFICES ASSUME NEW x \in Turn
                 PROVE  OfTurn(x)'
      OBVIOUS
    <3>1. status[x] = "ended" => status'[x] = "ended"
      BY <1>0, <2>4
    <3> QED BY <1>0, <1>2, <3>1, OtherTurn
  <2>9. Succession' /\ OpeningQuiet'
    <3>1. \A x \in Turn : /\ status'[x] = "none" <=> status[x] = "none"
                          /\ status[x] = "ended" => status'[x] = "ended"
      BY <1>0, <2>4
    <3>2. \A x \in Turn : x # t => (Ending(x)' => Ending(x))
      BY <2>1, <2>3 DEF Ending
    <3> QED BY <1>0, <2>6, <3>1, <3>2, SameOpening
  <2>10. EndingAlone'
    <3>1. \A i \in Finishers : i # h =>
              finisher'[i] = finisher[i] /\ finisher[i].turn # t
      BY <2>3, <2>5 DEF Ending
    <3>2. \A i \in Finishers : finisher[i].turn # 0 => finisher[i].turn \in Turn
      BY TurnsAssumption DEF TypeOK, Turn
    <3>3. ctl[t].task <= ctl[t].task
      BY DEF TypeOK, Controller
    <3>4. \A i \in Finishers : finisher'[i].turn = 0 => finisher'[i] = Nobody
      BY <2>1, <2>3 DEF EndingAlone
    <3>5. \A i \in Finishers : finisher'[i].turn # 0 =>
              /\ status'[finisher'[i].turn] = "ended"
              /\ finisher'[i].task <= ctl[finisher'[i].turn].task
              /\ ~LastScheduled(finisher'[i].turn)
      BY <2>1, <2>3, <2>4, <2>5, <3>1, <3>2, <3>3 DEF EndingAlone
    <3>6. \A i, j \in Finishers :
              finisher'[i].turn # 0 /\ finisher'[i].turn = finisher'[j].turn => i = j
      BY <2>1, <2>3, <3>1 DEF EndingAlone
    <3>7. \A i \in Finishers : finisher'[i].turn # 0 => finisher'[i].turn \in Turn
      BY <2>1, <2>3, <3>2
    <3>8. \A i \in Finishers : finisher'[i].turn # 0 =>
              (~LastScheduled(finisher[i].turn))'
      BY <2>6, <3>5, <3>7 DEF LastScheduled
    <3> QED BY <1>2, <3>4, <3>5, <3>6, <3>8 DEF EndingAlone
  <2>11. CancelledPast'
    BY <1>0, <1>2, <2>4, <2>5 DEF CancelledPast
  <2>12. EndReported'
    <3>1. Ending(t)'
      BY <2>1, <2>3 DEF Ending
    <3>2. \A x \in Turn : x # t /\ Ending(x) => Ending(x)'
      <4> SUFFICES ASSUME NEW x \in Turn, x # t, NEW i \in Finishers, finisher[i].turn = x
                   PROVE  Ending(x)'
        BY DEF Ending
      <4>1. i # h
        BY <1>0 DEF Nobody, Turn
      <4> QED BY <2>3, <4>1 DEF Ending
    <3> QED BY <1>0, <2>4, <2>6, <3>1, <3>2 DEF EndReported
  <2> QED BY <2>7, <2>8, <2>9, <2>10, <2>11, <2>12
<1> QED BY <1>1, <1>2 DEF BeginFinish

\* The drain is over, however it went.
LEMMA DrainStep ==
    ASSUME IInv, NEW h \in Finishers, Drained(h) \/ DrainTimeout(h)
    PROVE  IInv'
<1> DEFINE t == finisher[h].turn
<1>1. finisher[h] # Nobody /\ Finish(h, t, LastCall(h))
      /\ UNCHANGED <<starts, status, patch, shown, anim, cancelled>>
  BY DEF Drained, DrainTimeout
<1>2. t # 0
  BY <1>1 DEF IInv, EndingAlone
<1>3. t \in Turn /\ LastCall(h) \in {"final", "abandon"}
  BY <1>2, TurnsAssumption DEF IInv, TypeOK, Turn, LastCall
<1> QED BY <1>1, <1>3, FinishStep

LEMMA DrainRaisesStep ==
    ASSUME IInv, NEW h \in Finishers, DrainRaises(h)
    PROVE  IInv'
<1> USE DEF IInv
<1> DEFINE t == finisher[h].turn
<1>1. /\ finisher[h] # Nobody /\ <<t, finisher[h].task>> \in cancelled
      /\ finisher' = [finisher EXCEPT ![h] = Nobody]
      /\ UNCHANGED <<starts, status, ctl, calls, patch, shown, anim, cancelled>>
  BY DEF DrainRaises
<1>2. t \in Turn /\ finisher[h].task \in Nat
  BY <1>1, TurnsAssumption DEF EndingAlone, TypeOK, Turn
<1>3. current # t
  BY <1>1, <1>2 DEF CancelledPast
<1>4. Nobody \in [turn : 0 .. Turns, task : Nat] /\ Nobody.turn = 0
  BY TurnsAssumption DEF Nobody
<1>5. /\ finisher' \in [Finishers -> [turn : 0 .. Turns, task : Nat]]
      /\ finisher'[h] = Nobody
      /\ \A i \in Finishers : i # h => finisher'[i] = finisher[i]
  BY <1>1, <1>4 DEF TypeOK
<1>6. TypeOK'
  BY <1>1, <1>5 DEF TypeOK
<1>7. \A x \in Turn : OfTurn(x)'
  BY <1>1, OtherTurn
<1>8. CancelledPast'
  BY <1>1 DEF CancelledPast
<1>9. \A x : LastScheduled(x)' <=> LastScheduled(x)
  BY <1>1 DEF LastScheduled
<1>12. Succession' /\ OpeningQuiet'
  <2>1. \A x \in Turn : Ending(x)' => Ending(x)
    BY <1>4, <1>5 DEF Ending, Turn
  <2> QED BY <1>1, <1>9, <2>1, SameOpening
<1>10. EndingAlone'
  BY <1>1, <1>4, <1>5, <1>9 DEF EndingAlone
<1>11. EndReported'
  <2> SUFFICES ASSUME NEW x \in Turn, current = x, Ending(x)
               PROVE  Ending(x)'
    BY <1>1, <1>9 DEF EndReported
  <2>1. PICK i \in Finishers : finisher[i].turn = x
    BY DEF Ending
  <2> QED BY <1>3, <1>5, <2>1 DEF Ending
<1> QED BY <1>6, <1>7, <1>8, <1>10, <1>11, <1>12

LEMMA TaskStep ==
    ASSUME IInv, NEW t \in Turn, Task(t)
    PROVE  IInv' /\ \A x \in Turn : shown[x] = "ended" => shown'[x] = "ended"
<1> USE DEF IInv
<1>1. /\ OfTurn(t)' /\ TypeOK'
      /\ shown[t] = "ended" => shown'[t] = "ended"
  BY TaskOfTurn
<1>2. /\ TaskActive(ctl[t])
      /\ UNCHANGED <<starts, status, calls, anim, finisher, cancelled>>
      /\ \A x \in Turn : x # t => shown'[x] = shown[x]
      /\ \E d \in Controller : Becomes(t, d) /\ Continues(ctl[t], d)
  BY TaskFacts
<1>3. /\ ctl'[t].task = ctl[t].task
      /\ \A x \in Turn : x # t => ctl'[x] = ctl[x] /\ patch'[x] = patch[x]
  BY <1>2, BecomesFacts DEF Continues
<1>4. \A x \in Turn : OfTurn(x)'
  <2> SUFFICES ASSUME NEW x \in Turn, x # t
               PROVE  OfTurn(x)'
    BY <1>1
  <2> QED BY <1>2, <1>3, OtherTurn
<1>5. \A x : LastScheduled(x)' <=> LastScheduled(x)
  BY <1>2 DEF LastScheduled
<1>6. Succession' /\ OpeningQuiet'
  <2>1. \A x \in Turn : Ending(x)' <=> Ending(x)
    BY <1>2 DEF Ending
  <2> QED BY <1>2, <1>5, <2>1, SameOpening
<1>7. EndingAlone'
  <2>1. \A h \in Finishers : finisher[h].turn # 0 => finisher[h].turn \in Turn
    BY TurnsAssumption DEF TypeOK, Turn
  <2> QED BY <1>2, <1>3, <1>5, <2>1 DEF EndingAlone
<1>8. CancelledPast'
  <2> SUFFICES ASSUME NEW x \in Turn, NEW task \in Nat, <<x, task>> \in cancelled
               PROVE  /\ x # current /\ status[x] = "ended"
                      /\ task \in 1 .. ctl'[x].task
                      /\ task = ctl'[x].task => ~TaskActive(ctl'[x])
    BY <1>2 DEF CancelledPast, TaskActive
  <2> QED BY <1>2, <1>3 DEF CancelledPast
<1>9. EndReported'
  <2>1. \A x \in Turn : Ending(x)' <=> Ending(x)
    BY <1>2 DEF Ending
  <2> QED BY <1>2, <1>5, <2>1 DEF EndReported
<1> QED BY <1>1, <1>2, <1>4, <1>6, <1>7, <1>8, <1>9

\* The animation goes on or stops, or nothing happens.
LEMMA AnimationStep ==
    ASSUME IInv,
           \/ \E t \in Turn : AnimationResumes(t) \/ AnimationStops(t)
           \/ UNCHANGED vars
    PROVE  IInv'
<1> USE DEF IInv
<1>1. UNCHANGED <<starts, status, ctl, calls, patch, shown, finisher, cancelled>>
  BY DEF AnimationResumes, AnimationStops, vars
<1>2. anim' \in [Turn -> [is : {"off", "sleeping", "waiting"}, task : Nat]]
  <2>1. /\ Off \in [is : {"off", "sleeping", "waiting"}, task : Nat]
        /\ Sleeping \in [is : {"off", "sleeping", "waiting"}, task : Nat]
    BY DEF Off, Sleeping
  <2> QED BY <2>1 DEF AnimationResumes, AnimationStops, vars, TypeOK
<1>3. TypeOK'
  BY <1>1, <1>2 DEF TypeOK
<1>4. \A x \in Turn : OfTurn(x)'
  BY <1>1, OtherTurn
<1>5. \A x : (LastScheduled(x)' <=> LastScheduled(x)) /\ (Ending(x)' <=> Ending(x))
  BY <1>1 DEF LastScheduled, Ending
<1>6. /\ Succession' /\ OpeningQuiet'
      /\ CancelledPast'
  BY <1>1, <1>5, SameOpening DEF CancelledPast
<1>7. EndingAlone' /\ EndReported'
  BY <1>1, <1>5 DEF EndingAlone, EndReported
<1> QED BY <1>3, <1>4, <1>6, <1>7

\* Every step keeps the invariant, and what a card shows of an end.
LEMMA Step ==
    ASSUME IInv, [Next]_vars
    PROVE  IInv' /\ \A x \in Turn : shown[x] = "ended" => shown'[x] = "ended"
<1>1. CASE \E t \in Turn : TakeOver(t)
  BY <1>1, TakeOverStep
<1>2. CASE \E t \in Turn : Task(t)
  BY <1>2, TaskStep
<1>3. ASSUME NEW t \in Turn, AnimationTick(t)
      PROVE  IInv' /\ shown' = shown
  <2> DEFINE d == Scheduled(ctl[t], ctl[t].latest + 1, FALSE)
  <2>1. /\ status[t] = "active" /\ Call(t, "animation", d)
        /\ anim' = [anim EXCEPT ![t] = Waiting(d.task)]
        /\ UNCHANGED <<starts, status, patch, shown, finisher, cancelled>>
    BY <1>3 DEF AnimationTick, Open
  <2>2. ctl[t] \in Controller
    BY DEF IInv, TypeOK
  <2>3. d \in Controller /\ Joins(ctl[t], d, FALSE) /\ d.closed = ctl[t].closed
    BY <2>2, ScheduledJoins, Zenon
  <2> HIDE DEF d
  <2>4. Waiting(d.task) \in [is : {"off", "sleeping", "waiting"}, task : Nat]
    BY <2>3 DEF Waiting, Controller
  <2>5. anim' \in [Turn -> [is : {"off", "sleeping", "waiting"}, task : Nat]]
    BY <2>1, <2>4 DEF IInv, TypeOK
  <2> QED BY <2>1, <2>3, <2>5, UpdateStep
<1>4. ASSUME NEW t \in Turn, Open(t),
             Call(t, "update", Scheduled(ctl[t], ctl[t].latest + 1, FALSE)),
             UNCHANGED <<starts, status, patch, shown, anim, finisher, cancelled>>
      PROVE  IInv' /\ shown' = shown
  <2> DEFINE d == Scheduled(ctl[t], ctl[t].latest + 1, FALSE)
  <2>1. ctl[t] \in Controller /\ status[t] = "active"
        /\ anim' \in [Turn -> [is : {"off", "sleeping", "waiting"}, task : Nat]]
    BY <1>4 DEF IInv, TypeOK, Open
  <2>2. d \in Controller /\ Joins(ctl[t], d, FALSE) /\ d.closed = ctl[t].closed
    BY <2>1, ScheduledJoins, Zenon
  <2>3. Call(t, "update", d)
    BY <1>4
  <2> HIDE DEF d
  <2> QED BY <1>4, <2>1, <2>2, <2>3, UpdateStep
<1>5. CASE Update
  <2>1. PICK t \in Turn :
           /\ Open(t)
           /\ Call(t, "update", Scheduled(ctl[t], ctl[t].latest + 1, FALSE))
           /\ UNCHANGED <<starts, status, patch, shown, anim, finisher, cancelled>>
    BY <1>5 DEF Update
  <2> QED BY <1>4, <2>1
<1>6. CASE Register \/ CardCreated \/ CardRefused \/ AbandonEarly
  BY <1>6, OpeningStep
<1>7. CASE Complete \/ Abandon
  <2>1. PICK h \in Finishers, t \in Turn, k \in {"final", "abandon"} :
            BeginFinish(h, t, k) /\ opening # t
    BY <1>7 DEF Complete, Abandon, Finishers
  <2> QED BY <2>1, BeginFinishStep DEF BeginFinish
<1>8. CASE \E h \in Finishers : Drained(h) \/ DrainTimeout(h) \/ DrainRaises(h)
  BY <1>8, DrainStep, DrainRaisesStep DEF Drained, DrainTimeout, DrainRaises
<1>9. CASE (\E t \in Turn : AnimationResumes(t) \/ AnimationStops(t)) \/ UNCHANGED vars
  BY <1>9, AnimationStep DEF AnimationResumes, AnimationStops, vars
<1> QED BY <1>1, <1>2, <1>3, <1>5, <1>6, <1>7, <1>8, <1>9 DEF Next

\* The inductive invariant holds in every reachable state.
THEOREM TurnsInvariant == Spec => []IInv
<1>1. IInv /\ [Next]_vars => IInv'
  BY Step
<1> QED BY <1>1, Initially, PTL DEF Spec

\* The type invariant, for any number of turns, updates and handlers.
THEOREM TurnsTypes == Spec => []TypeOK
<1>1. IInv => TypeOK
  BY DEF IInv
<1> QED BY <1>1, TurnsInvariant, PTL

\* One handler at most ends a turn, and schedules its last update once, though
\* the handlers that may do so hold different locks (server.py, the terminal
\* branch of _apply_event_locked and _abandon_session).
THEOREM TurnsOneFinisher == Spec => []OneFinisher
<1>1. IInv => OneFinisher
  <2> SUFFICES ASSUME IInv, NEW t \in Turn
               PROVE  Cardinality({h \in Finishers : finisher[h].turn = t})
                        + Cardinality({u \in DOMAIN calls[t] : IsLast(calls[t][u])}) <= 1
    BY DEF OneFinisher
  <2> DEFINE H == {h \in Finishers : finisher[h].turn = t}
             U == {u \in DOMAIN calls[t] : IsLast(calls[t][u])}
  <2>0. t # 0
    BY DEF Turn
  <2>1. Cardinality({}) = 0 /\ \A x : Cardinality({x}) = 1
    BY FS_EmptySet, FS_Singleton
  <2>2. H = {} \/ \E h : H = {h}
    BY <2>0 DEF IInv, EndingAlone
  <2>3. U = {} \/ \E u : U = {u}
    <3>1. \A u \in U : u = ctl[t].latest
      BY DEF IInv, OfTurn, LastIsLatest
    <3>2. U = {} \/ U = {ctl[t].latest}
      BY <3>1
    <3> QED BY <3>2
  <2>4. H = {} \/ U = {}
    BY <2>0 DEF IInv, EndingAlone, LastScheduled
  <2> HIDE DEF H, U
  <2>5. Cardinality(H) + Cardinality(U) <= 1
    <3>1. /\ Cardinality(H) = 0 \/ Cardinality(H) = 1
          /\ Cardinality(U) = 0 \/ Cardinality(U) = 1
          /\ Cardinality(H) = 0 \/ Cardinality(U) = 0
      BY <2>1, <2>2, <2>3, <2>4, Zenon
    <3> QED BY <3>1
  <2> QED BY <2>5 DEF H, U
<1> QED BY <1>1, TurnsInvariant, PTL

\* No end is left behind when a controller comes to rest, but for a turn that was
\* given up before its card existed (flush.py: the loop of the task; server.py: the
\* terminal branch of the handler and the abandonment).
THEOREM TurnsNoEndLeftBehind == Spec => []NoEndLeftBehind
<1>1. IInv => NoEndLeftBehind
  <2> SUFFICES ASSUME IInv, NEW t \in Turn, ~TaskActive(ctl[t])
               PROVE  /\ EndAccepted(t) => shown[t] = "ended" \/ Cancelled(t)
                      /\ current = t /\ status[t] = "ended" /\ t \notin early =>
                             shown[t] = "ended" \/ Ending(t)
    BY DEF NoEndLeftBehind, Cancelled, Ending
  <2>1. LastScheduled(t) /\ (EndAccepted(t) \/ current = t) =>
            shown[t] = "ended" \/ Cancelled(t)
    BY DEF IInv, OfTurn, EndCarried, TaskActive
  <2>2. EndAccepted(t) => LastScheduled(t)
    BY DEF EndAccepted, LastScheduled, IsLast
  <2>3. current = t => ~Cancelled(t)
    BY DEF IInv, CancelledPast, Cancelled, TypeOK, Controller
  <2>4. current = t /\ status[t] = "ended" /\ t \notin early => LastScheduled(t) \/ Ending(t)
    BY DEF IInv, EndReported
  <2> QED BY <2>1, <2>2, <2>3, <2>4
<1> QED BY <1>1, TurnsInvariant, PTL

-----------------------------------------------------------------------------
(* Whom the cancellation of a reset can reach. *)

\* The task that the holder of the key's lock drains was not cancelled, and no
\* reset comes before it is done.
LEMMA ReporterStep ==
    ASSUME IInv, ReporterSurvives, [Next]_vars
    PROVE  ReporterSurvives'
<1> USE DEF IInv
<1> DEFINE f == finisher[Owner]
<1>0. Owner \in Finishers
  BY DEF Finishers
<1>1. \A task : <<0, task>> \notin cancelled'
  <2>1. IInv'
    BY Step
  <2> QED BY <2>1 DEF TypeOK, Turn
<1>2. CASE finisher'[Owner] = f /\ cancelled' = cancelled
  BY <1>2 DEF ReporterSurvives
<1>3. CASE finisher'[Owner] = Nobody
  BY <1>1, <1>3 DEF ReporterSurvives, Nobody
<1>4. CASE \E t \in Turn : TakeOver(t)
  BY <1>3, <1>4 DEF TakeOver, LockFree
<1>5. ASSUME NEW h \in Finishers, NEW t \in Turn, NEW k, BeginFinish(h, t, k)
      PROVE  ReporterSurvives'
  <2>1. CASE h # Owner
    BY <1>0, <1>2, <1>5, <2>1 DEF BeginFinish, Finish, TypeOK
  <2>2. CASE h = Owner /\ Finish(h, t, k)
    BY <1>0, <1>3, <2>2 DEF Finish, TypeOK
  <2>3. CASE h = Owner /\ finisher' = [finisher EXCEPT ![h] = [turn |-> t, task |-> ctl[t].task]]
    <3>1. finisher'[Owner] = [turn |-> t, task |-> ctl[t].task]
      BY <1>0, <2>3 DEF TypeOK
    <3>2. cancelled' = cancelled /\ status[t] # "ended"
      BY <1>5 DEF BeginFinish, Open
    <3>3. <<t, ctl[t].task>> \notin cancelled
      BY <3>2, ActiveTurn DEF TypeOK, Controller
    <3> QED BY <3>1, <3>2, <3>3 DEF ReporterSurvives
  <2> QED BY <1>5, <2>1, <2>2, <2>3 DEF BeginFinish
<1>6. ASSUME NEW h \in Finishers, Drained(h) \/ DrainTimeout(h) \/ DrainRaises(h)
      PROVE  ReporterSurvives'
  <2>1. finisher' = [finisher EXCEPT ![h] = Nobody] /\ cancelled' = cancelled
    BY <1>6 DEF Drained, DrainTimeout, DrainRaises, Finish
  <2>2. finisher'[Owner] = f \/ finisher'[Owner] = Nobody
    BY <1>0, <2>1 DEF TypeOK
  <2> QED BY <1>2, <1>3, <2>1, <2>2
<1>7. CASE Complete \/ Abandon
  <2>1. PICK h \in Finishers, t \in Turn, k \in {"final", "abandon"} : BeginFinish(h, t, k)
    BY <1>7 DEF Complete, Abandon, Finishers
  <2> QED BY <1>5, <2>1
<1>8. CASE \/ Register \/ CardCreated \/ CardRefused \/ AbandonEarly
           \/ Update \/ UNCHANGED vars
           \/ \E t \in Turn : Task(t)
           \/ \E t \in Turn : AnimationTick(t) \/ AnimationResumes(t) \/ AnimationStops(t)
  BY <1>2, <1>8 DEF Register, CardCreated, CardRefused, AbandonEarly, Update, vars, Task, StartTask, WakeUp, RenderDone,
     AnimationTick, AnimationResumes, AnimationStops
<1> QED BY <1>4, <1>6, <1>7, <1>8 DEF Next

\* The reset for a new turn never cancels the task that the handler holding the
\* key's message lock is draining.
THEOREM TurnsReporterSurvives == Spec => []ReporterSurvives
<1>1. Init => ReporterSurvives
  BY DEF Init, ReporterSurvives
<1>2. IInv /\ ReporterSurvives /\ [Next]_vars => ReporterSurvives'
  BY ReporterStep
<1> QED BY <1>1, <1>2, TurnsInvariant, PTL DEF Spec

-----------------------------------------------------------------------------
(* The turns implement OneEnd. *)

\* The end of a turn is none until its last update is scheduled.
LEMMA EndOfFacts ==
    ASSUME TypeOK, NEW t \in Turn, OfTurn(t)
    PROVE  EndOf(t) # "none" <=> LastScheduled(t)
<1>1. /\ calls[t] \in Seq(Kinds) /\ Len(calls[t]) = ctl[t].latest
      /\ DOMAIN calls[t] = 1 .. Len(calls[t]) /\ Len(calls[t]) \in Nat
      /\ calls[t] # <<>> <=> Len(calls[t]) > 0
  BY DEF TypeOK, Kinds
<1>2. ASSUME LastScheduled(t)
      PROVE  EndOf(t) # "none"
  <2>1. Len(calls[t]) \in DOMAIN calls[t] /\ IsLast(calls[t][Len(calls[t])])
    BY <1>1, <1>2 DEF LastScheduled, OfTurn, LastIsLatest
  <2> QED BY <1>1, <2>1 DEF EndOf, IsLast
<1>3. ASSUME EndOf(t) # "none"
      PROVE  LastScheduled(t)
  <2>1. Len(calls[t]) \in DOMAIN calls[t] /\ IsLast(calls[t][Len(calls[t])])
    BY <1>1, <1>3 DEF EndOf
  <2> QED BY <2>1 DEF LastScheduled
<1> QED BY <1>2, <1>3

\* What a scheduling call makes of the end of a turn that has none.
LEMMA CallEnds ==
    ASSUME TypeOK, NEW t \in Turn, OfTurn(t), ~LastScheduled(t),
           NEW k \in Kinds, NEW d \in Controller,
           d.latest = ctl[t].latest + 1, Call(t, k, d)
    PROVE  /\ EndOf(t) = "none"
           /\ EndOf(t)' = IF IsLast(k) THEN k ELSE "none"
           /\ \A x \in Turn : x # t => EndOf(x)' = EndOf(x)
<1>1. EndOf(t) = "none"
  BY EndOfFacts
<1>2. /\ calls'[t] \in Seq(Kinds) /\ Len(calls'[t]) = d.latest
      /\ \A x \in Turn : x # t => calls'[x] = calls[x]
      /\ ctl[t].latest \in Nat /\ calls'[t][d.latest] = k
  BY CallFacts
<1>3. calls'[t] # <<>>
  BY <1>2
<1>4. EndOf(t)' = IF IsLast(k) THEN k ELSE "none"
  BY <1>2, <1>3 DEF EndOf
<1>5. \A x \in Turn : x # t => EndOf(x)' = EndOf(x)
  BY <1>2 DEF EndOf
<1> QED BY <1>1, <1>4, <1>5

LEMMA FinishEnds ==
    ASSUME IInv, NEW t \in Turn, ~LastScheduled(t), NEW h \in Finishers,
           NEW k \in {"final", "abandon"}, Finish(h, t, k), shown' = shown
    PROVE  OE!Next
<1>1. PICK d \in Controller : Call(t, k, d) /\ Joins(ctl[t], d, TRUE) /\ d.closed
  BY FinishFacts DEF IInv
<1>2. /\ EndOf(t) = "none" /\ EndOf(t)' = k
      /\ \A x \in Turn : x # t => EndOf(x)' = EndOf(x)
  <2>1. k \in Kinds /\ IsLast(k) /\ d.latest = ctl[t].latest + 1
    BY <1>1 DEF Kinds, IsLast, Joins
  <2>2. /\ EndOf(t) = "none" /\ EndOf(t)' = IF IsLast(k) THEN k ELSE "none"
        /\ \A x \in Turn : x # t => EndOf(x)' = EndOf(x)
    BY <1>1, <2>1, CallEnds DEF IInv
  <2> QED BY <2>1, <2>2
<1>3. [x \in Turn |-> EndOf(x)]' = [[x \in Turn |-> EndOf(x)] EXCEPT ![t] = k]
  BY <1>2
<1>4. OE!End(t)
  BY <1>2, <1>3 DEF OE!End
<1> QED BY <1>4 DEF OE!Next

LEMMA UpdateEndsNothing ==
    ASSUME IInv, NEW t \in Turn, ~LastScheduled(t), NEW k \in {"update", "animation"},
           Call(t, k, Scheduled(ctl[t], ctl[t].latest + 1, FALSE))
    PROVE  [x \in Turn |-> EndOf(x)]' = [x \in Turn |-> EndOf(x)]
<1> DEFINE d == Scheduled(ctl[t], ctl[t].latest + 1, FALSE)
<1>1. d \in Controller /\ Joins(ctl[t], d, FALSE) /\ k \in Kinds /\ ~IsLast(k)
  <2>1. ctl[t] \in Controller  BY DEF IInv, TypeOK
  <2>2. d \in Controller /\ Joins(ctl[t], d, FALSE)  BY <2>1, ScheduledJoins, Zenon
  <2> QED BY <2>2 DEF Kinds, IsLast
<1>2. Call(t, k, d)
  OBVIOUS
<1> HIDE DEF d
<1>3. /\ EndOf(t) = "none" /\ EndOf(t)' = IF IsLast(k) THEN k ELSE "none"
      /\ \A x \in Turn : x # t => EndOf(x)' = EndOf(x)
  BY <1>1, <1>2, CallEnds DEF IInv, Joins
<1>4. \A x \in Turn : EndOf(x)' = EndOf(x)
  BY <1>1, <1>3
<1> QED BY <1>4

\* What a step shows on one card is its end, and that was scheduled.
LEMMA ShowStep ==
    ASSUME IInv, [Next]_vars, calls' = calls, NEW t \in Turn,
           \A x \in Turn : x # t => shown'[x] = shown[x]
    PROVE  [OE!Next]_<<[x \in Turn |-> EndOf(x)], shown>>
<1>0. IInv' /\ \A x \in Turn : shown[x] = "ended" => shown'[x] = "ended"
  BY Step
<1>1. /\ shown \in [Turn -> {"running", "ended"}]
      /\ shown' \in [Turn -> {"running", "ended"}]
  BY <1>0 DEF IInv, TypeOK
<1>2. [x \in Turn |-> EndOf(x)]' = [x \in Turn |-> EndOf(x)]
  BY DEF EndOf
<1>3. CASE shown'[t] = shown[t]
  <2>1. shown' = shown
    BY <1>1, <1>3
  <2> QED BY <1>2, <2>1
<1>4. CASE shown'[t] # shown[t]
  <2>1. shown'[t] = "ended"
    BY <1>0, <1>1, <1>4
  <2>2. shown' = [shown EXCEPT ![t] = "ended"]
    BY <1>1, <2>1
  <2>3. LastScheduled(t)' <=> LastScheduled(t)
    BY DEF LastScheduled
  <2>4. LastScheduled(t)
    BY <1>0, <2>1, <2>3 DEF IInv, OfTurn, Rendering
  <2>5. EndOf(t) # "none"
    BY <2>4, EndOfFacts DEF IInv
  <2>6. OE!Show(t)
    BY <1>2, <2>2, <2>5 DEF OE!Show
  <2> QED BY <2>6 DEF OE!Next
<1> QED BY <1>3, <1>4

LEMMA EndStep ==
    ASSUME IInv, [Next]_vars
    PROVE  [OE!Next]_<<[t \in Turn |-> EndOf(t)], shown>>
<1>1. ASSUME calls' = calls, shown' = shown
      PROVE  [OE!Next]_<<[t \in Turn |-> EndOf(t)], shown>>
  BY <1>1 DEF EndOf
<1>2. CASE \E t \in Turn : TakeOver(t)
  <2>1. calls' = calls /\ (shown' = shown \/ (current # 0 /\ Reset(current)))
    BY <1>2 DEF TakeOver
  <2>2. CASE shown' = shown
    BY <1>1, <2>1, <2>2
  <2>3. CASE current # 0 /\ Reset(current)
    <3>1. current \in Turn
      BY <2>3, TurnsAssumption DEF IInv, TypeOK, Turn
    <3>2. \A x \in Turn : x # current => shown'[x] = shown[x]
      BY <2>3, <3>1, ResetFacts DEF IInv
    <3> QED BY <2>1, <3>1, <3>2, ShowStep
  <2> QED BY <2>1, <2>2, <2>3
<1>3. CASE \E t \in Turn : Task(t)
  BY <1>3, TaskFacts, ShowStep DEF IInv
<1>4. ASSUME NEW t \in Turn, NEW k \in {"update", "animation"}, Open(t),
             Call(t, k, Scheduled(ctl[t], ctl[t].latest + 1, FALSE)), shown' = shown
      PROVE  [OE!Next]_<<[x \in Turn |-> EndOf(x)], shown>>
  <2>1. ~LastScheduled(t)
    BY <1>4, ActiveTurn DEF Open
  <2>2. [x \in Turn |-> EndOf(x)]' = [x \in Turn |-> EndOf(x)]
    BY <1>4, <2>1, UpdateEndsNothing
  <2> QED BY <1>4, <2>2
<1>5. CASE Update
  BY <1>4, <1>5 DEF Update
<1>6. CASE \E t \in Turn : AnimationTick(t)
  BY <1>4, <1>6 DEF AnimationTick
<1>7. ASSUME NEW h \in Finishers, NEW t \in Turn, NEW k \in {"final", "abandon"},
             BeginFinish(h, t, k)
      PROVE  [OE!Next]_<<[x \in Turn |-> EndOf(x)], shown>>
  <2>1. ~LastScheduled(t) /\ shown' = shown
    BY <1>7, ActiveTurn DEF BeginFinish, Open
  <2>2. CASE Finish(h, t, k)
    BY <2>1, <2>2, FinishEnds
  <2>3. CASE calls' = calls
    BY <1>1, <2>1, <2>3
  <2> QED BY <1>7, <2>2, <2>3 DEF BeginFinish
<1>8. CASE Complete \/ Abandon
  <2>1. PICK h \in Finishers, t \in Turn, k \in {"final", "abandon"} : BeginFinish(h, t, k)
    BY <1>8 DEF Complete, Abandon, Finishers
  <2> QED BY <1>7, <2>1
<1>9. ASSUME NEW h \in Finishers, Drained(h) \/ DrainTimeout(h)
      PROVE  OE!Next
  <2> DEFINE t == finisher[h].turn
  <2>1. finisher[h] # Nobody /\ Finish(h, t, LastCall(h)) /\ shown' = shown
    BY <1>9 DEF Drained, DrainTimeout
  <2>2. t \in Turn /\ ~LastScheduled(t) /\ LastCall(h) \in {"final", "abandon"}
    BY <2>1, TurnsAssumption DEF IInv, EndingAlone, TypeOK, Turn, LastCall
  <2> QED BY <2>1, <2>2, FinishEnds
<1>10. CASE \/ Register \/ CardCreated \/ CardRefused \/ AbandonEarly \/ UNCHANGED vars
            \/ \E h \in Finishers : DrainRaises(h)
            \/ \E t \in Turn : AnimationResumes(t) \/ AnimationStops(t)
  BY <1>1, <1>10 DEF Register, CardCreated, CardRefused, AbandonEarly, vars, DrainRaises, AnimationResumes, AnimationStops
<1> QED BY <1>2, <1>3, <1>5, <1>6, <1>8, <1>9, <1>10 DEF Next

\* CardTurns implements OneEnd: whichever handlers end the turns of a key, each
\* ends once and its card says so once that is scheduled, and for good
\* (server.py, the terminal branch of the handler, and flush.py: one task
\* renders at a time, and only the latest update).
THEOREM TurnsEndOnce == Spec => EndsOnce
<1>1. Init => OE!Init
  <2> SUFFICES ASSUME Init PROVE OE!Init
    OBVIOUS
  <2>1. \A t \in Turn : EndOf(t) = "none"
    BY DEF Init, EndOf
  <2> QED BY <2>1 DEF Init, OE!Init
<1>2. IInv /\ [Next]_vars => [OE!Next]_<<[t \in Turn |-> EndOf(t)], shown>>
  BY EndStep
<1> QED BY <1>1, <1>2, TurnsInvariant, PTL DEF Spec, EndsOnce, OE!Spec
=============================================================================
