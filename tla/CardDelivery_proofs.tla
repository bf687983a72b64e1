------------------------- MODULE CardDelivery_proofs -------------------------
(***************************************************************************)
(* Proofs about the two specifications of how one card is kept up to date. *)
(* FlushController, for any number of updates and whether or not           *)
(* renderings fail: no scheduled update is left behind by a task that did  *)
(* not fail, and every step is a step of LatestWins or changes nothing it  *)
(* sees.  CardRestart, for any number of crashes: what no crash takes      *)
(* away.  Each theorem names the specification it is about.                *)
(***************************************************************************)
EXTENDS FlushController, CardRestart, TLAPS

(***************************************************************************)
(* FlushController.                                                        *)
(***************************************************************************)

\* What "closed" and "terminal" mean: only the finisher closes, once, and a
\* pass is final only after that, when nothing can come in behind it.
Sealing ==
    /\ c.closed <=> finisher = "done"
    /\ c.pendingTerminal => c.closed
    /\ c.final => c.closed
    /\ c.phase = "rendering" /\ c.final => ~c.pending

\* Where the latest update is while a task is active: being rendered, or
\* announced to the task by the pending flag or by its next pass.
Carried ==
    /\ TaskActive(c) => c.task > 0 /\ c.task \notin failed
    /\ c.phase \in {"created", "sleeping"} => begun < c.latest
    /\ c.phase = "rendering" =>
           IF c.pending THEN begun < c.latest ELSE begun = c.latest

FlushIInv == FlushTypeOK /\ Sealing /\ Carried /\ IdleMeansLatest

-----------------------------------------------------------------------------
\* A task takes the latest update and starts to render it.
LEMMA TakenStep ==
    ASSUME FlushIInv, TaskActive(c), begun < c.latest,
           NEW final \in BOOLEAN, final => c.pendingTerminal,
           Becomes(Taken(c, final)),
           UNCHANGED <<finisher, awaited, terminal, failed>>
    PROVE  FlushIInv' /\ [LW!Next]_(LW!vars)
<1>1. /\ c' \in Controller /\ c'.phase = "rendering" /\ (c'.final = final)
      /\ c'.latest = c.latest /\ c'.task = c.task /\ c'.closed = c.closed
      /\ ~c'.pending /\ ~c'.pendingTerminal /\ begun' = c.latest
  BY DEF FlushIInv, FlushTypeOK, Controller, Taken, Becomes
<1>2. FlushTypeOK' /\ IdleMeansLatest'
  BY <1>1 DEF FlushIInv, FlushTypeOK, Controller, IdleMeansLatest, TaskActive
<1>3. Sealing' /\ Carried'
  BY <1>1 DEF FlushIInv, Sealing, Carried, TaskActive
<1>4. LW!Display  BY <1>1 DEF LW!Display
<1> QED BY <1>2, <1>3, <1>4 DEF FlushIInv, LW!Next

\* At the top of its loop the task takes the latest update or sleeps first.
LEMMA TopsStep ==
    ASSUME FlushIInv, TaskActive(c), begun < c.latest,
           NEW d \in Tops(c), Becomes(d),
           UNCHANGED <<finisher, awaited, terminal, failed>>
    PROVE  FlushIInv' /\ [LW!Next]_(LW!vars)
<1>1. CASE d = Taken(c, TRUE) /\ c.pendingTerminal  BY <1>1, TakenStep
<1>2. CASE d = Taken(c, FALSE)  BY <1>2, TakenStep
<1>3. CASE d = [c EXCEPT !.phase = "sleeping", !.final = FALSE]
  <2>1. /\ c' \in Controller /\ c'.phase = "sleeping" /\ ~c'.final
        /\ c'.latest = c.latest /\ c'.task = c.task /\ c'.closed = c.closed
        /\ c'.pending = c.pending /\ c'.pendingTerminal = c.pendingTerminal
        /\ begun' = begun
    BY <1>3 DEF FlushIInv, FlushTypeOK, Controller, Becomes
  <2>2. FlushTypeOK' /\ IdleMeansLatest'
    BY <2>1 DEF FlushIInv, FlushTypeOK, IdleMeansLatest, TaskActive
  <2>3. Sealing' /\ Carried'
    BY <2>1 DEF FlushIInv, Sealing, Carried, TaskActive
  <2> QED BY <2>1, <2>2, <2>3 DEF FlushIInv, LW!vars
<1> QED BY <1>1, <1>2, <1>3 DEF Tops

\* What schedule() leaves, whether it joined a task or started one.
LEMMA ScheduledFacts ==
    ASSUME c \in Controller, NEW u \in Nat, NEW t \in BOOLEAN,
           NEW d, d = Scheduled(c, u, t)
    PROVE  /\ d \in Controller
           /\ TaskActive(d) /\ d.latest = u /\ d.closed = c.closed
           /\ d.final = c.final /\ (d.pending <=> TaskActive(c))
           /\ d.pendingTerminal <=> (TaskActive(c) /\ c.pendingTerminal) \/ t
           /\ TaskActive(c) => d.phase = c.phase /\ d.task = c.task
           /\ ~TaskActive(c) => d.phase = "created" /\ d.task = c.task + 1
<1> USE DEF Controller, TaskActive
<1>2. CASE TaskActive(c)
  <2> DEFINE pt == c.pendingTerminal \/ t
  <2>1. d = [c EXCEPT !.latest = u, !.pending = TRUE, !.pendingTerminal = pt]
    BY <1>2 DEF Scheduled
  <2>2. pt \in BOOLEAN  OBVIOUS
  <2>3. pt <=> (c.pendingTerminal \/ t)  OBVIOUS
  <2> HIDE DEF pt
  <2>4. d.pendingTerminal = pt  BY <2>1, <2>2
  <2>5. /\ d \in Controller /\ TaskActive(d) /\ d.latest = u
        /\ d.closed = c.closed /\ d.final = c.final /\ d.pending
        /\ d.phase = c.phase /\ d.task = c.task
    BY <1>2, <2>1, <2>2
  <2>6. d.pendingTerminal <=> (TaskActive(c) /\ c.pendingTerminal) \/ t
    BY <1>2, <2>3, <2>4, Zenon
  <2> HIDE DEF Controller, TaskActive
  <2> QED BY <1>2, <2>5, <2>6
<1>3. CASE ~TaskActive(c)
  <2> DEFINE k == c.task + 1
  <2>0. k \in Nat  OBVIOUS
  <2>1. d = [c EXCEPT !.latest = u, !.phase = "created", !.task = k,
                      !.pending = FALSE, !.pendingTerminal = t]
    BY <1>3 DEF Scheduled
  <2> HIDE DEF k
  <2>2. /\ d \in Controller /\ TaskActive(d) /\ d.latest = u
        /\ d.closed = c.closed /\ d.final = c.final /\ d.pending = FALSE
        /\ d.pendingTerminal = t /\ d.phase = "created" /\ d.task = k
    BY <1>3, <2>0, <2>1
  <2> HIDE DEF Controller, TaskActive
  <2> QED BY <1>3, <2>2 DEF k
<1> QED BY <1>2, <1>3

\* An update, terminal or not, that schedule() accepts before the close.
LEMMA SubmitFacts ==
    ASSUME FlushIInv, ~c.closed, NEW t \in BOOLEAN, NEW d \in Controller,
           d.closed = t, begun' = begun, failed' = failed,
           d.latest = c.latest + 1,
           \E e \in Controller : /\ e = Scheduled(c, c.latest + 1, t)
                                 /\ d = [e EXCEPT !.closed = t],
           c' = d
    PROVE  /\ c'.closed = t /\ c'.pendingTerminal = t /\ ~c'.final
           /\ c'.latest = c.latest + 1 /\ c'.task >= c.task
           /\ Carried' /\ IdleMeansLatest'
           /\ LW!Submit
<1> USE DEF FlushTypeOK, Controller
<1>1. PICK e \in Controller : /\ e = Scheduled(c, c.latest + 1, t)
                              /\ d = [e EXCEPT !.closed = t]
  OBVIOUS
<1>2. c \in Controller /\ c.latest + 1 \in Nat  BY DEF FlushIInv
<1>3. /\ TaskActive(e) /\ e.latest = c.latest + 1 /\ e.final = c.final
      /\ e.pending <=> TaskActive(c)
      /\ e.pendingTerminal <=> (TaskActive(c) /\ c.pendingTerminal) \/ t
      /\ TaskActive(c) => e.phase = c.phase /\ e.task = c.task
      /\ ~TaskActive(c) => e.phase = "created" /\ e.task = c.task + 1
  BY <1>1, <1>2, ScheduledFacts
<1>4. /\ d.phase = e.phase /\ d.task = e.task /\ d.final = e.final
      /\ d.latest = e.latest /\ d.pending = e.pending
      /\ d.pendingTerminal = e.pendingTerminal
  BY <1>1
<1>5. ~c.pendingTerminal /\ ~c.final  BY DEF FlushIInv, Sealing
<1>6. d.pendingTerminal = t /\ ~d.final  BY <1>3, <1>4, <1>5
<1>7. d.task >= c.task  BY <1>2, <1>3, <1>4
<1>8. Carried'
  <2>1. begun <= c.latest /\ failed \subseteq 1 .. c.task /\ begun \in Nat
    BY DEF FlushIInv
  <2>2. CASE TaskActive(c)
    BY <1>2, <1>3, <1>4, <2>1, <2>2 DEF FlushIInv, Carried, TaskActive
  <2>3. CASE ~TaskActive(c)
    BY <1>2, <1>3, <1>4, <2>1, <2>3 DEF FlushIInv, Carried, TaskActive
  <2> QED BY <2>2, <2>3
<1>9. IdleMeansLatest'  BY <1>3, <1>4 DEF IdleMeansLatest, TaskActive
<1>10. LW!Submit  BY DEF LW!Submit
<1> QED BY <1>6, <1>7, <1>8, <1>9, <1>10

LEMMA FinishStep ==
    ASSUME FlushIInv, finisher \in {"idle", "draining"}, FinishTurn, awaited' \in 0 .. c.task
    PROVE  FlushIInv' /\ LW!Submit
<1> DEFINE e == Scheduled(c, c.latest + 1, TRUE)
           d == Close(e)
<1>1. c \in Controller /\ ~c.closed /\ c.latest + 1 \in Nat
  BY DEF FlushIInv, FlushTypeOK, Controller, Sealing
<1>2. /\ c' = d /\ terminal' = c.latest + 1 /\ finisher' = "done"
      /\ begun' = begun /\ failed' = failed
  BY DEF FinishTurn
<1>3. e \in Controller /\ e.latest = c.latest + 1 /\ TaskActive(e)
  BY <1>1, ScheduledFacts
<1>4. /\ d = [e EXCEPT !.closed = TRUE] /\ d \in Controller
      /\ d.closed = TRUE /\ d.latest = e.latest /\ TaskActive(d) /\ d.phase = e.phase
      /\ d.pending = e.pending /\ d.final = e.final
  BY <1>3 DEF Close, Controller, TaskActive
<1> HIDE DEF d, e
<1>5. /\ c'.closed = TRUE /\ c'.pendingTerminal = TRUE /\ ~c'.final
      /\ c'.latest = c.latest + 1 /\ c'.task >= c.task
      /\ Carried' /\ IdleMeansLatest' /\ LW!Submit
  <2>1. \E x \in Controller : /\ x = Scheduled(c, c.latest + 1, TRUE)
                              /\ d = [x EXCEPT !.closed = TRUE]
    BY <1>3, <1>4 DEF e
  <2> QED BY <1>1, <1>2, <1>3, <1>4, <2>1, SubmitFacts
<1>6. FlushTypeOK'
  <2>1. c'.task \in Nat /\ c.task \in Nat /\ c.latest \in Nat
    BY <1>1, <1>2, <1>4 DEF Controller
  <2> QED BY <1>2, <1>4, <1>5, <2>1 DEF FlushIInv, FlushTypeOK
<1>7. Sealing'  BY <1>2, <1>5 DEF Sealing
<1> QED BY <1>5, <1>6, <1>7 DEF FlushIInv

\* Every step keeps the invariant and is a step of LatestWins, or changes
\* nothing that LatestWins sees.
LEMMA FlushStep == FlushIInv /\ [FlushNext]_flushVars => FlushIInv' /\ [LW!Next]_(LW!vars)
<1> SUFFICES ASSUME FlushIInv, [FlushNext]_flushVars
             PROVE  FlushIInv' /\ [LW!Next]_(LW!vars)
  OBVIOUS
<1> USE DEF FlushIInv
<1>1. CASE Schedule
  <2> DEFINE d == Scheduled(c, c.latest + 1, FALSE)
  <2>1. /\ c \in Controller /\ ~c.closed /\ c.latest + 1 \in Nat
        /\ c' = d /\ begun' = begun /\ finisher' = finisher /\ awaited' = awaited
        /\ terminal' = terminal /\ failed' = failed
    BY <1>1 DEF Schedule, Admits, FlushTypeOK, Controller
  <2> HIDE DEF d
  <2>2. d \in Controller /\ d.closed = FALSE /\ d.latest = c.latest + 1
    <3>1. d \in Controller /\ d.latest = c.latest + 1 /\ d.closed = c.closed
      <4> DEFINE n == c.latest + 1
      <4>1. n \in Nat /\ c \in Controller  BY <2>1
      <4> HIDE DEF n
      <4>2. \A x : x = Scheduled(c, n, FALSE) =>
                x \in Controller /\ x.latest = n /\ x.closed = c.closed
        BY <4>1, ScheduledFacts
      <4>3. d = Scheduled(c, n, FALSE)  BY DEF d, n
      <4> QED BY <4>2, <4>3 DEF n
    <3>2. c.closed \in BOOLEAN  BY <2>1 DEF Controller
    <3> QED BY <2>1, <3>1, <3>2
  <2>3. d = [d EXCEPT !.closed = FALSE]  BY <2>2 DEF Controller
  <2>4. /\ c'.closed = FALSE /\ c'.pendingTerminal = FALSE /\ ~c'.final
        /\ c'.latest = c.latest + 1 /\ c'.task >= c.task
        /\ Carried' /\ IdleMeansLatest' /\ LW!Submit
    <3>1. \E x \in Controller : /\ x = Scheduled(c, c.latest + 1, FALSE)
                                /\ d = [x EXCEPT !.closed = FALSE]
      BY <2>2, <2>3 DEF d
    <3> QED BY <2>1, <2>2, <3>1, SubmitFacts
  <2>5. FlushTypeOK'
    <3>1. c'.task \in Nat /\ c.task \in Nat /\ c.latest \in Nat
      BY <2>1, <2>2 DEF Controller
    <3> QED BY <2>1, <2>2, <2>4, <3>1 DEF FlushTypeOK
  <2>6. Sealing'  BY <2>1, <2>4 DEF Sealing
  <2> QED BY <2>4, <2>5, <2>6 DEF LW!Next
<1>2. CASE BeginTerminal
  <2>1. CASE TaskActive(c)
    <3>1. /\ finisher = "idle" /\ finisher' = "draining" /\ awaited' = c.task
          /\ UNCHANGED <<c, begun, terminal, failed>>
      BY <1>2, <2>1 DEF BeginTerminal
    <3>2. FlushTypeOK'  BY <3>1 DEF FlushTypeOK, Controller
    <3>3. Sealing' /\ Carried' /\ IdleMeansLatest'
      BY <3>1 DEF Sealing, Carried, IdleMeansLatest, TaskActive
    <3> QED BY <3>1, <3>2, <3>3 DEF LW!vars
  <2>2. CASE ~TaskActive(c)
    <3>1. finisher = "idle" /\ FinishTurn /\ awaited' = awaited
      BY <1>2, <2>2 DEF BeginTerminal
    <3> QED BY <3>1, FinishStep DEF FlushTypeOK, LW!Next
  <2> QED BY <2>1, <2>2
<1>3. CASE Drained
  BY <1>3, FinishStep DEF Drained, FlushTypeOK, LW!Next
<1>4. CASE DrainTimeout
  BY <1>4, FinishStep DEF DrainTimeout, FlushTypeOK, LW!Next
<1>5. CASE DrainRaises
  <2>1. /\ finisher = "draining" /\ finisher' = "aborted"
        /\ UNCHANGED <<c, begun, awaited, terminal, failed>>
    BY <1>5 DEF DrainRaises
  <2>2. FlushTypeOK'  BY <2>1 DEF FlushTypeOK
  <2>3. Sealing' /\ Carried' /\ IdleMeansLatest'
    BY <2>1 DEF Sealing, Carried, IdleMeansLatest, TaskActive
  <2> QED BY <2>1, <2>2, <2>3 DEF LW!vars
<1>6. CASE StartTask
  BY <1>6, TopsStep DEF StartTask, TaskActive, Carried
<1>7. CASE WakeUp
  <2>1. /\ TaskActive(c) /\ begun < c.latest /\ Becomes(Taken(c, FALSE))
        /\ UNCHANGED <<finisher, awaited, terminal, failed>>
    BY <1>7 DEF WakeUp, TaskActive, Carried
  <2> QED BY <2>1, TakenStep
<1>8. CASE RenderDone
  <2>1. PICK d \in AfterRender(c) : Becomes(d)
    BY <1>8 DEF RenderDone
  <2>2. c.phase = "rendering" /\ UNCHANGED <<finisher, awaited, terminal, failed>>
    BY <1>8 DEF RenderDone
  <2>3. CASE c.final \/ ~c.pending
    <3>1. d = TaskEnds(c) /\ begun = c.latest
      BY <2>1, <2>2, <2>3 DEF AfterRender, Sealing, Carried
    <3>2. /\ c' \in Controller /\ c'.phase = "none" /\ begun' = begun
          /\ c'.latest = c.latest /\ c'.task = c.task /\ c'.closed = c.closed
          /\ c'.pendingTerminal = c.pendingTerminal /\ c'.final = c.final
      BY <2>1, <3>1 DEF Becomes, TaskEnds, FlushTypeOK, Controller
    <3>3. FlushTypeOK'  BY <2>2, <3>2 DEF FlushTypeOK
    <3>4. Sealing' /\ Carried' /\ IdleMeansLatest'
      BY <2>2, <3>1, <3>2 DEF Sealing, Carried, IdleMeansLatest, TaskActive
    <3> QED BY <3>2, <3>3, <3>4 DEF LW!vars
  <2>4. CASE ~(c.final \/ ~c.pending)
    <3>1. d \in Tops(c) /\ TaskActive(c) /\ begun < c.latest
      BY <2>1, <2>2, <2>4 DEF AfterRender, TaskActive, Carried
    <3> QED BY <2>1, <2>2, <3>1, TopsStep
  <2> QED BY <2>3, <2>4
<1>9. CASE TaskFails
  <2>1. /\ TaskActive(c) /\ c' = TaskEnds(c) /\ failed' = failed \cup {c.task}
        /\ UNCHANGED <<begun, finisher, awaited, terminal>>
    BY <1>9 DEF TaskFails
  <2>2. /\ c' \in Controller /\ c'.phase = "none"
        /\ c'.latest = c.latest /\ c'.task = c.task /\ c'.closed = c.closed
        /\ c'.pendingTerminal = c.pendingTerminal /\ c'.final = c.final
    BY <2>1 DEF TaskEnds, FlushTypeOK, Controller
  <2>3. c.task > 0 /\ c.task \in Nat  BY <2>1 DEF Carried, FlushTypeOK, Controller
  <2>4. FlushTypeOK'
    <3>1. failed' \subseteq 1 .. c'.task
      <4>1. c.task \in 1 .. c.task  BY <2>3
      <4>2. failed \subseteq 1 .. c.task  BY DEF FlushTypeOK
      <4>3. c'.task = c.task  BY <2>2
      <4> QED BY ONLY <4>1, <4>2, <4>3, <2>1
    <3>2. begun' \in 0 .. c'.latest /\ awaited' \in 0 .. c'.task
          /\ terminal' \in 0 .. c'.latest
      BY <2>1, <2>2 DEF FlushTypeOK
    <3> QED BY <2>1, <2>2, <3>1, <3>2 DEF FlushTypeOK
  <2>5. Sealing' /\ Carried' /\ IdleMeansLatest'
    BY <2>1, <2>2 DEF Sealing, Carried, IdleMeansLatest, TaskActive
  <2> QED BY <2>1, <2>2, <2>4, <2>5 DEF LW!vars
<1>10. CASE UNCHANGED flushVars
  BY <1>10 DEF flushVars, LW!vars, FlushTypeOK, Sealing, Carried, IdleMeansLatest, TaskActive
<1> QED BY <1>1, <1>2, <1>3, <1>4, <1>5, <1>6, <1>7, <1>8, <1>9, <1>10 DEF FlushNext

LEMMA FlushInitially == FlushInit => FlushIInv /\ LW!Init
BY DEF FlushInit, FlushIInv, FlushTypeOK, Sealing, Carried, IdleMeansLatest, NewController,
       Controller, TaskActive, LW!Init

\* The inductive invariant of the controller and its handlers; it contains
\* the type invariant.
THEOREM FlushInvariant == FlushSpec => []FlushIInv
BY FlushInitially, FlushStep, PTL DEF FlushSpec

\* The type invariant, for any number of updates and drains.
THEOREM FlushTypes == FlushSpec => []FlushTypeOK
<1>1. FlushIInv => FlushTypeOK  BY DEF FlushIInv
<1> QED BY <1>1, FlushInvariant, PTL

\* No lost wake-up: a task that ends without failing leaves no update behind,
\* whatever schedule() calls came in while it slept or rendered.
THEOREM FlushIdleMeansLatest == FlushSpec => []IdleMeansLatest
<1>1. FlushIInv => IdleMeansLatest  BY DEF FlushIInv
<1> QED BY <1>1, FlushInvariant, PTL

\* The controller implements the safety of LatestWins, even when renderings
\* fail: newer updates only, and nothing after the terminal one.
THEOREM FlushDisplaysLatest == FlushSpec => DisplaysLatest
<1>1. FlushSpec => LW!Spec
  BY FlushInitially, FlushStep, FlushInvariant, PTL DEF FlushSpec, LW!Spec
<1> QED BY <1>1 DEF DisplaysLatest

-----------------------------------------------------------------------------
(***************************************************************************)
(* CardRestart.                                                            *)
(***************************************************************************)

\* The statuses of the session in memory and of its checkpoint.
Statuses == {"active", "asking", "ended", "expired"}
KnownStatus == mem.status \in Statuses /\ disk.status \in Statuses

\* A handler that drains has applied the end of its turn.
DrainingHasEnded == handler # "idle" => mem.status \in Settled

\* The delivery of a turn's end belongs to a turn that has ended.
DeliveryHasEnded ==
    {want, sending.what} \cap {"final", "replaced", "recovery"} # {} => mem.status \in Settled

\* The session in memory is never behind a settled checkpoint.
MemoryNotBehind == disk.status \in Settled => mem.status \in Settled \/ ~up

\* A crash ends every handler and delivery, and settles what becomes of a gap.
NothingSurvives == ~up => handler = "idle" /\ want = "none" /\ sending = Idle /\ gap # "open"

\* What nobody has saved yet is the end of the turn.
OpenHasEnded == gap = "open" => mem.status \in Settled

\* A turn that is over in memory is over for a restart too, unless a save failed,
\* or was left out, or is what the handler is going to do.
EndKept ==
    up /\ ~unsaved /\ gap = "none" /\ mem.status \in Settled /\ handler # "direct"
        => disk.status \in Settled \cup {"asking"}

\* Nobody was answered before the turn was over.
AnsweredHasEnded == up /\ answered /\ ~unsaved /\ gap = "none" => mem.status \in Settled

IInv == /\ NothingSurvives /\ KnownStatus /\ DrainingHasEnded /\ DeliveryHasEnded /\ MemoryNotBehind
        /\ OpenHasEnded /\ EndKept /\ AnsweredHasEnded
        /\ AnsweredIsDurable

USE DEF IInv, NothingSurvives, Idle, KnownStatus, DrainingHasEnded, DeliveryHasEnded, MemoryNotBehind,
        OpenHasEnded, EndKept, AnsweredHasEnded,
        AnsweredIsDurable, Restored, Statuses, Settled, Live, Turn, Ended

LEMMA Initially == Init => IInv
BY DEF Init

LEMMA Step == IInv /\ [Next]_vars => IInv'
<1> SUFFICES ASSUME IInv, [Next]_vars PROVE IInv'
  OBVIOUS
<1>1. CASE Update
  BY <1>1 DEF Update, Save, feishu
<1>2. CASE Accept
  BY <1>2 DEF Accept, Accepted, LeftUnsaved, store, feishu
<1>3. CASE Finish
  BY <1>3 DEF Finish, Schedules, Save, feishu
<1>4. CASE Late
  BY <1>4 DEF Late, Save, local, feishu
<1>14. CASE Abandon
  BY <1>14 DEF Abandon, LeftUnsaved, store, feishu
<1>15. CASE FinishAliased \/ FinishAbandonment
  BY <1>15 DEF FinishAliased, FinishAbandonment, Schedules, NothingToSave, store, feishu
<1>16. CASE AnsweredElsewhere
  BY <1>16 DEF AnsweredElsewhere, store, local, feishu
<1>5. CASE BeginRendering
  BY <1>5 DEF BeginRendering, store, feishu
<1>6. CASE PatchOk
  <2>1. CASE sending.what = "final"
    BY <1>6, <2>1 DEF PatchOk, Save
  <2>2. CASE sending.what # "final"
    BY <1>6, <2>2 DEF PatchOk, store
  <2> QED  BY <2>1, <2>2
<1>7. CASE PatchFails
  <2>1. mem' = mem \/ (sending.what = "final" /\ mem'.status \in Settled)
    BY <1>7 DEF PatchFails, AfterFailure
  <2>2. sending'.what \in {"final", "recovery"} => sending.what = "final"
    BY <1>7 DEF PatchFails, Patches
  <2>4. sending'.what = "replaced" => sending.what = "replaced"
    BY <1>7 DEF PatchFails
  <2>3. mem'.status \in Statuses /\ up /\ UNCHANGED <<disk, unsaved, gap, want, handler, up, answered>>
    BY <1>7 DEF PatchFails, AfterFailure, store
  <2> QED  BY <2>1, <2>2, <2>3, <2>4
<1>8. CASE RecoveryReturns
  <2>1. mem'.status \in Settled /\ mem'.status \in Statuses
    BY <1>8 DEF RecoveryReturns
  <2>2. \/ disk' = mem' /\ unsaved' = unsaved /\ gap' = (IF gap = "open" THEN "none" ELSE gap)
        \/ disk' = disk /\ unsaved' = TRUE /\ gap' = gap
    BY <1>8 DEF RecoveryReturns, Save
  <2>3. sending' = Idle /\ UNCHANGED <<up, handler, want, answered>> /\ up
    BY <1>8 DEF RecoveryReturns
  <2> QED  BY <2>1, <2>2, <2>3
<1>9. CASE Crash
  BY <1>9 DEF Crash, store
<1>10. CASE Restart
  BY <1>10 DEF Restart, store, feishu
<1>11. CASE RefreshBegins
  BY <1>11 DEF RefreshBegins, store, feishu
<1>12. CASE RefreshReturns
  BY <1>12 DEF RefreshReturns, store
<1>13. CASE UNCHANGED vars
  BY <1>13 DEF vars
<1> QED
  BY <1>1, <1>2, <1>3, <1>4, <1>5, <1>6, <1>7, <1>8, <1>9, <1>10, <1>11,
     <1>12, <1>13, <1>14, <1>15, <1>16 DEF Next

HIDE DEF IInv, NothingSurvives, KnownStatus, DrainingHasEnded, DeliveryHasEnded, MemoryNotBehind,
         OpenHasEnded, EndKept, AnsweredHasEnded, AnsweredIsDurable, Restored, Statuses, Turn, Ended

\* The strengthening that makes AnsweredIsDurable inductive: whoever answers or
\* saves has a turn in memory that has ended, and what is not saved is known (gap).
THEOREM RestartInvariant == Spec => []IInv
<1>1. Init => IInv
  BY Initially
<1>2. IInv /\ [Next]_vars => IInv'
  BY Step
<1> QED  BY <1>1, <1>2, PTL DEF Spec

\* For any number of crashes, updates and attempts: once Hermes has its answer
\* (the handlers of a turn's end), a restart finds that the turn is over, unless a
\* save failed, or the end came by an alias or a replacement and is not saved yet.
THEOREM RestartAnsweredIsDurable == Spec => []AnsweredIsDurable
<1>1. IInv => AnsweredIsDurable
  BY DEF IInv
<1> QED  BY <1>1, RestartInvariant, PTL

-----------------------------------------------------------------------------
(* Types. *)

Sessions == {Turn(s) : s \in {"active", "asking", "expired"}} \cup {Ended(d) : d \in Deliveries}

LEMMA EndedIsSession == \A d \in Deliveries : Ended(d) \in Sessions
BY DEF Sessions

LEMMA ActiveIsSession == \A s \in {"active", "asking", "expired"} : Turn(s) \in Sessions
BY DEF Sessions

LEMMA TypesInit == Init => TypeOK
<1> SUFFICES ASSUME Init PROVE TypeOK
  OBVIOUS
<1>1. {mem, disk} \subseteq Sessions
  BY ActiveIsSession DEF Init
<1>2. /\ sending \in [what : {"none", "update", "final", "recovery"}, tries : 0 .. MaxTries]
      /\ crashes \in 0 .. MaxCrashes /\ updates \in 0 .. MaxUpdates
  BY RestartAssumption DEF Init
<1> QED  BY <1>1, <1>2 DEF Init, TypeOK, Sessions

LEMMA TypesStep == TypeOK /\ [Next]_vars => TypeOK'
<1> SUFFICES ASSUME TypeOK, [Next]_vars PROVE TypeOK'
  OBVIOUS
<1>0. mem \in Sessions /\ disk \in Sessions
  BY DEF TypeOK, Sessions
<1>t. \A s \in Sessions : s.status \notin Live => s.status \in {"ended", "expired"}
  BY DEF Sessions, Turn, Ended
<1> USE DEF Next, vars, Update, Accept, Abandon, Finish, FinishAliased, FinishAbandonment, Late,
           AnsweredElsewhere, BeginRendering, PatchOk, PatchFails, RecoveryReturns, Crash, Restart,
           RefreshBegins, RefreshReturns
<1>1. mem' \in Sessions /\ disk' \in Sessions
  <2>2. mem' \in Sessions
    <3>1. CASE Update
      BY <3>1, ActiveIsSession
    <3>2. CASE Accept \/ Abandon \/ PatchOk \/ PatchFails \/ RecoveryReturns
      BY <1>0, <3>2, EndedIsSession DEF Accepted, AfterFailure, Deliveries
    <3>3. CASE Restart
      BY <1>0, <3>3, ActiveIsSession DEF Restored
    <3>4. CASE UNCHANGED mem
      BY <1>0, <3>4
    <3> QED
      BY <3>1, <3>2, <3>3, <3>4 DEF Schedules
  <2>3. disk' \in {disk, mem'}
    BY DEF Save, LeftUnsaved, NothingToSave, store
  <2> QED  BY <1>0, <2>2, <2>3
<1>2. unsaved' \in BOOLEAN /\ gap' \in {"none", "open", "lost"}
  BY DEF TypeOK, Save, LeftUnsaved, NothingToSave, store
<1>8. up' \in BOOLEAN /\ touched' \in BOOLEAN
  BY DEF TypeOK, Schedules, local
<1>9. outage' \in BOOLEAN /\ recovery' \in BOOLEAN
  BY DEF TypeOK, Schedules, feishu
<1>10. answered' \in BOOLEAN
  BY DEF TypeOK
<1>3. handler' \in {"idle", "direct", "aliased", "replacing"}
  BY DEF TypeOK, Schedules, local
<1>11. want' \in {"none", "update", "final", "replaced"}
  BY DEF TypeOK, Schedules, local
<1>12. sending' \in [what : {"none", "update", "final", "replaced", "recovery"}, tries : 0 .. MaxTries]
  <2>1. CASE UNCHANGED sending
    BY <2>1 DEF TypeOK
  <2>2. CASE sending' = Idle
    BY <2>2, RestartAssumption DEF Idle
  <2>3. CASE BeginRendering \/ PatchFails
    BY <2>3, RestartAssumption DEF TypeOK, Idle
  <2> QED  BY <2>1, <2>2, <2>3 DEF local, Schedules
<1>4. refresh' \in {"none", "ready", "reconnecting", "expired", "ended"}
  BY <1>0, <1>t DEF TypeOK, Schedules, local, Refreshed
<1>5. card' \in {"running", "reconnecting", "expired", "ended"}
  BY DEF TypeOK, Schedules, feishu, Sent
<1>6. crashes' \in 0 .. MaxCrashes /\ updates' \in 0 .. MaxUpdates
  <2>1. CASE Crash \/ Update
    BY <2>1, RestartAssumption DEF TypeOK
  <2>2. CASE UNCHANGED <<crashes, updates>>
    BY <2>2 DEF TypeOK
  <2> QED  BY <2>1, <2>2 DEF Schedules
<1>7. {mem, disk}' \subseteq Sessions
  BY <1>1
<1> QED
  BY <1>2, <1>3, <1>4, <1>5, <1>6, <1>7, <1>8, <1>9, <1>10, <1>11, <1>12 DEF TypeOK, Sessions

\* The type invariant: among others, a delivery state goes with an ended turn.
THEOREM RestartTypes == Spec => []TypeOK
BY TypesInit, TypesStep, PTL DEF Spec

-----------------------------------------------------------------------------
(* What takes the end of the turn off the card again. *)

\* The card shows that the turn is over, or something is under way that will.
Over == \/ {card, refresh} \cap Settled # {}
        \/ {want, sending.what} \cap {"final", "replaced", "recovery"} # {}

Lossless == ~unsaved /\ gap # "lost"

\* Then no crash brings the turn back unnoticed: the session is settled, or its
\* checkpoint holds a question, which a restart gives up, or its gap is open.
OverForGood ==
    Lossless /\ Over => /\ up => mem.status \in Settled
                        /\ disk.status \in Settled \cup {"asking"} \/ gap = "open"

\* No update is behind the end on its way to the card, or behind what settled it.
NoLateUpdate ==
    Lossless /\ (card \in Settled \/ sending.what \in {"final", "replaced", "recovery"})
        => "update" \notin {want, sending.what}

\* A turn that was over at the restart has nothing under way but the refresh, and
\* a refresh that says otherwise began before the turn ended.
RestoredIsQuiet ==
    /\ up /\ ~touched /\ mem.status \in Settled
           => want = "none" /\ sending = Idle /\ handler = "idle"
    /\ refresh \in Settled => up /\ ~touched /\ mem.status \in Settled
    /\ refresh = "reconnecting" => up /\ (touched \/ mem.status \in Live)

HideInv == IInv /\ TypeOK /\ OverForGood /\ NoLateUpdate /\ RestoredIsQuiet

LEMMA HideInitially == Init => HideInv
<1>1. ASSUME Init PROVE OverForGood /\ NoLateUpdate /\ RestoredIsQuiet
  BY <1>1 DEF Init, OverForGood, NoLateUpdate, RestoredIsQuiet, Over, Lossless, Turn, Idle, Settled
<1> QED  BY <1>1, Initially, TypesInit DEF HideInv

\* What the proofs below use of the invariants proved above.
Known ==
    /\ mem.status \in Live \cup Settled /\ disk.status \in Live \cup Settled
    /\ handler # "idle" => mem.status \in Settled
    /\ {want, sending.what} \cap {"final", "replaced", "recovery"} # {} => mem.status \in Settled
    /\ disk.status \in Settled => mem.status \in Settled \/ ~up
    /\ ~up => handler = "idle" /\ want = "none" /\ sending = Idle /\ gap # "open"
    /\ gap = "open" => mem.status \in Settled
    /\ up /\ ~unsaved /\ gap = "none" /\ mem.status \in Settled /\ handler # "direct"
          => disk.status \in Settled \cup {"asking"}
    /\ unsaved \in BOOLEAN /\ gap \in {"none", "open", "lost"}
    /\ handler \in {"idle", "direct", "aliased", "replacing"}
    /\ want \in {"none", "update", "final", "replaced"}
    /\ sending.what \in {"none", "update", "final", "replaced", "recovery"}
    /\ refresh \in {"none", "ready", "reconnecting", "expired", "ended"}
    /\ card \in {"running", "reconnecting", "expired", "ended"}

LEMMA IsKnown == IInv /\ TypeOK => Known
BY DEF IInv, KnownStatus, Statuses, DrainingHasEnded, DeliveryHasEnded, MemoryNotBehind, NothingSurvives,
       OpenHasEnded, EndKept, TypeOK, Known, Live, Settled

LEMMA HideStep == HideInv /\ [Next]_vars => (OverForGood /\ NoLateUpdate /\ RestoredIsQuiet)'
<1> SUFFICES ASSUME HideInv, [Next]_vars
             PROVE  (OverForGood /\ NoLateUpdate /\ RestoredIsQuiet)'
  OBVIOUS
<1> USE DEF OverForGood, NoLateUpdate, RestoredIsQuiet, Over, Lossless, Known, Idle, Live, Settled
<1>k. Known /\ OverForGood /\ NoLateUpdate /\ RestoredIsQuiet
  BY IsKnown DEF HideInv
<1>1. CASE Update
  <2>1. /\ up /\ mem.status \in Live /\ handler = "idle" /\ want' = "update" /\ touched' = TRUE
        /\ UNCHANGED <<up, handler, sending, refresh, card>>
    BY <1>1 DEF Update, feishu
  <2>3. Lossless' => Lossless /\ disk'.status = mem'.status /\ gap' = gap
    BY <1>1, <1>k, <2>1 DEF Update, Save
  <2>4. Lossless => ~Over
    BY <1>k, <2>1
  <2>5. Lossless => card \notin Settled /\ refresh \notin Settled
                    /\ sending.what \notin {"final", "replaced", "recovery"}
    BY <2>4
  <2>6. (OverForGood /\ NoLateUpdate)'
    BY <2>1, <2>3, <2>5
  <2>7. RestoredIsQuiet'
    BY <1>k, <2>1
  <2> QED  BY <2>6, <2>7
<1>2. CASE Accept
  BY <1>k, <1>2 DEF Accept, Accepted, LeftUnsaved, Restored, store, feishu, Ended, Turn
<1>3. CASE Finish
  BY <1>k, <1>3 DEF Finish, Schedules, Save, feishu
<1>4. CASE Late
  BY <1>k, <1>4 DEF Late, Save, local, feishu
<1>14. CASE Abandon
  BY <1>k, <1>14 DEF Abandon, LeftUnsaved, Restored, store, feishu, Ended, Turn
<1>15. CASE FinishAliased \/ FinishAbandonment
  BY <1>k, <1>15 DEF FinishAliased, FinishAbandonment, Schedules, NothingToSave, store, feishu
<1>16. CASE AnsweredElsewhere
  BY <1>k, <1>16 DEF AnsweredElsewhere, store, local, feishu
<1>5. CASE BeginRendering
  BY <1>k, <1>5 DEF BeginRendering, store, feishu
<1>6. CASE PatchOk
  <2>1. /\ up /\ sending.what \in Patches /\ card' = Sent /\ sending' = Idle
        /\ UNCHANGED <<up, touched, handler, want, refresh>>
    BY <1>6 DEF PatchOk
  <2>2. CASE sending.what = "final"
    <3>1. mem'.status \in Settled /\ (Lossless' => disk' = mem' /\ Lossless)
      BY <1>6, <2>2 DEF PatchOk, Save, Ended
    <3> QED  BY <1>k, <2>1, <2>2, <3>1
  <2>3. CASE sending.what # "final"
    BY <1>k, <1>6, <2>1, <2>3 DEF PatchOk, Patches, store, Sent
  <2> QED  BY <2>2, <2>3
<1>7. CASE PatchFails
  <2>1. /\ up /\ UNCHANGED <<up, disk, unsaved, gap, touched, handler, want, refresh>>
        /\ sending'.what \in {sending.what, "recovery", "none"}
        /\ sending.what \in Patches
        /\ sending' = Idle \/ sending'.what = sending.what \/ sending.what = "final"
        /\ sending'.what = "recovery" => sending.what = "final"
    BY <1>7 DEF PatchFails, Patches, store
  <2>2. mem' = mem \/ (sending.what = "final" /\ mem'.status \in Settled)
    BY <1>7 DEF PatchFails, AfterFailure, Ended
  <2>3. card' = card \/ card' = Sent
    BY <1>7 DEF PatchFails
  <2>4. sending.what = "final" => mem.status \in Settled
    BY <1>k
  <2>5. (touched /\ refresh \notin Settled) \/ mem.status \notin Settled
    BY <1>k, <2>1 DEF Patches
  <2>6. RestoredIsQuiet'
    <3>1. touched \/ mem'.status \notin Settled
      BY <2>2, <2>4, <2>5
    <3>2. refresh \notin Settled
      BY <1>k, <2>5
    <3>3. refresh = "reconnecting" => touched \/ mem'.status \in Live
      BY <1>k, <2>1, <2>2, <2>4
    <3> QED  BY <2>1, <3>1, <3>2, <3>3
  <2>7. CASE sending.what \in {"final", "replaced"}
    <3>1. mem'.status \in Settled
      BY <1>k, <2>2, <2>4, <2>7
    <3>2. Lossless => /\ disk.status \in Settled \cup {"asking"} \/ gap = "open"
                      /\ want # "update"
      BY <1>k, <2>1, <2>7
    <3>3. sending'.what # "update"
      BY <2>1, <2>7
    <3> QED  BY <2>1, <2>6, <3>1, <3>2, <3>3
  <2>8. CASE sending.what = "update"
    <3>1. sending'.what \in {"update", "none"} /\ mem' = mem
      BY <2>1, <2>2, <2>8
    <3>2. card' \in {card, "running"}
      BY <2>3, <2>8 DEF Sent
    <3>3. Lossless => card \notin Settled
      BY <1>k, <2>8
    <3>4. Lossless => card' \notin Settled
      BY <3>2, <3>3
    <3>5. OverForGood'
      BY <1>k, <2>1, <3>1, <3>4
    <3>6. NoLateUpdate'
      BY <2>1, <3>1, <3>4
    <3> QED  BY <2>6, <3>5, <3>6
  <2> QED  BY <2>1, <2>7, <2>8 DEF Patches
<1>8. CASE RecoveryReturns
  <2>1. /\ up /\ sending.what = "recovery" /\ sending' = Idle /\ mem'.status \in Settled
        /\ UNCHANGED <<up, touched, handler, want, refresh, card>>
    BY <1>8 DEF RecoveryReturns, Ended
  <2>2. Lossless' => Lossless /\ disk' = mem'
    BY <1>8 DEF RecoveryReturns, Save
  <2> QED  BY <1>k, <2>1, <2>2
<1>9. CASE Crash
  BY <1>k, <1>9 DEF Crash, Patches, Sent, store
<1>10. CASE Restart
  BY <1>k, <1>10 DEF Restart, Restored, store, feishu, Turn
<1>11. CASE RefreshBegins
  BY <1>k, <1>11 DEF RefreshBegins, Refreshed, Current, store, feishu
<1>12. CASE RefreshReturns
  BY <1>k, <1>12 DEF RefreshReturns, store
<1>13. CASE UNCHANGED vars
  BY <1>k, <1>13 DEF vars
<1> QED
  BY <1>1, <1>2, <1>3, <1>4, <1>5, <1>6, <1>7, <1>8, <1>9, <1>10, <1>11, <1>12, <1>13, <1>14,
     <1>15, <1>16 DEF Next

\* What the action property says of one step.
HidesEarly ==
    card \in Settled /\ card' \notin Settled /\ ~unsaved /\ gap # "lost"
        => refresh = "reconnecting" /\ touched /\ mem.status \in Settled

LEMMA HidesStep == HideInv /\ [Next]_vars => HidesEarly
<1> SUFFICES ASSUME HideInv, [Next]_vars, card \in Settled, card' \notin Settled, ~unsaved, gap # "lost"
             PROVE  refresh = "reconnecting" /\ touched /\ mem.status \in Settled
  BY DEF HidesEarly
<1>1. Known /\ sending.what # "update"
  BY IsKnown DEF HideInv, NoLateUpdate, Lossless
<1>2. ~PatchOk /\ ~PatchFails
  BY <1>1 DEF PatchOk, PatchFails, Patches, Sent, Settled
<1>3. CASE Crash \/ RefreshReturns
  <2>1. up /\ refresh = "reconnecting"
    BY <1>1, <1>3 DEF Crash, RefreshReturns, RestoredIsQuiet, HideInv, Patches, Sent, Settled, Known
  <2>2. mem.status \in Settled
    BY <2>1 DEF HideInv, OverForGood, Over, Lossless, Settled
  <2>3. touched
    BY <2>1, <2>2 DEF HideInv, RestoredIsQuiet, Settled, Live
  <2> QED BY <2>1, <2>2, <2>3
<1>4. CASE UNCHANGED card
  BY <1>4
<1> QED
  BY <1>2, <1>3, <1>4
     DEF Next, vars, feishu, Schedules, Update, Accept, Abandon, Finish, FinishAliased, FinishAbandonment,
         Late, AnsweredElsewhere, BeginRendering, RecoveryReturns, Restart, RefreshBegins

\* For any number of crashes: as long as saving works and no crash meets an end
\* that its handler did not save, no late update, retry or crash takes the end of a
\* turn off its card, but for a refresh that had begun to show the reconnection
\* before the end was applied.
THEOREM RestartOnlyEarlyRefreshHidesEnd == Spec => OnlyEarlyRefreshHidesEnd
<1>1. Init => HideInv
  BY HideInitially
<1>2. HideInv /\ [Next]_vars => HideInv'
  BY HideStep, Step, TypesStep DEF HideInv
<1>3. HideInv /\ [Next]_vars =>
          [(card \in Settled /\ card' \notin Settled /\ ~unsaved /\ gap # "lost")
               => (refresh = "reconnecting" /\ touched /\ mem.status \in Settled)]_vars
  BY HidesStep DEF HidesEarly
<1> QED  BY <1>1, <1>2, <1>3, PTL DEF Spec, OnlyEarlyRefreshHidesEnd

-----------------------------------------------------------------------------
(* What AnsweredIsShown rests on: an answered end is never out of everybody's *)
(* hands before its card has shown it.  Whether it has is history, which the  *)
(* model does not keep: a refresh may hide the end again.                     *)

VARIABLE seen    \* the card has shown that the turn is over

\* CardRestart with that history, which constrains no step of it.
SeenSpec ==
    /\ Init /\ seen = (card \in Settled)
    /\ [][Next /\ seen' = (seen \/ card' \in Settled)]_<<vars, seen>>

\* Who will show the end: its handler, the controller, the refresh, or the
\* restart of a sidecar that finds it in the checkpoint.
InHand ==
    \/ handler # "idle"
    \/ {want, sending.what} \cap {"final", "replaced"} # {}
    \/ refresh \in Settled
    \/ refresh = "ready" /\ ~touched /\ mem.status \in Settled
    \/ ~up /\ Restored.status \in Settled

AnsweredSeenOrInHand == answered /\ ~outage /\ ~unsaved /\ gap # "lost" => seen \/ InHand

\* Without failing calls no delivery has failed, now or before a crash.
Failures == {"recovering", "recovered", "unknown", "not_sent"}
NothingFailed ==
    ~outage => /\ mem.delivery \notin Failures /\ disk.delivery \notin Failures
               /\ sending.what # "recovery"

EndedSeenOrInHand ==
    ~outage /\ ~unsaved /\ gap # "lost" /\ up /\ mem.status \in Settled => seen \/ InHand

LEMMA NothingFailedStep == TypeOK /\ NothingFailed /\ [Next]_vars => NothingFailed'
<1> SUFFICES ASSUME TypeOK, NothingFailed, [Next]_vars, ~outage'
             PROVE  /\ mem'.delivery \notin Failures /\ disk'.delivery \notin Failures
                    /\ sending'.what # "recovery"
  BY DEF NothingFailed
<1> USE DEF Next, vars, Update, Accept, Abandon, Finish, FinishAliased, FinishAbandonment, Late,
           AnsweredElsewhere, BeginRendering, PatchOk, Crash, Restart, RefreshBegins, RefreshReturns
<1>1. ~outage
  BY DEF TypeOK, feishu, Schedules, PatchFails, RecoveryReturns
<1>2. /\ mem.delivery \notin Failures /\ disk.delivery \notin Failures
      /\ sending.what # "recovery" /\ want # "recovery"
  BY <1>1 DEF NothingFailed, TypeOK
<1>3. ~RecoveryReturns /\ ~PatchFails
  BY <1>2 DEF RecoveryReturns, PatchFails
<1>4. sending'.what # "recovery"
  <2>1. sending' = sending \/ sending' = Idle \/ sending' = [what |-> want, tries |-> 0]
    BY <1>3 DEF local, Schedules
  <2> QED  BY <1>2, <2>1 DEF Idle
<1>5. mem'.delivery \notin Failures
  <2>1. \A s \in {"active", "asking", "expired"} : Turn(s).delivery \notin Failures
    BY DEF Turn, Failures
  <2>2. \A d \in {"idle", "pending", "delivered"} : Ended(d).delivery \notin Failures
    BY DEF Ended, Failures
  <2> QED
    BY <1>2, <1>3, <2>1, <2>2 DEF Accepted, Restored, Schedules
<1>6. disk' = disk \/ disk' = mem'
  BY <1>3 DEF store, Save, LeftUnsaved, NothingToSave
<1> QED BY <1>2, <1>4, <1>5, <1>6

LEMMA EndedStep ==
    ASSUME IInv, TypeOK, NothingFailed, EndedSeenOrInHand, [Next]_vars,
           seen' = (seen \/ card' \in Settled)
    PROVE  EndedSeenOrInHand'
<1> SUFFICES ASSUME ~outage', ~unsaved', gap' # "lost", up', mem'.status \in Settled, ~seen'
             PROVE  InHand'
  BY DEF EndedSeenOrInHand
<1>0. Known
  BY IsKnown
<1> USE DEF Known, Settled, Live
<1>1. ~outage /\ ~unsaved /\ gap # "lost" /\ ~seen
  BY DEF TypeOK, Next, vars, feishu, store, Save, LeftUnsaved, NothingToSave, Schedules, Update, Accept,
         Abandon, Finish, FinishAliased, FinishAbandonment, Late, AnsweredElsewhere, BeginRendering,
         PatchOk, PatchFails, RecoveryReturns, Crash, Restart, RefreshBegins, RefreshReturns
<1>2. up /\ mem.status \in Settled => InHand
  BY <1>1 DEF EndedSeenOrInHand
<1>3. mem.delivery \notin Failures /\ sending.what # "recovery"
  BY <1>1 DEF NothingFailed
<1>4. CASE Update
  BY <1>4 DEF Update, Turn
<1>5. CASE Accept \/ Abandon \/ Finish \/ FinishAliased \/ FinishAbandonment
  BY <1>5 DEF Accept, Abandon, Finish, FinishAliased, FinishAbandonment, Schedules, InHand
<1>6. CASE Late \/ AnsweredElsewhere
  BY <1>2, <1>6 DEF Late, AnsweredElsewhere, local, feishu, InHand
<1>7. CASE BeginRendering
  BY <1>0, <1>2, <1>7 DEF BeginRendering, InHand, Idle
<1>8. CASE PatchOk
  <2>1. sending.what = "update" /\ UNCHANGED <<up, mem, touched, handler, want, refresh>>
    BY <1>8 DEF PatchOk, Patches, Sent
  <2> QED BY <1>2, <1>8, <2>1 DEF InHand, PatchOk
<1>9. CASE Restart
  <2>1. mem'.status \in Settled => refresh' = "ready" /\ ~touched'
    BY <1>9 DEF Restart
  <2> QED BY <2>1 DEF InHand
<1>10. CASE RefreshBegins
  <2>1. up /\ refresh = "ready" /\ UNCHANGED <<up, mem, handler, want, sending, touched>>
    BY <1>10 DEF RefreshBegins
  <2>2. mem.delivery \notin {"recovered", "unknown"}
    BY <1>3 DEF Failures
  <2>3. CASE touched
    BY <1>2, <2>1, <2>3 DEF InHand
  <2>4. CASE ~touched
    <3>1. refresh' = mem.status
      BY <1>10, <2>1, <2>2, <2>4 DEF RefreshBegins, Current, Refreshed
    <3> QED BY <2>1, <3>1 DEF InHand
  <2> QED BY <2>3, <2>4
<1>11. CASE RefreshReturns
  <2>1. refresh \notin Settled /\ refresh # "ready"
    BY <1>11 DEF RefreshReturns
  <2> QED BY <1>2, <1>11, <2>1 DEF InHand, RefreshReturns
<1>12. CASE UNCHANGED vars
  BY <1>2, <1>12 DEF vars, InHand
<1>13. ~PatchFails /\ ~RecoveryReturns /\ ~Crash
  BY <1>3 DEF PatchFails, RecoveryReturns, Crash
<1> QED
  BY <1>4, <1>5, <1>6, <1>7, <1>8, <1>9, <1>10, <1>11, <1>12, <1>13 DEF Next

\* For any number of crashes and restarts: as long as Feishu and the disk work,
\* an end that Hermes has its answer to has been on the card, or is with its
\* handler, the controller, the refresh or the checkpoint that a restart reads.
\* Nothing but the fairness of those is left to AnsweredIsShown.
THEOREM RestartAnsweredSeenOrInHand == SeenSpec => []AnsweredSeenOrInHand
<1> DEFINE All == IInv /\ TypeOK /\ NothingFailed /\ EndedSeenOrInHand
           SeenNext == Next /\ seen' = (seen \/ card' \in Settled)
<1>1. Init => All
  <2>1. Init => NothingFailed /\ EndedSeenOrInHand
    BY DEF Init, NothingFailed, EndedSeenOrInHand, Failures, Turn, Idle, Settled
  <2> QED BY <2>1, Initially, TypesInit
<1>2. All /\ [SeenNext]_<<vars, seen>> => All'
  <2>1. ASSUME All, SeenNext PROVE All'
    BY <2>1, Step, TypesStep, NothingFailedStep, EndedStep
  <2>2. ASSUME All, UNCHANGED <<vars, seen>> PROVE All'
    <3>1. IInv' /\ TypeOK' /\ NothingFailed'
      BY <2>2, Step, TypesStep, NothingFailedStep
    <3>2. EndedSeenOrInHand'
      BY <2>2 DEF EndedSeenOrInHand, InHand, vars
    <3> QED BY <3>1, <3>2
  <2> QED BY <2>1, <2>2
<1>3. All => AnsweredSeenOrInHand
  <2> SUFFICES ASSUME All, answered, ~outage, ~unsaved, gap # "lost", ~seen PROVE InHand
    BY DEF AnsweredSeenOrInHand
  <2>1. gap \in {"none", "open"}
    BY DEF TypeOK
  <2>2. CASE up
    <3>1. mem.status \in Settled
      BY <2>1, <2>2 DEF IInv, OpenHasEnded, AnsweredHasEnded
    <3> QED BY <2>2, <3>1 DEF EndedSeenOrInHand
  <2>3. CASE ~up
    BY <2>1, <2>3 DEF IInv, NothingSurvives, AnsweredIsDurable, InHand
  <2> QED BY <2>2, <2>3
<1> QED BY <1>1, <1>2, <1>3, PTL DEF SeenSpec
=============================================================================
