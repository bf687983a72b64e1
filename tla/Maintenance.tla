------------------------------ MODULE Maintenance ------------------------------
(***************************************************************************)
(* The job that updates Hermes: maintenance_update.py, maintenance_store.py *)
(* and maintenance_runner.py, and the sidecar's part of it in server.py.   *)
(*                                                                         *)
(* A runner of its own drains the gateway, stops it and the sidecar, takes *)
(* the hooks out of Hermes' checkout, runs the official updater, puts the  *)
(* hooks back and starts everything again.  A journal records the phase;   *)
(* every change of phase compares it with the one the runner believes in.  *)
(* Runners exclude each other by a file lock, may die anywhere and may be  *)
(* started again by hand.  The sidecar, which confirmed the job and starts *)
(* the first runner, may fail the job at any time when it believes that    *)
(* the runner did not start.                                               *)
(*                                                                         *)
(* Two fences keep new work from the gateway: a lease that the hooks read  *)
(* and a marker that Hermes itself notices, in a while.  The proof that    *)
(* it is idle comes by heartbeats to the sidecar.                          *)
(*                                                                         *)
(* A step is one external command or one write of the journal, so that a   *)
(* runner may die between any two.  Every command may fail.                *)
(***************************************************************************)
EXTENDS Integers

CONSTANTS
    Crashes,     \* bound: runners that die
    HandStarts   \* bound: gateways that are started by hand

ASSUME MaintenanceAssumption == Crashes \in Nat /\ HandStarts \in Nat

VARIABLES
    job,        \* the journal: the phase, the phases entered and the result
    runner,     \* the holder of the update lock: its step, the phase it has
                \* read or written, and its DrainProof
    launch,     \* the sidecar's task that starts the first runner
    lease,      \* drain.json
    marker,     \* the request to drain in Hermes' home
    gateway,    \* the process of Hermes' gateway
    work,       \* a message in it: let in by the hook, or running as a turn
    sample,     \* the count in the heartbeat it is about to send
    heard,      \* what the sidecar knows of the runtimes it hears
    sidecar,    \* the process the job found, none, or a later one
    disk,       \* Hermes' checkout and its environment
    left,       \* history: a runner died, or a fence could not be taken away, and
                \* no clean-up has succeeded since
    crashes, handStarts

fences == <<lease, marker>>
hermes == <<gateway, work, sample>>
services == <<hermes, heard, sidecar>>
bounds == <<crashes, handStarts>>
vars == <<job, runner, launch, fences, services, disk, left, bounds>>

Ordered == <<"locking", "draining", "restoring_hooks", "updating_hermes",
             "reinstalling_hfc", "starting_services", "verifying">>
Working == {Ordered[i] : i \in 1 .. 7}
Terminal == {"succeeded", "failed"}
\* _GATEWAY_DRAIN_PHASES
Drained == {"locking", "draining", "restoring_hooks"}

\* _DRAIN_RECONCILIATION_BOUNDARIES and _RUNNER_PHASE_RECOVERY_BOUNDARIES
BoundaryOf(phase) ==
    CASE phase \in {"locking", "draining"}           -> "no_mutation"
      [] phase = "restoring_hooks"                   -> "old_hfc_or_manual"
      [] phase = "updating_hermes"                   -> "updater_result_classified"
      [] phase = "reinstalling_hfc"                  -> "native_hermes"
      [] phase \in {"starting_services", "verifying"} -> "service_recovery"

FirstStep(phase) ==
    CASE phase = "locking"           -> "inspect"
      [] phase = "draining"          -> "drain"
      [] phase = "restoring_hooks"   -> "stop"
      [] phase = "updating_hermes"   -> "update"
      [] phase = "reinstalling_hfc"  -> "reinstall"
      [] phase = "starting_services" -> "start"
      [] phase = "verifying"         -> "verify"

Boundaries ==
    {BoundaryOf(phase) : phase \in Working} \cup
    {"none", "before_hermes_update", "gateway_restart_requested",
     "old_hfc_restored", "new_hfc_restored"}
Steps ==
    {FirstStep(phase) : phase \in Working} \cup
    {"off", "load", "lease", "fence", "release", "sidecar", "unstop", "restore", "clean",
     "moved", "undo", "undo_start", "installed", "restart", "restarted", "cleanup"}
LaunchSteps == {"ready", "unreported", "refused", "releasing", "unleasing", "let_go", "done"}
NoProof == -1
Off == [at |-> "off", seen |-> "locking", proof |-> NoProof]

TypeOK ==
    /\ job \in [phase : Working \cup Terminal, entered : SUBSET Working,
                boundary : Boundaries, target : {"none", "exact", "mismatch"}]
    /\ runner \in [at : Steps, seen : Working, proof : Nat \cup {NoProof}]
    /\ runner.proof # NoProof => runner.at = "drain"
    /\ launch \in LaunchSteps
    /\ lease \in {"held", "expired", "none"} /\ marker \in BOOLEAN
    /\ gateway \in [up : BOOLEAN, proc : Nat, hooked : BOOLEAN, knows : BOOLEAN]
    /\ work \in {"none", "admitted", "running"} /\ sample \in {"none", "idle", "busy"}
    /\ ~gateway.up => work = "none" /\ sample = "none" /\ ~gateway.hooked
    /\ \A r \in heard : r \in [proc : Nat, idle : BOOLEAN, draining : BOOLEAN, fresh : BOOLEAN]
    /\ sidecar \in {"old", "down", "new"}
    /\ disk \in [head : {"old", "target", "other"}, hooks : BOOLEAN, package : BOOLEAN]
    /\ left \in BOOLEAN /\ crashes \in 0 .. Crashes /\ handStarts \in 0 .. HandStarts

\* The job has just been reserved: _reserve_update_job_for_operation.  A message
\* may have passed the hook before the lease was there.
Init ==
    /\ job = [phase |-> "locking", entered |-> {}, boundary |-> "none", target |-> "none"]
    /\ runner = Off /\ launch = "ready"
    /\ lease = "held" /\ marker = TRUE
    /\ gateway = [up |-> TRUE, proc |-> 0, hooked |-> TRUE, knows |-> FALSE]
    /\ work \in {"none", "admitted", "running"} /\ sample = "none" /\ heard = {}
    /\ sidecar = "old"
    /\ disk = [head |-> "old", hooks |-> TRUE, package |-> TRUE]
    /\ left = FALSE /\ crashes = 0 /\ handStarts = 0

-----------------------------------------------------------------------------
(* The journal: transition_job. *)

Failed(boundary) == [job EXCEPT !.phase = "failed", !.boundary = boundary, !.target = "none"]

EnteredAnew(phase) ==                                            \* mutant
    [job EXCEPT !.phase = phase, !.entered = @ \cup {phase}, !.target = "none"]
\* A transition without a result of its own keeps the result.
Entered(phase) == [job EXCEPT !.phase = phase, !.entered = @ \cup {phase}]

Current == job.phase = runner.seen
GotoKeepsProof(step) == runner' = [runner EXCEPT !.at = step]   \* mutant
Goto(step) == runner' = [runner EXCEPT !.at = step, !.proof = NoProof]

\* _fail_job; a job that has changed meanwhile is left as it is.
Fail(boundary) ==
    /\ job' = IF Current THEN Failed(boundary) ELSE job
    /\ Goto("cleanup")

AdvanceAnyway(phase, target, step) ==                            \* mutant
    /\ job' = IF Current THEN [Entered(phase) EXCEPT !.target = target] ELSE job
    /\ runner' = [at |-> step, seen |-> phase, proof |-> NoProof]
\* _advance_job; "job phase changed" ends the runner.
Advance(phase, target, step) ==
    \/ /\ Current
       /\ job' = [Entered(phase) EXCEPT !.target = target]
       /\ runner' = [at |-> step, seen |-> phase, proof |-> NoProof]
    \/ ~Current /\ UNCHANGED job /\ Goto("cleanup")

Proceed(phase) == Advance(phase, Entered(phase).target, FirstStep(phase))

\* Before anything is changed the card must have shown the new phase.
ProceedShown(phase) ==
    \/ Proceed(phase)
    \/ /\ job' = IF Current THEN [Failed("no_mutation") EXCEPT !.entered = @ \cup {phase}]
                 ELSE job
       /\ Goto("cleanup")

-----------------------------------------------------------------------------
(* Hermes and the sidecar. *)

GatewayStops ==
    /\ gateway' = [gateway EXCEPT !.up = FALSE, !.hooked = FALSE, !.knows = FALSE]
    /\ work' = "none" /\ sample' = "none"

\* A new process loads what is on the disk.
GatewayStarts ==
    /\ gateway' = [up |-> TRUE, proc |-> gateway.proc + 1,
                   hooked |-> disk'.hooks /\ disk'.package, knows |-> FALSE]
    /\ work' = "none" /\ sample' = "none"

\* maintenance_admission_from_hermes_locals, at the head of a message.
LetIn ==
    /\ gateway.up /\ work = "none" /\ ~(gateway.hooked /\ lease = "held")
    /\ work' = "admitted"
    /\ UNCHANGED <<job, runner, launch, fences, gateway, sample, heard, sidecar, disk, left, bounds>>

\* Hermes starts a turn, which it counts, unless it knows that it is to drain.
Begin ==
    /\ work = "admitted" /\ work' = IF gateway.knows THEN "none" ELSE "running"
    /\ UNCHANGED <<job, runner, launch, fences, gateway, sample, heard, sidecar, disk, left, bounds>>

EndWork ==
    /\ work = "running" /\ work' = "none"
    /\ UNCHANGED <<job, runner, launch, fences, gateway, sample, heard, sidecar, disk, left, bounds>>

Notice ==
    /\ gateway.up /\ gateway.knows # marker /\ gateway' = [gateway EXCEPT !.knows = marker]
    /\ UNCHANGED <<job, runner, launch, fences, work, sample, heard, sidecar, disk, left, bounds>>

\* RuntimeControlEmitter.emit_once counts first and asks about the drain after.
Count ==
    /\ gateway.hooked /\ sample = "none"
    /\ sample' = IF work = "running" THEN "busy" ELSE "idle"
    /\ UNCHANGED <<job, runner, launch, fences, gateway, work, heard, sidecar, disk, left, bounds>>

Report == [proc |-> gateway.proc, idle |-> sample = "idle", draining |-> gateway.knows, fresh |-> TRUE]

Beat ==
    /\ sample # "none" /\ sample' = "none"
    /\ heard' \in {heard, {r \in heard : r.proc # gateway.proc} \cup {Report}}
    /\ sidecar = "down" => heard' = heard
    /\ UNCHANGED <<job, runner, launch, fences, gateway, work, sidecar, disk, left, bounds>>

\* A runtime says goodbye, is seen to be gone or is not heard for a while.
Unheard ==
    /\ \E r \in heard : heard' = heard \ {r}
    /\ UNCHANGED <<job, runner, launch, fences, hermes, sidecar, disk, left, bounds>>

StartByHand ==
    /\ handStarts < HandStarts /\ handStarts' = handStarts + 1
    /\ UNCHANGED disk /\ GatewayStarts
    /\ UNCHANGED <<job, runner, launch, fences, heard, sidecar, left, crashes>>

Expire ==
    /\ lease = "held" /\ lease' = "expired"
    /\ UNCHANGED <<job, runner, launch, marker, services, disk, left, bounds>>

-----------------------------------------------------------------------------
(* The sidecar starts the runner: _run_update_job_launch. *)

Lead(step) == launch' = step /\ UNCHANGED <<services, disk, bounds>>

\* The unit runs, and that may not be known; or nothing is started, and without
\* a card the job is just let go.
Launch ==
    /\ launch = "ready" /\ sidecar = "old"
    /\ \/ Lead("done") /\ runner' = IF runner = Off THEN [Off EXCEPT !.at = "load"] ELSE runner
       \/ Lead("unreported")
          /\ runner' \in {runner, IF runner = Off THEN [Off EXCEPT !.at = "load"] ELSE runner}
       \/ Lead("refused") /\ UNCHANGED runner
       \/ Lead("releasing") /\ UNCHANGED runner
    /\ UNCHANGED <<job, fences, left>>

\* launched.started is false: the job is failed if no runner has advanced it.
Unstarted ==
    /\ launch = "unreported" /\ sidecar = "old"
    /\ \/ job.phase = "locking" /\ job' = Failed("before_hermes_update") /\ Lead("releasing")
       \/ job.phase # "locking" /\ UNCHANGED job /\ Lead("refused")
    /\ UNCHANGED <<runner, fences, left>>

\* _fail_reserved_update_job, in whatever phase, unless the phase changes in
\* between.
FailReserved ==
    /\ launch = "refused" /\ sidecar = "old" /\ Lead("releasing")
    /\ job' \in IF job.phase \in Terminal THEN {job} ELSE {job, Failed("no_mutation")}
    /\ UNCHANGED <<runner, fences, left>>

\* _release_update_reservation
ReleaseMarker ==
    /\ launch = "releasing" /\ sidecar = "old" /\ Lead("unleasing")
    /\ marker' \in {FALSE, marker} /\ left' = (left \/ marker')
    /\ UNCHANGED <<job, runner, lease>>

ReleaseLease ==
    /\ launch = "unleasing" /\ sidecar = "old" /\ Lead("let_go")
    /\ lease' \in {"none", lease} /\ left' = (left \/ lease' # "none")
    /\ UNCHANGED <<job, runner, marker>>

Leads == Launch \/ Unstarted \/ FailReserved \/ ReleaseMarker \/ ReleaseLease

-----------------------------------------------------------------------------
(* The runner: main and the head of _run_state_machine. *)

\* `maintenance resume`, or a late start; while another has the lock it exits.
Resume ==
    /\ runner = Off /\ runner' = [Off EXCEPT !.at = "load"]
    /\ UNCHANGED <<job, launch, fences, services, disk, left, bounds>>

Crash ==
    /\ runner # Off /\ crashes < Crashes /\ crashes' = crashes + 1
    /\ runner' = Off /\ left' = TRUE
    /\ UNCHANGED <<job, launch, fences, services, disk, handStarts>>

At(step) == runner.at = step /\ UNCHANGED <<launch, left, bounds>>

\* The job and the configuration are read, or cannot be.
Load ==
    /\ At("load")
    /\ \/ job.phase \in Terminal /\ UNCHANGED job /\ Goto("cleanup")
       \/ /\ job.phase \in Working /\ UNCHANGED job
          /\ runner' = [at |-> "lease", seen |-> job.phase, proof |-> NoProof]
       \/ job.phase \in Working /\ job' = Failed(BoundaryOf(job.phase)) /\ Goto("cleanup")
    /\ UNCHANGED <<fences, services, disk>>

\* Without the lease, or with evidence missing, nothing is done.
Lease ==
    /\ At("lease")
    /\ \/ lease = "held" /\ UNCHANGED job /\ Goto("fence")
       \/ Fail("no_mutation")
    /\ UNCHANGED <<fences, services, disk>>

\* reconcile_gateway_external_drain, and the artifact is verified.
Fence ==
    /\ At("fence")
    /\ \/ marker' = (runner.seen \in Drained) /\ UNCHANGED job /\ Goto(FirstStep(runner.seen))
       \/ marker' = (runner.seen \in Drained) /\ Fail("no_mutation")
       \/ marker' \in {marker, runner.seen \in Drained} /\ Fail(BoundaryOf(runner.seen))
    /\ UNCHANGED <<lease, services, disk>>

CleanUpIfCurrent ==                                              \* mutant
    /\ runner.at = "cleanup" /\ runner' = Off
    /\ IF Current THEN lease' = "none" /\ marker' = FALSE ELSE UNCHANGED fences
    /\ left' = FALSE /\ UNCHANGED <<job, launch, services, disk, bounds>>
\* _cleanup_terminal_owned_job
CleanUp ==
    /\ runner.at = "cleanup" /\ runner' = Off
    /\ lease' \in {"none", lease} /\ marker' \in {FALSE, marker}
    /\ left' = (marker' \/ lease' # "none")
    /\ UNCHANGED <<job, launch, services, disk, bounds>>

-----------------------------------------------------------------------------
(* Drain. *)

Inspect ==
    /\ At("inspect") /\ (Fail("no_mutation") \/ ProceedShown("draining"))
    /\ UNCHANGED <<fences, services, disk>>

\* DrainEvidence.from_health: a runtime that is alone and knows that it drains.
Evident(r) == sidecar # "down" /\ heard = {r} /\ r.draining /\ lease = "held"

ProvesAtOnce(r) == TRUE                                          \* mutant
\* DrainProof: a later heartbeat of the runtime that was idle before.
Proves(r) == r.proc = runner.proof /\ r.fresh

Idle ==
    /\ At("drain")
    /\ \E r \in heard :
        /\ Evident(r) /\ r.idle
        /\ \/ Proves(r) /\ ProceedShown("restoring_hooks") /\ UNCHANGED heard
           \/ /\ ~Proves(r) /\ runner' = [runner EXCEPT !.proof = r.proc]
              /\ heard' = {[r EXCEPT !.fresh = FALSE]} /\ UNCHANGED job
    /\ UNCHANGED <<fences, hermes, sidecar, disk>>

\* No evidence, or not idle: health may always be unreadable or too old.
NotIdle ==
    /\ At("drain")
    /\ \/ runner.proof # NoProof /\ Goto("drain") /\ UNCHANGED job
       \/ Fail("no_mutation")
    /\ UNCHANGED <<fences, services, disk>>

-----------------------------------------------------------------------------
(* Stop, and take the hooks out. *)

Stop ==
    /\ At("stop")
    /\ \/ Fail("no_mutation") /\ UNCHANGED hermes
       \/ GatewayStops /\ UNCHANGED job /\ Goto("release")
       \/ (GatewayStops \/ UNCHANGED hermes) /\ Fail("old_hfc_or_manual")
    /\ UNCHANGED <<fences, heard, sidecar, disk>>

Release ==
    /\ At("release")
    /\ \/ marker' = FALSE /\ UNCHANGED job /\ Goto("sidecar")
       \/ marker' \in {FALSE, marker} /\ Fail("old_hfc_or_manual")
    /\ UNCHANGED <<lease, services, disk>>

SidecarStops == sidecar' = "down" /\ heard' = {}

StopSidecar ==
    /\ At("sidecar") /\ UNCHANGED job
    /\ \/ SidecarStops /\ Goto("restore")
       \/ (SidecarStops \/ UNCHANGED <<sidecar, heard>>) /\ Goto("unstop")
    /\ UNCHANGED <<fences, hermes, disk>>

\* The sidecar cannot be stopped: the gateway is started again, on what it was.
Unstop ==
    /\ At("unstop") /\ UNCHANGED <<fences, heard, sidecar, disk>>
    /\ \/ /\ disk.head = "old" /\ disk.hooks
          /\ GatewayStarts /\ Fail("gateway_restart_requested")
       \/ (GatewayStops \/ UNCHANGED hermes) /\ Fail("old_hfc_or_manual")

Restore ==
    /\ At("restore")
    /\ \/ disk' = [disk EXCEPT !.hooks = FALSE] /\ UNCHANGED job /\ Goto("clean")
       \/ disk' \in {disk, [disk EXCEPT !.hooks = FALSE]} /\ Fail("old_hfc_or_manual")
    /\ UNCHANGED <<fences, services>>

Clean ==
    /\ At("clean")
    /\ \/ Fail("old_hfc_or_manual")
       \/ ~disk.hooks /\ Proceed("updating_hermes")
    /\ UNCHANGED <<fences, services, disk>>

-----------------------------------------------------------------------------
(* The official updater. *)

\* External: it may move the checkout, rebuild the environment, drop local
\* changes and start the gateway, and end well or not.
Updates ==
    /\ disk' \in [head : {"old", "target", "other"}, hooks : {FALSE, disk.hooks},
                  package : {FALSE, disk.package}]
    /\ GatewayStarts \/ UNCHANGED hermes

Update ==
    /\ At("update") /\ UNCHANGED <<fences, heard, sidecar>>
    /\ \/ Fail("updater_result_classified") /\ UNCHANGED <<hermes, disk>>
       \/ disk.head # "old" /\ UNCHANGED <<job, hermes, disk>> /\ Goto("moved")
       \/ /\ disk.head = "old" /\ Updates
          /\ \/ UNCHANGED job /\ Goto("moved")
             \/ UNCHANGED job /\ Goto("undo")
             \/ Fail("updater_result_classified")

Moved ==
    /\ At("moved")
    /\ \/ Fail("updater_result_classified")
       \/ Advance("reinstalling_hfc", IF disk.head = "target" THEN "exact" ELSE "mismatch",
                  "reinstall")
    /\ UNCHANGED <<fences, services, disk>>

\* The package, and then the hooks, on a checkout without changes.
Installs == ~disk.hooks /\ disk' = [disk EXCEPT !.hooks = TRUE, !.package = TRUE]
InstallsSome ==
    \/ UNCHANGED disk
    \/ ~disk.hooks /\ disk' \in {[disk EXCEPT !.package = FALSE], [disk EXCEPT !.package = TRUE],
                                 [disk EXCEPT !.package = TRUE, !.hooks = TRUE]}

\* _restore_old_hfc_after_update_failure
Undo ==
    /\ At("undo")
    /\ \/ disk.head = "old" /\ Installs /\ UNCHANGED job /\ Goto("undo_start")
       \/ disk.head = "old" /\ InstallsSome /\ Fail("updater_result_classified")
       \/ UNCHANGED disk /\ Fail("updater_result_classified")
    /\ UNCHANGED <<fences, services>>

SidecarStarts == sidecar' = IF sidecar = "down" THEN "new" ELSE sidecar

UndoStart ==
    /\ At("undo_start") /\ UNCHANGED <<fences, heard, disk>>
    /\ \/ SidecarStarts /\ GatewayStarts /\ Fail("old_hfc_restored")
       \/ /\ SidecarStarts \/ UNCHANGED sidecar
          /\ GatewayStops \/ UNCHANGED hermes
          /\ Fail("updater_result_classified")

-----------------------------------------------------------------------------
(* Install, start and verify. *)

Reinstall ==
    /\ At("reinstall")
    /\ \/ Installs /\ UNCHANGED job /\ Goto("installed")
       \/ InstallsSome /\ Fail("native_hermes")
    /\ UNCHANGED <<fences, services>>

Installed ==
    /\ At("installed") /\ (Fail("native_hermes") \/ Proceed("starting_services"))
    /\ UNCHANGED <<fences, services, disk>>

StartSidecar ==
    /\ At("start")
    /\ \/ SidecarStarts /\ UNCHANGED job /\ Goto("restart")
       \/ (SidecarStarts \/ UNCHANGED sidecar) /\ Fail("service_recovery")
    /\ UNCHANGED <<fences, hermes, heard, disk>>

Restart ==
    /\ At("restart") /\ UNCHANGED <<fences, heard, sidecar, disk>>
    /\ \/ GatewayStarts /\ UNCHANGED job /\ Goto("restarted")
       \/ (GatewayStarts \/ GatewayStops \/ UNCHANGED hermes) /\ Fail("service_recovery")

Restarted ==
    /\ At("restarted") /\ Proceed("verifying")
    /\ UNCHANGED <<fences, services, disk>>

\* _wait_for_ready_health: another sidecar, and a runtime that is not the one
\* from before.
Ready == sidecar = "new" /\ \E r \in heard : heard = {r} /\ r.proc # 0 /\ ~r.draining

Verify ==
    /\ At("verify")
    /\ \/ Fail("service_recovery")
       \/ /\ Ready /\ disk.hooks /\ disk.package /\ Goto("cleanup")
          /\ job' = IF ~Current THEN job
                    ELSE IF job.target = "mismatch" THEN Failed("new_hfc_restored")
                    ELSE [job EXCEPT !.phase = "succeeded"]
    /\ UNCHANGED <<fences, services, disk>>

-----------------------------------------------------------------------------
Opens == Load \/ Lease \/ Fence \/ CleanUp
Drains == Inspect \/ Idle \/ NotIdle
Removes == Stop \/ Release \/ StopSidecar \/ Unstop \/ Restore \/ Clean
Renews == Update \/ Moved \/ Undo \/ UndoStart
Returns == Reinstall \/ Installed \/ StartSidecar \/ Restart \/ Restarted \/ Verify

Next ==
    \/ LetIn \/ Begin \/ EndWork \/ Notice \/ Count \/ Beat \/ Unheard
    \/ StartByHand \/ Expire
    \/ Leads \/ Resume \/ Crash
    \/ Opens \/ Drains \/ Removes \/ Renews \/ Returns

Spec == Init /\ [][Next]_vars

-----------------------------------------------------------------------------
(* What is promised. *)

GivenUp == {"releasing", "unleasing", "let_go"}
Stops == runner.at = "stop" /\ gateway.up /\ ~gateway'.up

\* The runner never stops a gateway that runs a turn, as long as the sidecar has
\* not given the job up, the lease is held and the gateway has its hooks.
StopsIdle ==
    [][Stops /\ launch \notin GivenUp /\ lease = "held" /\ gateway.hooked =>
       work # "running"]_vars

\* The journal says that a part of the work has begun before anything of it
\* is done, whoever changes the job meanwhile.
JournalFirst ==
    /\ ~disk.hooks => "restoring_hooks" \in job.entered
    /\ disk.head # "old" \/ ~disk.package => "updating_hermes" \in job.entered
    /\ sidecar = "new" => "updating_hermes" \in job.entered

\* A job that says it has left a working installation has: it succeeded, its
\* hooks were put back on what it found, or a gateway restart is all it asks
\* for. The boundaries that claim no such thing are not covered, and "no_mutation"
\* and "native_hermes" may be false (_run_state_machine on a resumed job).
RestoredIsTrue ==
    /\ job.phase = "succeeded" =>
          disk = [head |-> "target", hooks |-> TRUE, package |-> TRUE] /\ sidecar = "new"
    /\ job.boundary = "new_hfc_restored" =>
          disk.head # "target" /\ disk.hooks /\ disk.package /\ sidecar = "new"
    /\ job.boundary = "old_hfc_restored" =>
          disk = [head |-> "old", hooks |-> TRUE, package |-> TRUE] /\ sidecar = "new"
    /\ job.boundary = "gateway_restart_requested" => disk.head = "old" /\ disk.hooks

\* When a job is over and nobody works on it, the gateway takes work again,
\* unless a runner died or a fence could not be taken away.
FencesLifted ==
    job.phase \in Terminal /\ runner = Off /\ launch \in {"ready", "let_go", "done"} /\ ~left =>
        ~marker /\ lease = "none"
=============================================================================
