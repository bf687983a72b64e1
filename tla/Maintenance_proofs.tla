------------------------- MODULE Maintenance_proofs -------------------------
(* What an update promises, for any number of crashes and of gateways that *)
(* are started by hand: proofs about Maintenance.                          *)
EXTENDS Maintenance, TLAPS

-----------------------------------------------------------------------------
(* The inductive invariant. *)

Jobs == [phase : Working \cup Terminal, entered : SUBSET Working,
         boundary : Boundaries, target : {"none", "exact", "mismatch"}]
JobOK == job \in Jobs
RunnerOK ==
    /\ runner \in [at : Steps, seen : Working, proof : Nat \cup {NoProof}]
    /\ runner.proof # NoProof => runner.at = "drain"
FencesOK ==
    /\ launch \in LaunchSteps /\ lease \in {"held", "expired", "none"} /\ marker \in BOOLEAN
    /\ left \in BOOLEAN /\ crashes \in 0 .. Crashes /\ handStarts \in 0 .. HandStarts
GatewayOK ==
    /\ gateway \in [up : BOOLEAN, proc : Nat, hooked : BOOLEAN, knows : BOOLEAN]
    /\ work \in {"none", "admitted", "running"} /\ sample \in {"none", "idle", "busy"}
    /\ ~gateway.up => work = "none" /\ sample = "none" /\ ~gateway.hooked
SidecarOK ==
    /\ \A r \in heard : r \in [proc : Nat, idle : BOOLEAN, draining : BOOLEAN, fresh : BOOLEAN]
    /\ sidecar \in {"old", "down", "new"}
DiskOK == disk \in [head : {"old", "target", "other"}, hooks : BOOLEAN, package : BOOLEAN]
Types == JobOK /\ RunnerOK /\ FencesOK /\ GatewayOK /\ SidecarOK /\ DiskOK

AtWork == runner.at \notin {"off", "load", "cleanup"}

\* Nobody but the runner has changed the job, and its lease stands.
Kept == launch \notin GivenUp /\ lease = "held"

\* Where a runner is tells which phase it believes in; the job is in that
\* phase or over.
PhaseOf ==
    /\ runner.at = "inspect" => runner.seen = "locking"
    /\ runner.at = "drain" => runner.seen = "draining"
    /\ runner.at \in {"stop", "release", "sidecar", "unstop", "restore", "clean"}
          => runner.seen = "restoring_hooks"
    /\ runner.at \in {"update", "moved", "undo", "undo_start"} => runner.seen = "updating_hermes"
    /\ runner.at \in {"reinstall", "installed"} => runner.seen = "reinstalling_hfc"
    /\ runner.at \in {"start", "restart", "restarted"} => runner.seen = "starting_services"
    /\ runner.at = "verify" => runner.seen = "verifying"
    /\ AtWork => job.phase = runner.seen \/ job.phase \in Terminal
    /\ Kept /\ AtWork => job.phase = runner.seen
    /\ Kept /\ runner.at = "cleanup" => job.phase \in Terminal

\* The journal knows of every phase on the way.
InOrder ==
    /\ job.phase \in Working \ {"locking"} => job.phase \in job.entered
    /\ AtWork /\ runner.seen # "locking" => runner.seen \in job.entered
    /\ \A late \in {"reinstalling_hfc", "starting_services"} :
          late \in job.entered => "updating_hermes" \in job.entered
    /\ "updating_hermes" \in job.entered => "restoring_hooks" \in job.entered

\* From the end of the updater on, the journal has its result.
Compared == job.phase \in {"reinstalling_hfc", "starting_services", "verifying"} =>
    job.target = IF disk.head = "target" THEN "exact" ELSE "mismatch"

Claims == {"new_hfc_restored", "old_hfc_restored", "gateway_restart_requested"}
\* Whoever finishes a job stops working on it.
Closed ==
    /\ job.phase # "failed" => job.boundary = "none"
    /\ job.phase = "succeeded" \/ job.boundary \in Claims => ~AtWork

\* The sidecar that started the job is gone before the checkout changes.
Replaced ==
    "updating_hermes" \in job.entered \/ runner.at \in {"restore", "clean"} => sidecar # "old"

Undoing == runner.at = "undo_start" => disk = [head |-> "old", hooks |-> TRUE, package |-> TRUE]

\* When nobody works on a job that is over, its fences are lifted, or the
\* sidecar is about to lift them.
Lifting ==
    job.phase \in Terminal /\ runner = Off /\ ~left =>
        \/ launch = "releasing" \/ (launch = "unleasing" /\ ~marker)
        \/ ~marker /\ lease = "none"

\* The gateway that the job found.
FirstUp == gateway.up /\ gateway.proc = 0
\* It is still there, and the job is in charge of it.
Standing == Kept /\ FirstUp /\ job.phase \in Working

Counted == runner.proof <= gateway.proc /\ \A r \in heard : r.proc <= gateway.proc

\* Both fences keep work away: a later gateway lets none in, the first is told
\* to drain until it is stopped.
Shut == lease = "held" /\ gateway.hooked /\ gateway.proc # 0 => work = "none"
Fenced ==
    /\ Standing => marker /\ job.phase \in Drained
    /\ runner.at \in {"release", "sidecar", "unstop", "restore", "clean"} => ~FirstUp

\* What a heartbeat says of the first gateway is so from then on: idle when it
\* knew of the drain is idle for good.
Quiet ==
    Standing =>
        /\ \A r \in heard : r.proc = 0 /\ r.draining =>
              gateway.knows /\ (sample = "idle" => work # "running")
        /\ runner.proof = 0 =>
              /\ gateway.knows /\ (sample = "idle" => work # "running")
              /\ \A r \in heard : r.proc = 0 /\ r.fresh /\ r.idle => work # "running"
        /\ job.phase = "restoring_hooks" => gateway.knows /\ work # "running"

Control == PhaseOf /\ InOrder /\ Closed
Progress == Compared /\ Replaced /\ Undoing /\ Lifting /\ JournalFirst /\ RestoredIsTrue
Fencing == Counted /\ Shut /\ Fenced /\ Quiet
IInv == Types /\ Control /\ Progress /\ Fencing

-----------------------------------------------------------------------------
(* Names, and what the ways on do to the job and the runner. *)

LEMMA Names ==
    /\ Working = {"locking", "draining", "restoring_hooks", "updating_hermes",
                  "reinstalling_hfc", "starting_services", "verifying"}
    /\ Steps = {"inspect", "drain", "stop", "update", "reinstall", "start", "verify",
                "off", "load", "lease", "fence", "release", "sidecar", "unstop", "restore",
                "clean", "moved", "undo", "undo_start", "installed", "restart", "restarted",
                "cleanup"}
    /\ Boundaries = {"no_mutation", "old_hfc_or_manual", "updater_result_classified",
                     "native_hermes", "service_recovery", "none", "before_hermes_update",
                     "gateway_restart_requested", "old_hfc_restored", "new_hfc_restored"}
<1>1. Working = {"locking", "draining", "restoring_hooks", "updating_hermes",
                  "reinstalling_hfc", "starting_services", "verifying"}
  BY DEF Working, Ordered
<1>2. \A phase \in Working : FirstStep(phase) \in
        {"inspect", "drain", "stop", "update", "reinstall", "start", "verify"}
  BY <1>1 DEF FirstStep
<1>3. {FirstStep(phase) : phase \in Working} =
        {"inspect", "drain", "stop", "update", "reinstall", "start", "verify"}
  BY <1>1, <1>2 DEF FirstStep
<1>4. {BoundaryOf(phase) : phase \in Working} =
        {"no_mutation", "old_hfc_or_manual", "updater_result_classified",
         "native_hermes", "service_recovery"}
  BY <1>1 DEF BoundaryOf
<1> QED  BY <1>1, <1>3, <1>4 DEF Steps, Boundaries

LEMMA PhaseNames ==
    \A phase \in Working : BoundaryOf(phase) \in Boundaries \ Claims /\ FirstStep(phase) \in Steps
BY Names DEF BoundaryOf, Steps, Claims

LEMMA FirstSteps ==
    /\ FirstStep("locking") = "inspect" /\ FirstStep("draining") = "drain"
    /\ FirstStep("restoring_hooks") = "stop" /\ FirstStep("updating_hermes") = "update"
    /\ FirstStep("reinstalling_hfc") = "reinstall" /\ FirstStep("starting_services") = "start"
    /\ FirstStep("verifying") = "verify"
BY DEF FirstStep

Keeps(s) == runner'.at = s /\ runner'.seen = runner.seen /\ runner'.proof = NoProof
Enters(p, t, s) ==
    /\ job.phase = runner.seen /\ runner'.at = s /\ runner'.seen = p /\ runner'.proof = NoProof
    /\ job'.phase = p /\ job'.entered = job.entered \cup {p} /\ job'.boundary = job.boundary
    /\ job'.target = t
Breaks(b) ==
    /\ job'.phase = "failed" /\ job.entered \subseteq job'.entered /\ job'.boundary = b
    /\ job'.target = "none"
\* The job is no longer in the phase the runner believes in.
Ousted == job.phase # runner.seen /\ job' = job /\ Keeps("cleanup")

LEMMA GotoFields == ASSUME RunnerOK, NEW s, Goto(s) PROVE Keeps(s)
BY DEF RunnerOK, Goto, Keeps

LEMMA FailedFields ==
    ASSUME JobOK, NEW b, job' = Failed(b) PROVE Breaks(b) /\ job'.entered = job.entered
BY DEF JobOK, Jobs, Failed, Breaks

LEMMA FailFields ==
    ASSUME JobOK, RunnerOK, NEW b, Fail(b)
    PROVE  \/ job.phase = runner.seen /\ Breaks(b) /\ job'.entered = job.entered /\ Keeps("cleanup")
           \/ Ousted
<1>1. Keeps("cleanup")
  BY GotoFields DEF Fail
<1> QED  BY <1>1, FailedFields DEF Fail, Current, Ousted

LEMMA AdvanceFields ==
    ASSUME JobOK, RunnerOK, NEW p, NEW t, NEW s, Advance(p, t, s)
    PROVE  Enters(p, t, s) \/ Ousted
<1>1. CASE Current
  <2>1. /\ runner'.at = s /\ runner'.seen = p /\ runner'.proof = NoProof
    BY <1>1 DEF Advance
  <2>2. job' = [Entered(p) EXCEPT !.target = t]
    BY <1>1 DEF Advance
  <2>3. /\ job'.phase = p /\ job'.entered = job.entered \cup {p} /\ job'.boundary = job.boundary
        /\ job'.target = t
    BY <2>2 DEF Entered, JobOK, Jobs
  <2> QED  BY <1>1, <2>1, <2>3 DEF Enters, Current
<1>2. CASE ~Current
  BY <1>2, GotoFields DEF Advance, Current, Ousted
<1> QED  BY <1>1, <1>2

LEMMA ProceedFields ==
    ASSUME JobOK, RunnerOK, NEW p, Proceed(p)
    PROVE  Enters(p, job.target, FirstStep(p)) \/ Ousted
<1>1. Entered(p).target = job.target
  BY DEF Entered, JobOK, Jobs
<1> QED  BY <1>1, AdvanceFields DEF Proceed

LEMMA ShownFields ==
    ASSUME JobOK, RunnerOK, NEW p, ProceedShown(p)
    PROVE  \/ Enters(p, job.target, FirstStep(p)) \/ Ousted
           \/ /\ job.phase = runner.seen /\ Breaks("no_mutation") /\ Keeps("cleanup")
              /\ job'.entered = job.entered \cup {p}
<1>1. CASE Proceed(p)
  BY <1>1, ProceedFields
<1>2. CASE /\ job' = IF Current THEN [Failed("no_mutation") EXCEPT !.entered = @ \cup {p}]
                     ELSE job
           /\ Goto("cleanup")
  <2>1. CASE Current
    BY <1>2, <2>1, GotoFields DEF Failed, Current, JobOK, Jobs, Breaks
  <2> QED  BY <1>2, <2>1, GotoFields DEF Current, Ousted
<1> QED  BY <1>1, <1>2 DEF ProceedShown

-----------------------------------------------------------------------------
(* What some steps do, in the same terms. *)

LEMMA LoadFields ==
    ASSUME Types, Load
    PROVE  /\ runner.at = "load" /\ UNCHANGED <<launch, left, fences, services, disk>>
           /\ \/ job.phase \in Terminal /\ job' = job /\ Keeps("cleanup")
              \/ /\ job.phase \in Working /\ job' = job
                 /\ runner'.at = "lease" /\ runner'.seen = job.phase /\ runner'.proof = NoProof
              \/ /\ job.phase \in Working /\ Keeps("cleanup") /\ job'.entered = job.entered
                 /\ \E b \in Boundaries \ Claims : Breaks(b)
<1>1. CASE job' = Failed(BoundaryOf(job.phase)) /\ job.phase \in Working
  BY <1>1, PhaseNames, FailedFields, GotoFields DEF Types, Load, At
<1>2. CASE job.phase \in Terminal /\ UNCHANGED job /\ Goto("cleanup")
  BY <1>2, GotoFields DEF Types, Load, At
<1>3. CASE /\ job.phase \in Working /\ UNCHANGED job
           /\ runner' = [at |-> "lease", seen |-> job.phase, proof |-> NoProof]
  BY <1>3 DEF Load, At
<1> QED  BY <1>1, <1>2, <1>3 DEF Load

LEMMA FenceFields ==
    ASSUME Types, Fence
    PROVE  /\ runner.at = "fence" /\ runner.seen \in Working
           /\ UNCHANGED <<launch, left, lease, services, disk>>
           /\ \/ /\ marker' <=> runner.seen \in Drained
                 /\ job' = job /\ Keeps(FirstStep(runner.seen))
              \/ /\ job.phase = runner.seen /\ job'.entered = job.entered /\ Keeps("cleanup")
                 /\ \E b \in Boundaries \ Claims : Breaks(b)
              \/ Ousted
<1>1. runner.seen \in Working
  BY DEF Types, RunnerOK
<1>2. BoundaryOf(runner.seen) \in Boundaries \ Claims /\ "no_mutation" \in Boundaries \ Claims
  BY <1>1, PhaseNames, Names DEF Claims
<1>3. CASE Fail("no_mutation") \/ Fail(BoundaryOf(runner.seen))
  BY <1>1, <1>2, <1>3, FailFields DEF Types, Fence, At
<1>4. CASE marker' = (runner.seen \in Drained) /\ UNCHANGED job /\ Goto(FirstStep(runner.seen))
  BY <1>1, <1>4, GotoFields DEF Types, Fence, At
<1> QED  BY <1>3, <1>4 DEF Fence

LEMMA IdleFields ==
    ASSUME Types, Idle
    PROVE  /\ runner.at = "drain" /\ UNCHANGED <<launch, left, fences, hermes, sidecar, disk>>
           /\ \E r \in heard :
                /\ Evident(r) /\ r.idle
                /\ \/ Proves(r) /\ ProceedShown("restoring_hooks") /\ UNCHANGED heard
                   \/ /\ job' = job /\ runner'.at = "drain" /\ runner'.seen = runner.seen
                      /\ runner'.proof = r.proc /\ heard' = {[r EXCEPT !.fresh = FALSE]}
<1>1. PICK r \in heard :
        /\ Evident(r) /\ r.idle
        /\ \/ Proves(r) /\ ProceedShown("restoring_hooks") /\ UNCHANGED heard
           \/ /\ ~Proves(r) /\ runner' = [runner EXCEPT !.proof = r.proc]
              /\ heard' = {[r EXCEPT !.fresh = FALSE]} /\ UNCHANGED job
  BY DEF Idle
<1>2. runner' = [runner EXCEPT !.proof = r.proc] =>
        runner'.at = runner.at /\ runner'.seen = runner.seen /\ runner'.proof = r.proc
  BY DEF Types, RunnerOK
<1> QED  BY <1>1, <1>2 DEF Idle, At

LEMMA ReleaseFields ==
    ASSUME Release
    PROVE  /\ runner.at = "release" /\ UNCHANGED <<launch, left, lease, services, disk>>
           /\ (job' = job /\ Goto("sidecar")) \/ Fail("old_hfc_or_manual")
BY DEF Release, At

LEMMA UpdateFields ==
    ASSUME Update
    PROVE  /\ runner.at = "update" /\ UNCHANGED <<launch, left, fences, heard, sidecar>>
           /\ GatewayStarts \/ UNCHANGED hermes
           /\ (job' = job /\ (Goto("moved") \/ Goto("undo"))) \/ Fail("updater_result_classified")
           /\ disk' = disk \/ job' # job \/ disk.head = "old"
BY DEF Update, Updates, At

LEMMA VerifyFields ==
    ASSUME Types, Verify
    PROVE  /\ runner.at = "verify" /\ UNCHANGED <<launch, left, fences, services, disk>>
           /\ \/ Fail("service_recovery") \/ Ousted
              \/ /\ job.phase = runner.seen /\ Keeps("cleanup") /\ job'.entered = job.entered
                 /\ sidecar = "new" /\ disk.hooks /\ disk.package
                 /\ \/ job.target = "mismatch" /\ Breaks("new_hfc_restored")
                    \/ /\ job.target # "mismatch" /\ job'.phase = "succeeded"
                       /\ job'.boundary = job.boundary
<1>1. CASE Fail("service_recovery")
  BY <1>1 DEF Verify, At
<1>2. CASE ~Fail("service_recovery") /\ ~Current
  BY <1>2, GotoFields DEF Types, Verify, At, Current, Ousted
<1>3. CASE ~Fail("service_recovery") /\ Current /\ job.target = "mismatch"
  BY <1>3, FailedFields, GotoFields DEF Types, Verify, Ready, At, Current
<1>4. CASE ~Fail("service_recovery") /\ Current /\ job.target # "mismatch"
  <2>1. job' = [job EXCEPT !.phase = "succeeded"]
    BY <1>4 DEF Verify
  <2>2. job'.phase = "succeeded" /\ job'.entered = job.entered /\ job'.boundary = job.boundary
    BY <2>1 DEF Types, JobOK, Jobs
  <2> QED  BY <1>4, <2>2, GotoFields DEF Types, Verify, Ready, At, Current
<1> QED  BY <1>1, <1>2, <1>3, <1>4

-----------------------------------------------------------------------------
(* Types. *)

LEMMA GotoTypes == ASSUME RunnerOK, NEW s \in Steps, Goto(s) PROVE RunnerOK'
BY DEF RunnerOK, Goto, NoProof

LEMMA KeptTypes == ASSUME JobOK, UNCHANGED job PROVE JobOK'
BY DEF JobOK

LEMMA FreshTypes ==
    ASSUME RunnerOK, runner' \in {runner, Off, [Off EXCEPT !.at = "load"]} PROVE RunnerOK'
<1>1. ASSUME NEW s \in {"off", "load"}
      PROVE  [at |-> s, seen |-> "locking", proof |-> NoProof]
                 \in [at : Steps, seen : Working, proof : Nat \cup {NoProof}]
  BY Names
<1>2. /\ Off = [at |-> "off", seen |-> "locking", proof |-> NoProof]
      /\ [Off EXCEPT !.at = "load"] = [at |-> "load", seen |-> "locking", proof |-> NoProof]
  BY DEF Off
<1> QED  BY <1>1, <1>2 DEF RunnerOK

LEMMA FailedTypes == ASSUME JobOK, NEW b \in Boundaries, job' = Failed(b) PROVE JobOK'
<1>1. Failed(b) \in Jobs
  BY DEF JobOK, Jobs, Terminal, Failed
<1> QED  BY <1>1 DEF JobOK

LEMMA FailTypes ==
    ASSUME JobOK, RunnerOK, NEW b \in Boundaries, Fail(b) PROVE JobOK' /\ RunnerOK'
<1>1. "cleanup" \in Steps /\ Goto("cleanup")
  BY Names DEF Fail
<1>2. RunnerOK'
  BY <1>1, GotoTypes
<1>3. job' = Failed(b) \/ job' = job
  BY DEF Fail
<1> QED  BY <1>2, <1>3, FailedTypes, KeptTypes

LEMMA AdvanceTypes ==
    ASSUME JobOK, RunnerOK, NEW p \in Working, NEW t \in {"none", "exact", "mismatch"},
           NEW s \in Steps, Advance(p, t, s)
    PROVE  JobOK' /\ RunnerOK'
<1>1. CASE UNCHANGED job /\ Goto("cleanup")
  BY <1>1, GotoTypes, Names DEF JobOK
<1>2. CASE /\ job' = [Entered(p) EXCEPT !.target = t]
           /\ runner' = [at |-> s, seen |-> p, proof |-> NoProof]
  <2>1. RunnerOK'
    BY <1>2 DEF RunnerOK
  <2>2. Entered(p) \in Jobs
    BY DEF JobOK, Jobs, Entered
  <2> QED  BY <1>2, <2>1, <2>2 DEF JobOK, Jobs
<1> QED  BY <1>1, <1>2 DEF Advance

LEMMA ProceedTypes ==
    ASSUME JobOK, RunnerOK, NEW p \in Working, Proceed(p) PROVE JobOK' /\ RunnerOK'
<1>1. Entered(p).target \in {"none", "exact", "mismatch"}
  BY DEF JobOK, Jobs, Entered
<1> QED  BY <1>1, PhaseNames, AdvanceTypes DEF Proceed

LEMMA ShownTypes ==
    ASSUME JobOK, RunnerOK, NEW p \in Working, ProceedShown(p) PROVE JobOK' /\ RunnerOK'
<1>1. CASE Proceed(p)
  BY <1>1, ProceedTypes
<1>2. CASE /\ job' = IF Current THEN [Failed("no_mutation") EXCEPT !.entered = @ \cup {p}]
                     ELSE job
           /\ Goto("cleanup")
  <2>1. RunnerOK'
    BY <1>2, GotoTypes, Names
  <2>2. [Failed("no_mutation") EXCEPT !.entered = @ \cup {p}] \in Jobs
    BY Names DEF JobOK, Jobs, Failed, Terminal
  <2> QED  BY <1>2, <2>1, <2>2 DEF JobOK
<1> QED  BY <1>1, <1>2 DEF ProceedShown

LEMMA JobStep == Types /\ [Next]_vars => JobOK' /\ RunnerOK'
<1> SUFFICES ASSUME Types, [Next]_vars PROVE JobOK' /\ RunnerOK'
  OBVIOUS
<1> USE Names, PhaseNames, GotoTypes, KeptTypes, FailTypes, AdvanceTypes, ProceedTypes, ShownTypes
        DEF Types, At
<1>0. CASE UNCHANGED <<job, runner>>
  BY <1>0 DEF JobOK, RunnerOK
<1>1. CASE Launch
  <2>1. UNCHANGED job /\ runner' \in {runner, [Off EXCEPT !.at = "load"]}
    BY <1>1 DEF Launch
  <2> QED  BY <2>1, FreshTypes
<1>2. CASE Unstarted \/ FailReserved
  BY <1>2, FreshTypes, FailedTypes DEF Unstarted, FailReserved, Lead
<1>3. CASE Resume \/ Crash \/ CleanUp
  BY <1>3, FreshTypes DEF Resume, Crash, CleanUp
<1>4. CASE Load
  <2>1. CASE UNCHANGED job /\ Goto("cleanup")
    BY <2>1
  <2>2. CASE /\ job.phase \in Working /\ UNCHANGED job
             /\ runner' = [at |-> "lease", seen |-> job.phase, proof |-> NoProof]
    BY <2>2 DEF RunnerOK
  <2>3. CASE job.phase \in Working /\ job' = Failed(BoundaryOf(job.phase)) /\ Goto("cleanup")
    BY <2>3, FailedTypes
  <2> QED  BY <1>4, <2>1, <2>2, <2>3 DEF Load
<1>5. CASE Fence
  <2>1. runner.seen \in Working
    BY DEF RunnerOK
  <2>2. CASE UNCHANGED job /\ Goto(FirstStep(runner.seen))
    BY <2>1, <2>2
  <2>3. CASE Fail("no_mutation") \/ Fail(BoundaryOf(runner.seen))
    BY <2>1, <2>3
  <2> QED  BY <1>5, <2>2, <2>3 DEF Fence
<1>6. CASE Idle
  <2>1. CASE ProceedShown("restoring_hooks")
    BY <2>1
  <2>2. ASSUME UNCHANGED job, NEW r \in heard, runner' = [runner EXCEPT !.proof = r.proc],
               runner.at = "drain"
        PROVE  JobOK' /\ RunnerOK'
    BY <2>2 DEF RunnerOK, SidecarOK
  <2> QED  BY <1>6, <2>1, <2>2 DEF Idle
<1>7. CASE Lease
  BY <1>7 DEF Lease
<1>8. CASE Inspect
  BY <1>8 DEF Inspect
<1>9. CASE NotIdle
  BY <1>9 DEF NotIdle
<1>10. CASE Stop
  BY <1>10 DEF Stop
<1>11. CASE Release
  BY <1>11 DEF Release
<1>12. CASE StopSidecar
  BY <1>12 DEF StopSidecar
<1>13. CASE Unstop
  BY <1>13 DEF Unstop
<1>14. CASE Restore
  BY <1>14 DEF Restore
<1>15. CASE Clean
  BY <1>15 DEF Clean
<1>16. CASE Update
  BY <1>16 DEF Update
<1>17. CASE Moved
  BY <1>17 DEF Moved
<1>18. CASE Undo
  BY <1>18 DEF Undo
<1>19. CASE UndoStart
  BY <1>19 DEF UndoStart
<1>20. CASE Reinstall
  BY <1>20 DEF Reinstall
<1>21. CASE Installed
  BY <1>21 DEF Installed
<1>22. CASE StartSidecar
  BY <1>22 DEF StartSidecar
<1>23. CASE Restart
  BY <1>23 DEF Restart
<1>24. CASE Restarted
  BY <1>24 DEF Restarted
<1>25. CASE Verify
  <2>1. CASE Fail("service_recovery")
    BY <2>1
  <2>2. CASE /\ Goto("cleanup")
             /\ job' \in {job, Failed("new_hfc_restored"), [job EXCEPT !.phase = "succeeded"]}
    BY <2>2, FailedTypes DEF JobOK, Jobs, Terminal
  <2> QED  BY <1>25, <2>1, <2>2 DEF Verify
<1>26. CASE LetIn \/ Begin \/ EndWork \/ Notice \/ Count \/ Beat \/ Unheard \/ StartByHand
         \/ Expire \/ ReleaseMarker \/ ReleaseLease
  BY <1>0, <1>26 DEF LetIn, Begin, EndWork, Notice, Count, Beat, Unheard, StartByHand,
     Expire, ReleaseMarker, ReleaseLease
<1> QED  BY <1>0, <1>1, <1>2, <1>3, <1>4, <1>5, <1>6, <1>7, <1>8, <1>9, <1>10, <1>11, <1>12,
     <1>13, <1>14, <1>15, <1>16, <1>17, <1>18, <1>19, <1>20, <1>21, <1>22, <1>23, <1>24, <1>25,
     <1>26
     DEF Next, Leads, Opens, Drains, Removes, Renews, Returns, vars

LEMMA StartsTypes == ASSUME GatewayOK, DiskOK', GatewayStarts PROVE GatewayOK'
<1>1. (disk'.hooks /\ disk'.package) \in BOOLEAN
  OBVIOUS
<1> QED  BY <1>1 DEF GatewayStarts, GatewayOK

LEMMA StopsTypes == ASSUME GatewayOK, GatewayStops PROVE GatewayOK'
BY DEF GatewayStops, GatewayOK

LEMMA KeptGateway == ASSUME GatewayOK, UNCHANGED hermes PROVE GatewayOK'
BY DEF GatewayOK, hermes

LEMMA ReportTypes ==
    ASSUME GatewayOK
    PROVE  Report \in [proc : Nat, idle : BOOLEAN, draining : BOOLEAN, fresh : BOOLEAN]
<1>1. (sample = "idle") \in BOOLEAN
  OBVIOUS
<1> QED  BY <1>1 DEF Report, GatewayOK

LEMMA FencesStep == Types /\ [Next]_vars => FencesOK'
<1> SUFFICES ASSUME Types, [Next]_vars PROVE FencesOK'
  OBVIOUS
<1> USE MaintenanceAssumption DEF Types, FencesOK, LaunchSteps, fences, services, hermes, bounds, At
<1>0. CASE UNCHANGED <<launch, lease, marker, left, crashes, handStarts>>
  BY <1>0
<1>1. CASE Expire
  BY <1>1 DEF Expire
<1>2. CASE Launch
  BY <1>2 DEF Launch, Lead
<1>3. CASE Unstarted
  BY <1>3 DEF Unstarted, Lead
<1>4. CASE FailReserved
  BY <1>4 DEF FailReserved, Lead
<1>5. CASE ReleaseMarker
  BY <1>5 DEF ReleaseMarker, Lead
<1>6. CASE ReleaseLease
  BY <1>6 DEF ReleaseLease, Lead
<1>7. CASE Crash
  BY <1>7 DEF Crash
<1>8. CASE StartByHand
  BY <1>8 DEF StartByHand
<1>9. CASE CleanUp
  BY <1>9 DEF CleanUp
<1>10. CASE Fence
  <2>1. (runner.seen \in Drained) \in BOOLEAN
    OBVIOUS
  <2> QED  BY <1>10, <2>1 DEF Fence
<1>11. CASE Release
  BY <1>11 DEF Release
<1>12. CASE LetIn \/ Begin \/ EndWork \/ Notice \/ Count \/ Beat \/ Unheard \/ Resume \/
         Load \/ Lease \/ Inspect \/ Idle \/ NotIdle \/ Stop \/ StopSidecar \/ Unstop \/
         Restore \/ Clean \/ Update \/ Moved \/ Undo \/ UndoStart \/ Reinstall \/
         Installed \/ StartSidecar \/ Restart \/ Restarted \/ Verify
  BY <1>0, <1>12 DEF At, Lead, fences, services, hermes, bounds, LetIn, Begin, EndWork,
     Notice, Count, Beat, Unheard, Resume, Load, Lease, Inspect, Idle, NotIdle, Stop,
     StopSidecar, Unstop, Restore, Clean, Update, Moved, Undo, UndoStart, Reinstall,
     Installed, StartSidecar, Restart, Restarted, Verify
<1> QED  BY <1>0, <1>1, <1>2, <1>3, <1>4, <1>5, <1>6, <1>7, <1>8, <1>9, <1>10, <1>11,
     <1>12
     DEF Next, Leads, Opens, Drains, Removes, Renews, Returns, vars, fences, services, hermes,
     bounds

LEMMA DiskStep == Types /\ [Next]_vars => DiskOK'
<1> SUFFICES ASSUME Types, [Next]_vars PROVE DiskOK'
  OBVIOUS
<1> USE DEF Types, DiskOK
<1>0. CASE UNCHANGED disk
  BY <1>0
<1>1. CASE Restore
  BY <1>1 DEF Restore
<1>2. CASE Update
  BY <1>2 DEF Update, Updates
<1>3. CASE Undo
  BY <1>3 DEF Undo, Installs, InstallsSome
<1>4. CASE Reinstall
  BY <1>4 DEF Reinstall, Installs, InstallsSome
<1>5. CASE LetIn \/ Begin \/ EndWork \/ Notice \/ Count \/ Beat \/ Unheard \/ StartByHand
         \/ Expire \/ Launch \/ Unstarted \/ FailReserved \/ ReleaseMarker \/
         ReleaseLease \/ Resume \/ Crash \/ Load \/ Lease \/ Fence \/ CleanUp \/ Inspect
         \/ Idle \/ NotIdle \/ Stop \/ Release \/ StopSidecar \/ Unstop \/ Clean \/ Moved
         \/ UndoStart \/ Installed \/ StartSidecar \/ Restart \/ Restarted \/ Verify
  BY <1>0, <1>5 DEF At, Lead, fences, services, hermes, bounds, LetIn, Begin, EndWork,
     Notice, Count, Beat, Unheard, StartByHand, Expire, Launch, Unstarted, FailReserved,
     ReleaseMarker, ReleaseLease, Resume, Crash, Load, Lease, Fence, CleanUp, Inspect, Idle,
     NotIdle, Stop, Release, StopSidecar, Unstop, Clean, Moved, UndoStart, Installed,
     StartSidecar, Restart, Restarted, Verify
<1> QED  BY <1>0, <1>1, <1>2, <1>3, <1>4, <1>5
     DEF Next, Leads, Opens, Drains, Removes, Renews, Returns, vars, fences, services, hermes,
     bounds

LEMMA GatewayStep == Types /\ [Next]_vars => GatewayOK'
<1> SUFFICES ASSUME Types, [Next]_vars PROVE GatewayOK'
  OBVIOUS
<1> USE DiskStep, StartsTypes DEF Types, hermes
<1>0. CASE UNCHANGED hermes
  BY <1>0 DEF GatewayOK
<1>1. CASE LetIn
  BY <1>1 DEF LetIn, GatewayOK
<1>2. CASE Begin
  BY <1>2 DEF Begin, GatewayOK
<1>3. CASE EndWork
  BY <1>3 DEF EndWork, GatewayOK
<1>4. CASE Notice
  BY <1>4 DEF Notice, FencesOK, GatewayOK
<1>5. CASE Count
  BY <1>5 DEF Count, GatewayOK
<1>6. CASE Beat
  BY <1>6 DEF Beat, GatewayOK
<1>7. CASE StartByHand
  BY <1>7 DEF StartByHand
<1>8. CASE Stop
  BY <1>8, KeptGateway, StopsTypes DEF Stop
<1>9. CASE Unstop
  BY <1>9, KeptGateway, StopsTypes DEF Unstop
<1>10. CASE Update
  BY <1>10, KeptGateway DEF Update, Updates
<1>11. CASE UndoStart
  BY <1>11, KeptGateway, StopsTypes DEF UndoStart
<1>12. CASE Restart
  BY <1>12, KeptGateway, StopsTypes DEF Restart
<1>13. CASE Unheard \/ Expire \/ Launch \/ Unstarted \/ FailReserved \/ ReleaseMarker \/
         ReleaseLease \/ Resume \/ Crash \/ Load \/ Lease \/ Fence \/ CleanUp \/ Inspect
         \/ Idle \/ NotIdle \/ Release \/ StopSidecar \/ Restore \/ Clean \/ Moved \/
         Undo \/ Reinstall \/ Installed \/ StartSidecar \/ Restarted \/ Verify
  BY <1>0, <1>13 DEF At, Lead, fences, services, hermes, bounds, Unheard, Expire, Launch,
     Unstarted, FailReserved, ReleaseMarker, ReleaseLease, Resume, Crash, Load, Lease, Fence,
     CleanUp, Inspect, Idle, NotIdle, Release, StopSidecar, Restore, Clean, Moved, Undo,
     Reinstall, Installed, StartSidecar, Restarted, Verify
<1> QED  BY <1>0, <1>1, <1>2, <1>3, <1>4, <1>5, <1>6, <1>7, <1>8, <1>9, <1>10, <1>11,
     <1>12, <1>13
     DEF Next, Leads, Opens, Drains, Removes, Renews, Returns, vars, fences, services, hermes,
     bounds

LEMMA SidecarStep == Types /\ [Next]_vars => SidecarOK'
<1> SUFFICES ASSUME Types, [Next]_vars PROVE SidecarOK'
  OBVIOUS
<1> USE DEF Types, SidecarOK
<1>0. CASE UNCHANGED <<heard, sidecar>>
  BY <1>0
<1>1. CASE Beat
  BY <1>1, ReportTypes DEF Beat
<1>2. CASE Unheard
  BY <1>2 DEF Unheard
<1>3. CASE Idle
  BY <1>3 DEF Idle
<1>4. CASE StopSidecar
  BY <1>4 DEF StopSidecar, SidecarStops
<1>5. CASE StartSidecar
  BY <1>5 DEF StartSidecar, SidecarStarts
<1>6. CASE UndoStart
  BY <1>6, KeptGateway DEF UndoStart, SidecarStarts
<1>7. CASE LetIn \/ Begin \/ EndWork \/ Notice \/ Count \/ StartByHand \/ Expire \/ Launch
         \/ Unstarted \/ FailReserved \/ ReleaseMarker \/ ReleaseLease \/ Resume \/ Crash
         \/ Load \/ Lease \/ Fence \/ CleanUp \/ Inspect \/ NotIdle \/ Stop \/ Release \/
         Unstop \/ Restore \/ Clean \/ Update \/ Moved \/ Undo \/ Reinstall \/ Installed
         \/ Restart \/ Restarted \/ Verify
  BY <1>0, <1>7 DEF At, Lead, fences, services, hermes, bounds, LetIn, Begin, EndWork,
     Notice, Count, StartByHand, Expire, Launch, Unstarted, FailReserved, ReleaseMarker,
     ReleaseLease, Resume, Crash, Load, Lease, Fence, CleanUp, Inspect, NotIdle, Stop,
     Release, Unstop, Restore, Clean, Update, Moved, Undo, Reinstall, Installed, Restart,
     Restarted, Verify
<1> QED  BY <1>0, <1>1, <1>2, <1>3, <1>4, <1>5, <1>6, <1>7
     DEF Next, Leads, Opens, Drains, Removes, Renews, Returns, vars, fences, services, hermes,
     bounds

LEMMA TypesStep == Types /\ [Next]_vars => Types'
BY JobStep, FencesStep, GatewayStep, SidecarStep, DiskStep DEF Types

-----------------------------------------------------------------------------
(* The job and the runner that works on it. *)

LEMMA PhaseStep == IInv /\ [Next]_vars => PhaseOf'
<1> SUFFICES ASSUME IInv, Types', [Next]_vars PROVE PhaseOf'
  BY TypesStep DEF IInv
<1> USE Names, FirstSteps, GotoFields, FailFields, AdvanceFields, ProceedFields,
        ShownFields
        DEF IInv, Types, Control, Keeps, Enters, Breaks, Ousted, Terminal, At, AtWork, Kept,
            GivenUp, PhaseOf, fences, services, hermes, bounds, Off
<1>0. CASE UNCHANGED <<job, runner, launch, lease>>
  BY <1>0 DEF PhaseOf, AtWork, Kept
<1>1. CASE Expire
  BY <1>1 DEF Expire
<1>2. CASE Launch \/ Resume \/ Crash
  BY <1>2 DEF Launch, Lead, Resume, Crash
<1>3. CASE Unstarted \/ FailReserved
  BY <1>3, FailedFields DEF Unstarted, Lead, FailReserved
<1>4. CASE ReleaseMarker \/ ReleaseLease
  BY <1>4 DEF ReleaseMarker, Lead, ReleaseLease
<1>5. CASE CleanUp
  BY <1>5 DEF CleanUp
<1>6. CASE Lease
  BY <1>6 DEF Lease
<1>7. CASE Load
  BY <1>7, LoadFields
<1>8. CASE Fence
  BY <1>8, FenceFields
<1>9. CASE Inspect \/ Idle \/ NotIdle
  BY <1>9, IdleFields DEF Inspect, NotIdle
<1>10. CASE Stop \/ Release \/ StopSidecar \/ Unstop \/ Restore \/ Clean
  BY <1>10, ReleaseFields DEF Stop, GatewayStops, StopSidecar, SidecarStops, Unstop,
     GatewayStarts, Restore, Clean
<1>11. CASE Update \/ Moved
  BY <1>11, UpdateFields DEF Moved
<1>12. CASE Undo \/ UndoStart
  BY <1>12 DEF Undo, Installs, InstallsSome, UndoStart, GatewayStops, GatewayStarts,
     SidecarStarts
<1>13. CASE Reinstall \/ Installed \/ StartSidecar \/ Restart \/ Restarted \/ Verify
  BY <1>13, VerifyFields DEF Reinstall, Installs, InstallsSome, Installed, StartSidecar,
     SidecarStarts, Restart, GatewayStops, GatewayStarts, Restarted
<1>14. CASE LetIn \/ Begin \/ EndWork \/ Notice \/ Count \/ Beat \/ Unheard \/ StartByHand
  BY <1>0, <1>14 DEF At, Lead, fences, services, hermes, bounds, LetIn, Begin, EndWork,
     Notice, Count, Beat, Unheard, StartByHand
<1> QED  BY <1>0, <1>1, <1>2, <1>3, <1>4, <1>5, <1>6, <1>7, <1>8, <1>9, <1>10, <1>11, <1>12,
     <1>13, <1>14
     DEF Next, Leads, Opens, Drains, Removes, Renews, Returns, vars, fences, services, hermes,
     bounds

LEMMA OrderStep == IInv /\ [Next]_vars => InOrder'
<1> SUFFICES ASSUME IInv, Types', [Next]_vars PROVE InOrder'
  BY TypesStep DEF IInv
<1> USE Names, FirstSteps, GotoFields, FailFields, AdvanceFields, ProceedFields,
        ShownFields
        DEF IInv, Types, Control, Keeps, Enters, Breaks, Ousted, Terminal, At, AtWork,
            PhaseOf, InOrder, fences, services, hermes, bounds, Off
<1>0. CASE UNCHANGED <<job, runner>>
  BY <1>0 DEF InOrder, AtWork
<1>1. CASE Launch \/ Resume \/ Crash
  BY <1>1 DEF Launch, Lead, Resume, Crash
<1>2. CASE Unstarted \/ FailReserved
  BY <1>2, FailedFields DEF Unstarted, Lead, FailReserved
<1>3. CASE CleanUp
  BY <1>3 DEF CleanUp
<1>4. CASE Lease
  BY <1>4 DEF Lease
<1>5. CASE Load
  BY <1>5, LoadFields
<1>6. CASE Fence
  BY <1>6, FenceFields
<1>7. CASE Inspect \/ Idle \/ NotIdle
  BY <1>7, IdleFields DEF Inspect, NotIdle
<1>8. CASE Stop \/ Release \/ StopSidecar \/ Unstop \/ Restore \/ Clean
  BY <1>8, ReleaseFields DEF Stop, GatewayStops, StopSidecar, SidecarStops, Unstop,
     GatewayStarts, Restore, Clean
<1>9. CASE Update \/ Moved
  BY <1>9, UpdateFields DEF Moved
<1>10. CASE Undo \/ UndoStart
  BY <1>10 DEF Undo, Installs, InstallsSome, UndoStart, GatewayStops, GatewayStarts,
     SidecarStarts
<1>11. CASE Reinstall \/ Installed \/ StartSidecar \/ Restart \/ Restarted \/ Verify
  BY <1>11, VerifyFields DEF Reinstall, Installs, InstallsSome, Installed, StartSidecar,
     SidecarStarts, Restart, GatewayStops, GatewayStarts, Restarted
<1>12. CASE LetIn \/ Begin \/ EndWork \/ Notice \/ Count \/ Beat \/ Unheard \/ StartByHand
         \/ Expire \/ ReleaseMarker \/ ReleaseLease
  BY <1>0, <1>12 DEF At, Lead, fences, services, hermes, bounds, LetIn, Begin, EndWork,
     Notice, Count, Beat, Unheard, StartByHand, Expire, ReleaseMarker, ReleaseLease
<1> QED  BY <1>0, <1>1, <1>2, <1>3, <1>4, <1>5, <1>6, <1>7, <1>8, <1>9, <1>10, <1>11, <1>12
     DEF Next, Leads, Opens, Drains, Removes, Renews, Returns, vars, fences, services, hermes,
     bounds

LEMMA ClosedStep == IInv /\ [Next]_vars => Closed'
<1> SUFFICES ASSUME IInv, Types', [Next]_vars PROVE Closed'
  BY TypesStep DEF IInv
<1> USE Names, FirstSteps, GotoFields, FailFields, AdvanceFields, ProceedFields,
        ShownFields
        DEF IInv, Types, Control, Keeps, Enters, Breaks, Ousted, Terminal, At, AtWork,
            PhaseOf, Closed, Claims, fences, services, hermes, bounds, Off
<1>0. CASE UNCHANGED <<job, runner>>
  BY <1>0 DEF Closed, AtWork
<1>1. CASE Launch \/ Resume \/ Crash
  BY <1>1 DEF Launch, Lead, Resume, Crash
<1>2. CASE Unstarted \/ FailReserved
  BY <1>2, FailedFields DEF Unstarted, Lead, FailReserved
<1>3. CASE CleanUp
  BY <1>3 DEF CleanUp
<1>4. CASE Lease
  BY <1>4 DEF Lease
<1>5. CASE Load
  BY <1>5, LoadFields
<1>6. CASE Fence
  BY <1>6, FenceFields
<1>7. CASE Inspect \/ Idle \/ NotIdle
  BY <1>7, IdleFields DEF Inspect, NotIdle
<1>8. CASE Stop \/ Release \/ StopSidecar \/ Unstop \/ Restore \/ Clean
  BY <1>8, ReleaseFields DEF Stop, GatewayStops, StopSidecar, SidecarStops, Unstop,
     GatewayStarts, Restore, Clean
<1>9. CASE Update \/ Moved
  BY <1>9, UpdateFields DEF Moved
<1>10. CASE Undo \/ UndoStart
  BY <1>10 DEF Undo, Installs, InstallsSome, UndoStart, GatewayStops, GatewayStarts,
     SidecarStarts
<1>11. CASE Reinstall \/ Installed \/ StartSidecar \/ Restart \/ Restarted \/ Verify
  BY <1>11, VerifyFields DEF Reinstall, Installs, InstallsSome, Installed, StartSidecar,
     SidecarStarts, Restart, GatewayStops, GatewayStarts, Restarted
<1>12. CASE LetIn \/ Begin \/ EndWork \/ Notice \/ Count \/ Beat \/ Unheard \/ StartByHand
         \/ Expire \/ ReleaseMarker \/ ReleaseLease
  BY <1>0, <1>12 DEF At, Lead, fences, services, hermes, bounds, LetIn, Begin, EndWork,
     Notice, Count, Beat, Unheard, StartByHand, Expire, ReleaseMarker, ReleaseLease
<1> QED  BY <1>0, <1>1, <1>2, <1>3, <1>4, <1>5, <1>6, <1>7, <1>8, <1>9, <1>10, <1>11, <1>12
     DEF Next, Leads, Opens, Drains, Removes, Renews, Returns, vars, fences, services, hermes,
     bounds

-----------------------------------------------------------------------------
(* The journal and what it speaks of. *)

LEMMA ComparedStep == IInv /\ [Next]_vars => Compared'
<1> SUFFICES ASSUME IInv, Types', [Next]_vars PROVE Compared'
  BY TypesStep DEF IInv
<1> USE Names, FirstSteps, GotoFields, FailFields, AdvanceFields, ProceedFields,
        ShownFields
        DEF IInv, Types, Control, Keeps, Enters, Breaks, Ousted, Terminal, At, AtWork,
            Progress, PhaseOf, InOrder, Closed, fences, services, hermes, bounds, Off, Compared,
            DiskOK
<1>0. CASE UNCHANGED <<job, disk>>
  BY <1>0 DEF Compared
<1>1. CASE Unstarted \/ FailReserved
  BY <1>1, FailedFields DEF Unstarted, Lead, FailReserved
<1>2. CASE CleanUp
  BY <1>2 DEF CleanUp
<1>3. CASE Lease
  BY <1>3 DEF Lease
<1>4. CASE Load
  BY <1>4, LoadFields
<1>5. CASE Fence
  BY <1>5, FenceFields
<1>6. CASE Inspect \/ Idle \/ NotIdle
  BY <1>6, IdleFields DEF Inspect, NotIdle
<1>7. CASE Stop \/ Release \/ StopSidecar \/ Unstop \/ Restore \/ Clean
  BY <1>7, ReleaseFields DEF Stop, GatewayStops, StopSidecar, SidecarStops, Unstop,
     GatewayStarts, Restore, Clean
<1>8. CASE Update \/ Moved
  BY <1>8, UpdateFields DEF Moved
<1>9. CASE Undo \/ UndoStart
  BY <1>9 DEF Undo, Installs, InstallsSome, UndoStart, GatewayStops, GatewayStarts,
     SidecarStarts
<1>10. CASE Reinstall \/ Installed \/ StartSidecar \/ Restart \/ Restarted \/ Verify
  BY <1>10, VerifyFields DEF Reinstall, Installs, InstallsSome, Installed, StartSidecar,
     SidecarStarts, Restart, GatewayStops, GatewayStarts, Restarted
<1>11. CASE LetIn \/ Begin \/ EndWork \/ Notice \/ Count \/ Beat \/ Unheard \/ StartByHand
         \/ Expire \/ Launch \/ ReleaseMarker \/ ReleaseLease \/ Resume \/ Crash
  BY <1>0, <1>11 DEF At, Lead, fences, services, hermes, bounds, LetIn, Begin, EndWork,
     Notice, Count, Beat, Unheard, StartByHand, Expire, Launch, ReleaseMarker, ReleaseLease,
     Resume, Crash
<1> QED  BY <1>0, <1>1, <1>2, <1>3, <1>4, <1>5, <1>6, <1>7, <1>8, <1>9, <1>10, <1>11
     DEF Next, Leads, Opens, Drains, Removes, Renews, Returns, vars, fences, services, hermes,
     bounds

LEMMA ReplacedStep == IInv /\ [Next]_vars => Replaced'
<1> SUFFICES ASSUME IInv, Types', [Next]_vars PROVE Replaced'
  BY TypesStep DEF IInv
<1> USE Names, FirstSteps, GotoFields, FailFields, AdvanceFields, ProceedFields,
        ShownFields
        DEF IInv, Types, Control, Keeps, Enters, Breaks, Ousted, Terminal, At, AtWork,
            Progress, PhaseOf, InOrder, Closed, fences, services, hermes, bounds, Off, Replaced,
            SidecarOK
<1>0. CASE UNCHANGED <<job, runner, sidecar>>
  BY <1>0 DEF Replaced
<1>1. CASE Launch \/ Resume \/ Crash
  BY <1>1 DEF Launch, Lead, Resume, Crash
<1>2. CASE Unstarted \/ FailReserved
  BY <1>2, FailedFields DEF Unstarted, Lead, FailReserved
<1>3. CASE CleanUp
  BY <1>3 DEF CleanUp
<1>4. CASE Lease
  BY <1>4 DEF Lease
<1>5. CASE Load
  BY <1>5, LoadFields
<1>6. CASE Fence
  BY <1>6, FenceFields
<1>7. CASE Inspect \/ Idle \/ NotIdle
  BY <1>7, IdleFields DEF Inspect, NotIdle
<1>8. CASE Stop \/ Release \/ StopSidecar \/ Unstop \/ Restore \/ Clean
  BY <1>8, ReleaseFields DEF Stop, GatewayStops, StopSidecar, SidecarStops, Unstop,
     GatewayStarts, Restore, Clean
<1>9. CASE Update \/ Moved
  BY <1>9, UpdateFields DEF Moved
<1>10. CASE Undo \/ UndoStart
  BY <1>10 DEF Undo, Installs, InstallsSome, UndoStart, GatewayStops, GatewayStarts,
     SidecarStarts
<1>11. CASE Reinstall \/ Installed \/ StartSidecar \/ Restart \/ Restarted \/ Verify
  BY <1>11, VerifyFields DEF Reinstall, Installs, InstallsSome, Installed, StartSidecar,
     SidecarStarts, Restart, GatewayStops, GatewayStarts, Restarted
<1>12. CASE LetIn \/ Begin \/ EndWork \/ Notice \/ Count \/ Beat \/ Unheard \/ StartByHand
         \/ Expire \/ ReleaseMarker \/ ReleaseLease
  BY <1>0, <1>12 DEF At, Lead, fences, services, hermes, bounds, LetIn, Begin, EndWork,
     Notice, Count, Beat, Unheard, StartByHand, Expire, ReleaseMarker, ReleaseLease
<1> QED  BY <1>0, <1>1, <1>2, <1>3, <1>4, <1>5, <1>6, <1>7, <1>8, <1>9, <1>10, <1>11, <1>12
     DEF Next, Leads, Opens, Drains, Removes, Renews, Returns, vars, fences, services, hermes,
     bounds

LEMMA UndoingStep == IInv /\ [Next]_vars => Undoing'
<1> SUFFICES ASSUME IInv, Types', [Next]_vars PROVE Undoing'
  BY TypesStep DEF IInv
<1> USE Names, FirstSteps, GotoFields, FailFields, AdvanceFields, ProceedFields,
        ShownFields
        DEF IInv, Types, Control, Keeps, Enters, Breaks, Ousted, Terminal, At, AtWork,
            Progress, PhaseOf, InOrder, Closed, fences, services, hermes, bounds, Off, Undoing,
            DiskOK
<1>0. CASE UNCHANGED <<runner, disk>>
  BY <1>0 DEF Undoing
<1>1. CASE Launch \/ Resume \/ Crash
  BY <1>1 DEF Launch, Lead, Resume, Crash
<1>2. CASE CleanUp
  BY <1>2 DEF CleanUp
<1>3. CASE Lease
  BY <1>3 DEF Lease
<1>4. CASE Load
  BY <1>4, LoadFields
<1>5. CASE Fence
  BY <1>5, FenceFields
<1>6. CASE Inspect \/ Idle \/ NotIdle
  BY <1>6, IdleFields DEF Inspect, NotIdle
<1>7. CASE Stop \/ Release \/ StopSidecar \/ Unstop \/ Restore \/ Clean
  BY <1>7, ReleaseFields DEF Stop, GatewayStops, StopSidecar, SidecarStops, Unstop,
     GatewayStarts, Restore, Clean
<1>8. CASE Update \/ Moved
  BY <1>8, UpdateFields DEF Moved
<1>9. CASE Undo \/ UndoStart
  BY <1>9 DEF Undo, Installs, InstallsSome, UndoStart, GatewayStops, GatewayStarts,
     SidecarStarts
<1>10. CASE Reinstall \/ Installed \/ StartSidecar \/ Restart \/ Restarted \/ Verify
  BY <1>10, VerifyFields DEF Reinstall, Installs, InstallsSome, Installed, StartSidecar,
     SidecarStarts, Restart, GatewayStops, GatewayStarts, Restarted
<1>11. CASE LetIn \/ Begin \/ EndWork \/ Notice \/ Count \/ Beat \/ Unheard \/ StartByHand
         \/ Expire \/ Unstarted \/ FailReserved \/ ReleaseMarker \/ ReleaseLease
  BY <1>0, <1>11 DEF At, Lead, fences, services, hermes, bounds, LetIn, Begin, EndWork,
     Notice, Count, Beat, Unheard, StartByHand, Expire, Unstarted, FailReserved, ReleaseMarker,
     ReleaseLease
<1> QED  BY <1>0, <1>1, <1>2, <1>3, <1>4, <1>5, <1>6, <1>7, <1>8, <1>9, <1>10, <1>11
     DEF Next, Leads, Opens, Drains, Removes, Renews, Returns, vars, fences, services, hermes,
     bounds

LEMMA LiftingStep == IInv /\ [Next]_vars => Lifting'
<1> SUFFICES ASSUME IInv, Types', [Next]_vars PROVE Lifting'
  BY TypesStep DEF IInv
<1> USE Names, FirstSteps, GotoFields, FailFields, AdvanceFields, ProceedFields,
        ShownFields
        DEF IInv, Types, Control, Keeps, Enters, Breaks, Ousted, Terminal, At, AtWork,
            Progress, PhaseOf, InOrder, Closed, fences, services, hermes, bounds, Off, Lifting,
            FencesOK
<1>0. CASE UNCHANGED <<job, runner, launch, marker, lease, left>>
  BY <1>0 DEF Lifting
<1>1. CASE Expire
  BY <1>1 DEF Expire
<1>2. CASE Launch \/ Resume \/ Crash
  BY <1>2 DEF Launch, Lead, Resume, Crash
<1>3. CASE Unstarted \/ FailReserved
  BY <1>3, FailedFields DEF Unstarted, Lead, FailReserved
<1>4. CASE ReleaseMarker \/ ReleaseLease
  BY <1>4 DEF ReleaseMarker, Lead, ReleaseLease
<1>5. CASE CleanUp
  BY <1>5 DEF CleanUp
<1>6. CASE Lease
  BY <1>6 DEF Lease
<1>7. CASE Load
  BY <1>7, LoadFields
<1>8. CASE Fence
  BY <1>8, FenceFields
<1>9. CASE Inspect \/ Idle \/ NotIdle
  BY <1>9, IdleFields DEF Inspect, NotIdle
<1>10. CASE Stop \/ Release \/ StopSidecar \/ Unstop \/ Restore \/ Clean
  BY <1>10, ReleaseFields DEF Stop, GatewayStops, StopSidecar, SidecarStops, Unstop,
     GatewayStarts, Restore, Clean
<1>11. CASE Update \/ Moved
  BY <1>11, UpdateFields DEF Moved
<1>12. CASE Undo \/ UndoStart
  BY <1>12 DEF Undo, Installs, InstallsSome, UndoStart, GatewayStops, GatewayStarts,
     SidecarStarts
<1>13. CASE Reinstall \/ Installed \/ StartSidecar \/ Restart \/ Restarted \/ Verify
  BY <1>13, VerifyFields DEF Reinstall, Installs, InstallsSome, Installed, StartSidecar,
     SidecarStarts, Restart, GatewayStops, GatewayStarts, Restarted
<1>14. CASE LetIn \/ Begin \/ EndWork \/ Notice \/ Count \/ Beat \/ Unheard \/ StartByHand
  BY <1>0, <1>14 DEF At, Lead, fences, services, hermes, bounds, LetIn, Begin, EndWork,
     Notice, Count, Beat, Unheard, StartByHand
<1> QED  BY <1>0, <1>1, <1>2, <1>3, <1>4, <1>5, <1>6, <1>7, <1>8, <1>9, <1>10, <1>11, <1>12,
     <1>13, <1>14
     DEF Next, Leads, Opens, Drains, Removes, Renews, Returns, vars, fences, services, hermes,
     bounds

LEMMA JournalStep == IInv /\ [Next]_vars => JournalFirst'
<1> SUFFICES ASSUME IInv, Types', [Next]_vars PROVE JournalFirst'
  BY TypesStep DEF IInv
<1> USE Names, FirstSteps, GotoFields, FailFields, AdvanceFields, ProceedFields,
        ShownFields
        DEF IInv, Types, Control, Keeps, Enters, Breaks, Ousted, Terminal, At, AtWork,
            Progress, PhaseOf, InOrder, Closed, fences, services, hermes, bounds, Off,
            JournalFirst, Replaced, DiskOK, SidecarOK
<1>0. CASE UNCHANGED <<job, disk, sidecar>>
  BY <1>0 DEF JournalFirst
<1>1. CASE Unstarted \/ FailReserved
  BY <1>1, FailedFields DEF Unstarted, Lead, FailReserved
<1>2. CASE CleanUp
  BY <1>2 DEF CleanUp
<1>3. CASE Lease
  BY <1>3 DEF Lease
<1>4. CASE Load
  BY <1>4, LoadFields
<1>5. CASE Fence
  BY <1>5, FenceFields
<1>6. CASE Inspect \/ Idle \/ NotIdle
  BY <1>6, IdleFields DEF Inspect, NotIdle
<1>7. CASE Stop \/ Release \/ StopSidecar \/ Unstop \/ Restore \/ Clean
  BY <1>7, ReleaseFields DEF Stop, GatewayStops, StopSidecar, SidecarStops, Unstop,
     GatewayStarts, Restore, Clean
<1>8. CASE Update \/ Moved
  BY <1>8, UpdateFields DEF Moved
<1>9. CASE Undo \/ UndoStart
  BY <1>9 DEF Undo, Installs, InstallsSome, UndoStart, GatewayStops, GatewayStarts,
     SidecarStarts
<1>10. CASE Reinstall \/ Installed \/ StartSidecar \/ Restart \/ Restarted \/ Verify
  BY <1>10, VerifyFields DEF Reinstall, Installs, InstallsSome, Installed, StartSidecar,
     SidecarStarts, Restart, GatewayStops, GatewayStarts, Restarted
<1>11. CASE LetIn \/ Begin \/ EndWork \/ Notice \/ Count \/ Beat \/ Unheard \/ StartByHand
         \/ Expire \/ Launch \/ ReleaseMarker \/ ReleaseLease \/ Resume \/ Crash
  BY <1>0, <1>11 DEF At, Lead, fences, services, hermes, bounds, LetIn, Begin, EndWork,
     Notice, Count, Beat, Unheard, StartByHand, Expire, Launch, ReleaseMarker, ReleaseLease,
     Resume, Crash
<1> QED  BY <1>0, <1>1, <1>2, <1>3, <1>4, <1>5, <1>6, <1>7, <1>8, <1>9, <1>10, <1>11
     DEF Next, Leads, Opens, Drains, Removes, Renews, Returns, vars, fences, services, hermes,
     bounds

LEMMA RestoredStep == IInv /\ [Next]_vars => RestoredIsTrue'
<1> SUFFICES ASSUME IInv, Types', [Next]_vars PROVE RestoredIsTrue'
  BY TypesStep DEF IInv
<1> USE Names, FirstSteps, GotoFields, FailFields, AdvanceFields, ProceedFields,
        ShownFields
        DEF IInv, Types, Control, Keeps, Enters, Breaks, Ousted, Terminal, At, AtWork,
            Progress, PhaseOf, InOrder, Closed, fences, services, hermes, bounds, Off,
            RestoredIsTrue, Compared, Undoing, Replaced, Claims, DiskOK, SidecarOK
<1>0. CASE UNCHANGED <<job, disk, sidecar>>
  BY <1>0 DEF RestoredIsTrue
<1>1. CASE Unstarted \/ FailReserved
  BY <1>1, FailedFields DEF Unstarted, Lead, FailReserved
<1>2. CASE CleanUp
  BY <1>2 DEF CleanUp
<1>3. CASE Lease
  BY <1>3 DEF Lease
<1>4. CASE Load
  BY <1>4, LoadFields
<1>5. CASE Fence
  BY <1>5, FenceFields
<1>6. CASE Inspect \/ Idle \/ NotIdle
  BY <1>6, IdleFields DEF Inspect, NotIdle
<1>7. CASE Stop \/ Release \/ StopSidecar \/ Unstop \/ Restore \/ Clean
  BY <1>7, ReleaseFields DEF Stop, GatewayStops, StopSidecar, SidecarStops, Unstop,
     GatewayStarts, Restore, Clean
<1>8. CASE Update \/ Moved
  BY <1>8, UpdateFields DEF Moved
<1>9. CASE Undo \/ UndoStart
  BY <1>9 DEF Undo, Installs, InstallsSome, UndoStart, GatewayStops, GatewayStarts,
     SidecarStarts
<1>10. CASE Reinstall \/ Installed \/ StartSidecar \/ Restart \/ Restarted \/ Verify
  BY <1>10, VerifyFields DEF Reinstall, Installs, InstallsSome, Installed, StartSidecar,
     SidecarStarts, Restart, GatewayStops, GatewayStarts, Restarted
<1>11. CASE LetIn \/ Begin \/ EndWork \/ Notice \/ Count \/ Beat \/ Unheard \/ StartByHand
         \/ Expire \/ Launch \/ ReleaseMarker \/ ReleaseLease \/ Resume \/ Crash
  BY <1>0, <1>11 DEF At, Lead, fences, services, hermes, bounds, LetIn, Begin, EndWork,
     Notice, Count, Beat, Unheard, StartByHand, Expire, Launch, ReleaseMarker, ReleaseLease,
     Resume, Crash
<1> QED  BY <1>0, <1>1, <1>2, <1>3, <1>4, <1>5, <1>6, <1>7, <1>8, <1>9, <1>10, <1>11
     DEF Next, Leads, Opens, Drains, Removes, Renews, Returns, vars, fences, services, hermes,
     bounds

-----------------------------------------------------------------------------
(* The fences and the proof that the gateway is idle. *)

LEMMA StartsFields == ASSUME GatewayOK, GatewayStarts
    PROVE  /\ gateway'.proc = gateway.proc + 1 /\ gateway'.proc # 0
           /\ work' = "none" /\ sample' = "none"
BY DEF GatewayStarts, GatewayOK

LEMMA StopsFields == ASSUME GatewayOK, GatewayStops
    PROVE  /\ ~gateway'.up /\ ~gateway'.hooked /\ gateway'.proc = gateway.proc
           /\ work' = "none" /\ sample' = "none"
BY DEF GatewayStops, GatewayOK

LEMMA CountedStep == IInv /\ [Next]_vars => Counted'
<1> SUFFICES ASSUME IInv, Types', [Next]_vars PROVE Counted'
  BY TypesStep DEF IInv
<1> USE Names, FirstSteps, GotoFields, FailFields, AdvanceFields, ProceedFields,
        ShownFields, StartsFields, StopsFields
        DEF IInv, Types, Control, Keeps, Enters, Breaks, Ousted, Terminal, At, AtWork,
            Fencing, PhaseOf, Kept, GivenUp, Drained, fences, services, hermes, bounds, Off,
            Counted, SidecarOK, GatewayOK, RunnerOK, NoProof
<1>0. CASE UNCHANGED <<runner, gateway, heard>>
  BY <1>0 DEF Counted
<1>1. CASE Notice \/ Beat \/ Unheard \/ StartByHand
  BY <1>1 DEF Notice, Beat, Report, Unheard, StartByHand
<1>2. CASE Launch \/ Resume \/ Crash
  BY <1>2 DEF Launch, Lead, Resume, Crash
<1>3. CASE CleanUp
  BY <1>3 DEF CleanUp
<1>4. CASE Lease
  BY <1>4 DEF Lease
<1>5. CASE Load
  BY <1>5, LoadFields
<1>6. CASE Fence
  BY <1>6, FenceFields
<1>7. CASE Inspect \/ Idle \/ NotIdle
  BY <1>7, IdleFields DEF Inspect, NotIdle
<1>8. CASE Stop \/ Release \/ StopSidecar \/ Unstop \/ Restore \/ Clean
  BY <1>8, ReleaseFields DEF Stop, StopSidecar, SidecarStops, Unstop, Restore, Clean
<1>9. CASE Update \/ Moved
  BY <1>9, UpdateFields DEF Moved
<1>10. CASE Undo \/ UndoStart
  BY <1>10 DEF Undo, Installs, InstallsSome, UndoStart, SidecarStarts
<1>11. CASE Reinstall \/ Installed \/ StartSidecar \/ Restart \/ Restarted \/ Verify
  BY <1>11, VerifyFields DEF Reinstall, Installs, InstallsSome, Installed, StartSidecar,
     SidecarStarts, Restart, Restarted
<1>12. CASE LetIn \/ Begin \/ EndWork \/ Count \/ Expire \/ Unstarted \/ FailReserved \/
         ReleaseMarker \/ ReleaseLease
  BY <1>0, <1>12 DEF At, Lead, fences, services, hermes, bounds, LetIn, Begin, EndWork, Count,
     Expire, Unstarted, FailReserved, ReleaseMarker, ReleaseLease
<1> QED  BY <1>0, <1>1, <1>2, <1>3, <1>4, <1>5, <1>6, <1>7, <1>8, <1>9, <1>10, <1>11, <1>12
     DEF Next, Leads, Opens, Drains, Removes, Renews, Returns, vars, fences, services, hermes,
     bounds

LEMMA ShutStep == IInv /\ [Next]_vars => Shut'
<1> SUFFICES ASSUME IInv, Types', [Next]_vars PROVE Shut'
  BY TypesStep DEF IInv
<1> USE Names, FirstSteps, GotoFields, FailFields, AdvanceFields, ProceedFields,
        ShownFields, StartsFields, StopsFields
        DEF IInv, Types, Control, Keeps, Enters, Breaks, Ousted, Terminal, At, AtWork,
            Fencing, PhaseOf, Kept, GivenUp, Drained, fences, services, hermes, bounds, Off, Shut,
            GatewayOK
<1>0. CASE UNCHANGED <<lease, gateway, work>>
  BY <1>0 DEF Shut
<1>1. CASE LetIn \/ Begin \/ EndWork \/ Notice \/ StartByHand \/ Expire
  BY <1>1 DEF LetIn, Begin, EndWork, Notice, StartByHand, Expire
<1>2. CASE ReleaseLease
  BY <1>2 DEF ReleaseLease, Lead
<1>3. CASE CleanUp
  BY <1>3 DEF CleanUp
<1>4. CASE Stop \/ Unstop
  BY <1>4 DEF Stop, Unstop
<1>5. CASE Update
  BY <1>5, UpdateFields
<1>6. CASE UndoStart
  BY <1>6 DEF UndoStart, SidecarStarts
<1>7. CASE Restart
  BY <1>7 DEF Restart
<1>8. CASE Count \/ Beat \/ Unheard \/ Launch \/ Unstarted \/ FailReserved \/ ReleaseMarker
         \/ Resume \/ Crash \/ Load \/ Lease \/ Fence \/ Inspect \/ Idle \/ NotIdle \/
         Release \/ StopSidecar \/ Restore \/ Clean \/ Moved \/ Undo \/ Reinstall \/
         Installed \/ StartSidecar \/ Restarted \/ Verify
  BY <1>0, <1>8 DEF At, Lead, fences, services, hermes, bounds, Count, Beat, Unheard, Launch,
     Unstarted, FailReserved, ReleaseMarker, Resume, Crash, Load, Lease, Fence, Inspect, Idle,
     NotIdle, Release, StopSidecar, Restore, Clean, Moved, Undo, Reinstall, Installed,
     StartSidecar, Restarted, Verify
<1> QED  BY <1>0, <1>1, <1>2, <1>3, <1>4, <1>5, <1>6, <1>7, <1>8
     DEF Next, Leads, Opens, Drains, Removes, Renews, Returns, vars, fences, services, hermes,
     bounds

LEMMA FencedStep == IInv /\ [Next]_vars => Fenced'
<1> SUFFICES ASSUME IInv, Types', [Next]_vars PROVE Fenced'
  BY TypesStep DEF IInv
<1> USE Names, FirstSteps, GotoFields, FailFields, AdvanceFields, ProceedFields,
        ShownFields, StartsFields, StopsFields
        DEF IInv, Types, Control, Keeps, Enters, Breaks, Ousted, Terminal, At, AtWork,
            Fencing, PhaseOf, Kept, GivenUp, Drained, fences, services, hermes, bounds, Off,
            Fenced, Standing, FirstUp, GatewayOK
<1>0. CASE UNCHANGED <<job, runner, launch, lease, marker, gateway>>
  BY <1>0 DEF Fenced, Standing, Kept, FirstUp
<1>1. CASE Notice \/ StartByHand \/ Expire
  BY <1>1 DEF Notice, StartByHand, Expire
<1>2. CASE Launch \/ Resume \/ Crash
  BY <1>2 DEF Launch, Lead, Resume, Crash
<1>3. CASE Unstarted \/ FailReserved
  BY <1>3, FailedFields DEF Unstarted, Lead, FailReserved
<1>4. CASE ReleaseMarker \/ ReleaseLease
  BY <1>4 DEF ReleaseMarker, Lead, ReleaseLease
<1>5. CASE CleanUp
  BY <1>5 DEF CleanUp
<1>6. CASE Lease
  BY <1>6 DEF Lease
<1>7. CASE Load
  BY <1>7, LoadFields
<1>8. CASE Fence
  BY <1>8, FenceFields
<1>9. CASE Inspect \/ Idle \/ NotIdle
  BY <1>9, IdleFields DEF Inspect, NotIdle
<1>10. CASE Stop \/ Release \/ StopSidecar \/ Unstop \/ Restore \/ Clean
  BY <1>10, ReleaseFields DEF Stop, StopSidecar, SidecarStops, Unstop, Restore, Clean
<1>11. CASE Update \/ Moved
  BY <1>11, UpdateFields DEF Moved
<1>12. CASE Undo \/ UndoStart
  BY <1>12 DEF Undo, Installs, InstallsSome, UndoStart, SidecarStarts
<1>13. CASE Reinstall \/ Installed \/ StartSidecar \/ Restart \/ Restarted \/ Verify
  BY <1>13, VerifyFields DEF Reinstall, Installs, InstallsSome, Installed, StartSidecar,
     SidecarStarts, Restart, Restarted
<1>14. CASE LetIn \/ Begin \/ EndWork \/ Count \/ Beat \/ Unheard
  BY <1>0, <1>14 DEF At, Lead, fences, services, hermes, bounds, LetIn, Begin, EndWork, Count,
     Beat, Unheard
<1> QED  BY <1>0, <1>1, <1>2, <1>3, <1>4, <1>5, <1>6, <1>7, <1>8, <1>9, <1>10, <1>11, <1>12,
     <1>13, <1>14
     DEF Next, Leads, Opens, Drains, Removes, Renews, Returns, vars, fences, services, hermes,
     bounds

LEMMA QuietStep == IInv /\ [Next]_vars => Quiet'
<1> SUFFICES ASSUME IInv, Types', [Next]_vars PROVE Quiet'
  BY TypesStep DEF IInv
<1> USE Names, FirstSteps, GotoFields, FailFields, AdvanceFields, ProceedFields,
        ShownFields, StartsFields, StopsFields
        DEF IInv, Types, Control, Keeps, Enters, Breaks, Ousted, Terminal, At, AtWork,
            Fencing, PhaseOf, Kept, GivenUp, Drained, fences, services, hermes, bounds, Off,
            Quiet, Fenced, Counted, Standing, FirstUp, GatewayOK, SidecarOK, NoProof
<1>0. CASE UNCHANGED <<job, runner, launch, lease, marker, gateway, work, sample, heard>>
  BY <1>0 DEF Quiet, Standing, Kept, FirstUp
<1>1. CASE LetIn \/ Begin \/ EndWork \/ Notice \/ Count \/ Beat \/ Unheard \/ StartByHand
         \/ Expire
  BY <1>1 DEF LetIn, Begin, EndWork, Notice, Count, Beat, Report, Unheard, StartByHand, Expire
<1>2. CASE Launch \/ Resume \/ Crash
  BY <1>2 DEF Launch, Lead, Resume, Crash
<1>3. CASE Unstarted \/ FailReserved
  BY <1>3, FailedFields DEF Unstarted, Lead, FailReserved
<1>4. CASE ReleaseMarker \/ ReleaseLease
  BY <1>4 DEF ReleaseMarker, Lead, ReleaseLease
<1>5. CASE CleanUp
  BY <1>5 DEF CleanUp
<1>6. CASE Lease
  BY <1>6 DEF Lease
<1>7. CASE Load
  BY <1>7, LoadFields
<1>8. CASE Fence
  BY <1>8, FenceFields
<1>9. CASE Inspect \/ NotIdle
  BY <1>9 DEF Inspect, NotIdle
<1>10. CASE Idle
  <2>1. PICK r \in heard :
            /\ Evident(r) /\ r.idle
            /\ \/ Proves(r) /\ ProceedShown("restoring_hooks") /\ UNCHANGED heard
               \/ /\ ~Proves(r) /\ runner' = [runner EXCEPT !.proof = r.proc]
                  /\ heard' = {[r EXCEPT !.fresh = FALSE]} /\ UNCHANGED job
    BY <1>10 DEF Idle
  <2>2. runner.at = "drain" /\ UNCHANGED <<launch, lease, marker, gateway, work, sample>>
    BY <1>10 DEF Idle
  <2>3. r.proc \in Nat /\ r.draining
    BY <2>1 DEF Evident
  <2>4. Standing => r.proc = 0 /\ gateway.knows /\ (sample = "idle" => work # "running")
    BY <2>1, <2>3
  <2>5. CASE Proves(r) /\ ProceedShown("restoring_hooks") /\ UNCHANGED heard
    <3>1. Standing => runner.proof = 0 /\ work # "running"
      BY <2>1, <2>4, <2>5 DEF Proves
    <3>2. Standing' => Standing
      BY <2>2, <2>5
    <3>3. runner'.proof = NoProof
      BY <2>5
    <3> QED  BY <2>2, <2>4, <2>5, <3>1, <3>2, <3>3
  <2>6. CASE /\ runner' = [runner EXCEPT !.proof = r.proc]
             /\ heard' = {[r EXCEPT !.fresh = FALSE]} /\ UNCHANGED job
    <3>1. runner'.proof = r.proc
      BY <2>6 DEF RunnerOK
    <3>2. \A s \in heard' : s.proc = r.proc /\ ~s.fresh
      BY <2>1, <2>6
    <3>3. job.phase = "draining" \/ ~Standing
      BY <2>2
    <3> QED  BY <2>2, <2>4, <2>6, <3>1, <3>2, <3>3
  <2> QED  BY <2>1, <2>5, <2>6
<1>11. CASE Stop \/ Release \/ StopSidecar \/ Unstop \/ Restore \/ Clean
  BY <1>11, ReleaseFields DEF Stop, StopSidecar, SidecarStops, Unstop, Restore, Clean
<1>12. CASE Update \/ Moved
  BY <1>12, UpdateFields DEF Moved
<1>13. CASE Undo \/ UndoStart
  BY <1>13 DEF Undo, Installs, InstallsSome, UndoStart, SidecarStarts
<1>14. CASE Reinstall \/ Installed \/ StartSidecar \/ Restart \/ Restarted \/ Verify
  BY <1>14, VerifyFields DEF Reinstall, Installs, InstallsSome, Installed, StartSidecar,
     SidecarStarts, Restart, Restarted
<1> QED  BY <1>0, <1>1, <1>2, <1>3, <1>4, <1>5, <1>6, <1>7, <1>8, <1>9, <1>10, <1>11, <1>12,
     <1>13, <1>14
     DEF Next, Leads, Opens, Drains, Removes, Renews, Returns, vars, fences, services, hermes,
     bounds

-----------------------------------------------------------------------------
(* All together. *)

LEMMA Initially == Init => IInv
<1> SUFFICES ASSUME Init PROVE IInv
  OBVIOUS
<1>1. JobOK
  BY Names DEF Init, JobOK, Jobs
<1>2. RunnerOK
  BY Names DEF Init, RunnerOK, Off
<1>3. FencesOK
  <2>1. 0 \in 0 .. Crashes /\ 0 \in 0 .. HandStarts
    BY MaintenanceAssumption
  <2> QED  BY <2>1 DEF Init, FencesOK, LaunchSteps
<1>4. GatewayOK
  BY DEF Init, GatewayOK
<1>5. SidecarOK /\ DiskOK
  BY DEF Init, SidecarOK, DiskOK
<1>6. Control
  BY Names DEF Init, Off, Control, PhaseOf, InOrder, Closed, Claims, AtWork, Kept, GivenUp, Terminal
<1>7. Progress
  BY DEF Init, Off, Progress, Compared, Replaced, Undoing, Lifting, JournalFirst, RestoredIsTrue,
     Terminal
<1>8. Fencing
  BY DEF Init, Off, Fencing, Counted, Shut, Fenced, Quiet, Standing, Kept, FirstUp, Drained, NoProof
<1> QED  BY <1>1, <1>2, <1>3, <1>4, <1>5, <1>6, <1>7, <1>8
     DEF IInv, Types

LEMMA Step == IInv /\ [Next]_vars => IInv'
<1> SUFFICES ASSUME IInv, [Next]_vars PROVE IInv'
  OBVIOUS
<1>1. Types'
  BY TypesStep DEF IInv
<1>2. Control'
  BY PhaseStep, OrderStep, ClosedStep DEF Control
<1>3. Progress'
  BY ComparedStep, ReplacedStep, UndoingStep, LiftingStep, JournalStep, RestoredStep DEF Progress
<1>4. Fencing'
  BY CountedStep, ShutStep, FencedStep, QuietStep DEF Fencing
<1> QED  BY <1>1, <1>2, <1>3, <1>4 DEF IInv

\* The inductive invariant holds in every reachable state of an update.
THEOREM MaintenanceInvariant == Spec => []IInv
BY Initially, Step, PTL DEF Spec

\* The type invariant of an update job, its runner, its fences and its services.
THEOREM MaintenanceTypes == Spec => []TypeOK
<1>1. IInv => TypeOK
  BY DEF IInv, Types, JobOK, Jobs, RunnerOK, FencesOK, GatewayOK, SidecarOK, DiskOK, TypeOK
<1> QED  BY <1>1, MaintenanceInvariant, PTL

\* The journal names a part of the work before anything of it is done, wherever
\* runners die and whoever fails the job (transition_job before each mutation).
THEOREM MaintenanceJournalFirst == Spec => []JournalFirst
<1>1. IInv => JournalFirst
  BY DEF IInv, Progress
<1> QED  BY <1>1, MaintenanceInvariant, PTL

\* A job that reports one of the four outcomes which claim a working installation
\* has left the checkout, the hooks, the package and the sidecar that it names
\* (the results of _verify and of the recoveries); of "no_mutation" and
\* "native_hermes", which may be false, nothing is said.
THEOREM MaintenanceRestoredIsTrue == Spec => []RestoredIsTrue
<1>1. IInv => RestoredIsTrue
  BY DEF IInv, Progress
<1> QED  BY <1>1, MaintenanceInvariant, PTL

\* A job that is over and in nobody's hands leaves no fence behind, unless a
\* runner died or a fence could not be taken away (_cleanup_terminal_owned_job
\* and _release_update_reservation).
THEOREM MaintenanceFencesLifted == Spec => []FencesLifted
<1>1. IInv => FencesLifted
  BY DEF IInv, Progress, Lifting, FencesLifted
<1> QED  BY <1>1, MaintenanceInvariant, PTL

\* The runner stops no gateway that runs a turn while the job and its lease
\* stand: what DrainProof proved, the fences have kept so.
THEOREM MaintenanceStopsIdle == Spec => StopsIdle
<1>1. ASSUME IInv, Stops, launch \notin GivenUp, lease = "held", gateway.hooked
      PROVE  work # "running"
  <2>1. job.phase = "restoring_hooks"
    BY <1>1 DEF IInv, Control, PhaseOf, Stops, AtWork, Kept
  <2>2. CASE gateway.proc = 0
    <3>1. Standing
      BY <1>1, <2>1, <2>2, Names DEF Standing, Kept, FirstUp, Stops
    <3> QED  BY <1>1, <2>1, <3>1 DEF IInv, Fencing, Quiet
  <2>3. CASE gateway.proc # 0
    BY <1>1, <2>3 DEF IInv, Fencing, Shut
  <2> QED  BY <2>2, <2>3
<1>2. IInv /\ [Next]_vars =>
        [Stops /\ launch \notin GivenUp /\ lease = "held" /\ gateway.hooked =>
            work # "running"]_vars
  BY <1>1
<1> QED  BY <1>2, MaintenanceInvariant, PTL DEF Spec, StopsIdle
=============================================================================
