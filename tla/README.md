# A verification of hermes-feishu-streaming-card

This directory models the part of the plugin that decides what reaches the
user's Feishu chat, and when: TLA+ modules translated from the code, TLC
configurations that check them on small instances, and proofs that the TLA+
proof system checks for every size. `PROJECT.json` maps every definition to the
lines it translates, every property to a mutation of the code that breaks it,
and every hazard of the code to the properties that guard it.

    tlc -workers 2 -config FlushController.cfg MCFlushController
    tlapm CardDelivery_proofs.tla

## 1. The system

Hermes is an agent gateway. Hooks that the plugin installs in it post the events
of every turn (started, deltas, tools, interactions, completed or failed) to a
**sidecar** on the loopback interface, which keeps one session per message and
shows it as one Feishu card that it creates and then PATCHes. If the sidecar
cannot show an answer it hands the delivery back, and Hermes sends plain text.

| component | source | state it keeps | operations |
| --- | --- | --- | --- |
| hooks and plugin runtime | `hermes_plugin_runtime.py`, `turn_events.py`, `hook_runtime.py` | bound turns, their coordinator (numbers, queue, barrier), pending interactions, terminal owners and records | hook calls of several Hermes threads; a worker thread per turn; POST with a timeout and one retry |
| event-id fence | `server.py` 402-516, 3621-3803 | one entry per event id: owner, fingerprint, future, response, expiry | claim, wait, finalize, abandon, prune, evict |
| session and card | `server.py` 4526-5642, 7723-7975, `session.py` | session per key (status, texts, `last_sequence`), card ids, animation task | apply an event under the message's lock, create a card, reset for a new turn, abandon stale turns |
| flush controller | `flush.py` | latest rendering, two flags, one task | schedule, drain, close |
| terminal delivery, checkpoints, restart | `terminal_delivery.py`, `session_store.py`, `server.py` 4378-4487 | delivery state of an end; a file per session | PATCH with retries, one recovery card, save, restore, refresh |
| native handoff | `native_handoff.py`, `native_admission.py` | a private file of bounded records: pending, acknowledged, uncertain, card notices | begin, acknowledge, recover, expire, evict, restore |
| interactions | `hermes_plugin_runtime.py`, `interaction_*.py`, `server.py` 1122-1540, 5214-5335, 6106-6240 | an entry per question in Hermes, the session's request and the snapshot before it in the sidecar | ask, admit, announce, click, resolve, expire, and the clean-up of a turn |
| maintenance | `maintenance_*.py`, `server.py` (reservation and launch) | a journal of one job, its lock, the lease, the drain marker, drain evidence | the phases of `hermes update`, resume, failure, clean-up |
| file transactions | `install/posix_transaction.py` | bound directories, staged copies, what is written so far | write several files, verify, put back |
| locks and clean-up | `lifecycle.py` | message locks and their user counts, controllers | periodic clean-up |
| continuations, notices, CardKit, operations, recovery planning, process control | see `PROJECT.json` | | |

How they meet: hooks call the sidecar by HTTP, and anything may be lost or answered
late. All handlers of the sidecar share one event loop, so that they interleave at every
`await`, and only handlers that know the same message key share a lock. The flush
controller, the animation and the clean-up are tasks of the same loop which handlers
schedule, wait for and cancel. The checkpoints and the handoff file survive a crash; the fence
and the sessions do not. Inside Hermes, hooks run in threads that share two
locks (the runtime's and the coordinator's). A question is held on both sides of the wire at
once. The updater is a process of its own that stops, changes and starts the others, and
knows of them what a journal, two fences and heartbeats tell it. The installer shares its files with
whatever else runs on the machine.

The hard behaviours are therefore: one event delivered several times at once; an
update that arrives exactly as the task that should show it ends; the end of a
turn racing with slow PATCHes, with its animation, with the next turn of the
key and with handlers of other keys that give it up; a crash between an answer
and its display; a delivery whose outcome nobody knows; threads that number
and post the events of one turn while it ends; a click that races with a deadline, a failing
card and the end of its turn; and an update that dies between any two of its steps. The correctness that users see
is: **a turn's end is displayed or sent once, is not lost, and is never replaced
by something older; a question is answered with what was chosen; and an update that
claims a working installation has left one.**

## 2. Modules

| module | models | composed with |
| --- | --- | --- |
| `EventIdFence` | the fence and the `/events` handler around it | |
| `LatestWins` | the abstract display: the latest update is shown, nothing follows the last | |
| `FlushOps`, `FlushController` | the methods of one controller as operators; its task and a turn's end as actions | implements `LatestWins` |
| `OneEnd` | the abstract turns: each ends once, its card says so only after that, and for good | |
| `CardTurns` | turns that reuse one session key: handlers, controllers, animation, reset, abandonment | extends `FlushOps`, one controller per turn; implements `OneEnd` |
| `CardRestart` | one card across crashes: session, checkpoint, delivery, refresh | takes the controller as `LatestWins` describes it |
| `NativeHandoff` | the handoff file, admission, Hermes' ledger, acknowledgement | |
| `TurnEvents` | a turn's events inside Hermes and on the way to the session | |
| `OneAnswer` | the abstract questions: Hermes takes one answer, a card is open and then decided, and says what Hermes took | |
| `Interactions` | the questions of a turn: Hermes' threads, the plugin's entries, the session, clicks | the plugin and the sidecar in one module, joined by posts and calls; implements `OneAnswer` |
| `Maintenance` | an update job: journal, runner, launching sidecar, fences, the gateway and its work | |
| `FileTransaction` | several files written as one among other processes | |
| `MC*` | values of the constants | |
| `CardDelivery_proofs` | theorems about `FlushController` and `CardRestart`, the two accounts of how one card is kept up to date; the former's names carry the prefix `Flush` so that the two can be used together | |
| other `*_proofs` | theorems about the module they are named after | |

### Correspondence

A step of a sidecar module is what the event loop runs from one `await` to the
next; a step of `TurnEvents` is what a thread does under one lock. Definitions keep
the names of the methods (`Claim`, `Finalize`, `Abandon`; `Scheduled`, `Close`),
and fields become record fields (`c.pendingTerminal` is
`_pending_terminal`). An operator whose line ends in `\* mutant` is a
wrong variant of the definition that follows it: the model never uses it, and
the table "mutants" says which property fails if it does.

*EventIdFence.* `table`, `expires`, `stored` and `future` are the fields of the
entries; `pc` is where each delivery stands in `_events`. A payload is its
fingerprint, and a response one of `Outcomes`. Cancellation may strike at every await.

*FlushController.* A rendering is the number of the update it shows. It may
end, raise or be cancelled; the `finally` of `_run` drops the task
and leaves its flags, as the code does. Whether a pass must sleep first stands
for `_last_flush_at`.

*CardTurns.* What an update shows is "running" or "ended", evaluated when it
is rendered, as the closures of `_render_and_update` do. Three kinds of handlers
end a turn: the one that holds the lock, one that came by an alias of the
key, and one of another key that finds the turn stale. The animation awaits
the controller's task without a shield (server.py:6295). A turn starts in three steps,
as the code awaits in between: `TakeOver` resets the turn before and gives up stale ones of other keys, `Register` puts the
session under the key and sends the card (`opening`), and `CardCreated` or `CardRefused` is the answer; after a refusal the start
may come again. A turn given up while it is `opening` has no card to update, and is noted in `early`. As `OneEnd` sees it, a turn
has ended when its last update is scheduled, and its card says what the last PATCH
that ended showed.

*CardRestart.* `mem` and `disk` are the session and its checkpoint, a save that
may fail; `sending` is the rendering in progress with its attempts, and `refresh`
the PATCH that `_restore_card_checkpoints` sends by itself. Hermes repeats an end until it is
answered. What an answer promises is the subject. The handler of an end came to the turn's key (`direct`), by an alias of it, or
ends the turn because another replaces it. The last two save nothing: `_checkpoint_session` resolves the key again, and
finds no session under the alias of a turn that is over (event_rules.py:213), and an abandonment makes no checkpoint. `gap` is open from then until
the closure of the last PATCH or a late event saves the session, and is lost if a crash comes first.

*NativeHandoff.* Records, notices and eviction are those of the file; the limit
in bytes is folded into `MaxRecords`. A turn stands for the obligation,
content, plan, route and target that its end binds. `file`
may be lost (deleted), after which sessions in memory restore their records.

*TurnEvents.* `coord` and `queue` are the `TurnEventCoordinator`, `worker` its
thread, `starting` the thread in `handle_pre_llm_call` with the gate it holds
while it posts; `tool` are threads between looking the coordinator up, building
the payload and submitting; `ask` those that number an interaction and post it themselves;
`ender` calls of `handle_on_session_end`; `cleaner` a reset of the session, or
an eviction. `card` is the session's `last_sequence` rule. Two things are assumed of the outside:
the loopback connection does not reorder posts, and Hermes calls the start and the
end of a turn one after the other.

*Interactions.* `handle` is what Hermes' thread waits on, `entry` the plugin's
`_PatchInteraction`, `inter` the session's `active_interaction` and `rollback`
the snapshot taken for the reservation. `copy` tells a request from
the copy of it that a snapshot puts back, since the code compares objects. A click is a request
(`click`) and the call to Hermes that it makes (`call`), each of which may be late for the other. Time is
the set of deadlines of a question that have passed. The plugin's entries are swept at the head of
every operation, as `_expire_locked` is called. As `OneAnswer` sees it, the answer is `handle`, and the card of a
question is the session's request or, for the question before it, the copy in the snapshot; what a later question
replaced is withdrawn.

*Maintenance.* `job` is the journal, `runner` the process that holds the update lock: its step, the
phase it believes in, and its `DrainProof`. A step is an external command or a write of the journal, and each may
fail. The gateway is a process with or without hooks that knows of the drain or does not; `work` is a message in it. What
the sidecar hears of runtimes is `heard`, a heartbeat being a count (`sample`) and a later report. `gateway.proc` grows
with every start; it is not bounded, since the starts of a run are.

*FileTransaction.* A file is who made its version. `_atomic_write_text` is a check, a rename and a look
after it, in three roles (`write`, `undo`, `back`). `touched`, `raced` and `stranded` are
history: what the promises except, and why.

## 3. What the runs show

| run | instance | shows |
| --- | --- | --- |
| `fence` | 4 deliveries: two alike, one with another payload, one of another event; room for 1 entry; retention 1, clock to 2 | one application of an event at a time; waiters always have someone to wake them; what is replayed was finalized for the same payload, and for a runtime admission is the exact success; forgetting and refusing only as promised; every claim settles |
| `flush` | 4 updates, of which any may be the last | no lost wake-up, the terminal update is rendered, and the controller implements `LatestWins` |
| `turns` | 2 turns of a key with 2 updates each, an aliased and a foreign handler | one handler ends a turn; an end that a card shows stays shown (`OneEnd`); the reset never cancels the handler that holds the lock; a controller at rest has left no end behind and no card stays "running", except that of a turn given up before it had one; only the cancellation below loses an accepted end |
| `turns_reuse` | 2 turns, the lock's handler | *violation*: see findings |
| `turns_stuck` | 1 turn, a foreign handler | *violation*: see findings |
| `restart` | 2 crashes, 2 updates, 2 attempts; Feishu and the disk fail at will | an answered end is on disk; only a refresh that began before the end hides it; it is shown if disk and Feishu work: each unless a crash meets an aliased or replaced end that is not saved yet |
| `handoff` | 2 keys, each with a legacy turn overlapped by an exact one; room for 1 record, lifetime and clock; the file lost once | a full file forgets no descriptor that Hermes holds; acknowledged means delivered; events never go back; an uncertain delivery is never settled by a restoration |
| `turn_events` | streaming, 1 tool thread, 1 interaction, 2 ends, queue of 2, 3 numbered events | the end has the highest number and is posted once; only interactions overtake; a reset turn is not started; the worker ends |
| `interactions` | one question with any four of 2 clicks, 2 ends, 1 reset and 3 deadlines; or two questions with any two of these | the questions implement `OneAnswer`: a decided card is never opened again; what a card shows as chosen is what Hermes' handle holds; only a delivered question is owned; a choice that was taken is recorded unless the turn was ended twice; a clean-up that was put off is in somebody's hands |
| `interactions_revive` | two questions, 1 click, 1 end | *violation*: see findings |
| `maintenance` | 1 crash of a runner, 1 gateway started by hand; every command may fail | the journal is ahead of every change; a job that claims a working installation has left one; the gateway takes work again; no running turn is cut off; no step blocks |
| `files` | 3 files, one of them new; 3 foreign changes | all or nothing unless reported; no patched file without its backup; only the admitted window overwrites a foreign file |

`maintenance` checks deadlock: a job can always be resumed. The other
runs do not (`CHECK_DEADLOCK FALSE`): their instances handle finitely many
events and then really stop. The type invariants of all
modules but `Maintenance`, `IdleMeansLatest`, `QuietEnd` and `Capacity` are proved, and not run again.

### Findings

1. `turns_reuse`, `AcceptedEndDisplayed`. An end that is accepted while a slow PATCH
   is in flight times out in `drain` and is coalesced into the running
   task. The animation awaits that task unshielded, so that the next
   turn's reset, which cancels the animation, cancels the task and with it the accepted end, against
   the comment at server.py:5442. `UncancelledEndDisplayed`, in the passing run,
   shows that nothing else loses it.
2. `turns_stuck`, `StaleCardEnds`. The session is under the key before its card is created (server.py:4795, 4822,
   4851). A turn of another key that finds it stale in between ends it, schedules no last update because there is no
   card yet (server.py:7933), and the card that is then created shows a turn at work for good: what the docstring at
   server.py:7828 says the abandonment prevents. `NoEndLeftBehind` and `EndDisplayed`, in the passing run, show that no other turn
   is left so.
3. `interactions_revive`, `AbandonedStaysEnded`. A question's card cannot be sent, and the snapshot taken before
   it is put back (server.py:6185) after a look at the question and the sequence, but not at the status: a session that
   another turn of the chat has ended meanwhile runs again, which is what the docstring at
   server.py:7828 says the abandonment is there to prevent.

Other things the models show, which the code accepts or its documentation half admits, and which are not
listed as findings.

Of restarts: the refresh PATCHes outside the flush controller, so that one begun before the end was applied may land after the
end's PATCH; `OnlyEarlyRefreshHidesEnd` says that nothing else takes an end off the card. An end that came by an alias, or by
replacement, is answered without a checkpoint; until its PATCH has returned or a late event has saved it, a crash brings the
turn back as active, and Hermes does not send the end again. `gap` names that case in all three properties of the run; without it each fails.

Of the events of a turn: an interaction
that overtakes queued observer events makes the sidecar ignore them (`OnlyAskOvertakes` says that
nothing else does); the end of the turn carries the full answer. And the worker of a turn looks
whether it may leave *after* its poll found the queue empty: an event accepted in between is
left in the queue if the turn is closed at that moment, and the drain waits for its whole
timeout. Observer events are best effort by the module's own words.

Of the questions of a turn: the flag that keeps new resolutions out while a turn is cleaned up belongs to the turn. A second
end that finds the first one posting takes it down (hermes_plugin_runtime.py:1775), a click may then start a resolver, and
the first end sweeps its entry when its post is over: Hermes has the choice, the card says that it was refused.
`EndedTwice` names that case in `AcceptedIsResolved`; without it the property fails.

Of the file transaction: a version that was renamed into place and then cannot be read back is in no list of
what is written, and stays if the others are put back (`stranded`). If an undo fails, the writes before it
are put back even when the caller asked to preserve them. A change between the check and the rename is
overwritten, as docs/wiki/maintenance-guide.md:370 admits.

Of the maintenance job, where docs/superpowers/specs/2026-07-31-feishu-update-maintenance-design.md reads otherwise: the
boundary `no_mutation` is also given to a job that was resumed past a mutation and fails in its preamble (its lease
ran out after six hours, or the artifact is not accepted any more), and to one that the
sidecar fails because it was not told that the unit started: the sidecar then takes both fences away while the
runner goes on. `StopsIdle` names that case (`GivenUp`); without it the property fails. `RestoredIsTrue` therefore speaks of the four outcomes
that claim a working installation, and neither of `no_mutation` nor of `native_hermes`. A runner that dies while it puts the old hooks back
leaves the phase `updating_hermes` and hooks in the checkout, so that the next runner calls the updater on a
checkout with hooks; and one that dies between installing the hooks and the journal leaves a
job that fails as `native_hermes` although the hooks are there.

### Bounds, and why they suffice

Two deliveries that agree, one that conflicts and one that needs the room are all the
roles a delivery has towards an entry, so that four reach every case of `claim`. The controller
holds one rendering and one announced update; four updates give a running, an
announced, an overwritten and a terminal one. Two turns are an old and a new
one; a third meets the second as it met the first. The second crash
can hit what the first one's recovery does. With room for one record the file is full as soon as a second
key needs it; with lifetime 2 and clock 3 a descriptor expires while another is
alive; that two exact turns of a key overlap is covered by the proofs alone. In `turn_events` the queue can be full with an event under way.
In `interactions`, one question meets any four of two clicks, two ends, a reset and three deadlines
(`Allowance`; the proofs know no such bound); a second question
matters for the reservation, the numbers and the snapshot, which two further actors exercise. Three
files are a first, a last and one between; three changes can race with a write, with its undo and with
the rollback. One crash of a runner and one more gateway suffice for a successor on every phase and for a runtime that is not
the one the job found; the job's own commands start others. What depends on the number of threads, keys, turns or entries is
also proved for all of them.
`MaxTime`, `MaxLost`, `MaxCrashes`, `MaxUpdates`, `MaxScheduled`, `MaxCalls`, `MaxEvents`, `Allowance`, `MaxForeign`, `Crashes` and `HandStarts` bound the environment
in guards; no other counter is cut off. Not exercised by TLC: the order of eviction among
several finished fence entries, since the run has room for one.

### Fairness

The event loop runs whatever is ready, and every Feishu call and drain has a timeout, so
that handlers and tasks that have begun continue (weak fairness of each). `fence` assumes nothing of the waiters' own
timeout: they must be woken. `flush`, `turns`: the task starts, wakes and its rendering ends; drains
and the creation of a card end. Nothing forces events, new turns or animations. `restart`: a crashed sidecar is started again,
its tasks run and Feishu calls end, with whatever result. `turn_events`: posts
have timeouts, and a thread inside a hook goes on; nothing forces hooks to be called. `handoff`, `interactions`, `maintenance` and
`files` state safety only, and assume nothing: that a job or a transaction ends is up to commands of the system, and
nothing restarts a runner that died.

## 4. What is proved

All by induction: `Init => IInv`, `IInv /\ [Next]_vars => IInv'`, `IInv => Inv`,
assuming only the named assumption on the constants of each module.

- **`EventIdFence_proofs`**: types, `SingleOwner`, `WaiterHasWaker`, `ReplayIsCanonical`,
  `ReplayedAdmissionIsExact`, `ForgetsOnlySettled`, `Capacity`. The invariant says who holds an entry at each place of a
  handler, that an unfinished entry belongs to an owner at work, and that a future is resolved when its
  entry goes: eviction and pruning touch finished entries only. The two that speak of the whole table follow the
  sweep and the eviction of `claim` set by set: what is forgotten is what was swept or the oldest that was finished, and
  what is added finds the room of one.
- **`CardDelivery_proofs`**, of `FlushController`: types, `IdleMeansLatest`, and `DisplaysLatest`: the refinement of
  `LatestWins`. `Carried` is the key: while a task lives, an update newer than the rendering in progress is announced by the
  pending flag or by the next pass; `Sealing` relates closing, the terminal flags and the last pass.
- **`CardDelivery_proofs`**, of `CardRestart`: types; `AnsweredIsDurable`: an answer that leaves no `gap` is given after the save
  (`AnsweredHasEnded`), and no later save goes back to a running turn; and `OnlyEarlyRefreshHidesEnd`. For the last, `OverForGood` says that once the end is on
  the card or under way to it, no crash brings the turn back, since its checkpoint is settled or holds a question, which a restart
  gives up, unless its end is in a gap; `NoLateUpdate` that no update is behind it; `RestoredIsQuiet` that a turn that was over at the restart has nothing
  but the refresh under way. `RestartAnsweredSeenOrInHand` uses a history variable, `seen`, which constrains no
  step: the end that Hermes has its answer to has been on the card or is in somebody's hands.
- **`CardTurns_proofs`**: types, `OneFinisher`, `NoEndLeftBehind`, `ReporterSurvives`, and `EndsOnce`: the refinement of `OneEnd`.
  `Succession` orders the turns of a key, the one being opened included; `OpeningQuiet`: nobody ends that one by an update, so
  that a refused card leaves nothing behind. `EndingAlone`: who ends a turn is alone, and nobody has scheduled the end yet, since
  the status was taken to "ended" before the first `await`. `EndReported` is the converse: a turn that ended with a card has its end
  scheduled or a handler at it. `LastIsLatest` and `Rendering` bind each controller to what it was given: nothing follows the
  end, and a PATCH that shows a turn as ended is one of its last update. `CancelledPast`: a cancelled task belongs to a
  turn that the key has left; with `EndCarried` (an end is shown, in flight, ahead of the task, or lost with a cancelled
  task) that leaves the cancellation of the first finding as the only loss.
- **`FileTransaction_proofs`**: all properties of the run, for any number of files. `Contents` says which
  targets are new, old or put back at each place of the transaction, unless touched; `OursReached` how far new versions go when
  earlier writes are preserved; `CheckedOrRaced` that who is not what the check found has raced. Types are proved too.
- **`Maintenance_proofs`**: all properties of the run, wherever runners die. `Control`: where a runner is tells the phase of its
  job and the journal knows it (`PhaseOf`, `InOrder`), and who has finished stops (`Closed`). `Progress`: the hooks were compared
  before they are replaced, what is undone was journalled, and who lifts fences has a finished job. `Fencing`: what a
  heartbeat said of the first gateway stays so while the fences stand and until it is stopped.
- **`Interactions_proofs`**: all properties of the run, for any number of questions, clicks, ends and resets. `Requests`: a request
  that waits has its admission, so that no choice is made without Hermes. `Held`: whatever counts as chosen, in an
  entry, a call, a click or a kept copy, is what the handle holds. `Claimed` and `Cleaned`, until a turn is ended twice: who runs a
  resolver holds the entry, because a clean-up keeps the flag up and waits for the resolvers it saw. `AnsweredOnce`, the
  refinement of `OneAnswer`, adds `Keeping`: the request being sent is the reserved one, and the snapshot is of an
  earlier question, so that putting it back reopens nothing that was decided; a lemma follows the card of one question
  through every change of the session, which may be a reservation, a settling, an end or a click.
- **`NativeHandoff_proofs`**: types and all properties of the run. A lemma classifies what a step can do to one record: kept, forgotten,
  fenced by a later event, put back, handed out, or noted. `Remembered` follows a descriptor through those cases until it
  expires. `Lasting` exempts ends that a legacy turn may displace, which
  the code may evict at once.
- **`TurnEvents_proofs`**: types, `TerminalIsLast`, `OnlyAskOvertakes`, `QuietEnd`, `QuietAfterCleanup`. `Life`: a
  turn is bound once, and one end at most acts for it. `Barred`: the barrier precedes the drain. `Numbered`:
  interactions are numbered under the runtime's lock, which excludes an owned turn, observers under the
  coordinator's, which the barrier excludes, so that all are below the end. `Ordered`: everything queued is above everything posted,
  what is on the wire is in order, and what will be too old on arrival is below the last interaction.
  `TurnForgottenIsClosing`: a turn that is forgotten is closed or its reset is about to close it, and what is closed takes
  no event and stays closed, so that its queue only shrinks.

Every safety property of a passing run is proved for all sizes. Only model-checked are that `maintenance` has no deadlock, and liveness
(`EveryClaimSettles`, `TerminalRendered`, `LatestIsDisplayed`, `EndDisplayed`, `UncancelledEndDisplayed`, `AnsweredIsShown`,
`WorkerReclaimed`), since the proof system handles neither `ENABLED` nor fairness here. What each rests on is proved,
so that only the fairness is left to the runs:

| liveness | safety that is proved |
| --- | --- |
| `EveryClaimSettles` | who waits has an owner at work (`WaiterHasWaker`) |
| `TerminalRendered`, `LatestIsDisplayed` | a controller without a task owes nothing (`IdleMeansLatest`) |
| `EndDisplayed`, `UncancelledEndDisplayed` | a controller at rest left no end behind (`NoEndLeftBehind`) |
| `AnsweredIsShown` | an answered end was shown or is in somebody's hands (`AnsweredSeenOrInHand`) |
| `WorkerReclaimed` | a forgotten turn is closed or about to be, for good (`ForgottenIsClosing`, `OnlyDrains`) |

The runs that expect a violation have no theorem: what they check is false.

## 5. What is not modelled, and why

- Rendering, texts, timelines, metrics, commands, configuration, authentication and the command line: decisions of one call
  and layout; the modules quantify over their outcomes.
- The patching of Hermes' source: text processing.
- A turn whose first event is its last: its card is created as ended, and nothing is updated.
- Feishu and Hermes themselves: they appear as calls that succeed, fail, are lost or end late.
- Of the modelled parts: policies that send natively from the start, `clear` and `prepare_lifecycle` of the
  handoff store (hooks without a generation), legacy handoffs beyond at-most-once, the closing of the
  plugin runtime.
- Interactions: a crash of the sidecar while a question is open, the older callback mode in which Hermes polls (with its pauses and
  reissues), a second question that supersedes the card of an owned one, the capacity of the store, and the
  key's reset for a new turn (`CardTurns`).
- Maintenance: the inspection and credentials before the confirmation, the staging of the artifact, the pruning of old
  jobs, two jobs at once (the reservation excludes them), a sidecar that dies by itself, and the job's card.
- Files: the portable variant for Windows, the planning of a recovery and its lock, and a process killed in
  the middle: the transaction keeps no log, and what is left is for the recovery to classify.

## 6. Plan

In order of what users would notice:

1. **Message locks and clean-up** (`lifecycle.py`), composed with the handlers: two handlers of a key never run at once though clean-up drops
   locks and only `_events` counts its users.
2. **Continuations**: the card that shows a session is replaced while updates of the predecessor are queued.
3. **Process control and runtime integrity**: one sidecar owns the port and its files; hooks are withheld after a file changed.
4. **CardKit, notices and operations**: the stream of mutations of an entity; recalls by timers; single-use claims.
5. **Recovery of a killed installation** (`install/recovery.py`): what is left of source, backup and manifest is classified, and a
   transaction restores or clears it; composed with `FileTransaction`, whose order of writes it relies on.
6. **Proofs**: of each module above with the module; of the composition of `CardTurns` with `LatestWins`, one display per turn
   whose task is never cancelled.

Runs planned: one per new module, two handlers or clicks, one timer and one crash each. Conventions: one action per
handler segment, constants with named assumptions, invariants as named conjuncts, and no recursive operators.
