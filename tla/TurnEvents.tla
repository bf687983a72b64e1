----------------------------- MODULE TurnEvents -----------------------------
(***************************************************************************)
(* The events of one turn on their way from Hermes' hooks to the sidecar:  *)
(* the threads that call the hooks of the plugin (hermes_plugin_runtime.py)*)
(* share a coordinator (turn_events.py) that numbers the turn's events and *)
(* hands the observer events to a worker thread with a bounded queue;      *)
(* interactions and the end of the turn are posted by the thread that      *)
(* reports them.  The sidecar takes what is posted in order and ignores    *)
(* what is older than what it has seen (session.py).                       *)
(*                                                                         *)
(* A step is what a thread does under one lock.  A post is on the wire,    *)
(* in order, or lost; the thread that posted it waits for the sidecar's    *)
(* answer or gives up, its attempt and its retry being one post with one   *)
(* event id (EventIdFence).  Hermes calls the hooks of a turn's start and  *)
(* end one after the other; everything else may happen at any time.        *)
(***************************************************************************)
EXTENDS Integers, Sequences, FiniteSets, SequencesExt

CONSTANTS
    Tools,       \* threads that report tools and subagents
    Askers,      \* threads that ask the user something, once
    Enders,      \* calls of on_session_end
    MaxPending,  \* max_pending of the coordinator's queue
    MaxEvents    \* bound on the observer events and interactions of the turn

Nobody == "nobody"

ASSUME EventsAssumption ==
    MaxPending \in Nat \ {0} /\ MaxEvents \in Nat /\ Nobody \notin Enders

VARIABLES
    bound,      \* the runtime's maps hold the turn
    state,      \* of the turn: TurnState
    owner,      \* the end that owns the turn's terminal event
    starting,   \* the thread that starts the turn
    cleaner,    \* the thread that cleans the session up
    coord,      \* the coordinator
    queue,      \* its observer events
    worker,     \* its worker thread
    tool, ask, ender,   \* the other threads
    wire,       \* what was posted and not yet handled
    card,       \* the sidecar's session
    posted, stale       \* observer events that were posted, that were too old

vars == <<bound, state, owner, starting, cleaner, coord, queue, worker,
          tool, ask, ender, wire, card, posted, stale>>
runtime == <<bound, state, owner>>
threads == <<starting, cleaner, tool, ask, ender>>
sidecar == <<card, stale>>

At(where) == [at |-> where, seq |-> 0]

Coordinator == [next : Nat, barrier : BOOLEAN, closed : BOOLEAN, terminal : Nat]
AskSteps == {"idle", "numbered", "done"}
EndSteps == {"idle", "owning", "closing", "draining", "drained", "undrained", "posting", "done"}
Message == [kind : {"started", "observer", "interaction", "terminal"}, seq : Nat]

TypeOK ==
    /\ bound \in BOOLEAN
    /\ state \in {"pending-start", "card-active", "native-bypass", "terminal"}
    /\ owner \in Enders \cup {Nobody}
    /\ starting \in {"none", "claimed", "posting", "done"}
    /\ cleaner \in {"idle", "waiting", "done"}
    /\ coord \in Coordinator
    /\ queue \in Seq(Nat) /\ Len(queue) <= MaxPending
    /\ worker \in [at : {"polling", "empty", "posting", "left"}, seq : Nat]
    /\ tool \in [Tools -> {"idle", "looked", "ready"}]
    /\ ask \in [Askers -> [at : AskSteps, seq : Nat]]
    /\ ender \in [Enders -> [at : EndSteps, seq : Nat]]
    /\ wire \in Seq(Message)
    /\ card \in [status : {"none", "refused", "active", "ended"}, last : Nat, asked : Nat]
    /\ posted \subseteq Nat /\ stale \subseteq Nat

Init ==
    /\ bound = FALSE /\ state = "pending-start" /\ owner = Nobody
    /\ starting = "none" /\ cleaner = "idle"
    /\ coord = [next |-> 0, barrier |-> FALSE, closed |-> FALSE, terminal |-> 0]
    /\ queue = <<>> /\ worker = At("polling")
    /\ tool = [p \in Tools |-> "idle"]
    /\ ask = [a \in Askers |-> At("idle")]
    /\ ender = [e \in Enders |-> At("idle")]
    /\ wire = <<>> /\ card = [status |-> "none", last |-> 0, asked |-> 0]
    /\ posted = {} /\ stale = {}

\* A post reaches the sidecar or not.
Post(kind, seq) == wire' \in {wire, Append(wire, [kind |-> kind, seq |-> seq])}

\* _card_active_coordinator_locked
CardActive == bound /\ state = "card-active" /\ owner = Nobody
HasRoom == coord.next <= MaxEvents

-----------------------------------------------------------------------------
(* The turn starts: handle_pre_llm_call. *)

\* The turn is claimed and its event numbered.
ClaimTurn ==
    /\ starting = "none" /\ starting' = "claimed"
    /\ bound' = TRUE /\ coord' = [coord EXCEPT !.next = 1]
    /\ UNCHANGED <<state, owner, cleaner, queue, worker, tool, ask, ender, wire, sidecar, posted>>

MayPostAlways == TRUE                                            \* mutant
\* The turn was not cleaned up meanwhile (and its transport not cancelled).
MayPost == bound

\* With the gate held until the answer is in.
PostStarted ==
    /\ starting = "claimed"
    /\ IF MayPost THEN starting' = "posting" /\ Post("started", 0)
                  ELSE starting' = "done" /\ UNCHANGED wire
    /\ UNCHANGED <<runtime, cleaner, coord, queue, worker, tool, ask, ender, sidecar, posted>>

\* record_started_result: the sidecar's answer, or none.
StartedReturns ==
    /\ starting = "posting" /\ starting' = "done"
    /\ \E accepted \in {FALSE} \cup {card.status = "active"} :
           state' = CASE state # "pending-start" -> state
                      [] accepted -> "card-active"
                      [] OTHER -> "native-bypass"
    /\ UNCHANGED <<bound, owner, cleaner, coord, queue, worker, tool, ask, ender, wire, sidecar, posted>>

-----------------------------------------------------------------------------
(* Observer events and interactions. *)

AdmitsAlways == TRUE                                             \* mutant
Admits == ~coord.closed /\ ~coord.barrier

\* submit_observer: a full queue loses the event, not its number.
SubmitAs(seq) ==
    IF Admits
    THEN /\ coord' = [coord EXCEPT !.next = @ + 1]
         /\ queue' = IF Len(queue) < MaxPending THEN Append(queue, seq) ELSE queue
    ELSE UNCHANGED <<coord, queue>>
SubmitBeforeLast == SubmitAs(IF queue = <<>> THEN coord.next ELSE coord.next - 2)   \* mutant
Submit == SubmitAs(coord.next)

\* submit_patch_delta and the notices, under the runtime's lock.
Delta ==
    /\ CardActive /\ HasRoom /\ Submit
    /\ UNCHANGED <<runtime, threads, worker, wire, sidecar, posted>>

\* _submit_tool, _submit_subagent: the coordinator is looked up, the payload is
\* built if the turn is still there, then the event is submitted.
LookUp(p) ==
    /\ tool[p] = "idle" /\ CardActive /\ HasRoom
    /\ tool' = [tool EXCEPT ![p] = "looked"]
    /\ UNCHANGED <<runtime, starting, cleaner, coord, queue, worker, ask, ender, wire, sidecar, posted>>

BuildPayload(p) ==
    /\ tool[p] = "looked"
    /\ tool' = [tool EXCEPT ![p] = IF bound /\ state = "card-active" THEN "ready" ELSE "idle"]
    /\ UNCHANGED <<runtime, starting, cleaner, coord, queue, worker, ask, ender, wire, sidecar, posted>>

SubmitTool(p) ==
    /\ tool[p] = "ready" /\ tool' = [tool EXCEPT ![p] = "idle"]
    /\ Submit
    /\ UNCHANGED <<runtime, starting, cleaner, worker, ask, ender, wire, sidecar, posted>>

\* request_patch_interaction numbers its event at once, and posts it itself.
NumberAsk(a) ==
    /\ ask[a].at = "idle" /\ CardActive /\ HasRoom
    /\ ask' = [ask EXCEPT ![a] = [at |-> "numbered", seq |-> coord.next]]
    /\ coord' = [coord EXCEPT !.next = @ + 1]
    /\ UNCHANGED <<runtime, starting, cleaner, queue, worker, tool, ender, wire, sidecar, posted>>

PostAsk(a) ==
    /\ ask[a].at = "numbered" /\ ask' = [ask EXCEPT ![a].at = "done"]
    /\ Post("interaction", ask[a].seq)
    /\ UNCHANGED <<runtime, starting, cleaner, coord, queue, worker, tool, ender, sidecar, posted>>

-----------------------------------------------------------------------------
(* The worker: _deliver_observer_events. *)

Take ==
    /\ worker.at = "polling" /\ queue # <<>>
    /\ worker' = [at |-> "posting", seq |-> Head(queue)] /\ queue' = Tail(queue)
    /\ posted' = posted \cup {Head(queue)}
    /\ Post("observer", Head(queue))
    /\ UNCHANGED <<runtime, threads, coord, sidecar>>

\* The answer is in, or its timeout is over.
PostReturns ==
    /\ worker.at = "posting" /\ worker' = At("polling")
    /\ UNCHANGED <<runtime, threads, coord, queue, wire, sidecar, posted>>

\* The poll times out; only then does the worker look whether it may leave.
FindEmpty ==
    /\ worker.at = "polling" /\ queue = <<>> /\ worker' = At("empty")
    /\ UNCHANGED <<runtime, threads, coord, queue, wire, sidecar, posted>>

AfterEmptyStays == At("polling")                                 \* mutant
AfterEmpty == At(IF coord.closed THEN "left" ELSE "polling")

LookClosed ==
    /\ worker.at = "empty" /\ worker' = AfterEmpty
    /\ UNCHANGED <<runtime, threads, coord, queue, wire, sidecar, posted>>

Unfinished == Len(queue) + (IF worker.at = "posting" THEN 1 ELSE 0)

-----------------------------------------------------------------------------
(* The turn ends: handle_on_session_end. *)

OwnableByAll(e) == bound                                         \* mutant
Ownable(e) == bound /\ owner = Nobody

\* _cleanup_turn_locked, which also gives up the terminal event, and finish().
Forget == bound' = FALSE /\ owner' = Nobody /\ state' = "terminal"

\* The end owns the terminal event; or its outcome is unclear and the turn is
\* forgotten, with nothing posted.
EndTurn(e) ==
    /\ ender[e].at = "idle" /\ starting = "done" /\ Ownable(e)
    /\ \/ /\ owner' = e /\ ender' = [ender EXCEPT ![e].at = "owning"]
          /\ UNCHANGED <<bound, state, coord>>
       \/ /\ Forget /\ coord' = [coord EXCEPT !.closed = TRUE]
          /\ ender' = [ender EXCEPT ![e].at = "done"]
    /\ UNCHANGED <<starting, cleaner, queue, worker, tool, ask, wire, sidecar, posted>>

\* close_terminal_barrier; only a turn that still has its card is drained.
CloseBarrier(e) ==
    /\ ender[e].at = "owning"
    /\ coord' = [coord EXCEPT !.barrier = TRUE]
    /\ ender' = [ender EXCEPT ![e].at = IF state = "card-active" THEN "closing" ELSE "undrained"]
    /\ UNCHANGED <<runtime, starting, cleaner, queue, worker, tool, ask, wire, sidecar, posted>>

\* drain_before_terminal
BeginDrain(e) ==
    /\ ender[e].at = "closing"
    /\ coord' = [coord EXCEPT !.closed = TRUE]
    /\ ender' = [ender EXCEPT ![e].at = "draining"]
    /\ UNCHANGED <<runtime, starting, cleaner, queue, worker, tool, ask, wire, sidecar, posted>>

EndDrain(e) ==
    /\ ender[e].at = "draining"
    /\ \E how \in {"undrained"} \cup (IF Unfinished = 0 THEN {"drained"} ELSE {}) :
           ender' = [ender EXCEPT ![e].at = how]
    /\ UNCHANGED <<runtime, starting, cleaner, coord, queue, worker, tool, ask, wire, sidecar, posted>>

\* next_terminal_sequence, and the post of the terminal event.
PostTerminal(e) ==
    /\ ender[e].at \in {"drained", "undrained"}
    /\ LET seq == IF coord.terminal # 0 THEN coord.terminal ELSE coord.next
       IN  /\ coord' = [next |-> IF coord.terminal # 0 THEN coord.next ELSE seq + 1,
                        barrier |-> TRUE, closed |-> TRUE, terminal |-> seq]
           /\ ender' = [ender EXCEPT ![e] = [at |-> "posting", seq |-> seq]]
           /\ Post("terminal", seq)
    /\ UNCHANGED <<runtime, starting, cleaner, queue, worker, tool, ask, sidecar, posted>>

\* The answer is in, or the thread gave up; the turn is forgotten by its owner.
TerminalReturns(e) ==
    /\ ender[e].at = "posting" /\ ender' = [ender EXCEPT ![e].at = "done"]
    /\ IF owner = e THEN Forget ELSE state' = "terminal" /\ UNCHANGED <<bound, owner>>
    /\ coord' = [coord EXCEPT !.closed = TRUE]
    /\ UNCHANGED <<starting, cleaner, queue, worker, tool, ask, wire, sidecar, posted>>

-----------------------------------------------------------------------------
(* The session is reset or finalized, or another turn needs the room of one *)
(* that nobody ends.                                                       *)

Clean ==
    /\ cleaner = "idle" /\ bound /\ cleaner' = "waiting"
    /\ \/ Forget
       \/ owner = Nobody /\ bound' = FALSE /\ UNCHANGED <<state, owner>>
    /\ UNCHANGED <<starting, coord, queue, worker, tool, ask, ender, wire, sidecar, posted>>

GateIgnored == TRUE                                              \* mutant
\* _wait_started_transports: the gate is free.
GateFree == starting # "posting"

CleanReturns ==
    /\ cleaner = "waiting" /\ GateFree /\ cleaner' = "done"
    /\ coord' = [coord EXCEPT !.closed = TRUE]
    /\ UNCHANGED <<runtime, starting, queue, worker, tool, ask, ender, wire, sidecar, posted>>

-----------------------------------------------------------------------------
(* The sidecar handles what was posted first. *)

TooOld(m) == m.seq <= card.last

HandleStarted(m) ==
    /\ m.kind = "started"
    /\ \E status \in {"active", "refused"} : card' = [card EXCEPT !.status = status]
    /\ UNCHANGED stale

HandleUpdate(m) ==
    /\ m.kind \in {"observer", "interaction"}
    /\ LET ignored == card.status # "active" \/ TooOld(m)
       IN  /\ card' = IF ignored THEN card
                      ELSE [card EXCEPT !.last = m.seq,
                                        !.asked = IF m.kind = "interaction" THEN m.seq ELSE @]
           /\ stale' = IF card.status = "active" /\ TooOld(m) /\ m.kind = "observer"
                       THEN stale \cup {m.seq} ELSE stale

\* The end is not held to the order, and nothing follows it.
HandleTerminal(m) ==
    /\ m.kind = "terminal"
    /\ card' = [card EXCEPT !.status = IF @ = "refused" THEN @ ELSE "ended"]
    /\ UNCHANGED stale

Handle ==
    /\ wire # <<>> /\ wire' = Tail(wire)
    /\ LET m == Head(wire) IN HandleStarted(m) \/ HandleUpdate(m) \/ HandleTerminal(m)
    /\ UNCHANGED <<runtime, threads, coord, queue, worker, posted>>

Worker == Take \/ PostReturns \/ FindEmpty \/ LookClosed
End(e) == CloseBarrier(e) \/ BeginDrain(e) \/ EndDrain(e) \/ PostTerminal(e) \/ TerminalReturns(e)

Next ==
    \/ ClaimTurn \/ PostStarted \/ StartedReturns
    \/ Delta \/ \E p \in Tools : LookUp(p) \/ BuildPayload(p) \/ SubmitTool(p)
    \/ \E a \in Askers : NumberAsk(a) \/ PostAsk(a)
    \/ Worker
    \/ \E e \in Enders : EndTurn(e) \/ End(e)
    \/ Clean \/ CleanReturns
    \/ Handle

Spec == Init /\ [][Next]_vars

\* Threads that have begun go on: their posts and waits have timeouts.
FairSpec ==
    /\ Spec
    /\ WF_vars(PostStarted \/ StartedReturns) /\ WF_vars(CleanReturns)
    /\ WF_vars(Worker) /\ \A e \in Enders : WF_vars(End(e))

-----------------------------------------------------------------------------
Ended == {e \in Enders : ender[e].at \in {"posting", "done"} /\ ender[e].seq # 0}
Numbers == Range(queue) \cup posted \cup {ask[a].seq : a \in Askers}

\* The end of the turn is numbered once, and after every event that the turn's
\* threads had a number for, whatever the order in which they took the locks.
TerminalIsLast ==
    /\ Cardinality(Ended) <= 1
    /\ \A e \in Ended : \A seq \in Numbers : seq < ender[e].seq

\* An observer event that the sidecar ignores as too old was overtaken by an
\* interaction of a higher number, which does not wait in the queue; the threads
\* that submit never make the worker's events overtake each other.
OnlyAskOvertakes == \A seq \in stale : seq < card.asked

\* Between the drain of the queue and the post of the turn's end nothing is queued
\* or under way, whatever threads were about to submit.
QuietEnd ==
    \A e \in Enders : ender[e].at = "drained" => queue = <<>> /\ worker.at # "posting"

\* Once the hook that reset the session has returned, the start of its turn is not
\* posted: the sidecar would open a card that nobody ends.
QuietAfterCleanup == cleaner = "done" => starting # "posting"

\* The worker of a turn that the runtime has forgotten ends.
WorkerReclaimed == (starting # "none" /\ ~bound) ~> worker.at = "left"
=============================================================================
