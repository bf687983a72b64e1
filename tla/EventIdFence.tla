--------------------------- MODULE EventIdFence ---------------------------
(***************************************************************************)
(* The event-id fence of the sidecar (server.py, class EventIdFence) and   *)
(* the part of the /events handler that drives it.  The hook may deliver   *)
(* one event several times; the fence lets one delivery apply it, keeps    *)
(* the canonical response for Ttl, and answers the others from it.         *)
(*                                                                         *)
(* A request is one HTTP delivery.  An entry of the fence is named by the  *)
(* request that created it, so "entries.get(event_id) is entry" in the     *)
(* code is table[EventOf[r]] = r here.  The fence lock is never held over  *)
(* an await: every fence operation is one step.                            *)
(***************************************************************************)
EXTENDS Integers, FiniteSets

CONSTANTS
    Requests,    \* deliveries to POST /events that carry an event_id
    EventIds,
    Prints,      \* canonical fingerprints of event payloads
    EventOf,     \* [Requests -> EventIds]
    PrintOf,     \* [Requests -> Prints]
    Admissions,  \* event ids whose event carries _hfc_runtime_admission
    Outcomes,    \* responses _apply_event_locked can compute
    Exact,       \* the one exact runtime-admission response
    MaxEntries,  \* EVENT_ID_FENCE_MAX_ENTRIES
    Ttl,         \* EVENT_ID_FENCE_TTL_SECONDS
    MaxTime,     \* bound on the clock (model checking only)
    NoOne        \* no entry

Unset == "unset"
Unavailable == "event unavailable"     \* 503 an abandoned owner leaves behind
Refusals == {"conflict", "fence full", "owner pending", Unavailable}

ASSUME FenceAssumption ==
    /\ EventOf \in [Requests -> EventIds]
    /\ PrintOf \in [Requests -> Prints]
    /\ Admissions \subseteq EventIds
    /\ Exact \in Outcomes
    /\ Outcomes \cap (Refusals \cup {Unset}) = {}
    /\ NoOne \notin Requests
    /\ MaxEntries \in Nat /\ Ttl \in Nat /\ MaxTime \in Nat

VARIABLES
    table,    \* entries: event id -> request that created the entry, or NoOne
    stored,   \* entry -> its response once finalized
    expires,  \* entry -> expires_at
    future,   \* entry -> what its future was resolved with
    clock,    \* the fence's monotonic clock
    pc,       \* where each request's handler is
    result,   \* response the owner's _apply_event_locked returned
    source,   \* entry a request was answered from, or waits on
    answer    \* response each request got

vars == <<table, stored, expires, future, clock, pc, result, source, answer>>

Phases == {"new", "applying", "applied", "abandoning", "waiting",
           "answered", "gone"}

TypeOK ==
    /\ table \in [EventIds -> Requests \cup {NoOne}]
    /\ stored \in [Requests -> Outcomes \cup {Unset}]
    /\ expires \in [Requests -> Nat]
    /\ future \in [Requests -> Outcomes \cup {Unset, Unavailable}]
    /\ clock \in Nat
    /\ pc \in [Requests -> Phases]
    /\ result \in [Requests -> Outcomes \cup {Unset}]
    /\ source \in [Requests -> Requests \cup {NoOne}]
    /\ answer \in [Requests -> Outcomes \cup Refusals \cup {Unset}]

Init ==
    /\ table = [e \in EventIds |-> NoOne]
    /\ stored = [r \in Requests |-> Unset]
    /\ expires = [r \in Requests |-> 0]
    /\ future = [r \in Requests |-> Unset]
    /\ clock = 0
    /\ pc = [r \in Requests |-> "new"]
    /\ result = [r \in Requests |-> Unset]
    /\ source = [r \in Requests |-> NoOne]
    /\ answer = [r \in Requests |-> Unset]

\* The handler that owns an entry and has not settled it yet.
Active(r) == pc[r] \in {"applying", "applied", "abandoning"}
Completed(r) == stored[r] # Unset

Occupied(t) == {e \in EventIds : t[e] # NoOne}

FinishedCountsBusy(t) == Occupied(t)                             \* mutant
Finished(t) == {e \in Occupied(t) : Completed(t[e])}

\* _evict_expired_completed_locked, the first thing every claim does.
Swept == [e \in EventIds |->
            IF e \in Finished(table) /\ expires[table[e]] <= clock
            THEN NoOne ELSE table[e]]

\* _evict_oldest_completed_locked; entries that expire together may go in
\* either order (the code breaks the tie by insertion order).
Oldest(t) == {e \in Finished(t) :
                \A f \in Finished(t) : expires[t[e]] <= expires[t[f]]}

\* The tables a new entry may be added to: the swept one while it has room,
\* else the swept one without its oldest completed entry.
Rooms ==
    IF Cardinality(Occupied(Swept)) < MaxEntries
    THEN {Swept}
    ELSE {[Swept EXCEPT ![e] = NoOne] : e \in Oldest(Swept)}

\* The same canonical payload: the fingerprints agree.
SamePayloadById(o, r) == EventOf[o] = EventOf[r]                 \* mutant
SamePayload(o, r) == PrintOf[o] = PrintOf[r]

\* A runtime admission that was not delivered exactly is abandoned, so that a
\* retry can apply it; any other response is final, failures included.
SettlesAlways(r, o) == TRUE                                      \* mutant
Settles(r, o) == EventOf[r] \notin Admissions \/ o = Exact

\* Resolve the future of r's entry unless it is done.
ResolveIfFinal(r, v) ==                                          \* mutant
    [future EXCEPT ![r] = IF @ = Unset /\ v # Unavailable THEN v ELSE @]
Resolve(r, v) == [future EXCEPT ![r] = IF @ = Unset THEN v ELSE @]

Expiry == clock + Ttl

\* "self.entries.get(event_id) is entry and not entry.completed"
Settleable(r) == table[EventOf[r]] = r /\ ~Completed(r)

Answer(r, a) ==
    /\ pc' = [pc EXCEPT ![r] = "answered"]
    /\ answer' = [answer EXCEPT ![r] = a]

Gone(r) ==
    /\ pc' = [pc EXCEPT ![r] = "gone"]
    /\ UNCHANGED answer

-----------------------------------------------------------------------------
(* claim: the five kinds of EventIdFenceClaim. *)

ClaimConflict(r) ==
    LET o == Swept[EventOf[r]] IN
    /\ pc[r] = "new" /\ o # NoOne /\ ~SamePayload(o, r)
    /\ table' = Swept
    /\ Answer(r, "conflict")
    /\ UNCHANGED <<stored, expires, future, clock, result, source>>

ClaimReplay(r) ==
    LET o == Swept[EventOf[r]] IN
    /\ pc[r] = "new" /\ o # NoOne /\ SamePayload(o, r) /\ Completed(o)
    /\ table' = Swept
    /\ Answer(r, stored[o])
    /\ source' = [source EXCEPT ![r] = o]
    /\ UNCHANGED <<stored, expires, future, clock, result>>

ClaimWait(r) ==
    LET o == Swept[EventOf[r]] IN
    /\ pc[r] = "new" /\ o # NoOne /\ SamePayload(o, r) /\ ~Completed(o)
    /\ table' = Swept
    /\ pc' = [pc EXCEPT ![r] = "waiting"]
    /\ source' = [source EXCEPT ![r] = o]
    /\ UNCHANGED <<stored, expires, future, clock, result, answer>>

ClaimFull(r) ==
    /\ pc[r] = "new" /\ Swept[EventOf[r]] = NoOne /\ Rooms = {}
    /\ table' = Swept
    /\ Answer(r, "fence full")
    /\ UNCHANGED <<stored, expires, future, clock, result, source>>

ClaimOwner(r) ==
    /\ pc[r] = "new" /\ Swept[EventOf[r]] = NoOne
    /\ \E t \in Rooms : table' = [t EXCEPT ![EventOf[r]] = r]
    /\ pc' = [pc EXCEPT ![r] = "applying"]
    /\ source' = [source EXCEPT ![r] = r]
    /\ UNCHANGED <<stored, expires, future, clock, result, answer>>

-----------------------------------------------------------------------------
(* The owner.  _apply_event_locked (and the runtime delivery that may follow  *)
(* it) returns a response, or raises or is cancelled.                         *)

Apply(r) ==
    /\ pc[r] = "applying"
    /\ \E o \in Outcomes :
         /\ result' = [result EXCEPT ![r] = o]
         /\ pc' = [pc EXCEPT ![r] = IF Settles(r, o) THEN "applied"
                                    ELSE "abandoning"]
    /\ UNCHANGED <<table, stored, expires, future, clock, source, answer>>

ApplyRaises(r) ==
    /\ pc[r] = "applying"
    /\ pc' = [pc EXCEPT ![r] = "abandoning"]
    /\ UNCHANGED <<table, stored, expires, future, clock, result, source, answer>>

\* EventIdFence.finalize, shielded: a cancelled handler still finalizes, and
\* then gives no answer of its own.
Finalize(r) ==
    /\ pc[r] = "applied"
    /\ IF Settleable(r)
       THEN /\ stored' = [stored EXCEPT ![r] = result[r]]
            /\ expires' = [expires EXCEPT ![r] = Expiry]
            /\ future' = Resolve(r, result[r])
       ELSE UNCHANGED <<stored, expires, future>>
    /\ Answer(r, result[r]) \/ Gone(r)
    /\ UNCHANGED <<table, clock, result, source>>

\* EventIdFence.abandon, after which the handler answers what it computed, if
\* it computed anything and was not cancelled.
Abandon(r) ==
    /\ pc[r] = "abandoning"
    /\ IF Settleable(r)
       THEN /\ table' = [table EXCEPT ![EventOf[r]] = NoOne]
            /\ future' = Resolve(r, Unavailable)
       ELSE UNCHANGED <<table, future>>
    /\ \/ result[r] # Unset /\ Answer(r, result[r])
       \/ Gone(r)
    /\ UNCHANGED <<stored, expires, clock, result, source>>

-----------------------------------------------------------------------------
(* A delivery that waits for the owner: EventIdFence.wait. *)

WaitDone(r) ==
    /\ pc[r] = "waiting" /\ future[source[r]] # Unset
    /\ Answer(r, future[source[r]])
    /\ UNCHANGED <<table, stored, expires, future, clock, result, source>>

WaitTimeout(r) ==
    /\ pc[r] = "waiting"
    /\ Answer(r, "owner pending")
    /\ UNCHANGED <<table, stored, expires, future, clock, result, source>>

WaitCancelled(r) ==
    /\ pc[r] = "waiting"
    /\ Gone(r)
    /\ UNCHANGED <<table, stored, expires, future, clock, result, source>>

Tick ==
    /\ clock < MaxTime
    /\ clock' = clock + 1
    /\ UNCHANGED <<table, stored, expires, future, pc, result, source, answer>>

Next ==
    \/ Tick
    \/ \E r \in Requests :
         \/ ClaimConflict(r) \/ ClaimReplay(r) \/ ClaimWait(r)
         \/ ClaimFull(r) \/ ClaimOwner(r)
         \/ Apply(r) \/ ApplyRaises(r) \/ Finalize(r) \/ Abandon(r)
         \/ WaitDone(r) \/ WaitTimeout(r) \/ WaitCancelled(r)

Spec == Init /\ [][Next]_vars

\* Owners finish (every Feishu call they make has a timeout) and a resolved
\* future wakes its waiters.  No fairness on WaitTimeout: waiters must not
\* depend on their own timeout.
Fairness ==
    \A r \in Requests :
        /\ WF_vars(Apply(r) \/ ApplyRaises(r))
        /\ WF_vars(Finalize(r) \/ Abandon(r))
        /\ WF_vars(WaitDone(r))

FairSpec == Spec /\ Fairness

-----------------------------------------------------------------------------
\* Two handlers never apply one event at the same time: an entry stays in the
\* fence for as long as its owner is between claim and finalize or abandon.
SingleOwner ==
    \A r, s \in Requests :
        Active(r) /\ Active(s) /\ EventOf[r] = EventOf[s] => r = s

\* No delivery waits for an owner that is gone: the owner is still at work or
\* its future was resolved, whether it finalized, abandoned or was cancelled.
WaiterHasWaker ==
    \A w \in Requests :
        pc[w] = "waiting" => \/ Active(source[w])
                             \/ future[source[w]] # Unset

\* A delivery answered from another one's entry carries the same event with
\* the same payload, and gets the response that delivery's application
\* produced and the fence finalized.
ReplayIsCanonical ==
    \A r \in Requests :
        answer[r] \in Outcomes /\ source[r] # r =>
            /\ source[r] \in Requests
            /\ EventOf[source[r]] = EventOf[r]
            /\ PrintOf[source[r]] = PrintOf[r]
            /\ stored[source[r]] = answer[r]
            /\ result[source[r]] = answer[r]

\* Only the exact delivered response of a runtime admission is ever replayed:
\* a failed or uncertain admission is not remembered as a success.
ReplayedAdmissionIsExact ==
    \A r \in Requests :
        EventOf[r] \in Admissions /\ source[r] # r /\ answer[r] \in Outcomes
            => answer[r] = Exact

\* An entry is forgotten only by its own owner's abandon, or after it was
\* finalized: when its retention is over, or as the one with the earliest
\* expiry when the fence is full and another event needs the room.
ForgetsOnlySettled ==
    [][\A e \in EventIds :
         table[e] # NoOne /\ table'[e] # table[e] =>
            \/ pc[table[e]] = "abandoning"
            \/ /\ Completed(table[e])
               /\ \/ expires[table[e]] <= clock
                  \/ /\ Cardinality(Occupied(table)) = MaxEntries
                     /\ \A f \in Finished(table) :
                            expires[table[e]] <= expires[table[f]]]_vars

\* Every delivery that claimed the fence leaves it, without help from the
\* waiters' timeout.
EveryClaimSettles ==
    \A r \in Requests :
        pc[r] \in {"applying", "waiting"} ~> pc[r] \in {"answered", "gone"}
=============================================================================
