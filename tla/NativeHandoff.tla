---------------------------- MODULE NativeHandoff ----------------------------
(***************************************************************************)
(* When an answer does not fit a card, the sidecar hands its delivery back *)
(* to Hermes.  A private file (native_handoff.py) remembers every handoff  *)
(* for an hour, so that the turn's end sent again neither loses the answer *)
(* nor has it delivered under another identity; the admission of a turn's  *)
(* end (native_admission.py) consults it before anything else.  Hermes     *)
(* sends the text under the descriptor it was given, notes the delivery in *)
(* its own ledger, and then acknowledges the descriptor.                   *)
(*                                                                         *)
(* A turn is exact if its end binds obligation, content, plan, route and   *)
(* target; these bindings are determined by the turn and stand for it, as  *)
(* does its generation.  The ends of the other turns are legacy: they get  *)
(* no descriptor.  The times of Hermes' events are data of the turn and    *)
(* unrelated to the sidecar's clock, which only Tick advances.             *)
(***************************************************************************)
EXTENDS Integers, FiniteSets

CONSTANTS
    Keys,             \* identities of a handoff: profile, chat, conversation, message
    Turns,            \* records [id, start, end, exact], for every key
    MaxRecords,       \* records that fit the file
    TTL,              \* an hour, the lifetime of descriptors and fences
    MaxTime, MaxLost  \* bounds on the clock and on losses of the file

ASSUME HandoffAssumption ==
    /\ IsFiniteSet(Keys)
    /\ Turns \subseteq [id : Nat, start : Nat, end : Nat, exact : BOOLEAN]
    /\ \A t, u \in Turns : t.id = u.id => t = u
    /\ \A t \in Turns : t.start <= t.end
    /\ MaxRecords \in Nat \ {0} /\ TTL \in Nat \ {0} /\ MaxTime \in Nat /\ MaxLost \in Nat

VARIABLES
    file,         \* the record of every key, on disk
    session,      \* how the session of a key ended, in memory
    cache,        \* the record of a session that ended natively
    repairs,      \* card notices being written
    descriptors,  \* what Hermes received: [key, turn, expires]
    delivered,    \* the ends that Hermes' ledger says are delivered
    now, lost     \* the sidecar's clock, and losses of the file

vars == <<file, session, cache, repairs, descriptors, delivered, now, lost>>
memory == <<session, cache, repairs>>
hermes == <<descriptors, delivered>>

NoRecord == [delivery |-> "absent"]
Record == [delivery : {"lifecycle", "legacy", "pending", "acked", "uncertain"},
           turn : Turns, event : Nat, card : {"none", "pending", "committed"},
           updated : Nat, expires : Nat]
Ended == {"card", "native"}

\* The parts of a record that never change while it lasts.
Identity(r) == [turn |-> r.turn, event |-> r.event, expires |-> r.expires]

TypeOK ==
    /\ file \in [Keys -> Record \cup {NoRecord}]
    /\ cache \in [Keys -> Record \cup {NoRecord}]
    /\ session \in [Keys -> {"none", "open"} \cup Ended]
    /\ repairs \subseteq [key : Keys, of : [turn : Turns, event : Nat, expires : Nat]]
    /\ descriptors \subseteq [key : Keys, turn : Turns, expires : Nat]
    /\ delivered \subseteq Keys \X Turns
    /\ now \in 0 .. MaxTime /\ lost \in 0 .. MaxLost
    /\ \A k \in Keys : cache[k] # NoRecord => session[k] = "native"

Init ==
    /\ file = [k \in Keys |-> NoRecord]
    /\ session = [k \in Keys |-> "none"]
    /\ cache = [k \in Keys |-> NoRecord]
    /\ repairs = {} /\ descriptors = {} /\ delivered = {}
    /\ now = 0 /\ lost = 0

-----------------------------------------------------------------------------
(* The file. *)

\* _normalize_records: reading and writing make an expired handoff uncertain.
Normal(r) == IF r.delivery = "pending" /\ now > r.expires
             THEN [r EXCEPT !.delivery = "uncertain", !.updated = now] ELSE r
Records == [k \in Keys |-> Normal(file[k])]

\* _evict_one: what may make room for another record.
EvictableAcked(r) == r.delivery \notin {"absent", "pending"}     \* mutant
Evictable(r) ==
    \/ r.delivery = "uncertain"
    \/ r.delivery = "acked" /\ now > r.expires
    \/ r.delivery = "legacy" /\ r.card # "pending"
    \/ r.delivery \in {"lifecycle", "legacy"} /\ now - r.updated >= TTL

Count(f) == Cardinality({k \in Keys : f[k] # NoRecord})
Victims(f, protected) == {k \in Keys \ {protected} : Evictable(f[k])}
Oldest(f, ks) == {k \in ks : \A j \in ks : f[k].updated <= f[j].updated}

\* _write_records: the files that writing r for k may leave, none if it fails.
\* Ties are broken by the hash of the key.
Written(k, r) ==
    LET f == [Records EXCEPT ![k] = Normal(r)]
    IN  IF Count(f) <= MaxRecords THEN {f}
        ELSE {[f EXCEPT ![v] = NoRecord] : v \in Oldest(f, Victims(f, k))}

-----------------------------------------------------------------------------
(* A turn starts, under the message lock. *)

\* record_lifecycle_fence
Fence(t) == [delivery |-> "lifecycle", turn |-> t, event |-> t.start,
             card |-> "none", updated |-> now, expires |-> now]

Opened(k) ==
    /\ session' = [session EXCEPT ![k] = "open"]
    /\ cache' = [cache EXCEPT ![k] = NoRecord]

StartAdvances(k, t) ==
    /\ Records[k] # NoRecord => /\ Records[k].turn # t
                                /\ t.start > Records[k].event
    /\ file' \in Written(k, Fence(t))
    /\ IF session[k] = "open" THEN UNCHANGED <<session, cache>> ELSE Opened(k)
    /\ UNCHANGED <<repairs, hermes, now, lost>>

StartSame(k, t) ==
    /\ Records[k] # NoRecord /\ Records[k].turn = t
    /\ session[k] # "open" /\ Opened(k)
    /\ UNCHANGED <<file, repairs, hermes, now, lost>>

-----------------------------------------------------------------------------
(* A turn ends, under the message lock. *)

\* restore_delivery_fence_if_missing: a native session puts its record back.
RestoredAlways(k) ==                                             \* mutant
    IF session[k] # "native" \/ cache[k].delivery \notin {"pending", "acked"} THEN {Records}
    ELSE IF now > cache[k].expires /\ Records[k] = NoRecord THEN {} ELSE {[Records EXCEPT ![k] = cache[k]]}
Restored(k) ==
    IF session[k] # "native" \/ cache[k].delivery \notin {"pending", "acked"} THEN {Records}
    ELSE IF Records[k] = NoRecord
         THEN IF now > cache[k].expires THEN {} ELSE Written(k, cache[k])
    ELSE IF /\ Identity(Records[k]) = Identity(cache[k])
            /\ cache[k].delivery = "acked" => Records[k].delivery = "acked"
         THEN {Records} ELSE {}

\* native_terminal_matches_cached_handoff, checked before the record is put back.
MatchesCache(k, t) ==
    session[k] = "native" /\ cache[k].delivery \in {"pending", "acked"} =>
        cache[k].turn = t /\ cache[k].event = t.end

\* admit_native_handoff, in view of the record r of the key.
Known(r, t) == r # NoRecord /\ r.turn = t /\ r.delivery # "lifecycle"
SupersededNever(r, t) == FALSE                                   \* mutant
Superseded(r, t) == r # NoRecord /\ r.turn # t /\ t.end <= r.event
Fresh(r, t) == ~Known(r, t) /\ ~Superseded(r, t)

\* A descriptor is given only for a handoff that waits for its acknowledgement,
\* and may be lost on its way.
Descriptor(k, r) == [key |-> k, turn |-> r.turn, expires |-> r.expires]
Given(k, r) ==
    \/ descriptors' = descriptors
    \/ r.delivery = "pending" /\ descriptors' = descriptors \cup {Descriptor(k, r)}

\* The end is known: the descriptor again, or "already handled".
EndKnown(k, t) ==
    /\ MatchesCache(k, t)
    /\ \E f \in Restored(k) :
        /\ Known(f[k], t)
        /\ file' = IF f = Records THEN file ELSE f
        /\ cache' = IF session[k] = "native" /\ cache[k].delivery \in {"pending", "acked"}
                    THEN [cache EXCEPT ![k] = f[k]] ELSE cache
        /\ Given(k, f[k])
        /\ repairs' = IF f[k].card = "pending" /\ session[k] # "none"
                      THEN repairs \cup {[key |-> k, of |-> Identity(f[k])]} ELSE repairs
    /\ UNCHANGED <<session, delivered, now, lost>>

\* _begin: the record of a new handoff.
Handoff(k, t) ==
    [delivery |-> IF t.exact THEN "pending" ELSE "legacy", turn |-> t, event |-> t.end,
     card |-> IF session[k] = "open" THEN "pending" ELSE "none",
     updated |-> now, expires |-> IF t.exact THEN now + TTL ELSE now]

\* The end is new and its answer does not fit the card.  If the record cannot
\* be written the session is rolled back and Hermes is refused.
EndHandedOver(k, t) ==
    /\ session[k] \notin Ended /\ Fresh(Records[k], t)
    /\ file' \in Written(k, Handoff(k, t))
    /\ session' = [session EXCEPT ![k] = "native"]
    /\ cache' = [cache EXCEPT ![k] = Handoff(k, t)]
    /\ Given(k, Handoff(k, t))
    /\ repairs' = IF session[k] = "open"
                  THEN repairs \cup {[key |-> k, of |-> Identity(Handoff(k, t))]} ELSE repairs
    /\ UNCHANGED <<delivered, now, lost>>

\* The end is new and its answer is shown on the card.
EndOnCard(k, t) ==
    /\ session[k] \notin Ended /\ Fresh(Records[k], t)
    /\ session' = [session EXCEPT ![k] = "card"]
    /\ UNCHANGED <<file, cache, repairs, hermes, now, lost>>

\* The card's notice was written: mark_card_committed, for the record it was
\* written for.
Commits(r, of) == r.card = "pending" /\ Identity(r) = of

CardNotice(n) ==
    /\ n \in repairs /\ repairs' = repairs \ {n}
    /\ LET r == Records[n.key]
       IN  IF r # NoRecord /\ Commits(r, n.of)
           THEN file' \in Written(n.key, [r EXCEPT !.card = "committed", !.updated = now])
           ELSE file' = file
    /\ UNCHANGED <<session, cache, hermes, now, lost>>

-----------------------------------------------------------------------------
(* Hermes. *)

\* The text of a turn's end is sent under its descriptor, and the ledger notes it.
Deliver(d) ==
    /\ d \in descriptors
    /\ delivered' = delivered \cup {<<d.key, d.turn>>}
    /\ UNCHANGED <<file, memory, descriptors, now, lost>>

\* _descriptor_matches: identity (key and generation), seed and expiry.
Matches(r, d) == r # NoRecord /\ r.turn = d.turn /\ r.expires = d.expires

LedgerUnread(d) == TRUE                                            \* mutant
\* _hfc_mark_delivery_ledger_delivered_then_ack: the ledger first.
InLedger(d) == <<d.key, d.turn>> \in delivered

Acknowledge(d) ==
    /\ d \in descriptors /\ InLedger(d)
    /\ LET r == Records[d.key]
           acked == [r EXCEPT !.delivery = "acked", !.updated = now]
       IN  /\ Matches(r, d) /\ r.delivery = "pending"
           /\ file' \in Written(d.key, acked)
           /\ cache' = IF cache[d.key] # NoRecord /\ cache[d.key].turn = d.turn
                       THEN [cache EXCEPT ![d.key] = acked] ELSE cache
    /\ UNCHANGED <<session, repairs, hermes, now, lost>>

\* The answer to the turn's end was lost: Hermes asks for its descriptor.
Recover(k) ==
    /\ Records[k].delivery = "pending" /\ Given(k, Records[k])
    /\ UNCHANGED <<file, memory, delivered, now, lost>>

-----------------------------------------------------------------------------
(* Surroundings. *)

Tick == now < MaxTime /\ now' = now + 1 /\ UNCHANGED <<file, memory, hermes, lost>>

\* The sidecar is killed and started again; sessions handed over are not restored.
Restart ==
    /\ session' = [k \in Keys |-> "none"] /\ cache' = [k \in Keys |-> NoRecord]
    /\ repairs' = {}
    /\ UNCHANGED <<file, hermes, now, lost>>

\* The file disappears while the sidecar runs.
LoseFile ==
    /\ lost < MaxLost /\ lost' = lost + 1
    /\ file' = [k \in Keys |-> NoRecord]
    /\ UNCHANGED <<memory, hermes, now>>

Next ==
    \/ \E k \in Keys, t \in Turns :
        \/ StartAdvances(k, t) \/ StartSame(k, t)
        \/ EndKnown(k, t) \/ EndHandedOver(k, t) \/ EndOnCard(k, t)
    \/ \E n \in repairs : CardNotice(n)
    \/ \E d \in descriptors : Deliver(d) \/ Acknowledge(d)
    \/ \E k \in Keys : Recover(k)
    \/ Tick \/ Restart \/ LoseFile

Spec == Init /\ [][Next]_vars

-----------------------------------------------------------------------------
\* Nothing is settled without Hermes: a handoff is acknowledged, in the file or
\* in memory, only if its ledger says that exactly this end was delivered.
AckedMeansDelivered ==
    \A k \in Keys : \A r \in {file[k], cache[k]} :
        r.delivery = "acked" => <<k, r.turn>> \in delivered

\* The turns that no later turn of an older Hermes can displace: the record of a
\* legacy end may be evicted at once.
Lasting == {t \in Turns : \A u \in Turns : u.end > t.end => u.exact}

\* A descriptor that Hermes holds can be acknowledged for its hour, or was, or a
\* later turn took the key over: nothing else forgets it, unless the file is lost.
DescriptorRemembered ==
    lost = 0 => \A d \in descriptors : d.turn \in Lasting /\ now < d.expires =>
        LET r == file[d.key]
        IN  /\ r # NoRecord
            /\ \/ Matches(r, d) /\ r.delivery \in {"pending", "acked"}
               \/ r.event > d.turn.end

\* The file never remembers an older event of a key than before.
EventsAdvance ==
    [][\A k \in Keys : file[k] # NoRecord /\ file'[k] # NoRecord => file'[k].event >= file[k].event]_vars

\* An end whose delivery is uncertain stays so while its record lasts: it is
\* neither acknowledged nor handed out again.
UncertainIsFinal ==
    [][\A k \in Keys :
        file[k].delivery = "uncertain" /\ file'[k] # NoRecord /\ file'[k].turn = file[k].turn
            => file'[k].delivery = "uncertain"]_vars
=============================================================================
