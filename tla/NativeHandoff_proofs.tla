------------------------ MODULE NativeHandoff_proofs ------------------------
(* What the file of handoffs never forgets too early: proofs about          *)
(* NativeHandoff.  Every step is first described by what becomes of the     *)
(* record of one key (Changes); the invariants then follow case by case.    *)
EXTENDS NativeHandoff, TLAPS

USE HandoffAssumption

MaybeRecord == Record \cup {NoRecord}

\* s is r as the file is read: expired handoffs are uncertain.
Aged(r, s) ==
    \/ s = r
    \/ /\ r \in Record /\ r.delivery = "pending" /\ now > r.expires
       /\ s \in Record /\ s.delivery = "uncertain" /\ s.turn = r.turn /\ s.event = r.event
       /\ s.expires = r.expires /\ s.card = r.card /\ s.updated = now

LEMMA Absent == /\ NoRecord.delivery = "absent" /\ NoRecord \notin Record
                /\ \A r \in Record : r.delivery # "absent" /\ r # NoRecord
BY DEF Record, NoRecord

LEMMA NormalAged ==
    ASSUME NEW r \in MaybeRecord, now \in Nat
    PROVE  /\ Normal(r) \in MaybeRecord /\ Aged(r, Normal(r))
           /\ Normal(r).delivery = "pending" => ~(now > Normal(r).expires)
<1>1. CASE r = NoRecord
  BY <1>1, Absent DEF Normal, Aged, MaybeRecord
<1>2. CASE r \in Record
  BY <1>2, Absent DEF Normal, Aged, MaybeRecord, Record
<1> QED  BY <1>1, <1>2 DEF MaybeRecord

LEMMA RecordsAged ==
    ASSUME file \in [Keys -> MaybeRecord], now \in Nat
    PROVE  /\ Records \in [Keys -> MaybeRecord]
           /\ \A k \in Keys : Aged(file[k], Records[k])
BY NormalAged DEF Records

LEMMA PendingIsFresh ==
    ASSUME file \in [Keys -> MaybeRecord], now \in Nat, NEW k \in Keys,
           Records[k].delivery = "pending"
    PROVE  ~(now > Records[k].expires)
BY NormalAged DEF Records

\* What a write leaves: its own record, and those of the other keys but for one
\* that may be evicted.
LEMMA WrittenFile ==
    ASSUME file \in [Keys -> MaybeRecord], now \in Nat,
           NEW k \in Keys, NEW r \in Record, NEW f \in Written(k, r)
    PROVE  /\ f \in [Keys -> MaybeRecord]
           /\ f[k] = Normal(r)
           /\ \A j \in Keys \ {k} :
                f[j] = Records[j] \/ (f[j] = NoRecord /\ Evictable(Records[j]))
<1> DEFINE g == [Records EXCEPT ![k] = Normal(r)]
<1>1. Records \in [Keys -> MaybeRecord] /\ Normal(r) \in MaybeRecord
  BY RecordsAged, NormalAged DEF MaybeRecord
<1>2. g \in [Keys -> MaybeRecord] /\ g[k] = Normal(r) /\ \A j \in Keys \ {k} : g[j] = Records[j]
  BY <1>1
<1>3. f = g \/ \E v \in Oldest(g, Victims(g, k)) : f = [g EXCEPT ![v] = NoRecord]
  BY DEF Written
<1>4. CASE f = g
  BY <1>2, <1>4
<1>5. ASSUME NEW v \in Oldest(g, Victims(g, k)), f = [g EXCEPT ![v] = NoRecord]
      PROVE  /\ f \in [Keys -> MaybeRecord]
             /\ f[k] = Normal(r)
             /\ \A j \in Keys \ {k} :
                  f[j] = Records[j] \/ (f[j] = NoRecord /\ Evictable(Records[j]))
  <2>1. v \in Keys \ {k} /\ Evictable(g[v])
    BY DEF Oldest, Victims
  <2> HIDE DEF g
  <2> QED  BY <1>2, <1>5, <2>1 DEF MaybeRecord
<1> QED  BY <1>3, <1>4, <1>5

LEMMA NewRecords ==
    ASSUME now \in Nat, NEW t \in Turns, NEW k \in Keys
    PROVE  /\ Fence(t) \in Record /\ Normal(Fence(t)) = Fence(t)
           /\ Handoff(k, t) \in Record /\ Normal(Handoff(k, t)) = Handoff(k, t)
<1>1. t.start \in Nat /\ t.end \in Nat /\ t.exact \in BOOLEAN
  OBVIOUS
<1>2. Fence(t) \in Record /\ Normal(Fence(t)) = Fence(t)
  BY <1>1 DEF Fence, Record, Normal
<1>3. CASE t.exact
  <2>1. ~ (now > now + TTL)
    OBVIOUS
  <2> QED  BY <1>1, <1>2, <1>3, <2>1 DEF Handoff, Record, Normal
<1>4. CASE ~t.exact
  BY <1>1, <1>2, <1>4 DEF Handoff, Record, Normal
<1> QED  BY <1>1, <1>3, <1>4

LEMMA CommittedRecord ==
    ASSUME now \in Nat, NEW r \in Record,
           NEW s, s = [r EXCEPT !.card = "committed", !.updated = now]
    PROVE  /\ s \in Record /\ s.turn = r.turn /\ s.event = r.event
           /\ s.expires = r.expires /\ s.updated = now /\ s.delivery = r.delivery
BY DEF Record

LEMMA AckedRecord ==
    ASSUME now \in Nat, NEW r \in Record,
           NEW s, s = [r EXCEPT !.delivery = "acked", !.updated = now]
    PROVE  /\ s \in Record /\ s.turn = r.turn /\ s.event = r.event
           /\ s.expires = r.expires /\ s.updated = now /\ s.delivery = "acked"
BY DEF Record

LEMMA TypesInit == Init => TypeOK
BY Absent DEF Init, TypeOK, memory, hermes

LEMMA Types == TypeOK <=>
    /\ file \in [Keys -> MaybeRecord] /\ cache \in [Keys -> MaybeRecord]
    /\ session \in [Keys -> {"none", "open", "card", "native"}]
    /\ repairs \subseteq [key : Keys, of : [turn : Turns, event : Nat, expires : Nat]]
    /\ descriptors \subseteq [key : Keys, turn : Turns, expires : Nat]
    /\ delivered \subseteq Keys \X Turns
    /\ now \in Nat /\ now <= MaxTime /\ lost \in Nat /\ lost <= MaxLost
    /\ \A k \in Keys : cache[k] # NoRecord => session[k] = "native"
BY DEF TypeOK, Ended, MaybeRecord

\* What an end may leave of the file, the key's record included.
LEMMA RestoredFile ==
    ASSUME TypeOK, NEW k \in Keys, NEW f \in Restored(k)
    PROVE  /\ f \in [Keys -> MaybeRecord]
           /\ \A j \in Keys \ {k} :
                f[j] = Records[j] \/ (f[j] = NoRecord /\ Evictable(Records[j]))
           /\ \/ f[k] = Records[k]
              \/ /\ file[k] = NoRecord /\ f[k] = cache[k]
                 /\ cache[k].delivery \in {"pending", "acked"} /\ now <= cache[k].expires
<1>1. /\ Records \in [Keys -> MaybeRecord]
      /\ \A j \in Keys : Aged(file[j], Records[j])
  BY RecordsAged, Types
<1>2. CASE f = Records
  BY <1>1, <1>2
<1>3. CASE /\ Records[k] = NoRecord /\ ~(now > cache[k].expires) /\ f \in Written(k, cache[k])
           /\ cache[k].delivery \in {"pending", "acked"}
  <2>1. cache[k] \in Record /\ now \in Nat /\ cache[k].expires \in Nat
    BY <1>3, Types, Absent DEF MaybeRecord, Record
  <2>2. Normal(cache[k]) = cache[k]
    BY <1>3 DEF Normal
  <2>3. file[k] = NoRecord
    BY <1>1, <1>3, Absent DEF Aged
  <2> QED  BY <1>3, <2>1, <2>2, <2>3, WrittenFile, Types
<1> QED  BY <1>2, <1>3 DEF Restored

LEMMA TypesStep == TypeOK /\ [Next]_vars => TypeOK'
<1> SUFFICES ASSUME TypeOK, [Next]_vars PROVE TypeOK'
  OBVIOUS
<1>t. /\ now \in Nat /\ Records \in [Keys -> MaybeRecord]
  BY RecordsAged, Types
<1>1. ASSUME NEW k \in Keys, NEW t \in Turns, StartAdvances(k, t) PROVE TypeOK'
  <2>1. file' \in [Keys -> MaybeRecord]
    BY <1>1, <1>t, NewRecords, WrittenFile, Types DEF StartAdvances
  <2>2. /\ session' \in [Keys -> {"none", "open", "card", "native"}]
        /\ cache' \in [Keys -> MaybeRecord]
        /\ \A j \in Keys : cache'[j] # NoRecord => session'[j] = "native"
    BY <1>1, Types DEF StartAdvances, Opened, MaybeRecord
  <2> QED  BY <1>1, <2>1, <2>2, Types DEF StartAdvances, hermes, TypeOK, Ended, MaybeRecord
<1>2. ASSUME NEW k \in Keys, NEW t \in Turns, StartSame(k, t) PROVE TypeOK'
  <2>1. /\ session' \in [Keys -> {"none", "open", "card", "native"}]
        /\ cache' \in [Keys -> MaybeRecord]
        /\ \A j \in Keys : cache'[j] # NoRecord => session'[j] = "native"
    BY <1>2, Types DEF StartSame, Opened, MaybeRecord
  <2> QED  BY <1>2, <2>1, Types DEF StartSame, hermes, TypeOK, Ended, MaybeRecord
<1>3. ASSUME NEW k \in Keys, NEW t \in Turns, EndKnown(k, t) PROVE TypeOK'
  <2>1. PICK f \in Restored(k) :
          /\ Known(f[k], t)
          /\ file' = IF f = Records THEN file ELSE f
          /\ cache' = IF session[k] = "native" /\ cache[k].delivery \in {"pending", "acked"}
                      THEN [cache EXCEPT ![k] = f[k]] ELSE cache
          /\ Given(k, f[k])
          /\ repairs' = IF f[k].card = "pending" /\ session[k] # "none"
                        THEN repairs \cup {[key |-> k, of |-> Identity(f[k])]} ELSE repairs
    BY <1>3 DEF EndKnown
  <2>2. f \in [Keys -> MaybeRecord] /\ f[k] \in Record
    BY <2>1, RestoredFile, Absent DEF Known, MaybeRecord
  <2>3. f[k].turn \in Turns /\ f[k].event \in Nat /\ f[k].expires \in Nat
    BY <2>2 DEF Record
  <2>4. descriptors' \subseteq [key : Keys, turn : Turns, expires : Nat]
    BY <2>1, <2>3, Types DEF Given, Descriptor
  <2>5. repairs' \subseteq [key : Keys, of : [turn : Turns, event : Nat, expires : Nat]]
    BY <2>1, <2>3, Types DEF Identity
  <2>6. file' \in [Keys -> MaybeRecord] /\ cache' \in [Keys -> MaybeRecord]
    BY <2>1, <2>2, Types
  <2>7. \A j \in Keys : cache'[j] # NoRecord => session[j] = "native"
    BY <2>1, Types
  <2> QED  BY <1>3, <2>4, <2>5, <2>6, <2>7, Types DEF EndKnown, TypeOK, Ended, MaybeRecord
<1>4. ASSUME NEW k \in Keys, NEW t \in Turns, EndHandedOver(k, t) PROVE TypeOK'
  <2>1. Handoff(k, t) \in Record /\ file' \in [Keys -> MaybeRecord]
    BY <1>4, <1>t, NewRecords, WrittenFile, Types DEF EndHandedOver
  <2>2. Handoff(k, t).turn \in Turns /\ Handoff(k, t).event \in Nat /\ Handoff(k, t).expires \in Nat
    BY <2>1 DEF Record
  <2>3. descriptors' \subseteq [key : Keys, turn : Turns, expires : Nat]
    BY <1>4, <2>2, Types DEF EndHandedOver, Given, Descriptor
  <2>4. repairs' \subseteq [key : Keys, of : [turn : Turns, event : Nat, expires : Nat]]
    BY <1>4, <2>2, Types DEF EndHandedOver, Identity
  <2>5. /\ session' \in [Keys -> {"none", "open", "card", "native"}]
        /\ cache' \in [Keys -> MaybeRecord]
        /\ \A j \in Keys : cache'[j] # NoRecord => session'[j] = "native"
    BY <1>4, <2>1, Types DEF EndHandedOver, MaybeRecord
  <2> QED  BY <1>4, <2>1, <2>3, <2>4, <2>5, Types DEF EndHandedOver, TypeOK, Ended, MaybeRecord
<1>5. ASSUME NEW k \in Keys, NEW t \in Turns, EndOnCard(k, t) PROVE TypeOK'
  BY <1>5, Types DEF EndOnCard, hermes, TypeOK, Ended, MaybeRecord
<1>6. ASSUME NEW n \in repairs, CardNotice(n) PROVE TypeOK'
  <2>1. n.key \in Keys
    BY <1>6, Types
  <2>2. CASE file' = file
    BY <1>6, <2>2, Types DEF CardNotice, hermes, TypeOK, Ended, MaybeRecord
  <2>3. CASE /\ Records[n.key] # NoRecord
             /\ file' \in Written(n.key, [Records[n.key] EXCEPT !.card = "committed", !.updated = now])
    <3>1. [Records[n.key] EXCEPT !.card = "committed", !.updated = now] \in Record
      BY <1>t, <2>1, <2>3 DEF Record, MaybeRecord
    <3>2. file' \in [Keys -> MaybeRecord]
      BY <1>t, <2>1, <2>3, <3>1, WrittenFile, Types
    <3> QED  BY <1>6, <3>2, Types DEF CardNotice, hermes, TypeOK, Ended, MaybeRecord
  <2> QED  BY <1>6, <2>2, <2>3 DEF CardNotice
<1>7. ASSUME NEW d \in descriptors, Deliver(d) PROVE TypeOK'
  BY <1>7, Types DEF Deliver, memory, TypeOK, Ended, MaybeRecord
<1>8. ASSUME NEW d \in descriptors, Acknowledge(d) PROVE TypeOK'
  <2>1. d.key \in Keys
    BY <1>8, Types
  <2> DEFINE acked == [Records[d.key] EXCEPT !.delivery = "acked", !.updated = now]
  <2>2. acked \in Record
    BY <1>t, <1>8, <2>1 DEF Acknowledge, InLedger, Matches, Record, MaybeRecord
  <2>3. file' \in [Keys -> MaybeRecord]
    BY <1>t, <1>8, <2>1, <2>2, WrittenFile, Types DEF Acknowledge
  <2>4. /\ cache' \in [Keys -> MaybeRecord]
        /\ \A j \in Keys : cache'[j] # NoRecord => cache[j] # NoRecord
    BY <1>8, <2>2, Types DEF Acknowledge, MaybeRecord
  <2> QED  BY <1>8, <2>3, <2>4, Types DEF Acknowledge, hermes, TypeOK, Ended, MaybeRecord
<1>9. ASSUME NEW k \in Keys, Recover(k) PROVE TypeOK'
  <2>1. Records[k].turn \in Turns /\ Records[k].expires \in Nat
    BY <1>t, <1>9, Absent DEF Recover, Record, MaybeRecord
  <2>2. descriptors' \subseteq [key : Keys, turn : Turns, expires : Nat]
    BY <1>9, <2>1, Types DEF Recover, Given, Descriptor
  <2> QED  BY <1>9, <2>2, Types DEF Recover, memory, TypeOK, Ended, MaybeRecord
<1>10. CASE Tick
  BY <1>10, Types DEF Tick, memory, hermes, TypeOK, Ended, MaybeRecord
<1>11. CASE Restart
  BY <1>11, Types DEF Restart, hermes, TypeOK, Ended, MaybeRecord
<1>12. CASE LoseFile
  BY <1>12, Types DEF LoseFile, memory, hermes, TypeOK, Ended, MaybeRecord
<1>13. CASE UNCHANGED vars
  BY <1>13, Types DEF vars, TypeOK, Ended, MaybeRecord
<1> QED  BY <1>1, <1>2, <1>3, <1>4, <1>5, <1>6, <1>7, <1>8, <1>9, <1>10, <1>11, <1>12, <1>13 DEF Next

\* The type invariant.
THEOREM HandoffTypes == Spec => []TypeOK
BY TypesInit, TypesStep, PTL DEF Spec

-----------------------------------------------------------------------------
(* What a step makes of the record of a key. *)

Kept(k) == Aged(file[k], file'[k])
Forgotten(k) == file'[k] = NoRecord /\ (Evictable(Records[k]) \/ lost' # 0)
Fenced(k) == \E t \in Turns :
    /\ file'[k] = Fence(t) /\ now' = now
    /\ file[k] # NoRecord => file[k].turn # t /\ t.start > file[k].event
PutBack(k) ==
    /\ file[k] = NoRecord /\ file'[k] = cache[k]
    /\ cache[k].delivery \in {"pending", "acked"} /\ now <= cache[k].expires
Handed(k) == \E t \in Turns :
    /\ Fresh(Records[k], t) /\ file'[k] = Handoff(k, t) /\ cache'[k] = Handoff(k, t) /\ now' = now
Noted(k) ==
    /\ file[k] \in Record /\ file'[k] \in Record /\ now' = now
    /\ file'[k].turn = file[k].turn /\ file'[k].event = file[k].event
    /\ file'[k].expires = file[k].expires /\ file'[k].updated = now
    /\ \/ file'[k].delivery = Records[k].delivery
       \/ /\ Records[k].delivery = "pending" /\ file'[k].delivery = "acked"
          /\ <<k, file[k].turn>> \in delivered

Change(k) == Kept(k) \/ Forgotten(k) \/ Fenced(k) \/ PutBack(k) \/ Handed(k) \/ Noted(k)

\* Every step makes one of these changes to each record.
LEMMA Changes == TypeOK /\ [Next]_vars => \A k \in Keys : Change(k)
<1> SUFFICES ASSUME TypeOK, [Next]_vars PROVE \A k \in Keys : Change(k)
  OBVIOUS
<1>t. /\ now \in Nat /\ Records \in [Keys -> MaybeRecord]
      /\ \A k \in Keys : Aged(file[k], Records[k])
      /\ file \in [Keys -> MaybeRecord]
  BY RecordsAged, Types
<1>s. \A k \in Keys : /\ Records[k] = NoRecord <=> file[k] = NoRecord
                      /\ Records[k] # NoRecord =>
                            /\ file[k] \in Record /\ Records[k] \in Record
                            /\ Records[k].turn = file[k].turn /\ Records[k].event = file[k].event
                            /\ Records[k].expires = file[k].expires
  BY <1>t, Absent DEF Aged, MaybeRecord
<1>o. ASSUME NEW j \in Keys,
             file'[j] = Records[j] \/ (file'[j] = NoRecord /\ Evictable(Records[j]))
      PROVE  Change(j)
  BY <1>o, <1>t DEF Change, Kept, Forgotten
<1>u. ASSUME file' = file PROVE \A k \in Keys : Change(k)
  BY <1>u DEF Change, Kept, Aged
<1>1. ASSUME NEW k \in Keys, NEW t \in Turns, StartAdvances(k, t) PROVE \A j \in Keys : Change(j)
  <2>1. file'[k] = Fence(t) /\ now' = now
    BY <1>1, <1>t, NewRecords, WrittenFile DEF StartAdvances
  <2>2. Change(k)
    BY <1>1, <1>s, <2>1 DEF StartAdvances, Change, Fenced
  <2>3. \A j \in Keys \ {k} : file'[j] = Records[j] \/ (file'[j] = NoRecord /\ Evictable(Records[j]))
    BY <1>1, <1>t, NewRecords, WrittenFile DEF StartAdvances
  <2> QED  BY <1>o, <2>2, <2>3
<1>2. ASSUME NEW k \in Keys, NEW t \in Turns, EndKnown(k, t) PROVE \A j \in Keys : Change(j)
  <2>1. PICK f \in Restored(k) : file' = IF f = Records THEN file ELSE f
    BY <1>2 DEF EndKnown
  <2>2. CASE file' = file
    BY <2>2, <1>u
  <2>3. CASE file' = f
    <3>1. Change(k)
      BY <1>t, <2>3, RestoredFile DEF Change, Kept, PutBack
    <3> QED  BY <1>o, <2>3, <3>1, RestoredFile
  <2> QED  BY <2>1, <2>2, <2>3
<1>3. ASSUME NEW k \in Keys, NEW t \in Turns, EndHandedOver(k, t) PROVE \A j \in Keys : Change(j)
  <2>1. file'[k] = Handoff(k, t) /\ cache'[k] = Handoff(k, t) /\ now' = now
    BY <1>3, <1>t, NewRecords, WrittenFile, Types DEF EndHandedOver
  <2>2. Change(k)
    BY <1>3, <2>1 DEF EndHandedOver, Change, Handed
  <2>3. \A j \in Keys \ {k} : file'[j] = Records[j] \/ (file'[j] = NoRecord /\ Evictable(Records[j]))
    BY <1>3, <1>t, NewRecords, WrittenFile DEF EndHandedOver
  <2> QED  BY <1>o, <2>2, <2>3
<1>4. ASSUME NEW n \in repairs, CardNotice(n) PROVE \A j \in Keys : Change(j)
  <2> DEFINE k == n.key
             r == [Records[k] EXCEPT !.card = "committed", !.updated = now]
  <2>1. k \in Keys
    BY Types
  <2>2. CASE file' = file
    BY <2>2, <1>u
  <2>3. CASE Records[k] # NoRecord /\ file' \in Written(k, r)
    <3>1. /\ r \in Record /\ r.turn = file[k].turn /\ r.event = file[k].event
          /\ r.expires = file[k].expires /\ r.updated = now /\ r.delivery = Records[k].delivery
          /\ Aged(r, Normal(r))
      <4>1. Records[k] \in Record /\ Records[k].turn = file[k].turn
            /\ Records[k].event = file[k].event /\ Records[k].expires = file[k].expires
        BY <1>s, <2>1, <2>3
      <4>2. /\ r \in Record /\ r.turn = Records[k].turn /\ r.event = Records[k].event
            /\ r.expires = Records[k].expires /\ r.updated = now /\ r.delivery = Records[k].delivery
        BY <1>t, <4>1, CommittedRecord
      <4> QED  BY <4>1, <4>2, <1>t, NormalAged DEF MaybeRecord
    <3> HIDE DEF r
    <3>2. r.delivery = "pending" => ~(now > r.expires)
      BY <1>s, <1>t, <2>1, <2>3, <3>1, PendingIsFresh
    <3>3. Normal(r) = r
      BY <3>1, <3>2 DEF Normal
    <3>4. Change(k)
      <4>1. file'[k] = r /\ now' = now
        BY <1>4, <1>t, <2>1, <2>3, <3>1, <3>3, WrittenFile DEF CardNotice
      <4>2. file[k] \in Record
        BY <1>s, <2>1, <2>3
      <4> QED  BY <3>1, <4>1, <4>2 DEF Change, Noted
    <3> QED  BY <1>o, <1>t, <2>1, <2>3, <3>1, <3>4, WrittenFile
  <2> QED  BY <1>4, <2>2, <2>3 DEF CardNotice
<1>5. ASSUME NEW d \in descriptors, Acknowledge(d) PROVE \A j \in Keys : Change(j)
  <2> DEFINE k == d.key
             r == [Records[k] EXCEPT !.delivery = "acked", !.updated = now]
  <2>1. k \in Keys /\ file' \in Written(k, r) /\ Records[k] # NoRecord /\ Records[k].delivery = "pending"
        /\ <<k, Records[k].turn>> \in delivered /\ now' = now
    BY <1>5, Types DEF Acknowledge, InLedger, Matches
  <2>2. /\ r \in Record /\ r.turn = file[k].turn /\ r.event = file[k].event
        /\ r.expires = file[k].expires /\ r.updated = now /\ r.delivery = "acked"
    <3>1. Records[k] \in Record /\ Records[k].turn = file[k].turn
          /\ Records[k].event = file[k].event /\ Records[k].expires = file[k].expires
      BY <1>s, <2>1
    <3>2. /\ r \in Record /\ r.turn = Records[k].turn /\ r.event = Records[k].event
          /\ r.expires = Records[k].expires /\ r.updated = now /\ r.delivery = "acked"
      BY <1>t, <3>1, AckedRecord
    <3> QED  BY <3>1, <3>2
  <2> HIDE DEF r
  <2>3. Normal(r) = r
    BY <2>2 DEF Normal
  <2>4. Change(k)
    <3>1. file'[k] = r
      BY <1>t, <2>1, <2>2, <2>3, WrittenFile
    <3>2. file[k] \in Record /\ Records[k].turn = file[k].turn
      BY <1>s, <2>1
    <3> QED  BY <2>1, <2>2, <3>1, <3>2 DEF Change, Noted
  <2> QED  BY <1>o, <1>t, <2>1, <2>2, <2>4, WrittenFile
<1>6. CASE LoseFile
  BY <1>6, Types DEF LoseFile, Change, Forgotten
<1>7. ASSUME NEW k \in Keys, NEW t \in Turns, StartSame(k, t) \/ EndOnCard(k, t)
      PROVE  \A j \in Keys : Change(j)
  BY <1>7, <1>u DEF StartSame, EndOnCard
<1>8. ASSUME NEW k \in Keys, Recover(k) PROVE \A j \in Keys : Change(j)
  BY <1>8, <1>u DEF Recover
<1>9. ASSUME NEW d \in descriptors, Deliver(d) PROVE \A j \in Keys : Change(j)
  BY <1>9, <1>u DEF Deliver
<1>10. CASE Tick \/ Restart \/ UNCHANGED vars
  BY <1>10, <1>u DEF Tick, Restart, vars
<1> QED  BY <1>1, <1>2, <1>3, <1>4, <1>5, <1>6, <1>7, <1>8, <1>9, <1>10 DEF Next

\* What a step makes of the record in memory: nothing, or it follows the file.
LEMMA CacheChanges == TypeOK /\ [Next]_vars =>
        \A k \in Keys : cache'[k] \in {cache[k], NoRecord} \/ Aged(file'[k], cache'[k])
<1> SUFFICES ASSUME TypeOK, [Next]_vars, NEW k \in Keys
             PROVE  cache'[k] \in {cache[k], NoRecord} \/ Aged(file'[k], cache'[k])
  OBVIOUS
<1>t. /\ now \in Nat /\ \A j \in Keys : Aged(file[j], Records[j])
      /\ cache \in [Keys -> MaybeRecord] /\ file \in [Keys -> MaybeRecord]
      /\ Records \in [Keys -> MaybeRecord]
  BY RecordsAged, Types
<1>u. ASSUME cache' = cache PROVE cache'[k] \in {cache[k], NoRecord}
  BY <1>u
<1>1. ASSUME NEW j \in Keys, NEW t \in Turns, StartAdvances(j, t) \/ StartSame(j, t)
      PROVE  cache'[k] \in {cache[k], NoRecord}
  BY <1>1, <1>t DEF StartAdvances, StartSame, Opened
<1>2. ASSUME NEW j \in Keys, NEW t \in Turns, EndKnown(j, t)
      PROVE  cache'[k] = cache[k] \/ Aged(file'[k], cache'[k])
  <2>1. PICK f \in Restored(j) :
          /\ file' = IF f = Records THEN file ELSE f
          /\ cache' \in {[cache EXCEPT ![j] = f[j]], cache}
    BY <1>2 DEF EndKnown
  <2>2. CASE k = j /\ cache' = [cache EXCEPT ![j] = f[j]]
    <3>1. cache'[k] = f[k]
      BY <1>t, <2>2
    <3>2. file' = f \/ (f = Records /\ file' = file)
      BY <2>1
    <3> QED  BY <1>t, <3>1, <3>2 DEF Aged
  <2> QED  BY <1>t, <2>1, <2>2
<1>3. ASSUME NEW j \in Keys, NEW t \in Turns, EndHandedOver(j, t)
      PROVE  cache'[k] = cache[k] \/ Aged(file'[k], cache'[k])
  <2>1. file'[j] = Handoff(j, t)
    BY <1>3, <1>t, NewRecords, WrittenFile DEF EndHandedOver
  <2> QED  BY <1>3, <1>t, <2>1 DEF EndHandedOver, Aged
<1>4. ASSUME NEW d \in descriptors, Acknowledge(d)
      PROVE  cache'[k] = cache[k] \/ Aged(file'[k], cache'[k])
  <2> DEFINE r == [Records[d.key] EXCEPT !.delivery = "acked", !.updated = now]
  <2>1. d.key \in Keys /\ r \in Record /\ r.delivery = "acked"
    <3>1. d.key \in Keys /\ Records[d.key] \in Record
      BY <1>4, <1>t, Types DEF Acknowledge, InLedger, Matches, MaybeRecord
    <3> QED  BY <1>t, <3>1, AckedRecord
  <2>2. file' \in Written(d.key, r) /\ cache' \in {[cache EXCEPT ![d.key] = r], cache}
    BY <1>4 DEF Acknowledge
  <2> HIDE DEF r
  <2>3. Normal(r) = r
    BY <2>1 DEF Normal
  <2>4. file'[d.key] = r
    BY <1>t, <2>1, <2>2, <2>3, WrittenFile
  <2> QED  BY <1>t, <2>1, <2>2, <2>4 DEF Aged
<1>5. ASSUME NEW n \in repairs, CardNotice(n) PROVE cache' = cache
  BY <1>5 DEF CardNotice
<1>6. ASSUME NEW j \in Keys, NEW t \in Turns, EndOnCard(j, t) PROVE cache' = cache
  BY <1>6 DEF EndOnCard
<1>7. ASSUME NEW d \in descriptors, Deliver(d) PROVE cache' = cache
  BY <1>7 DEF Deliver, memory
<1>8. ASSUME NEW j \in Keys, Recover(j) PROVE cache' = cache
  BY <1>8 DEF Recover, memory
<1>9. CASE Tick \/ LoseFile \/ UNCHANGED vars
  BY <1>9, <1>u DEF Tick, LoseFile, memory, vars
<1>10. CASE Restart
  BY <1>10 DEF Restart
<1> QED  BY <1>u, <1>1, <1>2, <1>3, <1>4, <1>5, <1>6, <1>7, <1>8, <1>9, <1>10 DEF Next

LEMMA Surroundings == TypeOK /\ [Next]_vars =>
    /\ now \in Nat /\ now' \in Nat /\ now <= now' /\ delivered \subseteq delivered'
    /\ lost' = 0 => lost = 0
<1> SUFFICES ASSUME TypeOK, [Next]_vars
             PROVE  /\ now' \in Nat /\ now <= now' /\ delivered \subseteq delivered'
                    /\ lost' = 0 => lost = 0
  BY Types
<1>t. now \in Nat /\ lost \in Nat
  BY Types
<1>1. ASSUME NEW k \in Keys, NEW t \in Turns,
             \/ StartAdvances(k, t) \/ StartSame(k, t)
             \/ EndKnown(k, t) \/ EndHandedOver(k, t) \/ EndOnCard(k, t)
      PROVE  UNCHANGED <<now, lost, delivered>>
  BY <1>1 DEF StartAdvances, StartSame, EndKnown, EndHandedOver, EndOnCard, hermes
<1>2. ASSUME NEW n \in repairs, CardNotice(n) PROVE UNCHANGED <<now, lost, delivered>>
  BY <1>2 DEF CardNotice, hermes
<1>3. ASSUME NEW d \in descriptors, Deliver(d) \/ Acknowledge(d)
      PROVE  UNCHANGED <<now, lost>> /\ delivered \subseteq delivered'
  BY <1>3 DEF Deliver, Acknowledge, hermes
<1>4. ASSUME NEW k \in Keys, Recover(k) PROVE UNCHANGED <<now, lost, delivered>>
  BY <1>4 DEF Recover
<1>5. CASE Tick \/ Restart \/ LoseFile \/ UNCHANGED vars
  BY <1>t, <1>5 DEF Tick, Restart, LoseFile, hermes, vars
<1> QED  BY <1>t, <1>1, <1>2, <1>3, <1>4, <1>5 DEF Next

-----------------------------------------------------------------------------
(* Acknowledged means delivered. *)

LEMMA AckedStep == TypeOK /\ AckedMeansDelivered /\ [Next]_vars => AckedMeansDelivered'
<1> SUFFICES ASSUME TypeOK, AckedMeansDelivered, [Next]_vars, NEW k \in Keys
             PROVE  /\ file'[k].delivery = "acked" => <<k, file'[k].turn>> \in delivered'
                    /\ cache'[k].delivery = "acked" => <<k, cache'[k].turn>> \in delivered'
  BY DEF AckedMeansDelivered
<1>t. /\ Aged(file[k], Records[k]) /\ delivered \subseteq delivered'
      /\ file[k].delivery = "acked" => <<k, file[k].turn>> \in delivered
      /\ cache[k].delivery = "acked" => <<k, cache[k].turn>> \in delivered
  BY RecordsAged, Types, Surroundings DEF AckedMeansDelivered
<1>1. file'[k].delivery = "acked" => <<k, file'[k].turn>> \in delivered'
  <2>1. CASE Kept(k)
    BY <1>t, <2>1 DEF Kept, Aged
  <2>2. CASE Forgotten(k)
    BY <2>2 DEF Forgotten, NoRecord
  <2>3. CASE Fenced(k)
    BY <2>3 DEF Fenced, Fence
  <2>4. CASE PutBack(k)
    BY <1>t, <2>4 DEF PutBack
  <2>5. CASE Handed(k)
    BY <2>5 DEF Handed, Handoff
  <2>6. CASE Noted(k)
    BY <1>t, <2>6 DEF Noted, Aged
  <2> QED  BY <2>1, <2>2, <2>3, <2>4, <2>5, <2>6, Changes DEF Change
<1>2. cache'[k].delivery = "acked" => <<k, cache'[k].turn>> \in delivered'
  <2>1. CASE cache'[k] \in {cache[k], NoRecord}
    BY <1>t, <2>1 DEF NoRecord
  <2>2. CASE Aged(file'[k], cache'[k])
    BY <1>1, <2>2 DEF Aged
  <2> QED  BY <2>1, <2>2, CacheChanges
<1> QED  BY <1>1, <1>2

LEMMA AckedInit == Init => AckedMeansDelivered
BY DEF Init, AckedMeansDelivered, NoRecord

\* A handoff is acknowledged only if Hermes' ledger notes its delivery.
THEOREM HandoffAckedMeansDelivered == Spec => []AckedMeansDelivered
BY HandoffTypes, AckedInit, AckedStep, PTL DEF Spec

-----------------------------------------------------------------------------
(* Events advance. *)

\* The event of a record is the start or the end of its turn, and an exact end is
\* fenced for at most an hour from now.
WellFormed(r) == r # NoRecord =>
    /\ r.event = IF r.delivery = "lifecycle" THEN r.turn.start ELSE r.turn.end
    /\ r.delivery = "legacy" => ~r.turn.exact
    /\ r.delivery \in {"pending", "acked", "uncertain"} => r.expires <= now + TTL
    /\ r.delivery = "uncertain" => now > r.expires

RecordsWellFormed == \A k \in Keys : WellFormed(file[k]) /\ WellFormed(cache[k])

LEMMA WellFormedInit == Init => RecordsWellFormed
BY DEF Init, RecordsWellFormed, WellFormed

LEMMA StaysWellFormed ==
    ASSUME TypeOK, [Next]_vars, NEW r \in MaybeRecord, NEW s, WellFormed(r), Aged(r, s)
    PROVE  WellFormed(s)'
<1>1. /\ now \in Nat /\ now' \in Nat /\ now <= now' /\ TTL \in Nat
      /\ r # NoRecord => r.expires \in Nat
  BY Surroundings DEF MaybeRecord, Record
<1>2. CASE s = r
  BY <1>1, <1>2 DEF WellFormed
<1>3. CASE s # r
  BY <1>1, <1>3, Absent DEF WellFormed, Aged
<1> QED  BY <1>2, <1>3

LEMMA WellFormedStep == TypeOK /\ RecordsWellFormed /\ [Next]_vars => RecordsWellFormed'
<1> SUFFICES ASSUME TypeOK, RecordsWellFormed, [Next]_vars, NEW k \in Keys
             PROVE  WellFormed(file[k])' /\ WellFormed(cache[k])'
  BY DEF RecordsWellFormed
<1>t. /\ file[k] \in MaybeRecord /\ cache[k] \in MaybeRecord /\ file'[k] \in MaybeRecord
      /\ Records[k] \in MaybeRecord
      /\ Aged(file[k], Records[k]) /\ WellFormed(file[k]) /\ WellFormed(cache[k])
      /\ now \in Nat /\ now' \in Nat /\ now <= now' /\ TTL \in Nat
  <2>1. TypeOK' /\ MaybeRecord' = MaybeRecord
    BY TypesStep DEF MaybeRecord, Record, NoRecord
  <2>2. file' \in [Keys -> MaybeRecord]
    BY <2>1 DEF TypeOK, MaybeRecord
  <2> QED  BY <2>2, RecordsAged, Types, Surroundings DEF RecordsWellFormed
<1>c. Aged(cache[k], cache[k])
  BY DEF Aged
<1>1. WellFormed(file[k])'
  <2>1. CASE Kept(k)
    BY <1>t, <2>1, StaysWellFormed DEF Kept
  <2>2. CASE Forgotten(k)
    BY <2>2 DEF Forgotten, WellFormed
  <2>3. CASE Fenced(k)
    BY <2>3 DEF Fenced, Fence, WellFormed
  <2>4. CASE PutBack(k)
    BY <1>c, <1>t, <2>4, StaysWellFormed DEF PutBack
  <2>5. CASE Handed(k)
    <3>1. PICK t \in Turns : file'[k] = Handoff(k, t) /\ now' = now
      BY <2>5 DEF Handed
    <3>2. t.exact \in BOOLEAN
      OBVIOUS
    <3> QED  BY <1>t, <3>1, <3>2 DEF Handoff, WellFormed
  <2>6. CASE Noted(k)
    <3>1. PICK s : s = Records[k]
      OBVIOUS
    <3>2. WellFormed(s)'
      BY <1>t, <3>1, StaysWellFormed
    <3>3. /\ s # NoRecord /\ s.turn = file[k].turn
          /\ s.event = file[k].event /\ s.expires = file[k].expires
      BY <1>t, <2>6, <3>1, Absent DEF Noted, Aged
    <3> QED  BY <3>1, <3>2, <3>3, <2>6 DEF Noted, WellFormed
  <2> QED  BY <2>1, <2>2, <2>3, <2>4, <2>5, <2>6, Changes DEF Change
<1>2. WellFormed(cache[k])'
  <2>1. CASE cache'[k] = NoRecord
    BY <2>1 DEF WellFormed
  <2>2. CASE cache'[k] = cache[k]
    BY <1>c, <1>t, <2>2, StaysWellFormed
  <2>3. CASE Aged(file'[k], cache'[k])
    BY <1>1, <1>t, <2>3, Absent DEF Aged, WellFormed, MaybeRecord, Record
  <2> QED  BY <2>1, <2>2, <2>3, CacheChanges
<1> QED  BY <1>1, <1>2

LEMMA HandoffWellFormed == Spec => []RecordsWellFormed
BY HandoffTypes, WellFormedInit, WellFormedStep, PTL DEF Spec

\* The step of EventsAdvance, and of UncertainIsFinal.
Advance == \A k \in Keys :
    file[k] # NoRecord /\ file'[k] # NoRecord => file'[k].event >= file[k].event
UncertainStays == \A k \in Keys :
    file[k].delivery = "uncertain" /\ file'[k] # NoRecord /\ file'[k].turn = file[k].turn
        => file'[k].delivery = "uncertain"

LEMMA HandedAdvances ==
    ASSUME TypeOK, RecordsWellFormed, NEW k \in Keys, file[k] # NoRecord,
           NEW t \in Turns, Fresh(Records[k], t)
    PROVE  /\ file[k].turn = t => file[k].delivery = "lifecycle"
           /\ file[k].turn # t => t.end > file[k].event
           /\ t.end >= file[k].event
<1>1. /\ Aged(file[k], Records[k]) /\ file[k] \in Record /\ WellFormed(file[k])
      /\ Records[k] # NoRecord
  BY RecordsAged, Types, Absent DEF RecordsWellFormed, MaybeRecord, Aged
<1>2. Records[k].turn = file[k].turn /\ Records[k].event = file[k].event
      /\ (Records[k].delivery = "lifecycle" => file[k].delivery = "lifecycle")
  BY <1>1 DEF Aged
<1>3. file[k].event \in Nat /\ t.end \in Nat /\ t.start \in Nat /\ t.start <= t.end
  BY <1>1 DEF Record
<1>4. file[k].turn = t => file[k].delivery = "lifecycle"
  BY <1>1, <1>2 DEF Fresh, Known
<1>5. file[k].turn # t => t.end > file[k].event
  BY <1>1, <1>2, <1>3 DEF Fresh, Superseded
<1>6. file[k].turn = t => t.end >= file[k].event
  BY <1>1, <1>3, <1>4 DEF WellFormed
<1> QED  BY <1>3, <1>4, <1>5, <1>6

LEMMA AdvanceStep == TypeOK /\ RecordsWellFormed /\ [Next]_vars => Advance /\ UncertainStays
<1> SUFFICES ASSUME TypeOK, RecordsWellFormed, [Next]_vars, NEW k \in Keys,
                    file[k] # NoRecord, file'[k] # NoRecord
             PROVE  /\ file'[k].event >= file[k].event
                    /\ file[k].delivery = "uncertain" /\ file'[k].turn = file[k].turn
                            => file'[k].delivery = "uncertain"
  BY DEF Advance, UncertainStays, NoRecord
<1>t. file[k] \in Record /\ file[k].event \in Nat /\ Aged(file[k], Records[k])
  BY RecordsAged, Types DEF MaybeRecord, Record
<1>1. CASE Kept(k)
  BY <1>t, <1>1 DEF Kept, Aged
<1>2. CASE Forgotten(k)
  BY <1>2 DEF Forgotten
<1>3. CASE Fenced(k)
  <2>1. PICK t \in Turns : file'[k] = Fence(t) /\ file[k].turn # t /\ t.start > file[k].event
    BY <1>3 DEF Fenced
  <2>2. t.start \in Nat
    OBVIOUS
  <2> QED  BY <1>t, <2>1, <2>2 DEF Fence
<1>4. CASE PutBack(k)
  BY <1>4 DEF PutBack
<1>5. CASE Handed(k)
  <2>1. PICK t \in Turns : Fresh(Records[k], t) /\ file'[k] = Handoff(k, t)
    BY <1>5 DEF Handed
  <2>2. file'[k].turn = t /\ file'[k].event = t.end
    BY <2>1 DEF Handoff
  <2> QED  BY <2>1, <2>2, HandedAdvances
<1>6. CASE Noted(k)
  BY <1>t, <1>6 DEF Noted, Aged
<1> QED  BY <1>1, <1>2, <1>3, <1>4, <1>5, <1>6, Changes DEF Change

\* The file never remembers an older event of a key than before.
THEOREM HandoffEventsAdvance == Spec => EventsAdvance
<1>1. TypeOK /\ RecordsWellFormed /\ [Next]_vars =>
        [\A k \in Keys : file[k] # NoRecord /\ file'[k] # NoRecord
                            => file'[k].event >= file[k].event]_vars
  BY AdvanceStep DEF Advance
<1> QED  BY <1>1, HandoffTypes, HandoffWellFormed, PTL DEF Spec, EventsAdvance

\* No write turns an uncertain delivery into another one while its record lasts.
THEOREM HandoffUncertainIsFinal == Spec => UncertainIsFinal
<1>1. TypeOK /\ RecordsWellFormed /\ [Next]_vars =>
        [\A k \in Keys :
            file[k].delivery = "uncertain" /\ file'[k] # NoRecord /\ file'[k].turn = file[k].turn
                => file'[k].delivery = "uncertain"]_vars
  BY AdvanceStep DEF UncertainStays
<1> QED  BY <1>1, HandoffTypes, HandoffWellFormed, PTL DEF Spec, UncertainIsFinal

-----------------------------------------------------------------------------
(* What Hermes holds is remembered for its hour. *)

\* A record that keeps the key taken over until e.
Until(r, e) == /\ r.delivery = "lifecycle" => r.updated + TTL >= e
               /\ r.delivery \in {"pending", "acked", "uncertain"} => r.expires >= e

RemembersIn(r, d) ==
    \/ r # NoRecord /\ Matches(r, d) /\ r.delivery \in {"pending", "acked"}
    \/ r # NoRecord /\ r.event > d.turn.end /\ Until(r, d.expires)

Remembered ==
    /\ \A d \in descriptors : d.expires <= now + TTL
    /\ lost = 0 => \A d \in descriptors :
            d.turn \in Lasting /\ now < d.expires => RemembersIn(file[d.key], d)

LEMMA RememberedInit == Init => Remembered
BY DEF Init, Remembered

\* Hermes receives only descriptors of what waits in the file.
LEMMA NewDescriptors == TypeOK /\ [Next]_vars => \A d \in descriptors' \ descriptors :
        /\ d.key \in Keys /\ file'[d.key].delivery = "pending"
        /\ d = Descriptor(d.key, file'[d.key])
<1> SUFFICES ASSUME TypeOK, [Next]_vars, NEW d \in descriptors' \ descriptors
             PROVE  /\ d.key \in Keys /\ file'[d.key].delivery = "pending"
                    /\ d = Descriptor(d.key, file'[d.key])
  OBVIOUS
<1>t. /\ now \in Nat /\ file \in [Keys -> MaybeRecord]
      /\ \A j \in Keys : Records[j].delivery = "pending" => Records[j] = file[j]
  BY RecordsAged, Types DEF Aged
<1>g. ASSUME NEW k \in Keys, NEW r, Given(k, r),
             r.delivery = "pending" => file'[k] = r
      PROVE  /\ d.key \in Keys /\ file'[d.key].delivery = "pending"
             /\ d = Descriptor(d.key, file'[d.key])
  <2>1. d = Descriptor(k, r) /\ r.delivery = "pending"
    BY <1>g DEF Given
  <2>2. d.key = k
    BY <2>1 DEF Descriptor
  <2> QED  BY <1>g, <2>1, <2>2
<1>1. ASSUME NEW k \in Keys, NEW t \in Turns, EndKnown(k, t)
      PROVE  /\ d.key \in Keys /\ file'[d.key].delivery = "pending"
             /\ d = Descriptor(d.key, file'[d.key])
  <2>1. PICK f \in Restored(k) :
          file' = (IF f = Records THEN file ELSE f) /\ Given(k, f[k])
    BY <1>1 DEF EndKnown
  <2>2. f[k].delivery = "pending" => file'[k] = f[k]
    BY <1>t, <2>1
  <2> QED  BY <1>g, <2>1, <2>2
<1>2. ASSUME NEW k \in Keys, NEW t \in Turns, EndHandedOver(k, t)
      PROVE  /\ d.key \in Keys /\ file'[d.key].delivery = "pending"
             /\ d = Descriptor(d.key, file'[d.key])
  <2>1. file'[k] = Handoff(k, t) /\ Given(k, Handoff(k, t))
    BY <1>2, <1>t, NewRecords, WrittenFile DEF EndHandedOver
  <2> QED  BY <1>g, <2>1
<1>3. ASSUME NEW k \in Keys, Recover(k)
      PROVE  /\ d.key \in Keys /\ file'[d.key].delivery = "pending"
             /\ d = Descriptor(d.key, file'[d.key])
  <2>1. file' = file /\ Given(k, Records[k]) /\ Records[k] = file[k]
    BY <1>3, <1>t DEF Recover
  <2> QED  BY <1>g, <2>1
<1>4. ASSUME NEW k \in Keys, NEW t \in Turns,
             StartAdvances(k, t) \/ StartSame(k, t) \/ EndOnCard(k, t)
      PROVE  descriptors' = descriptors
  BY <1>4 DEF StartAdvances, StartSame, EndOnCard, hermes
<1>5. ASSUME NEW n \in repairs, CardNotice(n) PROVE descriptors' = descriptors
  BY <1>5 DEF CardNotice, hermes
<1>6. ASSUME NEW e \in descriptors, Deliver(e) \/ Acknowledge(e) PROVE descriptors' = descriptors
  BY <1>6 DEF Deliver, Acknowledge, hermes
<1>7. CASE Tick \/ Restart \/ LoseFile \/ UNCHANGED vars
  BY <1>7 DEF Tick, Restart, LoseFile, hermes, vars
<1> QED  BY <1>1, <1>2, <1>3, <1>4, <1>5, <1>6, <1>7 DEF Next

\* While its hour lasts, what keeps a descriptor is neither evicted nor uncertain.
LEMMA NotEvictable ==
    ASSUME TypeOK, RecordsWellFormed, NEW d \in descriptors, d.turn \in Lasting,
           now < d.expires, RemembersIn(file[d.key], d)
    PROVE  /\ file[d.key] \in Record /\ Records[d.key] = file[d.key]
           /\ ~Evictable(Records[d.key])
<1> DEFINE r == file[d.key]
<1>1. /\ d.key \in Keys /\ d.turn \in Turns /\ d.expires \in Nat /\ now \in Nat /\ TTL \in Nat
      /\ r \in Record /\ WellFormed(r) /\ Aged(r, Records[d.key])
  BY RecordsAged, Types DEF RecordsWellFormed, RemembersIn, MaybeRecord
<1>2. /\ r.updated \in Nat /\ r.expires \in Nat /\ r.event \in Nat /\ r.turn \in Turns
      /\ r.turn.exact \in BOOLEAN
      /\ r.delivery \in {"lifecycle", "legacy", "pending", "acked", "uncertain"}
  BY <1>1 DEF Record
<1> HIDE DEF r
<1>3. CASE Matches(r, d) /\ r.delivery \in {"pending", "acked"}
  <2>1. ~(now > r.expires)
    BY <1>1, <1>2, <1>3 DEF Matches
  <2>2. Records[d.key] = r
    BY <1>1, <2>1 DEF Aged
  <2> QED  BY <1>1, <1>3, <2>1, <2>2 DEF r, Evictable
<1>4. CASE r.event > d.turn.end /\ Until(r, d.expires)
  <2>1. r.delivery # "legacy"
    BY <1>1, <1>2, <1>4, Absent DEF WellFormed, Lasting
  <2>2. r.delivery \in {"pending", "acked", "uncertain"} => ~(now > r.expires)
    BY <1>1, <1>2, <1>4 DEF Until
  <2>3. r.delivery # "uncertain"
    BY <1>1, <2>2, Absent DEF WellFormed
  <2>4. Records[d.key] = r
    BY <1>1, <2>2 DEF Aged
  <2>5. r.delivery = "lifecycle" => ~(now - r.updated >= TTL)
    BY <1>1, <1>2, <1>4 DEF Until
  <2> QED  BY <1>1, <1>2, <2>1, <2>2, <2>3, <2>4, <2>5 DEF r, Evictable
<1> QED  BY <1>3, <1>4 DEF r, RemembersIn

LEMMA RememberedStep ==
    TypeOK /\ RecordsWellFormed /\ Remembered /\ [Next]_vars => Remembered'
<1> SUFFICES ASSUME TypeOK, RecordsWellFormed, Remembered, [Next]_vars PROVE Remembered'
  OBVIOUS
<1>t. /\ now \in Nat /\ now' \in Nat /\ now <= now' /\ TTL \in Nat
      /\ lost' = 0 => lost = 0
  BY Surroundings
<1>w. TypeOK' /\ RecordsWellFormed'
  BY TypesStep, WellFormedStep
<1>n. ASSUME NEW d \in descriptors' \ descriptors
      PROVE  /\ d.expires <= now' + TTL
             /\ file'[d.key] # NoRecord /\ file'[d.key].delivery = "pending"
             /\ file'[d.key].turn = d.turn /\ file'[d.key].expires = d.expires
  <2>1. /\ d.key \in Keys /\ file'[d.key].delivery = "pending"
        /\ d = Descriptor(d.key, file'[d.key])
    BY NewDescriptors
  <2>2. file'[d.key] # NoRecord /\ WellFormed(file[d.key])'
    BY <1>w, <2>1, Absent DEF RecordsWellFormed
  <2>3. file'[d.key].expires <= now' + TTL
    BY <2>1, <2>2 DEF WellFormed
  <2> QED  BY <2>1, <2>2, <2>3 DEF Descriptor
<1>1. \A d \in descriptors' : d.expires <= now' + TTL
  <2>1. \A d \in descriptors : d.expires \in Nat /\ d.expires <= now + TTL
    BY Types DEF Remembered
  <2> QED  BY <1>n, <1>t, <2>1
<1>2. ASSUME lost' = 0, NEW d \in descriptors', d.turn \in Lasting, now' < d.expires
      PROVE  RemembersIn(file[d.key], d)'
  <2> DEFINE k == d.key
             r == file[k]
             s == file'[k]
  <2>1. CASE d \notin descriptors
    BY <1>n, <2>1 DEF RemembersIn, Matches
  <2>2. CASE d \in descriptors
    <3>1. /\ k \in Keys /\ d.turn \in Turns /\ d.expires \in Nat /\ now < d.expires
          /\ d.expires <= now + TTL
      BY <1>t, <1>2, <2>2, Types DEF Remembered
    <3>2. RemembersIn(r, d)
      BY <1>t, <1>2, <2>2, <3>1 DEF Remembered
    <3>3. r \in Record /\ Records[k] = r /\ ~Evictable(Records[k]) /\ WellFormed(r)
      BY <1>2, <2>2, <3>1, <3>2, NotEvictable DEF RecordsWellFormed
    <3>4. /\ r.event \in Nat /\ r.expires \in Nat /\ r # NoRecord /\ r.turn \in Turns
          /\ d.turn.end \in Nat
      BY <3>1, <3>3, Absent DEF Record
    <3>5. r.event >= d.turn.end
      <4>1. CASE Matches(r, d) /\ r.delivery \in {"pending", "acked"}
        BY <3>3, <3>4, <4>1 DEF Matches, WellFormed
      <4> QED  BY <3>2, <3>4, <4>1 DEF RemembersIn
    <3>6. CASE Kept(k)
      <4>1. s = r
        <5>1. r.delivery = "pending" => ~(now > r.expires)
          BY <1>t, <3>1, <3>2, <3>4 DEF RemembersIn, Matches, Until
        <5> QED  BY <3>6, <5>1 DEF Kept, Aged
      <4> QED  BY <3>2, <4>1 DEF RemembersIn, Matches, Until
    <3>7. CASE Forgotten(k)
      BY <1>2, <3>3, <3>7 DEF Forgotten
    <3>8. CASE Fenced(k)
      <4>1. PICK t \in Turns : s = Fence(t) /\ t.start > r.event
        BY <3>4, <3>8 DEF Fenced
      <4>2. t.start \in Nat /\ s.event = t.start /\ s.delivery = "lifecycle" /\ s.updated = now
        BY <4>1 DEF Fence
      <4>3. s # NoRecord /\ s.event > d.turn.end
        BY <3>4, <3>5, <4>1, <4>2 DEF NoRecord
      <4> QED  BY <3>1, <4>2, <4>3 DEF RemembersIn, Until
    <3>9. CASE PutBack(k)
      BY <3>4, <3>9 DEF PutBack
    <3>10. CASE Handed(k)
      <4>1. PICK t \in Turns : Fresh(Records[k], t) /\ s = Handoff(k, t)
        BY <3>10 DEF Handed
      <4>2. /\ r.turn = t => r.delivery = "lifecycle"
            /\ r.turn # t => t.end > r.event
            /\ t.end >= r.event
        BY <3>1, <3>4, <4>1, HandedAdvances
      <4>3. t.end \in Nat /\ t.exact \in BOOLEAN
        OBVIOUS
      <4>4. t.end > d.turn.end
        <5>1. CASE Matches(r, d) /\ r.delivery \in {"pending", "acked"}
          BY <3>3, <3>4, <3>5, <4>2, <4>3, <5>1 DEF Matches, WellFormed
        <5> QED  BY <3>2, <3>4, <4>2, <4>3, <5>1 DEF RemembersIn
      <4>5. t.exact
        BY <1>2, <4>4 DEF Lasting
      <4>6. /\ s.event = t.end /\ s.delivery = "pending" /\ s.expires = now + TTL
            /\ s # NoRecord
        BY <4>1, <4>5 DEF Handoff, NoRecord
      <4> QED  BY <3>1, <4>4, <4>6 DEF RemembersIn, Until
    <3>11. CASE Noted(k)
      <4>1. /\ s # NoRecord /\ s.turn = r.turn /\ s.event = r.event /\ s.expires = r.expires
            /\ s.updated = now
            /\ \/ s.delivery = r.delivery
               \/ r.delivery = "pending" /\ s.delivery = "acked"
        BY <3>3, <3>11, Absent DEF Noted
      <4> QED  BY <3>1, <3>2, <3>4, <4>1 DEF RemembersIn, Matches, Until
    <3> QED  BY <3>1, <3>6, <3>7, <3>8, <3>9, <3>10, <3>11, Changes DEF Change
  <2> QED  BY <2>1, <2>2
<1> QED  BY <1>1, <1>2 DEF Remembered

LEMMA HandoffRemembered == Spec => []Remembered
BY HandoffTypes, HandoffWellFormed, RememberedInit, RememberedStep, PTL DEF Spec

\* A descriptor that Hermes holds can be acknowledged for its hour, or was, or a
\* later turn took the key over, unless the file is lost.
THEOREM HandoffDescriptorRemembered == Spec => []DescriptorRemembered
<1>1. Remembered => DescriptorRemembered
  BY DEF Remembered, DescriptorRemembered, RemembersIn
<1> QED  BY <1>1, HandoffRemembered, PTL
=============================================================================
