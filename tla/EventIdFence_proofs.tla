----------------------- MODULE EventIdFence_proofs -----------------------
(***************************************************************************)
(* Proofs about EventIdFence, for any set of deliveries and any capacity.  *)
(* The inductive invariant IInv says what the fence, the entries' futures  *)
(* and the handlers know of each other.                                    *)
(***************************************************************************)
EXTENDS EventIdFence, FiniteSetTheorems, TLAPS

\* An unsettled owner's entry is in the fence and its future is open.
OwnersHeld ==
    \A r \in Requests :
        Active(r) => /\ table[EventOf[r]] = r
                     /\ source[r] = r
                     /\ stored[r] = Unset
                     /\ future[r] = Unset

\* An entry is filed under its own event, and is owned or finalized.
EntriesFiled ==
    \A e \in EventIds :
        table[e] # NoOne => /\ EventOf[table[e]] = e
                            /\ Active(table[e]) \/ Completed(table[e])

\* What was finalized is what the owner computed, and resolved the future.
StoredIsResult ==
    \A r \in Requests :
        /\ Completed(r) => /\ stored[r] = result[r]
                           /\ Settles(r, stored[r])
        /\ future[r] \in Outcomes => stored[r] = future[r]
        /\ pc[r] = "applied" => /\ result[r] \in Outcomes
                                /\ Settles(r, result[r])

\* A waiter waits for its own event with its own payload.
WaitersMatch ==
    \A w \in Requests :
        pc[w] = "waiting" => /\ source[w] \in Requests
                             /\ EventOf[source[w]] = EventOf[w]
                             /\ PrintOf[source[w]] = PrintOf[w]

\* A handler that did not claim yet has left no trace, and one that is not
\* answered has no answer.
Untouched ==
    \A r \in Requests :
        /\ pc[r] = "new" => /\ stored[r] = Unset /\ future[r] = Unset
                            /\ result[r] = Unset
        /\ pc[r] # "answered" => answer[r] = Unset

IInv ==
    /\ TypeOK
    /\ OwnersHeld /\ EntriesFiled /\ StoredIsResult /\ WaitersMatch
    /\ Untouched
    /\ WaiterHasWaker /\ ReplayIsCanonical

-----------------------------------------------------------------------------
LEMMA InitIInv == Init => IInv
<1> SUFFICES ASSUME Init PROVE IInv
    OBVIOUS
<1> USE FenceAssumption
<1>1. TypeOK
    BY DEF Init, TypeOK, Phases
<1>2. OwnersHeld /\ EntriesFiled /\ StoredIsResult /\ WaitersMatch /\ Untouched
    BY DEF Init, OwnersHeld, EntriesFiled, StoredIsResult, WaitersMatch,
           Untouched, Active, Completed, Unset, Refusals, Unavailable
<1>3. WaiterHasWaker /\ ReplayIsCanonical
    BY DEF Init, WaiterHasWaker, ReplayIsCanonical, Unset
<1> QED
    BY <1>1, <1>2, <1>3 DEF IInv

\* The sweep keeps every unsettled owner's entry and adds none.
LEMMA SweptKeeps ==
    ASSUME IInv
    PROVE  /\ Swept \in [EventIds -> Requests \cup {NoOne}]
           /\ \A e \in EventIds : Swept[e] \in {table[e], NoOne}
           /\ \A r \in Requests : Active(r) => Swept[EventOf[r]] = r
BY FenceAssumption DEF IInv, TypeOK, OwnersHeld, Swept, Finished, Occupied,
   Active, Completed

\* So does the making of room.
LEMMA RoomsKeep ==
    ASSUME IInv, NEW t \in Rooms
    PROVE  /\ t \in [EventIds -> Requests \cup {NoOne}]
           /\ \A e \in EventIds : t[e] \in {table[e], NoOne}
           /\ \A r \in Requests : Active(r) => t[EventOf[r]] = r
<1>1. CASE t = Swept
    BY <1>1, SweptKeeps
<1>2. CASE \E e \in Oldest(Swept) : t = [Swept EXCEPT ![e] = NoOne]
    <2> PICK e \in Oldest(Swept) : t = [Swept EXCEPT ![e] = NoOne]
        BY <1>2
    <2>1. e \in EventIds /\ Swept[e] # NoOne /\ Completed(Swept[e])
        BY DEF Oldest, Finished, Occupied
    <2>2. \A r \in Requests : Active(r) => EventOf[r] # e
        BY <2>1, SweptKeeps, FenceAssumption DEF IInv, OwnersHeld, Completed
    <2> QED
        BY <2>1, <2>2, SweptKeeps, FenceAssumption
<1> QED
    BY <1>1, <1>2 DEF Rooms


\* What every step needs of the constants: no outcome is a refusal or Unset.
LEMMA OutcomeFacts ==
    /\ Unset \notin Outcomes /\ Unavailable \notin Outcomes
    /\ "conflict" \notin Outcomes /\ "fence full" \notin Outcomes
    /\ "owner pending" \notin Outcomes
    /\ Unset # Unavailable
BY FenceAssumption DEF Refusals, Unset, Unavailable

\* A claim that adds no entry leaves an answer or a waiter behind it.
LEMMA AnsweredClaim ==
    ASSUME IInv, NEW r \in Requests,
           ClaimConflict(r) \/ ClaimReplay(r) \/ ClaimWait(r) \/ ClaimFull(r)
    PROVE  IInv'
<1> DEFINE e == EventOf[r]
           o == Swept[e]
<1> USE FenceAssumption, OutcomeFacts
<1>0. /\ Swept \in [EventIds -> Requests \cup {NoOne}]
      /\ \A d \in EventIds : Swept[d] \in {table[d], NoOne}
      /\ \A s \in Requests : Active(s) => Swept[EventOf[s]] = s
    BY SweptKeeps
<1>a. /\ TypeOK /\ OwnersHeld /\ EntriesFiled /\ StoredIsResult /\ WaitersMatch
      /\ Untouched /\ WaiterHasWaker /\ ReplayIsCanonical
    BY DEF IInv
<1>1. /\ pc[r] = "new" /\ table' = Swept
      /\ UNCHANGED <<stored, expires, future, clock, result>>
      /\ \A s \in Requests : s # r => /\ pc'[s] = pc[s]
                                      /\ answer'[s] = answer[s]
                                      /\ source'[s] = source[s]
    BY <1>a DEF ClaimConflict, ClaimReplay, ClaimWait, ClaimFull, Answer, TypeOK
<1>2. \/ /\ pc'[r] = "answered" /\ source'[r] = source[r]
         /\ answer'[r] \in {"conflict", "fence full"}
      \/ /\ pc'[r] = "answered" /\ source'[r] = o
         /\ o # NoOne /\ PrintOf[o] = PrintOf[r] /\ Completed(o)
         /\ answer'[r] = stored[o]
      \/ /\ pc'[r] = "waiting" /\ source'[r] = o /\ answer'[r] = answer[r]
         /\ o # NoOne /\ PrintOf[o] = PrintOf[r] /\ ~Completed(o)
    BY <1>a DEF ClaimConflict, ClaimReplay, ClaimWait, ClaimFull, Answer, TypeOK,
       SamePayload
<1>3. o # NoOne => /\ o \in Requests /\ EventOf[o] = EventOf[r] /\ o # r
                   /\ Active(o) \/ Completed(o)
    <2> SUFFICES ASSUME o # NoOne
        PROVE  /\ o \in Requests /\ EventOf[o] = EventOf[r] /\ o # r
               /\ Active(o) \/ Completed(o)
        OBVIOUS
    <2>1. e \in EventIds /\ o = table[e] /\ o \in Requests
        BY <1>0
    <2>2. EventOf[o] = e /\ (Active(o) \/ Completed(o))
        BY <1>a, <2>1 DEF EntriesFiled
    <2>3. ~Active(r) /\ ~Completed(r)
        BY <1>a, <1>1 DEF Untouched, Active, Completed
    <2> QED
        BY <2>1, <2>2, <2>3
<1>4. TypeOK'
    <2>1. table' \in [EventIds -> Requests \cup {NoOne}]
        BY <1>0, <1>1
    <2>2. pc' \in [Requests -> Phases] /\ source' \in [Requests -> Requests \cup {NoOne}]
        BY <1>0, <1>3, <1>a DEF ClaimConflict, ClaimReplay, ClaimWait, ClaimFull,
           Answer, TypeOK, Phases
    <2>3. answer' \in [Requests -> Outcomes \cup Refusals \cup {Unset}]
        <3>1. o # NoOne /\ Completed(o) => stored[o] \in Outcomes
            BY <1>3, <1>a DEF TypeOK, Completed
        <3> QED
            BY <3>1, <1>a DEF ClaimConflict, ClaimReplay, ClaimWait, ClaimFull,
               Answer, TypeOK, Refusals
    <2> QED
        BY <1>1, <1>a, <2>1, <2>2, <2>3 DEF TypeOK
<1>5. \A s \in Requests : Active(s)' <=> Active(s)
    BY <1>1, <1>2 DEF Active
<1>6. OwnersHeld' /\ StoredIsResult'
    <2>1. ASSUME NEW s \in Requests, Active(s)'
          PROVE (table[EventOf[s]] = s /\ source[s] = s
                 /\ stored[s] = Unset /\ future[s] = Unset)'
        <3>1. Active(s) /\ s # r
            BY <1>1, <1>5, <2>1 DEF Active
        <3> QED
            BY <1>0, <1>1, <1>a, <3>1 DEF OwnersHeld
    <2>2. \A s \in Requests : pc'[s] = "applied" => pc[s] = "applied"
        BY <1>1, <1>2
    <2> QED
        BY <1>1, <1>a, <2>1, <2>2 DEF OwnersHeld, StoredIsResult, Completed, Settles
<1>7. EntriesFiled'
    <2> SUFFICES ASSUME NEW d \in EventIds, table'[d] # NoOne
        PROVE EventOf[table'[d]] = d /\ (Active(table[d]) \/ Completed(table[d]))'
        BY DEF EntriesFiled
    <2>1. table'[d] = table[d] /\ table[d] \in Requests
        BY <1>0, <1>1
    <2>2. Completed(table[d])' <=> Completed(table[d])
        BY <1>1, <2>1 DEF Completed
    <2>3. Active(table[d])' <=> Active(table[d])
        BY <1>1, <1>2, <2>1 DEF Active
    <2> QED
        BY <1>a, <2>1, <2>2, <2>3 DEF EntriesFiled
<1>8. WaitersMatch' /\ WaiterHasWaker'
    <2> SUFFICES ASSUME NEW w \in Requests, pc'[w] = "waiting"
        PROVE /\ source'[w] \in Requests
              /\ EventOf[source'[w]] = EventOf[w] /\ PrintOf[source'[w]] = PrintOf[w]
              /\ (Active(source[w]) \/ future[source[w]] # Unset)'
        BY DEF WaitersMatch, WaiterHasWaker
    <2>1. CASE w = r
        <3>1. source'[w] = o /\ o \in Requests /\ Active(o)
              /\ EventOf[o] = EventOf[r] /\ PrintOf[o] = PrintOf[r]
            BY <1>2, <1>3, <2>1
        <3>2. Active(source[w])'
            BY <1>1, <1>2, <1>3, <3>1 DEF Active
        <3> QED
            BY <2>1, <3>1, <3>2
    <2>2. CASE w # r
        <3>1. source'[w] = source[w] /\ pc[w] = "waiting"
            BY <1>1, <2>2
        <3>2. source[w] \in Requests /\ EventOf[source[w]] = EventOf[w]
              /\ PrintOf[source[w]] = PrintOf[w]
              /\ (Active(source[w]) \/ future[source[w]] # Unset)
            BY <1>a, <3>1 DEF WaitersMatch, WaiterHasWaker
        <3>3. Active(source[w])' <=> Active(source[w])
            BY <1>1, <1>2, <3>1, <3>2 DEF Active
        <3> QED
            BY <1>1, <3>1, <3>2, <3>3
    <2> QED
        BY <2>1, <2>2
<1>9. Untouched'
    BY <1>1, <1>2, <1>a DEF Untouched
<1>10. ReplayIsCanonical'
    <2> SUFFICES ASSUME NEW s \in Requests, answer'[s] \in Outcomes, source'[s] # s
        PROVE /\ source'[s] \in Requests
              /\ EventOf[source'[s]] = EventOf[s] /\ PrintOf[source'[s]] = PrintOf[s]
              /\ stored'[source'[s]] = answer'[s] /\ result'[source'[s]] = answer'[s]
        BY DEF ReplayIsCanonical
    <2>1. CASE s = r
        <3>1. answer[r] = Unset
            BY <1>1, <1>a DEF Untouched
        <3>2. source'[r] = o /\ o # NoOne /\ PrintOf[o] = PrintOf[r]
              /\ Completed(o) /\ answer'[r] = stored[o]
            BY <1>2, <2>1, <3>1
        <3> QED
            BY <1>1, <1>3, <1>a, <2>1, <3>2 DEF StoredIsResult
    <2>2. CASE s # r
        BY <1>1, <1>a, <2>2 DEF ReplayIsCanonical
    <2> QED
        BY <2>1, <2>2
<1> QED
    BY <1>4, <1>6, <1>7, <1>8, <1>9, <1>10 DEF IInv

\* The claim that makes r the owner of a new entry.
LEMMA ClaimOwnerIInv ==
    ASSUME IInv, NEW r \in Requests, ClaimOwner(r)
    PROVE  IInv'
<1> DEFINE e == EventOf[r]
<1> USE FenceAssumption, OutcomeFacts
<1>a. /\ TypeOK /\ OwnersHeld /\ EntriesFiled /\ StoredIsResult /\ WaitersMatch
      /\ Untouched /\ WaiterHasWaker /\ ReplayIsCanonical
    BY DEF IInv
<1> PICK t \in Rooms : table' = [t EXCEPT ![e] = r]
    BY DEF ClaimOwner
<1>0. /\ t \in [EventIds -> Requests \cup {NoOne}]
      /\ \A d \in EventIds : t[d] \in {table[d], NoOne}
      /\ \A s \in Requests : Active(s) => t[EventOf[s]] = s
    BY RoomsKeep
<1>1. /\ pc[r] = "new" /\ Swept[e] = NoOne
      /\ pc' = [pc EXCEPT ![r] = "applying"]
      /\ source' = [source EXCEPT ![r] = r]
      /\ UNCHANGED <<stored, expires, future, clock, result, answer>>
    BY DEF ClaimOwner
<1>2. \A s \in Requests : Active(s) => EventOf[s] # e
    BY <1>1, SweptKeeps
<1>3. \A s \in Requests : Active(s)' <=> Active(s) \/ s = r
    BY <1>1, <1>a DEF Active, TypeOK
<1>4. stored[r] = Unset /\ future[r] = Unset /\ result[r] = Unset /\ answer[r] = Unset
    BY <1>1, <1>a DEF Untouched
<1>5. TypeOK'
    BY <1>0, <1>1, <1>a DEF TypeOK, Phases
<1>6. OwnersHeld'
    <2> SUFFICES ASSUME NEW s \in Requests, Active(s)'
        PROVE (table[EventOf[s]] = s /\ source[s] = s
               /\ stored[s] = Unset /\ future[s] = Unset)'
        BY DEF OwnersHeld
    <2>1. CASE s = r
        <3>1. table'[e] = r
            BY <1>0
        <3>2. source'[r] = r
            BY <1>1, <1>a DEF TypeOK
        <3> QED
            BY <1>1, <1>4, <2>1, <3>1, <3>2
    <2>2. CASE s # r
        <3>1. Active(s) /\ EventOf[s] \in EventIds /\ EventOf[s] # e
            BY <1>2, <1>3, <2>2
        <3>2. table'[EventOf[s]] = s
            BY <1>0, <3>1
        <3>3. source'[s] = source[s]
            BY <1>1, <1>a, <2>2 DEF TypeOK
        <3> QED
            BY <1>1, <1>a, <3>1, <3>2, <3>3 DEF OwnersHeld
    <2> QED
        BY <2>1, <2>2
<1>7. EntriesFiled'
    <2> SUFFICES ASSUME NEW d \in EventIds, table'[d] # NoOne
        PROVE EventOf[table'[d]] = d /\ (Active(table[d]) \/ Completed(table[d]))'
        BY DEF EntriesFiled
    <2>1. CASE d = e
        BY <1>0, <1>3, <2>1
    <2>2. CASE d # e
        <3>1. table'[d] = table[d] /\ table[d] \in Requests
            BY <1>0, <2>2
        <3> QED
            BY <1>1, <1>3, <1>a, <3>1 DEF EntriesFiled, Completed
    <2> QED
        BY <2>1, <2>2
<1>8. StoredIsResult'
    BY <1>1, <1>a DEF StoredIsResult, Completed, Settles, TypeOK
<1>9. WaitersMatch' /\ WaiterHasWaker'
    <2> SUFFICES ASSUME NEW w \in Requests, pc'[w] = "waiting"
        PROVE /\ source'[w] \in Requests
              /\ EventOf[source'[w]] = EventOf[w] /\ PrintOf[source'[w]] = PrintOf[w]
              /\ (Active(source[w]) \/ future[source[w]] # Unset)'
        BY DEF WaitersMatch, WaiterHasWaker
    <2>1. w # r /\ source'[w] = source[w] /\ pc[w] = "waiting"
        BY <1>1, <1>a DEF TypeOK
    <2>2. source[w] \in Requests /\ EventOf[source[w]] = EventOf[w]
          /\ PrintOf[source[w]] = PrintOf[w]
          /\ (Active(source[w]) \/ future[source[w]] # Unset)
        BY <1>a, <2>1 DEF WaitersMatch, WaiterHasWaker
    <2> QED
        BY <1>1, <1>3, <2>1, <2>2
<1>10. Untouched'
    BY <1>1, <1>4, <1>a DEF Untouched, TypeOK
<1>11. ReplayIsCanonical'
    BY <1>1, <1>4, <1>a DEF ReplayIsCanonical, TypeOK
<1> QED
    BY <1>5, <1>6, <1>7, <1>8, <1>9, <1>10, <1>11 DEF IInv

\* The owner's application ends, with a response or by an exception.
LEMMA ApplyIInv ==
    ASSUME IInv, NEW r \in Requests, Apply(r) \/ ApplyRaises(r)
    PROVE  IInv'
<1> USE FenceAssumption, OutcomeFacts
<1>a. /\ TypeOK /\ OwnersHeld /\ EntriesFiled /\ StoredIsResult /\ WaitersMatch
      /\ Untouched /\ WaiterHasWaker /\ ReplayIsCanonical
    BY DEF IInv
<1>1. /\ pc[r] = "applying" /\ pc'[r] \in {"applied", "abandoning"}
      /\ UNCHANGED <<table, stored, expires, future, clock, source, answer>>
      /\ \A s \in Requests : s # r => pc'[s] = pc[s] /\ result'[s] = result[s]
    BY <1>a DEF Apply, ApplyRaises, TypeOK
<1>2. pc'[r] = "applied" => result'[r] \in Outcomes /\ Settles(r, result'[r])
    BY <1>a DEF Apply, ApplyRaises, TypeOK
<1>3. TypeOK'
    <2>1. result' \in [Requests -> Outcomes \cup {Unset}]
        BY <1>a DEF Apply, ApplyRaises, TypeOK
    <2>2. pc' \in [Requests -> Phases]
        <3>1. PICK x \in Phases : pc' = [pc EXCEPT ![r] = x]
            BY DEF Apply, ApplyRaises, Phases
        <3> QED
            BY <1>a, <3>1 DEF TypeOK
    <2> QED
        BY <1>1, <1>a, <2>1, <2>2 DEF TypeOK
<1>4. \A s \in Requests : Active(s)' <=> Active(s)
    BY <1>1 DEF Active
<1>5. stored[r] = Unset /\ future[r] = Unset
    BY <1>1, <1>a DEF OwnersHeld, Active
<1>6. OwnersHeld'
    BY <1>1, <1>4, <1>a DEF OwnersHeld
<1>7. EntriesFiled'
    <2> SUFFICES ASSUME NEW d \in EventIds, table'[d] # NoOne
        PROVE EventOf[table'[d]] = d /\ (Active(table[d]) \/ Completed(table[d]))'
        BY DEF EntriesFiled
    <2>1. table'[d] = table[d] /\ table[d] \in Requests
        BY <1>1, <1>a DEF TypeOK
    <2> QED
        BY <1>1, <1>4, <1>a, <2>1 DEF EntriesFiled, Completed
<1>8. StoredIsResult'
    <2> SUFFICES ASSUME NEW s \in Requests
        PROVE /\ stored'[s] # Unset => stored'[s] = result'[s] /\ Settles(s, stored'[s])
              /\ future'[s] \in Outcomes => stored'[s] = future'[s]
              /\ pc'[s] = "applied" => result'[s] \in Outcomes /\ Settles(s, result'[s])
        BY DEF StoredIsResult, Completed, Settles
    <2>1. CASE s = r
        BY <1>1, <1>2, <1>5, <2>1
    <2>2. CASE s # r
        BY <1>1, <1>a, <2>2 DEF StoredIsResult, Completed
    <2> QED
        BY <2>1, <2>2
<1>9. WaitersMatch' /\ WaiterHasWaker'
    BY <1>1, <1>4, <1>a DEF WaitersMatch, WaiterHasWaker
<1>10. Untouched'
    BY <1>1, <1>a DEF Untouched
<1>11. ReplayIsCanonical'
    <2> SUFFICES ASSUME NEW s \in Requests, answer'[s] \in Outcomes, source'[s] # s
        PROVE /\ source'[s] \in Requests
              /\ EventOf[source'[s]] = EventOf[s] /\ PrintOf[source'[s]] = PrintOf[s]
              /\ stored'[source'[s]] = answer'[s] /\ result'[source'[s]] = answer'[s]
        BY DEF ReplayIsCanonical
    <2>1. /\ source[s] \in Requests
          /\ EventOf[source[s]] = EventOf[s] /\ PrintOf[source[s]] = PrintOf[s]
          /\ stored[source[s]] = answer[s] /\ result[source[s]] = answer[s]
        BY <1>1, <1>a DEF ReplayIsCanonical
    <2>2. source[s] # r
        BY <1>1, <1>5, <2>1
    <2>3. result'[source[s]] = result[source[s]]
        BY <1>1, <2>1, <2>2
    <2> QED
        BY <1>1, <2>1, <2>3
<1> QED
    BY <1>3, <1>6, <1>7, <1>8, <1>9, <1>10, <1>11 DEF IInv

\* The owner files its response and wakes its waiters.
LEMMA FinalizeIInv ==
    ASSUME IInv, NEW r \in Requests, Finalize(r)
    PROVE  IInv'
<1> USE FenceAssumption, OutcomeFacts
<1>a. /\ TypeOK /\ OwnersHeld /\ EntriesFiled /\ StoredIsResult /\ WaitersMatch
      /\ Untouched /\ WaiterHasWaker /\ ReplayIsCanonical
    BY DEF IInv
<1>1. /\ pc[r] = "applied" /\ Active(r)
      /\ UNCHANGED <<table, clock, result, source>>
    BY DEF Finalize, Active
<1>2. /\ table[EventOf[r]] = r /\ source[r] = r
      /\ stored[r] = Unset /\ future[r] = Unset
    BY <1>1, <1>a DEF OwnersHeld
<1>3. /\ stored' = [stored EXCEPT ![r] = result[r]]
      /\ expires' = [expires EXCEPT ![r] = Expiry]
      /\ future' = [future EXCEPT ![r] = result[r]]
    BY <1>2, <1>a DEF Finalize, Settleable, Completed, Resolve, TypeOK
<1>4. result[r] \in Outcomes /\ Settles(r, result[r])
    BY <1>1, <1>a DEF StoredIsResult
<1>5. /\ \A s \in Requests : s # r => pc'[s] = pc[s] /\ answer'[s] = answer[s]
      /\ \/ pc'[r] = "answered" /\ answer'[r] = result[r]
         \/ pc'[r] = "gone" /\ answer'[r] = answer[r]
    BY <1>a DEF Finalize, Answer, Gone, TypeOK
<1>6. TypeOK'
    <2>1. Expiry \in Nat
        <3>1. clock \in Nat
            BY <1>a DEF TypeOK
        <3>2. Ttl \in Nat
            OBVIOUS
        <3> HIDE FenceAssumption, OutcomeFacts
        <3> QED
            BY <3>1, <3>2 DEF Expiry
    <2>2. pc' \in [Requests -> Phases]
          /\ answer' \in [Requests -> Outcomes \cup Refusals \cup {Unset}]
        BY <1>4, <1>a DEF Finalize, Answer, Gone, TypeOK, Phases
    <2> QED
        BY <1>1, <1>3, <1>4, <1>a, <2>1, <2>2 DEF TypeOK
<1>7. \A s \in Requests : Active(s)' <=> Active(s) /\ s # r
    BY <1>5 DEF Active
<1>8. \A s \in Requests : s # r => stored'[s] = stored[s] /\ future'[s] = future[s]
    BY <1>3, <1>a DEF TypeOK
<1>9. stored'[r] = result[r] /\ future'[r] = result[r]
    BY <1>3, <1>a DEF TypeOK
<1>10. OwnersHeld'
    BY <1>1, <1>7, <1>8, <1>a DEF OwnersHeld
<1>11. EntriesFiled'
    <2> SUFFICES ASSUME NEW d \in EventIds, table'[d] # NoOne
        PROVE EventOf[table'[d]] = d /\ (Active(table[d]) \/ Completed(table[d]))'
        BY DEF EntriesFiled
    <2>1. table'[d] = table[d] /\ table[d] \in Requests
        BY <1>1, <1>a DEF TypeOK
    <2>2. EventOf[table[d]] = d /\ (Active(table[d]) \/ stored[table[d]] # Unset)
        BY <1>a, <1>1, <2>1 DEF EntriesFiled, Completed
    <2>3. Active(table[d])' \/ stored'[table[d]] # Unset
        BY <1>4, <1>7, <1>8, <1>9, <2>1, <2>2
    <2> QED
        BY <1>1, <2>1, <2>2, <2>3 DEF Completed, Active
<1>12. StoredIsResult'
    <2> SUFFICES ASSUME NEW s \in Requests
        PROVE /\ stored'[s] # Unset => stored'[s] = result'[s] /\ Settles(s, stored'[s])
              /\ future'[s] \in Outcomes => stored'[s] = future'[s]
              /\ pc'[s] = "applied" => result'[s] \in Outcomes /\ Settles(s, result'[s])
        BY DEF StoredIsResult, Completed, Settles
    <2>1. CASE s = r
        BY <1>1, <1>4, <1>5, <1>9, <2>1
    <2>2. CASE s # r
        BY <1>1, <1>5, <1>8, <1>a, <2>2 DEF StoredIsResult, Completed
    <2> QED
        BY <2>1, <2>2
<1>13. WaitersMatch' /\ WaiterHasWaker'
    <2> SUFFICES ASSUME NEW w \in Requests, pc'[w] = "waiting"
        PROVE /\ source'[w] \in Requests
              /\ EventOf[source'[w]] = EventOf[w] /\ PrintOf[source'[w]] = PrintOf[w]
              /\ (Active(source[w]) \/ future[source[w]] # Unset)'
        BY DEF WaitersMatch, WaiterHasWaker
    <2>1. pc[w] = "waiting" /\ source'[w] = source[w]
        BY <1>1, <1>5
    <2>2. source[w] \in Requests /\ EventOf[source[w]] = EventOf[w]
          /\ PrintOf[source[w]] = PrintOf[w]
          /\ (Active(source[w]) \/ future[source[w]] # Unset)
        BY <1>a, <2>1 DEF WaitersMatch, WaiterHasWaker
    <2>3. Active(source[w])' \/ future'[source[w]] # Unset
        BY <1>1, <1>4, <1>7, <1>8, <1>9, <2>2 DEF Active
    <2> QED
        BY <1>1, <2>1, <2>2, <2>3 DEF Active
<1>14. Untouched'
    BY <1>1, <1>5, <1>8, <1>a DEF Untouched
<1>15. ReplayIsCanonical'
    <2> SUFFICES ASSUME NEW s \in Requests, answer'[s] \in Outcomes, source'[s] # s
        PROVE /\ source'[s] \in Requests
              /\ EventOf[source'[s]] = EventOf[s] /\ PrintOf[source'[s]] = PrintOf[s]
              /\ stored'[source'[s]] = answer'[s] /\ result'[source'[s]] = answer'[s]
        BY DEF ReplayIsCanonical
    <2>1. s # r /\ answer'[s] = answer[s]
        BY <1>1, <1>2, <1>5
    <2>2. /\ source[s] \in Requests
          /\ EventOf[source[s]] = EventOf[s] /\ PrintOf[source[s]] = PrintOf[s]
          /\ stored[source[s]] = answer[s] /\ result[source[s]] = answer[s]
        BY <1>1, <1>a, <2>1 DEF ReplayIsCanonical
    <2>3. source[s] # r
        BY <1>2, <2>1, <2>2
    <2> QED
        BY <1>1, <1>8, <2>1, <2>2, <2>3
<1> QED
    BY <1>6, <1>10, <1>11, <1>12, <1>13, <1>14, <1>15 DEF IInv

\* The owner withdraws its entry and wakes its waiters empty-handed.
LEMMA AbandonIInv ==
    ASSUME IInv, NEW r \in Requests, Abandon(r)
    PROVE  IInv'
<1> USE FenceAssumption, OutcomeFacts
<1>a. /\ TypeOK /\ OwnersHeld /\ EntriesFiled /\ StoredIsResult /\ WaitersMatch
      /\ Untouched /\ WaiterHasWaker /\ ReplayIsCanonical
    BY DEF IInv
<1>1. /\ pc[r] = "abandoning" /\ Active(r)
      /\ UNCHANGED <<stored, expires, clock, result, source>>
    BY DEF Abandon, Active
<1>2. /\ table[EventOf[r]] = r /\ source[r] = r
      /\ stored[r] = Unset /\ future[r] = Unset
    BY <1>1, <1>a DEF OwnersHeld
<1>3. /\ table' = [table EXCEPT ![EventOf[r]] = NoOne]
      /\ future' = [future EXCEPT ![r] = Unavailable]
    BY <1>2, <1>a DEF Abandon, Settleable, Completed, Resolve, TypeOK
<1>5. /\ \A s \in Requests : s # r => pc'[s] = pc[s] /\ answer'[s] = answer[s]
      /\ \/ pc'[r] = "answered" /\ answer'[r] = result[r]
         \/ pc'[r] = "gone" /\ answer'[r] = answer[r]
    BY <1>a DEF Abandon, Answer, Gone, TypeOK
<1>6. TypeOK'
    <2>1. pc' \in [Requests -> Phases]
          /\ answer' \in [Requests -> Outcomes \cup Refusals \cup {Unset}]
        BY <1>a DEF Abandon, Answer, Gone, TypeOK, Phases
    <2> QED
        BY <1>1, <1>3, <1>a, <2>1 DEF TypeOK
<1>7. \A s \in Requests : Active(s)' <=> Active(s) /\ s # r
    BY <1>5 DEF Active
<1>8. \A s \in Requests : s # r => future'[s] = future[s]
    BY <1>3, <1>a DEF TypeOK
<1>9. future'[r] = Unavailable
    BY <1>3, <1>a DEF TypeOK
<1>10. OwnersHeld'
    <2> SUFFICES ASSUME NEW s \in Requests, Active(s)'
        PROVE (table[EventOf[s]] = s /\ source[s] = s
               /\ stored[s] = Unset /\ future[s] = Unset)'
        BY DEF OwnersHeld
    <2>1. Active(s) /\ s # r
        BY <1>7
    <2>2. table[EventOf[s]] = s /\ source[s] = s /\ stored[s] = Unset /\ future[s] = Unset
        BY <1>a, <2>1 DEF OwnersHeld
    <2>3. EventOf[s] # EventOf[r] /\ EventOf[s] \in EventIds
        BY <1>2, <2>1, <2>2
    <2>4. table'[EventOf[s]] = table[EventOf[s]]
        BY <1>3, <1>a, <2>3 DEF TypeOK
    <2> QED
        BY <1>1, <1>8, <2>1, <2>2, <2>4
<1>11. EntriesFiled'
    <2> SUFFICES ASSUME NEW d \in EventIds, table'[d] # NoOne
        PROVE EventOf[table'[d]] = d /\ (Active(table[d]) \/ Completed(table[d]))'
        BY DEF EntriesFiled
    <2>1. d # EventOf[r] /\ table'[d] = table[d] /\ table[d] \in Requests
        BY <1>3, <1>a DEF TypeOK
    <2>2. EventOf[table[d]] = d /\ (Active(table[d]) \/ stored[table[d]] # Unset)
        BY <1>a, <2>1 DEF EntriesFiled, Completed
    <2>3. Active(table[d])' \/ stored'[table[d]] # Unset
        BY <1>1, <1>5, <2>1, <2>2 DEF Active
    <2> QED
        BY <2>1, <2>2, <2>3 DEF Completed, Active
<1>12. StoredIsResult'
    <2> SUFFICES ASSUME NEW s \in Requests
        PROVE /\ stored'[s] # Unset => stored'[s] = result'[s] /\ Settles(s, stored'[s])
              /\ future'[s] \in Outcomes => stored'[s] = future'[s]
              /\ pc'[s] = "applied" => result'[s] \in Outcomes /\ Settles(s, result'[s])
        BY DEF StoredIsResult, Completed, Settles
    <2>1. CASE s = r
        BY <1>1, <1>2, <1>5, <1>9, <2>1
    <2>2. CASE s # r
        BY <1>1, <1>5, <1>8, <1>a, <2>2 DEF StoredIsResult, Completed
    <2> QED
        BY <2>1, <2>2
<1>13. WaitersMatch' /\ WaiterHasWaker'
    <2> SUFFICES ASSUME NEW w \in Requests, pc'[w] = "waiting"
        PROVE /\ source'[w] \in Requests
              /\ EventOf[source'[w]] = EventOf[w] /\ PrintOf[source'[w]] = PrintOf[w]
              /\ (Active(source[w]) \/ future[source[w]] # Unset)'
        BY DEF WaitersMatch, WaiterHasWaker
    <2>1. pc[w] = "waiting" /\ source'[w] = source[w]
        BY <1>1, <1>5
    <2>2. source[w] \in Requests /\ EventOf[source[w]] = EventOf[w]
          /\ PrintOf[source[w]] = PrintOf[w]
          /\ (Active(source[w]) \/ future[source[w]] # Unset)
        BY <1>a, <2>1 DEF WaitersMatch, WaiterHasWaker
    <2>3. Active(source[w])' \/ future'[source[w]] # Unset
        BY <1>1, <1>7, <1>8, <1>9, <2>2 DEF Active
    <2> QED
        BY <1>1, <2>1, <2>2, <2>3 DEF Active
<1>14. Untouched'
    BY <1>1, <1>5, <1>8, <1>a DEF Untouched
<1>15. ReplayIsCanonical'
    <2> SUFFICES ASSUME NEW s \in Requests, answer'[s] \in Outcomes, source'[s] # s
        PROVE /\ source'[s] \in Requests
              /\ EventOf[source'[s]] = EventOf[s] /\ PrintOf[source'[s]] = PrintOf[s]
              /\ stored'[source'[s]] = answer'[s] /\ result'[source'[s]] = answer'[s]
        BY DEF ReplayIsCanonical
    <2>1. s # r /\ answer'[s] = answer[s]
        BY <1>1, <1>2, <1>5
    <2> QED
        BY <1>1, <1>a, <2>1 DEF ReplayIsCanonical
<1> QED
    BY <1>6, <1>10, <1>11, <1>12, <1>13, <1>14, <1>15 DEF IInv

\* A waiter is answered from the resolved future, times out, or is cancelled.
LEMMA WaiterIInv ==
    ASSUME IInv, NEW r \in Requests,
           WaitDone(r) \/ WaitTimeout(r) \/ WaitCancelled(r)
    PROVE  IInv'
<1> USE FenceAssumption, OutcomeFacts
<1>a. /\ TypeOK /\ OwnersHeld /\ EntriesFiled /\ StoredIsResult /\ WaitersMatch
      /\ Untouched /\ WaiterHasWaker /\ ReplayIsCanonical
    BY DEF IInv
<1>1. /\ pc[r] = "waiting" /\ pc'[r] \in {"answered", "gone"}
      /\ UNCHANGED <<table, stored, expires, future, clock, result, source>>
      /\ \A s \in Requests : s # r => pc'[s] = pc[s] /\ answer'[s] = answer[s]
    BY <1>a DEF WaitDone, WaitTimeout, WaitCancelled, Answer, Gone, TypeOK
<1>2. \/ answer'[r] = future[source[r]] /\ pc'[r] = "answered"
      \/ answer'[r] = "owner pending" /\ pc'[r] = "answered"
      \/ answer'[r] = answer[r] /\ pc'[r] = "gone"
    BY <1>a DEF WaitDone, WaitTimeout, WaitCancelled, Answer, Gone, TypeOK
<1>3. /\ source[r] \in Requests
      /\ EventOf[source[r]] = EventOf[r] /\ PrintOf[source[r]] = PrintOf[r]
    BY <1>1, <1>a DEF WaitersMatch
<1>4. TypeOK'
    <2>1. future[source[r]] \in Outcomes \cup {Unset, Unavailable}
        BY <1>3, <1>a DEF TypeOK
    <2>2. pc' \in [Requests -> Phases]
        BY <1>a DEF WaitDone, WaitTimeout, WaitCancelled, Answer, Gone,
           TypeOK, Phases
    <2>3. \A s \in Requests :
            answer'[s] \in Outcomes \cup Refusals \cup {Unset}
        BY <1>1, <1>2, <1>a, <2>1 DEF WaitDone, TypeOK, Refusals
    <2>4. answer' \in [Requests -> Outcomes \cup Refusals \cup {Unset}]
        BY <1>a, <2>3 DEF WaitDone, WaitTimeout, WaitCancelled, Answer, Gone, TypeOK
    <2> QED
        BY <1>1, <1>a, <2>2, <2>4 DEF TypeOK
<1>5. \A s \in Requests : Active(s)' <=> Active(s)
    BY <1>1 DEF Active
<1>6. OwnersHeld'
    BY <1>1, <1>5, <1>a DEF OwnersHeld
<1>7. EntriesFiled'
    <2> SUFFICES ASSUME NEW d \in EventIds, table'[d] # NoOne
        PROVE EventOf[table'[d]] = d /\ (Active(table[d]) \/ Completed(table[d]))'
        BY DEF EntriesFiled
    <2>1. table'[d] = table[d] /\ table[d] \in Requests
        BY <1>1, <1>a DEF TypeOK
    <2> QED
        BY <1>1, <1>5, <1>a, <2>1 DEF EntriesFiled, Completed
<1>8. StoredIsResult'
    BY <1>1, <1>a DEF StoredIsResult, Completed, Settles
<1>9. WaitersMatch' /\ WaiterHasWaker'
    BY <1>1, <1>5, <1>a DEF WaitersMatch, WaiterHasWaker
<1>10. Untouched'
    BY <1>1, <1>2, <1>a DEF Untouched
<1>11. ReplayIsCanonical'
    <2> SUFFICES ASSUME NEW s \in Requests, answer'[s] \in Outcomes, source'[s] # s
        PROVE /\ source'[s] \in Requests
              /\ EventOf[source'[s]] = EventOf[s] /\ PrintOf[source'[s]] = PrintOf[s]
              /\ stored'[source'[s]] = answer'[s] /\ result'[source'[s]] = answer'[s]
        BY DEF ReplayIsCanonical
    <2>1. CASE s = r
        <3>1. answer'[r] = future[source[r]]
            BY <1>1, <1>2, <1>a, <2>1 DEF Untouched
        <3>2. stored[source[r]] = answer'[r] /\ stored[source[r]] # Unset
            BY <1>3, <1>a, <2>1, <3>1 DEF StoredIsResult
        <3>3. result[source[r]] = answer'[r]
            BY <1>3, <1>a, <3>2 DEF StoredIsResult, Completed
        <3> QED
            BY <1>1, <1>3, <2>1, <3>2, <3>3
    <2>2. CASE s # r
        BY <1>1, <1>a, <2>2 DEF ReplayIsCanonical
    <2> QED
        BY <2>1, <2>2
<1> QED
    BY <1>4, <1>6, <1>7, <1>8, <1>9, <1>10, <1>11 DEF IInv

\* The clock advances, or nothing happens.
LEMMA IdleIInv ==
    ASSUME IInv, Tick \/ UNCHANGED vars
    PROVE  IInv'
<1>1. UNCHANGED <<table, stored, expires, future, pc, result, source, answer>>
    BY DEF Tick, vars
<1>2. TypeOK'
    BY DEF IInv, TypeOK, Tick, vars
<1>3. (OwnersHeld /\ EntriesFiled /\ StoredIsResult /\ WaitersMatch /\ Untouched)'
    BY <1>1 DEF IInv, OwnersHeld, EntriesFiled, StoredIsResult, WaitersMatch,
       Untouched, Active, Completed, Settles
<1>4. (WaiterHasWaker /\ ReplayIsCanonical)'
    BY <1>1 DEF IInv, WaiterHasWaker, ReplayIsCanonical, Active
<1> QED
    BY <1>2, <1>3, <1>4 DEF IInv

LEMMA NextIInv == IInv /\ [Next]_vars => IInv'
<1> SUFFICES ASSUME IInv, [Next]_vars PROVE IInv'
    OBVIOUS
<1>1. CASE Tick \/ UNCHANGED vars
    BY <1>1, IdleIInv
<1>2. ASSUME NEW r \in Requests,
             \/ ClaimConflict(r) \/ ClaimReplay(r) \/ ClaimWait(r)
             \/ ClaimFull(r) \/ ClaimOwner(r)
             \/ Apply(r) \/ ApplyRaises(r) \/ Finalize(r) \/ Abandon(r)
             \/ WaitDone(r) \/ WaitTimeout(r) \/ WaitCancelled(r)
      PROVE IInv'
    BY <1>2, AnsweredClaim, ClaimOwnerIInv, ApplyIInv, FinalizeIInv,
       AbandonIInv, WaiterIInv
<1> QED
    BY <1>1, <1>2 DEF Next

\* The inductive invariant holds in every reachable state of the fence.
THEOREM FenceInvariant == Spec => []IInv
<1>1. Init => IInv
    BY InitIInv
<1>2. IInv /\ [Next]_vars => IInv'
    BY NextIInv
<1> QED
    BY <1>1, <1>2, PTL DEF Spec

\* The type invariant, for any events, requests and retention.
THEOREM FenceTypes == Spec => []TypeOK
<1>1. IInv => TypeOK
    BY DEF IInv
<1> QED
    BY <1>1, FenceInvariant, PTL

\* Two handlers never apply one event at the same time (server.py, claim and
\* the evictions, which only touch completed entries).
THEOREM FenceSingleOwner == Spec => []SingleOwner
<1>1. IInv => SingleOwner
    BY DEF IInv, OwnersHeld, SingleOwner
<1> QED
    BY <1>1, FenceInvariant, PTL

\* No delivery waits on an owner that is gone without resolving its future.
THEOREM FenceWaiterHasWaker == Spec => []WaiterHasWaker
<1>1. IInv => WaiterHasWaker
    BY DEF IInv
<1> QED
    BY <1>1, FenceInvariant, PTL

\* A delivery answered from another one's entry gets that one's finalized
\* response, for the same event and payload.
THEOREM FenceReplayIsCanonical == Spec => []ReplayIsCanonical
<1>1. IInv => ReplayIsCanonical
    BY DEF IInv
<1> QED
    BY <1>1, FenceInvariant, PTL

\* Only the exact delivered response of a runtime admission is replayed.
THEOREM FenceReplayedAdmission == Spec => []ReplayedAdmissionIsExact
<1>1. IInv => ReplayedAdmissionIsExact
    <2> SUFFICES ASSUME IInv, NEW r \in Requests, EventOf[r] \in Admissions,
                        source[r] # r, answer[r] \in Outcomes
        PROVE answer[r] = Exact
        BY DEF ReplayedAdmissionIsExact
    <2>1. /\ source[r] \in Requests /\ EventOf[source[r]] = EventOf[r]
          /\ stored[source[r]] = answer[r]
        BY DEF IInv, ReplayIsCanonical
    <2>2. Settles(source[r], answer[r])
        BY <2>1, OutcomeFacts DEF IInv, StoredIsResult, Completed
    <2> QED
        BY <2>1, <2>2 DEF Settles
<1> QED
    BY <1>1, FenceInvariant, PTL

-----------------------------------------------------------------------------
(* What the fence forgets, and how much it holds. *)

\* The fence never holds more than EVENT_ID_FENCE_MAX_ENTRIES entries, however
\* many of them are unsettled and whatever expires together.
Capacity ==
    /\ IsFiniteSet(Occupied(table))
    /\ Cardinality(Occupied(table)) <= MaxEntries

\* Forgetting entries only shrinks the fence.
LEMMA FewerOccupied ==
    ASSUME NEW t, NEW s, IsFiniteSet(Occupied(t)),
           Occupied(s) \subseteq Occupied(t)
    PROVE  /\ IsFiniteSet(Occupied(s))
           /\ Cardinality(Occupied(s)) \in Nat
           /\ Cardinality(Occupied(t)) \in Nat
           /\ Cardinality(Occupied(s)) <= Cardinality(Occupied(t))
           /\ Cardinality(Occupied(s)) = Cardinality(Occupied(t))
                => Occupied(s) = Occupied(t)
BY FS_Subset, FS_CardinalityType

LEMMA SweptOccupied ==
    ASSUME IInv
    PROVE  Occupied(Swept) \subseteq Occupied(table)
BY SweptKeeps DEF Occupied

\* One entry more, at an event the table has none for.
LEMMA OneMoreOccupied ==
    ASSUME NEW t \in [EventIds -> Requests \cup {NoOne}],
           NEW e \in EventIds, NEW r \in Requests, IsFiniteSet(Occupied(t))
    PROVE  /\ IsFiniteSet(Occupied([t EXCEPT ![e] = r]))
           /\ Cardinality(Occupied([t EXCEPT ![e] = r]))
                <= Cardinality(Occupied(t)) + 1
           /\ Cardinality(Occupied(t)) \in Nat
           /\ Cardinality(Occupied([t EXCEPT ![e] = r])) \in Nat
<1>1. Occupied([t EXCEPT ![e] = r]) = Occupied(t) \cup {e}
    BY FenceAssumption DEF Occupied
<1>2. Cardinality(Occupied(t)) \in Nat
    BY FS_CardinalityType
<1>3. /\ IsFiniteSet(Occupied(t) \cup {e})
      /\ \/ Cardinality(Occupied(t) \cup {e}) = Cardinality(Occupied(t))
         \/ Cardinality(Occupied(t) \cup {e}) = Cardinality(Occupied(t)) + 1
    BY FS_AddElement
<1>4. /\ Cardinality(Occupied(t) \cup {e}) \in Nat
      /\ Cardinality(Occupied(t) \cup {e}) <= Cardinality(Occupied(t)) + 1
    BY <1>2, <1>3
<1> QED
    BY <1>1, <1>2, <1>3, <1>4, Zenon

\* Each table a claim may add its entry to has room for it.
LEMMA RoomsHaveRoom ==
    ASSUME IInv, Capacity, NEW t \in Rooms
    PROVE  /\ IsFiniteSet(Occupied(t))
           /\ Cardinality(Occupied(t)) \in Nat
           /\ Cardinality(Occupied(t)) < MaxEntries
<1>0. /\ IsFiniteSet(Occupied(Swept)) /\ Cardinality(Occupied(Swept)) \in Nat
      /\ Cardinality(Occupied(Swept)) <= MaxEntries
    <2>1. Cardinality(Occupied(table)) \in Nat /\ Cardinality(Occupied(Swept)) \in Nat
          /\ IsFiniteSet(Occupied(Swept))
          /\ Cardinality(Occupied(Swept)) <= Cardinality(Occupied(table))
        BY SweptOccupied, FewerOccupied DEF Capacity
    <2> QED
        BY <2>1, FenceAssumption DEF Capacity
<1>1. CASE Cardinality(Occupied(Swept)) < MaxEntries
    BY <1>0, <1>1 DEF Rooms
<1>2. CASE ~(Cardinality(Occupied(Swept)) < MaxEntries)
    <2> PICK e \in Oldest(Swept) : t = [Swept EXCEPT ![e] = NoOne]
        BY <1>2 DEF Rooms
    <2>1. e \in Occupied(Swept)
        BY DEF Oldest, Finished
    <2>2. Occupied(t) = Occupied(Swept) \ {e}
        BY SweptKeeps DEF Occupied
    <2>3. /\ IsFiniteSet(Occupied(t))
          /\ Cardinality(Occupied(t)) = Cardinality(Occupied(Swept)) - 1
        BY <1>0, <2>1, <2>2, FS_RemoveElement
    <2>4. Cardinality(Occupied(t)) \in Nat
        BY <2>3, FS_CardinalityType
    <2> QED
        BY <1>0, <2>3, <2>4, FenceAssumption
<1> QED
    BY <1>1, <1>2

LEMMA InitCapacity == Init => Capacity
<1> SUFFICES ASSUME Init PROVE Capacity
    OBVIOUS
<1>1. Occupied(table) = {}
    BY DEF Init, Occupied
<1> QED
    BY <1>1, FS_EmptySet, FenceAssumption DEF Capacity

LEMMA NextCapacity ==
    ASSUME IInv, Capacity, [Next]_vars
    PROVE  Capacity'
<1>0. Cardinality(Occupied(table)) \in Nat
    BY FS_CardinalityType DEF Capacity
<1>1. ASSUME Occupied(table') \subseteq Occupied(table)
      PROVE Capacity'
    <2>1. /\ IsFiniteSet(Occupied(table')) /\ Cardinality(Occupied(table')) \in Nat
          /\ Cardinality(Occupied(table')) <= Cardinality(Occupied(table))
        BY <1>1, FewerOccupied DEF Capacity
    <2>2. Cardinality(Occupied(table')) <= MaxEntries
        BY <1>0, <2>1, FenceAssumption DEF Capacity
    <2> QED
        BY <2>1, <2>2 DEF Capacity
<1>2. ASSUME table' = table PROVE Capacity'
    BY <1>1, <1>2
<1>3. ASSUME table' = Swept PROVE Capacity'
    BY <1>1, <1>3, SweptOccupied
<1>4. ASSUME NEW r \in Requests, Abandon(r)
      PROVE Capacity'
    <2>1. CASE table' = [table EXCEPT ![EventOf[r]] = NoOne]
        <3>1. Occupied(table') \subseteq Occupied(table)
            BY <2>1 DEF IInv, TypeOK, Occupied
        <3> QED
            BY <1>1, <3>1
    <2> QED
        BY <1>2, <1>4, <2>1 DEF Abandon
<1>5. ASSUME NEW r \in Requests, ClaimOwner(r)
      PROVE Capacity'
    <2> PICK t \in Rooms : table' = [t EXCEPT ![EventOf[r]] = r]
        BY <1>5 DEF ClaimOwner
    <2>1. /\ t \in [EventIds -> Requests \cup {NoOne}]
          /\ IsFiniteSet(Occupied(t)) /\ Cardinality(Occupied(t)) \in Nat
          /\ Cardinality(Occupied(t)) < MaxEntries
        BY RoomsKeep, RoomsHaveRoom
    <2>2. EventOf[r] \in EventIds
        BY FenceAssumption
    <2>3. /\ IsFiniteSet(Occupied(table')) /\ Cardinality(Occupied(table')) \in Nat
          /\ Cardinality(Occupied(table')) <= Cardinality(Occupied(t)) + 1
        BY <2>1, <2>2, OneMoreOccupied
    <2>4. Cardinality(Occupied(table')) <= MaxEntries
        BY <2>1, <2>3, FenceAssumption
    <2> QED
        BY <2>3, <2>4 DEF Capacity
<1>6. ASSUME NEW r \in Requests,
             \/ ClaimConflict(r) \/ ClaimReplay(r) \/ ClaimWait(r) \/ ClaimFull(r)
             \/ Apply(r) \/ ApplyRaises(r) \/ Finalize(r)
             \/ WaitDone(r) \/ WaitTimeout(r) \/ WaitCancelled(r)
      PROVE Capacity'
    <2>1. table' = Swept \/ table' = table
        BY <1>6 DEF ClaimConflict, ClaimReplay, ClaimWait, ClaimFull, Apply,
           ApplyRaises, Finalize, WaitDone, WaitTimeout, WaitCancelled
    <2> QED
        BY <2>1, <1>2, <1>3
<1>7. CASE Tick \/ UNCHANGED vars
    BY <1>2, <1>7 DEF Tick, vars
<1> QED
    BY <1>4, <1>5, <1>6, <1>7 DEF Next

\* The fence never grows beyond its capacity (server.py, claim): an entry is
\* added only where the sweep or the eviction of the oldest left room.
THEOREM FenceCapacity == Spec => []Capacity
<1>1. Init => Capacity
    BY InitCapacity
<1>2. IInv /\ Capacity /\ [Next]_vars => Capacity'
    BY NextCapacity
<1> QED
    BY <1>1, <1>2, FenceInvariant, PTL DEF Spec

\* What one step may forget of event e.
MayForget(e) ==
    \/ pc[table[e]] = "abandoning"
    \/ /\ Completed(table[e])
       /\ \/ expires[table[e]] <= clock
          \/ /\ Cardinality(Occupied(table)) = MaxEntries
             /\ \A f \in Finished(table) :
                    expires[table[e]] <= expires[table[f]]

\* The sweep forgets what is finalized and past its retention.
LEMMA SweepForgets ==
    ASSUME NEW e \in EventIds, table[e] # NoOne, Swept[e] # table[e]
    PROVE  Completed(table[e]) /\ expires[table[e]] <= clock
BY DEF Swept, Finished

\* A fence that stays full after the sweep had nothing to sweep.
LEMMA FullFenceUnswept ==
    ASSUME IInv, Capacity, Cardinality(Occupied(Swept)) >= MaxEntries
    PROVE  Swept = table /\ Cardinality(Occupied(table)) = MaxEntries
<1>1. /\ Cardinality(Occupied(Swept)) \in Nat /\ Cardinality(Occupied(table)) \in Nat
      /\ Cardinality(Occupied(Swept)) <= Cardinality(Occupied(table))
      /\ Cardinality(Occupied(Swept)) = Cardinality(Occupied(table))
            => Occupied(Swept) = Occupied(table)
    BY SweptOccupied, FewerOccupied DEF Capacity
<1>2. Cardinality(Occupied(table)) <= MaxEntries /\ MaxEntries \in Nat
    BY FenceAssumption DEF Capacity
<1>3. Cardinality(Occupied(Swept)) = Cardinality(Occupied(table))
      /\ Cardinality(Occupied(table)) = MaxEntries
    BY <1>1, <1>2
<1>4. \A e \in EventIds : Swept[e] = table[e]
    BY <1>1, <1>3, SweptKeeps DEF Occupied
<1>5. Swept = table
    BY <1>4, SweptKeeps DEF IInv, TypeOK
<1> QED
    BY <1>3, <1>5

\* The claim that adds an entry forgets what the sweep forgets, or the oldest.
LEMMA ClaimForgets ==
    ASSUME IInv, Capacity, NEW r \in Requests, ClaimOwner(r),
           NEW e \in EventIds, table[e] # NoOne, table'[e] # table[e]
    PROVE  MayForget(e)
<1> PICK t \in Rooms : table' = [t EXCEPT ![EventOf[r]] = r]
    BY DEF ClaimOwner
<1>0. t \in [EventIds -> Requests \cup {NoOne}]
    BY RoomsKeep
<1>1. CASE Swept[e] # table[e]
    BY <1>1, SweepForgets DEF MayForget
<1>2. CASE Swept[e] = table[e]
    <2>1. e # EventOf[r]
        BY <1>2 DEF ClaimOwner
    <2>2. t[e] # Swept[e]
        BY <1>0, <1>2, <2>1
    <2>3. ~(Cardinality(Occupied(Swept)) < MaxEntries)
        BY <2>2 DEF Rooms
    <2> PICK d \in Oldest(Swept) : t = [Swept EXCEPT ![d] = NoOne]
        BY <2>3 DEF Rooms
    <2>4. d = e
        BY <2>2, SweptKeeps
    <2>5. Cardinality(Occupied(Swept)) \in Nat
        BY SweptOccupied, FewerOccupied DEF Capacity
    <2>6. Cardinality(Occupied(Swept)) >= MaxEntries
        BY <2>3, <2>5, FenceAssumption
    <2>7. Swept = table /\ Cardinality(Occupied(table)) = MaxEntries
        BY <2>6, FullFenceUnswept
    <2> QED
        BY <2>4, <2>7 DEF MayForget, Oldest, Finished
<1> QED
    BY <1>1, <1>2

LEMMA NextForgets ==
    ASSUME IInv, Capacity, [Next]_vars,
           NEW e \in EventIds, table[e] # NoOne, table'[e] # table[e]
    PROVE  MayForget(e)
<1>1. ASSUME table' = Swept PROVE MayForget(e)
    BY <1>1, SweepForgets DEF MayForget
<1>2. ASSUME NEW r \in Requests, Abandon(r)
      PROVE MayForget(e)
    <2>1. Settleable(r) /\ table' = [table EXCEPT ![EventOf[r]] = NoOne]
        BY <1>2 DEF Abandon
    <2>2. e = EventOf[r]
        BY <2>1 DEF IInv, TypeOK
    <2> QED
        BY <1>2, <2>1, <2>2 DEF MayForget, Abandon, Settleable
<1>3. ASSUME NEW r \in Requests,
             \/ ClaimConflict(r) \/ ClaimReplay(r) \/ ClaimWait(r) \/ ClaimFull(r)
             \/ Apply(r) \/ ApplyRaises(r) \/ Finalize(r)
             \/ WaitDone(r) \/ WaitTimeout(r) \/ WaitCancelled(r)
      PROVE MayForget(e)
    <2>1. table' = Swept \/ table' = table
        BY <1>3 DEF ClaimConflict, ClaimReplay, ClaimWait, ClaimFull, Apply,
           ApplyRaises, Finalize, WaitDone, WaitTimeout, WaitCancelled
    <2> QED
        BY <2>1, <1>1
<1>4. ~(Tick \/ UNCHANGED vars)
    BY DEF Tick, vars
<1> QED
    BY <1>2, <1>3, <1>4, ClaimForgets DEF Next

\* An entry is forgotten only by its own owner's abandon, after its retention,
\* or as the oldest finalized one of a full fence (server.py, the two
\* evictions and abandon).
THEOREM FenceForgetsOnlySettled == Spec => ForgetsOnlySettled
<1> DEFINE Forgets ==
        \A e \in EventIds :
            table[e] # NoOne /\ table'[e] # table[e] => MayForget(e)
<1>1. IInv /\ Capacity /\ [Next]_vars => Forgets
    BY NextForgets
<1>2. IInv /\ Capacity /\ [Next]_vars => [Forgets]_vars
    BY <1>1
<1>3. [][Forgets]_vars <=> ForgetsOnlySettled
    BY DEF MayForget, ForgetsOnlySettled
<1> QED
    BY <1>2, <1>3, FenceInvariant, FenceCapacity, PTL DEF Spec
=============================================================================
