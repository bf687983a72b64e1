------------------------- MODULE TurnEvents_proofs -------------------------
(***************************************************************************)
(* Proofs about TurnEvents, for any threads, queue and number of events:   *)
(* who may still act for the turn (Life), what the closed barrier keeps out*)
(* (Barred), and where every number is (Numbered, Ordered).                *)
(***************************************************************************)
EXTENDS TurnEvents, FiniteSetTheorems, TLAPS

\* A forgotten turn is not bound again, and one end at most acts for a turn.
Life ==
    /\ starting = "none" => ~bound /\ coord.next = 0
    /\ starting # "none" => coord.next >= 1
    /\ cleaner # "idle" => ~bound /\ starting # "none"
    /\ \A p \in Tools : tool[p] # "idle" => starting # "none"
    /\ \A e \in Enders : ender[e].at # "idle" => (owner = e \/ ~bound) /\ starting # "none"
    /\ \A e, f \in Enders : ender[e].at # "idle" /\ ender[f].at # "idle" => e = f

\* The barrier is closed before the queue is drained.
Barred ==
    /\ \A e \in Enders :
           ender[e].at \in {"closing", "draining", "drained", "undrained", "posting"} => coord.barrier
    /\ coord.terminal # 0 => coord.barrier
    /\ QuietEnd

\* Every number was allocated; the terminal one is above the others, and only an
\* end that posts or has posted holds it.
Numbered ==
    /\ \A i \in 1..Len(queue) : 1 <= queue[i] /\ queue[i] < coord.next
    /\ \A s \in posted : 1 <= s /\ s < coord.next
    /\ \A a \in Askers : IF ask[a].at = "idle" THEN ask[a].seq = 0
                         ELSE 1 <= ask[a].seq /\ ask[a].seq < coord.next
    /\ coord.terminal # 0 =>
           /\ coord.terminal < coord.next /\ (~bound \/ owner # Nobody)
           /\ \A i \in 1..Len(queue) : queue[i] < coord.terminal
           /\ \A s \in posted : s < coord.terminal
           /\ \A a \in Askers : ask[a].seq < coord.terminal
    /\ \A e \in Enders : ender[e].seq # 0 => ender[e].seq = coord.terminal

\* What is queued is above what was posted, what is under way is in order, and
\* whatever will be too old when it arrives is below the last interaction.
Queued ==
    /\ \A i, j \in 1..Len(queue) : i < j => queue[i] < queue[j]
    /\ \A i \in 1..Len(queue) : \A s \in posted : s < queue[i]
    /\ \A a \in Askers : ask[a].at # "idle" =>
           ask[a].seq \notin posted /\ \A i \in 1..Len(queue) : queue[i] # ask[a].seq

UnderWay ==
    /\ \A i, j \in 1..Len(wire) :
           i < j /\ wire[i].kind = "observer" /\ wire[j].kind = "observer" => wire[i].seq < wire[j].seq
    /\ \A i \in 1..Len(wire) : wire[i].kind = "observer" => wire[i].seq \in posted
    /\ \A i \in 1..Len(wire) : wire[i].kind = "interaction" =>
           \E a \in Askers : ask[a].at = "done" /\ ask[a].seq = wire[i].seq

Late(s) == s > card.last \/ s < card.asked
Arrived ==
    /\ card.asked <= card.last /\ (card.last = 0 \/ card.last < coord.next)
    /\ \A i \in 1..Len(queue) : Late(queue[i])
    /\ \A i \in 1..Len(wire) : wire[i].kind = "observer" => Late(wire[i].seq)
    /\ OnlyAskOvertakes

Ordered == Queued /\ UnderWay /\ Arrived

IInv == TypeOK /\ Life /\ Barred /\ Numbered /\ QuietAfterCleanup /\ Ordered

-----------------------------------------------------------------------------
\* Sequences by their elements.
LEMMA AppendFacts ==
    ASSUME NEW S, NEW q \in Seq(S), NEW x \in S
    PROVE  /\ Append(q, x) \in Seq(S) /\ Len(Append(q, x)) = Len(q) + 1
           /\ \A i \in 1..Len(q) : Append(q, x)[i] = q[i]
           /\ Append(q, x)[Len(q) + 1] = x
  OBVIOUS

LEMMA TailFacts ==
    ASSUME NEW S, NEW q \in Seq(S), q # <<>>
    PROVE  /\ Tail(q) \in Seq(S) /\ Len(q) >= 1 /\ Len(Tail(q)) = Len(q) - 1
           /\ Head(q) = q[1] /\ Head(q) \in S
           /\ \A i \in 1..Len(Tail(q)) : Tail(q)[i] = q[i + 1]
  OBVIOUS

\* What a submission changes: the numbers go on, and the queue ends with the new
\* one if it has room.
LEMMA SubmitFacts ==
    ASSUME TypeOK, Submit
    PROVE  \/ UNCHANGED <<coord, queue>>
           \/ /\ Admits /\ coord' = [coord EXCEPT !.next = coord.next + 1]
              /\ coord'.next = coord.next + 1 /\ coord'.barrier = coord.barrier
              /\ coord'.closed = coord.closed /\ coord'.terminal = coord.terminal
              /\ \/ queue' = queue
                 \/ /\ Len(queue) < MaxPending /\ queue' = Append(queue, coord.next)
<1> QED BY DEF TypeOK, Coordinator, Submit, SubmitAs

\* A post leaves the wire as it is or puts one message behind the others.
LEMMA PostFacts ==
    ASSUME TypeOK, NEW k \in {"started", "observer", "interaction", "terminal"}, NEW n \in Nat,
           Post(k, n)
    PROVE  /\ wire' \in Seq(Message)
           /\ \/ wire' = wire
              \/ /\ Len(wire') = Len(wire) + 1
                 /\ \A i \in 1..Len(wire) : wire'[i] = wire[i]
                 /\ wire'[Len(wire) + 1].kind = k /\ wire'[Len(wire) + 1].seq = n
<1> DEFINE m == [kind |-> k, seq |-> n]
<1>1. m \in Message /\ m.kind = k /\ m.seq = n  BY DEF Message
<1>2. wire \in Seq(Message)  BY DEF TypeOK
<1>3. wire' = wire \/ wire' = Append(wire, m)  BY DEF Post
<1> HIDE DEF m
<1> QED BY <1>1, <1>2, <1>3, AppendFacts

-----------------------------------------------------------------------------
\* Types.
LEMMA TypeInit == Init => TypeOK
<1> SUFFICES ASSUME Init PROVE TypeOK  OBVIOUS
<1>1. coord \in Coordinator  BY DEF Init, Coordinator
<1>2. queue \in Seq(Nat) /\ wire \in Seq(Message) /\ Len(queue) = 0  BY DEF Init
<1>3. /\ tool \in [Tools -> {"idle", "looked", "ready"}]
      /\ ask \in [Askers -> [at : AskSteps, seq : Nat]]
      /\ ender \in [Enders -> [at : EndSteps, seq : Nat]]
  BY DEF Init, At, AskSteps, EndSteps
<1>4. /\ card \in [status : {"none", "refused", "active", "ended"}, last : Nat, asked : Nat]
      /\ worker \in [at : {"polling", "empty", "posting", "left"}, seq : Nat]
      /\ posted \subseteq Nat /\ stale \subseteq Nat
  BY DEF Init, At
<1>5. /\ bound \in BOOLEAN /\ owner \in Enders \cup {Nobody} /\ cleaner \in {"idle", "waiting", "done"}
      /\ starting \in {"none", "claimed", "posting", "done"}
      /\ state \in {"pending-start", "card-active", "native-bypass", "terminal"}
  BY DEF Init
<1> QED BY <1>1, <1>2, <1>3, <1>4, <1>5, EventsAssumption DEF TypeOK

\* The effect of a step of an end, or of a thread that asks, on its own record.
LEMMA EndMoves ==
    ASSUME TypeOK, NEW e \in Enders, NEW s \in EndSteps,
           ender' = [ender EXCEPT ![e].at = s]
    PROVE  /\ ender' \in [Enders -> [at : EndSteps, seq : Nat]]
           /\ ender'[e].at = s /\ ender'[e].seq = ender[e].seq
           /\ \A f \in Enders : f # e => ender'[f] = ender[f]
  BY DEF TypeOK

LEMMA AskMoves ==
    ASSUME TypeOK, NEW a \in Askers, NEW s \in AskSteps,
           ask' = [ask EXCEPT ![a].at = s]
    PROVE  /\ ask' \in [Askers -> [at : AskSteps, seq : Nat]]
           /\ ask'[a].at = s /\ ask'[a].seq = ask[a].seq
           /\ \A b \in Askers : b # a => ask'[b] = ask[b]
  BY DEF TypeOK

\* What a submission leaves has its type.
LEMMA SubmitTypes == TypeOK /\ Submit => coord' \in Coordinator /\ queue' \in Seq(Nat) /\ Len(queue') <= MaxPending
<1> SUFFICES ASSUME TypeOK, Submit PROVE coord' \in Coordinator /\ queue' \in Seq(Nat) /\ Len(queue') <= MaxPending
  OBVIOUS
<1>1. coord.next \in Nat /\ queue \in Seq(Nat) /\ Len(queue) <= MaxPending /\ coord \in Coordinator
  BY DEF TypeOK, Coordinator
<1>2. coord' \in Coordinator  BY <1>1, SubmitFacts DEF Coordinator
<1>3. /\ Append(queue, coord.next) \in Seq(Nat) /\ Len(Append(queue, coord.next)) = Len(queue) + 1
  BY <1>1, AppendFacts
<1>4. CASE queue' = queue  BY <1>1, <1>2, <1>4
<1>5. CASE Len(queue) < MaxPending /\ queue' = Append(queue, coord.next)
  BY <1>1, <1>2, <1>3, <1>5, EventsAssumption
<1>6. queue' = queue \/ (Len(queue) < MaxPending /\ queue' = Append(queue, coord.next))
  BY SubmitFacts
<1> QED BY <1>4, <1>5, <1>6

LEMMA TypeStep == TypeOK /\ [Next]_vars => TypeOK'
<1> SUFFICES ASSUME TypeOK, [Next]_vars PROVE TypeOK'  OBVIOUS
<1> USE DEF runtime, threads, sidecar, At
<1>1. CASE ClaimTurn  BY <1>1 DEF ClaimTurn, TypeOK, Coordinator
<1>2. CASE PostStarted
  <2>1. wire' \in Seq(Message)  BY <1>2, PostFacts DEF PostStarted, TypeOK
  <2> QED BY <1>2, <2>1 DEF PostStarted, TypeOK
<1>3. CASE StartedReturns  BY <1>3 DEF StartedReturns, TypeOK
<1>4. CASE Delta  BY <1>4, SubmitTypes DEF Delta, TypeOK
<1>5. ASSUME NEW p \in Tools, LookUp(p) \/ BuildPayload(p) \/ SubmitTool(p) PROVE TypeOK'
  <2>1. CASE LookUp(p)  BY <2>1 DEF LookUp, TypeOK
  <2>2. CASE BuildPayload(p)  BY <2>2 DEF BuildPayload, TypeOK
  <2>3. CASE SubmitTool(p)  BY <2>3, SubmitTypes DEF SubmitTool, TypeOK
  <2> QED BY <1>5, <2>1, <2>2, <2>3
<1>6. ASSUME NEW a \in Askers, NumberAsk(a) \/ PostAsk(a) PROVE TypeOK'
  <2>1. CASE NumberAsk(a)
    <3>0. coord \in Coordinator /\ coord' = [coord EXCEPT !.next = coord.next + 1]
      BY <2>1 DEF NumberAsk, TypeOK
    <3>1. coord' \in Coordinator /\ coord.next \in Nat  BY <3>0 DEF Coordinator
    <3>2. ask' \in [Askers -> [at : AskSteps, seq : Nat]]
      BY <2>1, <3>1 DEF NumberAsk, TypeOK, AskSteps
    <3> QED BY <2>1, <3>1, <3>2 DEF NumberAsk, TypeOK
  <2>2. CASE PostAsk(a)
    <3>1. wire' \in Seq(Message)  BY <2>2, PostFacts DEF PostAsk, TypeOK
    <3>2. ask' \in [Askers -> [at : AskSteps, seq : Nat]]
      BY <2>2, AskMoves DEF PostAsk, AskSteps
    <3> QED BY <2>2, <3>1, <3>2 DEF PostAsk, TypeOK
  <2> QED BY <1>6, <2>1, <2>2
<1>7. CASE Worker
  <2>1. CASE Take
    <3>1. /\ Head(queue) \in Nat /\ Tail(queue) \in Seq(Nat) /\ Len(Tail(queue)) <= MaxPending
      BY <2>1, TailFacts, EventsAssumption DEF Take, TypeOK
    <3>2. wire' \in Seq(Message)  BY <2>1, <3>1, PostFacts DEF Take
    <3> QED BY <2>1, <3>1, <3>2 DEF Take, TypeOK
  <2>2. CASE PostReturns  BY <2>2 DEF PostReturns, TypeOK
  <2>3. CASE FindEmpty  BY <2>3 DEF FindEmpty, TypeOK
  <2>4. CASE LookClosed  BY <2>4 DEF LookClosed, AfterEmpty, TypeOK
  <2> QED BY <1>7, <2>1, <2>2, <2>3, <2>4 DEF Worker
<1>8. ASSUME NEW e \in Enders, EndTurn(e) \/ End(e) PROVE TypeOK'
  <2>0. \A t \in EndSteps : ender' = [ender EXCEPT ![e].at = t] =>
            ender' \in [Enders -> [at : EndSteps, seq : Nat]]
    BY EndMoves
  <2>1. CASE EndTurn(e)
    <3>1. coord' \in Coordinator /\ state' \in {"pending-start", "card-active", "native-bypass", "terminal"}
          /\ bound' \in BOOLEAN /\ owner' \in Enders \cup {Nobody}
      BY <2>1 DEF EndTurn, Ownable, Forget, TypeOK, Coordinator
    <3>2. ender' \in [Enders -> [at : EndSteps, seq : Nat]]
      BY <2>1, <2>0 DEF EndTurn, EndSteps
    <3> QED BY <2>1, <3>1, <3>2 DEF EndTurn, TypeOK
  <2>2. CASE CloseBarrier(e)
    <3>1. coord' \in Coordinator  BY <2>2 DEF CloseBarrier, TypeOK, Coordinator
    <3>2. ender' \in [Enders -> [at : EndSteps, seq : Nat]]
      BY <2>2, <2>0 DEF CloseBarrier, EndSteps
    <3> QED BY <2>2, <3>1, <3>2 DEF CloseBarrier, TypeOK
  <2>3. CASE BeginDrain(e)
    <3>1. coord' \in Coordinator  BY <2>3 DEF BeginDrain, TypeOK, Coordinator
    <3>2. ender' \in [Enders -> [at : EndSteps, seq : Nat]]
      BY <2>3, <2>0 DEF BeginDrain, EndSteps
    <3> QED BY <2>3, <3>1, <3>2 DEF BeginDrain, TypeOK
  <2>4. CASE EndDrain(e)
    <3>1. ender' \in [Enders -> [at : EndSteps, seq : Nat]]
      BY <2>4, <2>0 DEF EndDrain, EndSteps
    <3> QED BY <2>4, <3>1 DEF EndDrain, TypeOK
  <2>5. CASE PostTerminal(e)
    <3> DEFINE seq == IF coord.terminal # 0 THEN coord.terminal ELSE coord.next
    <3>1. seq \in Nat  BY DEF TypeOK, Coordinator
    <3>2. wire' \in Seq(Message)  BY <2>5, <3>1, PostFacts DEF PostTerminal
    <3>3. coord' \in Coordinator  BY <2>5 DEF PostTerminal, TypeOK, Coordinator
    <3>4. ender' = [ender EXCEPT ![e] = [at |-> "posting", seq |-> seq]]
      BY <2>5 DEF PostTerminal
    <3> HIDE DEF seq
    <3>5. ender' \in [Enders -> [at : EndSteps, seq : Nat]]
      BY <3>1, <3>4 DEF TypeOK, EndSteps
    <3> QED BY <2>5, <3>2, <3>3, <3>5 DEF PostTerminal, TypeOK
  <2>6. CASE TerminalReturns(e)
    <3>1. coord' \in Coordinator /\ state' \in {"pending-start", "card-active", "native-bypass", "terminal"}
          /\ bound' \in BOOLEAN /\ owner' \in Enders \cup {Nobody}
      BY <2>6 DEF TerminalReturns, Forget, TypeOK, Coordinator
    <3>2. ender' \in [Enders -> [at : EndSteps, seq : Nat]]
      BY <2>6, <2>0 DEF TerminalReturns, EndSteps
    <3> QED BY <2>6, <3>1, <3>2 DEF TerminalReturns, TypeOK
  <2> QED BY <1>8, <2>1, <2>2, <2>3, <2>4, <2>5, <2>6 DEF End
<1>9. CASE Clean  BY <1>9 DEF Clean, Forget, TypeOK
<1>10. CASE CleanReturns  BY <1>10 DEF CleanReturns, TypeOK, Coordinator
<1>11. CASE Handle
  <2>1. Head(wire) \in Message /\ Tail(wire) \in Seq(Message)
    BY <1>11, TailFacts DEF Handle, TypeOK
  <2>2. ASSUME NEW m \in Message, HandleStarted(m) \/ HandleUpdate(m) \/ HandleTerminal(m)
        PROVE  /\ card' \in [status : {"none", "refused", "active", "ended"}, last : Nat, asked : Nat]
               /\ stale' \subseteq Nat
    BY <2>2 DEF HandleStarted, HandleUpdate, HandleTerminal, TypeOK, Message
  <2> QED BY <1>11, <2>1, <2>2 DEF Handle, TypeOK
<1>12. CASE UNCHANGED vars  BY <1>12 DEF vars, TypeOK
<1> QED BY <1>1, <1>2, <1>3, <1>4, <1>5, <1>6, <1>7, <1>8, <1>9, <1>10, <1>11, <1>12 DEF Next

\* Every variable keeps its type, for any number of threads and any queue.
THEOREM TurnTypes == Spec => []TypeOK
  BY TypeInit, TypeStep, PTL DEF Spec

-----------------------------------------------------------------------------
\* Every step of an end moves its own record, from a step that the end was at.
LEMMA EndStep ==
    ASSUME TypeOK, NEW e \in Enders, EndTurn(e) \/ End(e)
    PROVE  /\ \A f \in Enders : f # e => ender'[f] = ender[f]
           /\ ender'[e].at # "idle"
           /\ ~PostTerminal(e) => ender'[e].seq = ender[e].seq
<1> USE DEF EndSteps
<1>1. CASE EndTurn(e) \/ CloseBarrier(e) \/ BeginDrain(e) \/ EndDrain(e) \/ TerminalReturns(e)
  <2>1. PICK t \in EndSteps : t # "idle" /\ ender' = [ender EXCEPT ![e].at = t]
    BY <1>1 DEF EndTurn, CloseBarrier, BeginDrain, EndDrain, TerminalReturns
  <2> QED BY <2>1, EndMoves
<1>2. CASE PostTerminal(e)
  <2>1. ender \in [Enders -> [at : EndSteps, seq : Nat]]  BY DEF TypeOK
  <2>2. PICK n : ender' = [ender EXCEPT ![e] = [at |-> "posting", seq |-> n]]
    BY <1>2 DEF PostTerminal
  <2> QED BY <1>2, <2>1, <2>2
<1> QED BY <1>1, <1>2 DEF End

\* The numbers only go on, and not before the turn is claimed.
LEMMA LifeStep == TypeOK /\ Life /\ [Next]_vars => Life'
<1> SUFFICES ASSUME TypeOK, Life, [Next]_vars PROVE Life'  OBVIOUS
<1> USE DEF runtime, threads, sidecar
<1>0. /\ coord \in Coordinator /\ coord.next \in Nat
      /\ tool \in [Tools -> {"idle", "looked", "ready"}] /\ Nobody \notin Enders
  BY EventsAssumption DEF TypeOK, Coordinator
<1>s. Submit => coord'.next = coord.next \/ coord'.next = coord.next + 1
  BY SubmitFacts
<1>1. CASE ClaimTurn  BY <1>0, <1>1 DEF ClaimTurn, Life, Coordinator
<1>2. CASE PostStarted \/ StartedReturns  BY <1>2 DEF PostStarted, StartedReturns, Life
<1>3. CASE Delta  BY <1>0, <1>s, <1>3 DEF Delta, CardActive, Life
<1>4. ASSUME NEW p \in Tools, LookUp(p) \/ BuildPayload(p) \/ SubmitTool(p) PROVE Life'
  <2>1. CASE LookUp(p)  BY <1>0, <2>1 DEF LookUp, CardActive, Life
  <2>2. CASE BuildPayload(p)  BY <1>0, <2>2 DEF BuildPayload, Life
  <2>3. CASE SubmitTool(p)  BY <1>0, <1>s, <2>3 DEF SubmitTool, Life
  <2> QED BY <1>4, <2>1, <2>2, <2>3
<1>5. ASSUME NEW a \in Askers, NumberAsk(a) \/ PostAsk(a) PROVE Life'
  <2>1. CASE NumberAsk(a)
    <3>1. coord'.next = coord.next + 1  BY <1>0, <2>1 DEF NumberAsk, Coordinator
    <3> QED BY <1>0, <2>1, <3>1 DEF NumberAsk, CardActive, Life
  <2>2. CASE PostAsk(a)  BY <2>2 DEF PostAsk, Life
  <2> QED BY <1>5, <2>1, <2>2
<1>6. CASE Worker  BY <1>6 DEF Worker, Take, PostReturns, FindEmpty, LookClosed, Life
<1>7. ASSUME NEW e \in Enders, EndTurn(e) \/ End(e) PROVE Life'
  <2>0. /\ \A f \in Enders : f # e => ender'[f] = ender[f]
        /\ ender'[e].at # "idle"
    BY <1>7, EndStep
  <2>1. CASE EndTurn(e)
    <3>1. /\ starting # "none" /\ UNCHANGED <<starting, cleaner, tool>> /\ bound /\ owner = Nobody
          /\ coord'.next = coord.next /\ (owner' = e \/ ~bound')
      BY <1>0, <2>1 DEF EndTurn, Ownable, Forget, Coordinator
    <3>2. \A f \in Enders : ender[f].at = "idle"  BY <1>0, <3>1 DEF Life
    <3>3. bound' => bound  BY <2>1 DEF EndTurn, Forget
    <3> QED BY <2>0, <3>1, <3>2, <3>3 DEF Life
  <2>2. CASE End(e)
    <3>1. /\ ender[e].at # "idle" /\ UNCHANGED <<starting, cleaner, tool>>
          /\ coord'.next >= coord.next /\ coord'.next \in Nat
      BY <1>0, <2>2 DEF End, CloseBarrier, BeginDrain, EndDrain, PostTerminal, TerminalReturns,
                        Coordinator
    <3>2. UNCHANGED <<bound, owner>> \/ ~bound'
      BY <2>2 DEF End, CloseBarrier, BeginDrain, EndDrain, PostTerminal, TerminalReturns, Forget
    <3>3. starting # "none"  BY <3>1 DEF Life
    <3> QED BY <1>0, <2>0, <3>1, <3>2, <3>3 DEF Life
  <2> QED BY <1>7, <2>1, <2>2
<1>8. CASE Clean  BY <1>8 DEF Clean, Forget, Life
<1>9. CASE CleanReturns  BY <1>0, <1>9 DEF CleanReturns, Life, Coordinator
<1>10. CASE Handle  BY <1>10 DEF Handle, Life
<1>11. CASE UNCHANGED vars  BY <1>11 DEF vars, Life
<1> QED BY <1>1, <1>2, <1>3, <1>4, <1>5, <1>6, <1>7, <1>8, <1>9, <1>10, <1>11 DEF Next

\* Nothing is posted for a turn whose clean-up has returned.
LEMMA CleanStep == TypeOK /\ Life /\ QuietAfterCleanup /\ [Next]_vars => QuietAfterCleanup'
<1> SUFFICES ASSUME TypeOK, Life, QuietAfterCleanup, [Next]_vars PROVE QuietAfterCleanup'  OBVIOUS
<1> USE DEF runtime, threads, sidecar, QuietAfterCleanup
<1>1. CASE ClaimTurn  BY <1>1 DEF ClaimTurn
<1>2. CASE PostStarted  BY <1>2 DEF PostStarted, MayPost, Life
<1>3. CASE CleanReturns  BY <1>3 DEF CleanReturns, GateFree
<1>4. CASE StartedReturns \/ Clean  BY <1>4 DEF StartedReturns, Clean
<1>5. CASE UNCHANGED <<starting, cleaner>>  BY <1>5
<1> QED
  BY <1>1, <1>2, <1>3, <1>4, <1>5 DEF Next, Delta, LookUp, BuildPayload, SubmitTool, NumberAsk,
     PostAsk, Worker, Take, PostReturns, FindEmpty, LookClosed, EndTurn, End, CloseBarrier,
     BeginDrain, EndDrain, PostTerminal, TerminalReturns, Handle, vars

-----------------------------------------------------------------------------
\* The barrier stays closed; once it is, nothing is submitted.
LEMMA BarredStep == TypeOK /\ Barred /\ [Next]_vars => Barred'
<1> SUFFICES ASSUME TypeOK, Barred, [Next]_vars PROVE Barred'  OBVIOUS
<1> USE DEF runtime, threads, sidecar
<1>0. /\ coord \in Coordinator /\ queue \in Seq(Nat)
      /\ coord.barrier \in BOOLEAN /\ coord.terminal \in Nat
  BY DEF TypeOK, Coordinator
<1>s. Submit => /\ coord'.barrier = coord.barrier /\ coord'.terminal = coord.terminal
                /\ coord.barrier => queue' = queue
  BY SubmitFacts DEF Admits
<1>1. CASE ClaimTurn  BY <1>0, <1>1 DEF ClaimTurn, Barred, QuietEnd, Coordinator
<1>2. CASE PostStarted \/ StartedReturns \/ Clean \/ Handle
  BY <1>2 DEF PostStarted, StartedReturns, Clean, Handle, Barred, QuietEnd
<1>3. CASE Delta  BY <1>s, <1>3 DEF Delta, Barred, QuietEnd
<1>4. ASSUME NEW p \in Tools, LookUp(p) \/ BuildPayload(p) \/ SubmitTool(p) PROVE Barred'
  <2>1. CASE LookUp(p) \/ BuildPayload(p)  BY <2>1 DEF LookUp, BuildPayload, Barred, QuietEnd
  <2>2. CASE SubmitTool(p)  BY <1>s, <2>2 DEF SubmitTool, Barred, QuietEnd
  <2> QED BY <1>4, <2>1, <2>2
<1>5. ASSUME NEW a \in Askers, NumberAsk(a) \/ PostAsk(a) PROVE Barred'
  <2>1. CASE NumberAsk(a)
    <3>1. coord'.barrier = coord.barrier /\ coord'.terminal = coord.terminal
      BY <1>0, <2>1 DEF NumberAsk, Coordinator
    <3> QED BY <2>1, <3>1 DEF NumberAsk, Barred, QuietEnd
  <2>2. CASE PostAsk(a)  BY <2>2 DEF PostAsk, Barred, QuietEnd
  <2> QED BY <1>5, <2>1, <2>2
<1>6. CASE Worker
  <2>1. CASE Take  BY <2>1 DEF Take, Barred, QuietEnd
  <2>2. CASE PostReturns \/ FindEmpty \/ LookClosed
    BY <2>2 DEF PostReturns, FindEmpty, LookClosed, AfterEmpty, At, Barred, QuietEnd
  <2> QED BY <1>6, <2>1, <2>2 DEF Worker
<1>7. ASSUME NEW e \in Enders, EndTurn(e) \/ End(e) PROVE Barred'
  <2> USE DEF EndSteps
  <2>0. /\ \A f \in Enders : f # e => ender'[f] = ender[f]
        /\ UNCHANGED <<queue, worker>>
    BY <1>7, EndStep DEF EndTurn, End, CloseBarrier, BeginDrain, EndDrain, PostTerminal,
                         TerminalReturns
  <2>1. /\ coord.barrier => coord'.barrier
        /\ coord'.terminal = coord.terminal \/ coord'.barrier
    BY <1>0, <1>7 DEF EndTurn, End, CloseBarrier, BeginDrain, EndDrain, PostTerminal,
                      TerminalReturns, Coordinator
  <2>2. CASE EndTurn(e)
    <3>1. ender'[e].at \in {"owning", "done"}  BY <2>2, EndMoves DEF EndTurn
    <3> QED BY <2>0, <2>1, <3>1 DEF Barred, QuietEnd
  <2>3. CASE CloseBarrier(e)
    <3>1. ender'[e].at \in {"closing", "undrained"} /\ coord'.barrier
      BY <1>0, <2>3, EndMoves DEF CloseBarrier, Coordinator
    <3> QED BY <2>0, <2>1, <3>1 DEF Barred, QuietEnd
  <2>4. CASE BeginDrain(e)
    <3>1. ender'[e].at = "draining" /\ ender[e].at = "closing"
      BY <2>4, EndMoves DEF BeginDrain
    <3> QED BY <2>0, <2>1, <3>1 DEF Barred, QuietEnd
  <2>5. CASE EndDrain(e)
    <3>1. /\ ender[e].at = "draining"
          /\ \/ ender'[e].at = "undrained"
             \/ ender'[e].at = "drained" /\ Unfinished = 0
      BY <2>5, EndMoves DEF EndDrain
    <3>2. Unfinished = 0 => queue = <<>> /\ worker.at # "posting"
      BY <1>0 DEF Unfinished
    <3> QED BY <2>0, <2>1, <3>1, <3>2 DEF Barred, QuietEnd
  <2>6. CASE PostTerminal(e)
    <3>1. ender'[e].at = "posting" /\ coord'.barrier
      BY <2>6 DEF PostTerminal, TypeOK
    <3> QED BY <2>0, <2>1, <3>1 DEF Barred, QuietEnd
  <2>7. CASE TerminalReturns(e)
    <3>1. ender'[e].at = "done"  BY <2>7, EndMoves DEF TerminalReturns
    <3> QED BY <2>0, <2>1, <3>1 DEF Barred, QuietEnd
  <2> QED BY <1>7, <2>2, <2>3, <2>4, <2>5, <2>6, <2>7 DEF End
<1>8. CASE CleanReturns
  <2>1. coord'.barrier = coord.barrier /\ coord'.terminal = coord.terminal
    BY <1>0, <1>8 DEF CleanReturns, Coordinator
  <2> QED BY <1>8, <2>1 DEF CleanReturns, Barred, QuietEnd
<1>9. CASE UNCHANGED vars  BY <1>9 DEF vars, Barred, QuietEnd
<1> QED BY <1>1, <1>2, <1>3, <1>4, <1>5, <1>6, <1>7, <1>8, <1>9 DEF Next

\* Numbers are allocated under the runtime's lock or the coordinator's: the first
\* needs a turn that no end owns, the second an open barrier.
LEMMA NumberedStep == TypeOK /\ Life /\ Barred /\ Numbered /\ [Next]_vars => Numbered'
<1> SUFFICES ASSUME TypeOK, Life, Barred, Numbered, [Next]_vars PROVE Numbered'  OBVIOUS
<1> USE DEF runtime, threads, sidecar
<1>0. /\ coord \in Coordinator /\ coord.next \in Nat /\ coord.terminal \in Nat
      /\ queue \in Seq(Nat) /\ posted \subseteq Nat /\ Len(queue) \in Nat
      /\ ask \in [Askers -> [at : AskSteps, seq : Nat]]
      /\ ender \in [Enders -> [at : EndSteps, seq : Nat]]
      /\ \A i \in 1..Len(queue) : queue[i] \in Nat
  BY DEF TypeOK, Coordinator
<1>s. ASSUME Submit, starting # "none", UNCHANGED <<bound, owner, posted, ask, ender>> PROVE Numbered'
  <2>1. CASE UNCHANGED <<coord, queue>>  BY <1>s, <2>1 DEF Numbered
  <2>2. CASE ~UNCHANGED <<coord, queue>>
    <3>1. /\ coord.terminal = 0 /\ coord'.terminal = 0 /\ coord'.next = coord.next + 1
          /\ coord.next >= 1
          /\ queue' = queue \/ queue' = Append(queue, coord.next)
      BY <1>0, <1>s, <2>2, SubmitFacts DEF Admits, Barred, Life
    <3>2. \A i \in 1..Len(queue') : 1 <= queue'[i] /\ queue'[i] < coord'.next
      <4>1. CASE queue' = queue  BY <1>0, <3>1, <4>1 DEF Numbered
      <4>2. CASE queue' = Append(queue, coord.next)
        <5>1. /\ Len(queue') = Len(queue) + 1 /\ queue'[Len(queue) + 1] = coord.next
              /\ \A i \in 1..Len(queue) : queue'[i] = queue[i]
          BY <1>0, <4>2, AppendFacts
        <5>2. \A i \in 1..Len(queue') : i = Len(queue) + 1 \/ i \in 1..Len(queue)
          BY <1>0, <5>1
        <5>3. \A i \in 1..Len(queue) : 1 <= queue[i] /\ queue[i] < coord.next  BY DEF Numbered
        <5> QED BY <1>0, <3>1, <5>1, <5>2, <5>3
      <4> QED BY <3>1, <4>1, <4>2
    <3> QED BY <1>0, <1>s, <3>1, <3>2 DEF Numbered
  <2> QED BY <2>1, <2>2
<1>1. CASE ClaimTurn
  <2>1. coord.next = 0 /\ coord'.next = 1 /\ coord'.terminal = coord.terminal
    BY <1>0, <1>1 DEF ClaimTurn, Life, Coordinator
  <2>2. coord.terminal = 0  BY <1>0, <2>1 DEF Numbered
  <2> QED BY <1>0, <1>1, <2>1, <2>2 DEF ClaimTurn, Numbered
<1>2. CASE PostStarted \/ StartedReturns \/ Handle
  BY <1>2 DEF PostStarted, StartedReturns, Handle, Numbered
<1>3. CASE Delta  BY <1>3, <1>s DEF Delta, CardActive, Life
<1>4. ASSUME NEW p \in Tools, LookUp(p) \/ BuildPayload(p) \/ SubmitTool(p) PROVE Numbered'
  <2>1. CASE LookUp(p) \/ BuildPayload(p)  BY <2>1 DEF LookUp, BuildPayload, Numbered
  <2>2. CASE SubmitTool(p)  BY <1>s, <2>2 DEF SubmitTool, Life
  <2> QED BY <1>4, <2>1, <2>2
<1>5. ASSUME NEW a \in Askers, NumberAsk(a) \/ PostAsk(a) PROVE Numbered'
  <2>1. CASE NumberAsk(a)
    <3>1. /\ coord'.next = coord.next + 1 /\ coord'.terminal = coord.terminal
          /\ bound /\ owner = Nobody
          /\ ask' = [ask EXCEPT ![a] = [at |-> "numbered", seq |-> coord.next]]
          /\ UNCHANGED <<queue, posted, ender, bound, owner>>
      BY <1>0, <2>1 DEF NumberAsk, CardActive, Coordinator
    <3>2. coord.terminal = 0 /\ coord.next >= 1  BY <1>0, <3>1 DEF Numbered, Life
    <3>3. \A b \in Askers : IF ask'[b].at = "idle" THEN ask'[b].seq = 0
                            ELSE 1 <= ask'[b].seq /\ ask'[b].seq < coord'.next
      BY <1>0, <3>1, <3>2 DEF Numbered
    <3> QED BY <1>0, <3>1, <3>2, <3>3 DEF Numbered
  <2>2. CASE PostAsk(a)
    <3>1. /\ \A b \in Askers : ask'[b].seq = ask[b].seq /\ (ask'[b].at = "idle" <=> ask[b].at = "idle")
      BY <2>2, AskMoves DEF PostAsk, AskSteps
    <3> QED BY <2>2, <3>1 DEF PostAsk, Numbered
  <2> QED BY <1>5, <2>1, <2>2
<1>6. CASE Worker
  <2>1. CASE Take
    <3>1. /\ Len(queue) >= 1 /\ Len(queue') = Len(queue) - 1 /\ posted' = posted \cup {queue[1]}
          /\ \A i \in 1..Len(queue') : queue'[i] = queue[i + 1]
      BY <1>0, <2>1, TailFacts DEF Take
    <3>2. \A i \in 1..Len(queue') : i + 1 \in 1..Len(queue)  BY <1>0, <3>1
    <3>3. 1 \in 1..Len(queue)  BY <1>0, <3>1
    <3> QED BY <2>1, <3>1, <3>2, <3>3 DEF Take, Numbered
  <2>2. CASE PostReturns \/ FindEmpty \/ LookClosed
    BY <2>2 DEF PostReturns, FindEmpty, LookClosed, Numbered
  <2> QED BY <1>6, <2>1, <2>2 DEF Worker
<1>7. ASSUME NEW e \in Enders, EndTurn(e) \/ End(e) PROVE Numbered'
  <2>0. /\ \A f \in Enders : f # e => ender'[f] = ender[f]
        /\ UNCHANGED <<queue, posted, ask>>
        /\ ~PostTerminal(e) => ender'[e].seq = ender[e].seq
    BY <1>7, EndStep DEF EndTurn, End, CloseBarrier, BeginDrain, EndDrain, PostTerminal,
                         TerminalReturns
  <2>1. CASE PostTerminal(e)
    <3> DEFINE seq == IF coord.terminal # 0 THEN coord.terminal ELSE coord.next
    <3>1. /\ coord'.terminal = seq /\ ender'[e].seq = seq
          /\ coord'.next = (IF coord.terminal # 0 THEN coord.next ELSE coord.next + 1)
          /\ UNCHANGED <<bound, owner>> /\ ender[e].at # "idle"
      BY <1>0, <2>1 DEF PostTerminal
    <3>2. coord.next >= 1 /\ (~bound \/ owner # Nobody)
      BY <3>1, EventsAssumption DEF Life
    <3>3. CASE coord.terminal # 0  BY <1>0, <2>0, <3>1, <3>3 DEF Numbered
    <3>4. CASE coord.terminal = 0
      <4>1. coord'.terminal = coord.next /\ coord'.next = coord.next + 1 /\ ender'[e].seq = coord.next
        BY <3>1, <3>4
      <4>2. \A a \in Askers : ask[a].seq < coord.next  BY <1>0, <3>2 DEF Numbered
      <4>3. \A f \in Enders : f # e => ender'[f].seq = 0
        BY <1>0, <2>0, <3>4 DEF Numbered
      <4> QED BY <1>0, <2>0, <3>1, <3>2, <4>1, <4>2, <4>3 DEF Numbered
    <3> QED BY <3>3, <3>4
  <2>2. CASE ~PostTerminal(e)
    <3>1. /\ coord'.next = coord.next /\ coord'.terminal = coord.terminal
      BY <1>0, <1>7, <2>2 DEF EndTurn, End, CloseBarrier, BeginDrain, EndDrain,
                              TerminalReturns, Coordinator
    <3>2. (~bound \/ owner # Nobody) => (~bound' \/ owner' # Nobody)
      BY <1>7, <2>2, EventsAssumption DEF EndTurn, Ownable, End, CloseBarrier, BeginDrain, EndDrain,
                              TerminalReturns, Forget
    <3>3. \A f \in Enders : ender'[f].seq = ender[f].seq  BY <2>0, <2>2
    <3> QED BY <2>0, <3>1, <3>2, <3>3 DEF Numbered
  <2> QED BY <2>1, <2>2
<1>8. CASE Clean
  <2>1. ~bound'  BY <1>8 DEF Clean, Forget
  <2> QED BY <1>8, <2>1 DEF Clean, Numbered
<1>9. CASE CleanReturns
  <2>1. coord'.next = coord.next /\ coord'.terminal = coord.terminal
    BY <1>0, <1>9 DEF CleanReturns, Coordinator
  <2> QED BY <1>9, <2>1 DEF CleanReturns, Numbered
<1>10. CASE UNCHANGED vars  BY <1>10 DEF vars, Numbered
<1> QED BY <1>1, <1>2, <1>3, <1>4, <1>5, <1>6, <1>7, <1>8, <1>9, <1>10 DEF Next

-----------------------------------------------------------------------------
\* What a submission, a post and the worker do to the order.
LEMMA SubmitOrdered ==
    ASSUME TypeOK, Numbered, Ordered, Submit, coord.next >= 1,
           UNCHANGED <<posted, ask, wire, card, stale>>
    PROVE  Ordered'
<1>0. /\ coord.next \in Nat /\ queue \in Seq(Nat) /\ Len(queue) \in Nat /\ posted \subseteq Nat
      /\ card.last \in Nat /\ card.asked \in Nat
      /\ \A i \in 1..Len(queue) : queue[i] \in Nat
  BY DEF TypeOK, Coordinator
<1>1. UnderWay'  BY DEF Ordered, UnderWay
<1>2. coord'.next >= coord.next /\ coord'.next \in Nat  BY <1>0, SubmitFacts
<1>3. CASE queue' = queue
  <2>1. Queued'  BY <1>3 DEF Ordered, Queued
  <2>2. Arrived'  BY <1>0, <1>2, <1>3 DEF Ordered, Arrived, Late, OnlyAskOvertakes
  <2> QED BY <1>1, <2>1, <2>2 DEF Ordered
<1>4. CASE queue' = Append(queue, coord.next)
  <2>1. /\ Len(queue') = Len(queue) + 1 /\ queue'[Len(queue) + 1] = coord.next
        /\ \A i \in 1..Len(queue) : queue'[i] = queue[i]
    BY <1>0, <1>4, AppendFacts
  <2>a. \A i \in 1..Len(queue') : i = Len(queue) + 1 \/ i \in 1..Len(queue)
    BY <1>0, <2>1
  <2>b. /\ \A i \in 1..Len(queue) : queue[i] < coord.next
        /\ \A t \in posted : t < coord.next
        /\ \A a \in Askers : ask[a].at # "idle" => ask[a].seq < coord.next
    BY DEF Numbered
  <2>2. Queued'
    <3>1. \A i, j \in 1..Len(queue') : i < j => queue'[i] < queue'[j]
      <4>1. TAKE i, j \in 1..Len(queue')
      <4>2. HAVE i < j
      <4>3. i \in 1..Len(queue)  BY <1>0, <2>a, <4>2, <2>1
      <4> QED BY <2>1, <2>a, <2>b, <4>2, <4>3 DEF Ordered, Queued
    <3>2. \A i \in 1..Len(queue') : \A t \in posted' : t < queue'[i]
      BY <2>1, <2>a, <2>b DEF Ordered, Queued
    <3>3. \A a \in Askers : ask'[a].at # "idle" =>
              ask'[a].seq \notin posted' /\ \A i \in 1..Len(queue') : queue'[i] # ask'[a].seq
      <4>1. TAKE a \in Askers
      <4>2. HAVE ask'[a].at # "idle"
      <4>3. ask[a].seq \in Nat /\ ask' = ask  BY DEF TypeOK
      <4>4. coord.next # ask[a].seq  BY <1>0, <2>b, <4>2, <4>3
      <4>5. /\ ask[a].seq \notin posted
            /\ \A i \in 1..Len(queue) : queue[i] # ask[a].seq
        BY <4>2, <4>3 DEF Ordered, Queued
      <4> QED BY <2>1, <2>a, <4>3, <4>4, <4>5
    <3> QED BY <3>1, <3>2, <3>3 DEF Queued
  <2>3. Late(coord.next)  BY <1>0 DEF Ordered, Arrived, Late
  <2>4. \A i \in 1..Len(queue') : Late(queue'[i])
    BY <1>0, <2>1, <2>3 DEF Ordered, Arrived
  <2>5. Arrived'  BY <1>0, <1>2, <2>4 DEF Ordered, Arrived, Late, OnlyAskOvertakes
  <2> QED BY <1>1, <2>2, <2>5 DEF Ordered
<1> QED BY <1>3, <1>4, SubmitFacts

LEMMA TakeOrdered == TypeOK /\ Numbered /\ Ordered /\ Take => Ordered'
<1> SUFFICES ASSUME TypeOK, Numbered, Ordered, Take PROVE Ordered'  OBVIOUS
<1> DEFINE s == queue[1]
<1>0. /\ queue \in Seq(Nat) /\ Len(queue) \in Nat /\ wire \in Seq(Message) /\ Len(wire) \in Nat
      /\ card.last \in Nat /\ card.asked \in Nat /\ posted \subseteq Nat
  BY DEF TypeOK
<1>1. /\ Len(queue) >= 1 /\ Len(queue') = Len(queue) - 1 /\ s \in Nat
      /\ posted' = posted \cup {s} /\ Post("observer", s)
      /\ \A i \in 1..Len(queue') : queue'[i] = queue[i + 1]
      /\ UNCHANGED <<coord, ask, card, stale>>
  BY <1>0, TailFacts DEF Take, threads, sidecar, runtime
<1>2. 1 \in 1..Len(queue) /\ \A i \in 1..Len(queue') : i + 1 \in 1..Len(queue) /\ 1 < i + 1
  BY <1>0, <1>1
<1>3. Queued'
  <2>1. \A i, j \in 1..Len(queue') : i < j => queue'[i] < queue'[j]
    BY <1>1, <1>2 DEF Ordered, Queued
  <2>2. \A i \in 1..Len(queue') : \A t \in posted' : t < queue'[i]
    BY <1>1, <1>2 DEF Ordered, Queued
  <2>3. \A a \in Askers : ask'[a].at # "idle" =>
            ask'[a].seq \notin posted' /\ \A i \in 1..Len(queue') : queue'[i] # ask'[a].seq
    BY <1>1, <1>2 DEF Ordered, Queued
  <2> QED BY <2>1, <2>2, <2>3 DEF Queued
<1>4. Late(s) /\ (\A t \in posted : t < s) /\ \A i \in 1..Len(queue') : Late(queue'[i])
  BY <1>1, <1>2 DEF Ordered, Queued, Arrived
<1> HIDE DEF s
<1>5. \/ wire' = wire
      \/ /\ Len(wire') = Len(wire) + 1
         /\ \A i \in 1..Len(wire) : wire'[i] = wire[i]
         /\ wire'[Len(wire) + 1].kind = "observer" /\ wire'[Len(wire) + 1].seq = s
  BY <1>1, PostFacts
<1>6. UnderWay'
  <2>1. CASE wire' = wire  BY <1>1, <2>1 DEF Ordered, UnderWay
  <2>2. CASE wire' # wire
    <3>1. \A i \in 1..Len(wire) : wire'[i].kind = "observer" => wire'[i].seq < s
      BY <1>4, <1>5, <2>2 DEF Ordered, UnderWay
    <3>2. \A i \in 1..Len(wire') : i = Len(wire) + 1 \/ i \in 1..Len(wire)
      BY <1>0, <1>5, <2>2
    <3>3. \A i, j \in 1..Len(wire') : i < j => i \in 1..Len(wire)
      BY <1>0, <1>5, <2>2
    <3>4. \A i, j \in 1..Len(wire') :
              i < j /\ wire'[i].kind = "observer" /\ wire'[j].kind = "observer"
              => wire'[i].seq < wire'[j].seq
      <4>1. TAKE i, j \in 1..Len(wire')
      <4>2. HAVE i < j /\ wire'[i].kind = "observer" /\ wire'[j].kind = "observer"
      <4>3. i \in 1..Len(wire)  BY <3>3, <4>2
      <4>4. CASE j = Len(wire) + 1  BY <1>5, <2>2, <3>1, <4>2, <4>3, <4>4
      <4>5. CASE j \in 1..Len(wire)  BY <1>5, <2>2, <4>2, <4>3, <4>5 DEF Ordered, UnderWay
      <4> QED BY <3>2, <4>4, <4>5
    <3>5. \A i \in 1..Len(wire') : wire'[i].kind = "observer" => wire'[i].seq \in posted'
      BY <1>1, <1>5, <2>2, <3>2 DEF Ordered, UnderWay
    <3>6. \A i \in 1..Len(wire') : wire'[i].kind = "interaction" =>
              \E a \in Askers : ask'[a].at = "done" /\ ask'[a].seq = wire'[i].seq
      BY <1>1, <1>5, <2>2, <3>2 DEF Ordered, UnderWay
    <3> QED BY <3>4, <3>5, <3>6 DEF UnderWay
  <2> QED BY <2>1, <2>2
<1>7. Arrived'
  <2>1. \A i \in 1..Len(wire') : wire'[i].kind = "observer" => Late(wire'[i].seq)
    BY <1>0, <1>4, <1>5 DEF Ordered, Arrived
  <2> QED BY <1>1, <1>4, <2>1 DEF Ordered, Arrived, Late, OnlyAskOvertakes
<1> QED BY <1>3, <1>6, <1>7 DEF Ordered

\* A message of another kind joins the others on the wire.
LEMMA PostOrdered ==
    ASSUME TypeOK, Ordered, NEW k \in {"started", "interaction", "terminal"}, NEW n \in Nat,
           Post(k, n), UNCHANGED <<queue, posted, card, stale>>, coord'.next >= coord.next,
           coord'.next \in Nat,
           \A a \in Askers : /\ ask'[a].seq = ask[a].seq
                             /\ ask[a].at = "done" => ask'[a].at = "done"
                             /\ ask'[a].at = "idle" <=> ask[a].at = "idle",
           k = "interaction" => \E a \in Askers : ask'[a].at = "done" /\ ask'[a].seq = n
    PROVE  Ordered'
<1>0. /\ wire \in Seq(Message) /\ Len(wire) \in Nat /\ card.last \in Nat /\ coord.next \in Nat
  BY DEF TypeOK, Coordinator
<1>1. \/ wire' = wire
      \/ /\ Len(wire') = Len(wire) + 1
         /\ \A i \in 1..Len(wire) : wire'[i] = wire[i]
         /\ wire'[Len(wire) + 1].kind = k /\ wire'[Len(wire) + 1].seq = n
  BY PostFacts
<1>2. Queued'  BY DEF Ordered, Queued
<1>3. UnderWay'
  <2>1. CASE wire' = wire  BY <2>1 DEF Ordered, UnderWay
  <2>2. CASE wire' # wire
    <3>1. \A i \in 1..Len(wire') : i = Len(wire) + 1 \/ i \in 1..Len(wire)  BY <1>0, <1>1, <2>2
    <3> QED BY <1>1, <2>2, <3>1 DEF Ordered, UnderWay
  <2> QED BY <2>1, <2>2
<1>4. Arrived'
  <2>1. \A i \in 1..Len(wire') : wire'[i].kind = "observer" => i \in 1..Len(wire) /\ wire'[i] = wire[i]
    BY <1>0, <1>1
  <2> QED BY <1>0, <2>1 DEF Ordered, Arrived, Late, OnlyAskOvertakes
<1> QED BY <1>2, <1>3, <1>4 DEF Ordered

\* The sidecar takes the first message.
LEMMA HandleOrdered == TypeOK /\ Numbered /\ Ordered /\ Handle => Ordered'
<1> SUFFICES ASSUME TypeOK, Numbered, Ordered, Handle PROVE Ordered'  OBVIOUS
<1> DEFINE m == Head(wire)
<1>0. /\ wire \in Seq(Message) /\ Len(wire) \in Nat /\ posted \subseteq Nat /\ stale \subseteq Nat
      /\ card \in [status : {"none", "refused", "active", "ended"}, last : Nat, asked : Nat]
      /\ coord.next \in Nat /\ queue \in Seq(Nat) /\ Len(queue) \in Nat
      /\ \A i \in 1..Len(queue) : queue[i] \in Nat
  BY DEF TypeOK, Coordinator
<1>1. /\ Len(wire) >= 1 /\ Len(wire') = Len(wire) - 1 /\ m = wire[1] /\ m \in Message
      /\ \A i \in 1..Len(wire') : wire'[i] = wire[i + 1]
      /\ UNCHANGED <<coord, queue, posted, ask>>
      /\ HandleStarted(m) \/ HandleUpdate(m) \/ HandleTerminal(m)
  BY <1>0, TailFacts DEF Handle, threads, runtime
<1>2. /\ 1 \in 1..Len(wire)
      /\ \A i \in 1..Len(wire') : i + 1 \in 1..Len(wire) /\ 1 < i + 1
  BY <1>0, <1>1
<1>3. m.kind \in {"started", "observer", "interaction", "terminal"} /\ m.seq \in Nat
  BY <1>1 DEF Message
<1> HIDE DEF m
<1>4. Queued'  BY <1>1 DEF Ordered, Queued
<1>5. UnderWay'
  <2>1. \A i, j \in 1..Len(wire') : i < j => i + 1 < j + 1  BY <1>0, <1>1
  <2>2. \A i, j \in 1..Len(wire') :
            i < j /\ wire'[i].kind = "observer" /\ wire'[j].kind = "observer"
            => wire'[i].seq < wire'[j].seq
    <3>1. TAKE i, j \in 1..Len(wire')
    <3>2. HAVE i < j /\ wire'[i].kind = "observer" /\ wire'[j].kind = "observer"
    <3>3. /\ i + 1 \in 1..Len(wire) /\ j + 1 \in 1..Len(wire) /\ i + 1 < j + 1
          /\ wire'[i] = wire[i + 1] /\ wire'[j] = wire[j + 1]
      BY <1>1, <1>2, <2>1, <3>2
    <3> QED BY <3>2, <3>3 DEF Ordered, UnderWay
  <2>3. \A i \in 1..Len(wire') : \E j \in 1..Len(wire) : wire'[i] = wire[j]
    BY <1>1, <1>2
  <2>4. /\ \A i \in 1..Len(wire') : wire'[i].kind = "observer" => wire'[i].seq \in posted'
        /\ \A i \in 1..Len(wire') : wire'[i].kind = "interaction" =>
               \E a \in Askers : ask'[a].at = "done" /\ ask'[a].seq = wire'[i].seq
    BY <1>1, <2>3 DEF Ordered, UnderWay
  <2> QED BY <2>2, <2>4 DEF UnderWay
<1>6. \A i \in 1..Len(wire') : wire'[i].kind = "observer" =>
          /\ wire'[i].seq \in posted /\ Late(wire'[i].seq)
          /\ m.kind = "observer" => m.seq < wire'[i].seq
  BY <1>1, <1>2 DEF Ordered, UnderWay, Arrived
<1>7. /\ card.asked <= card.last /\ (card.last = 0 \/ card.last < coord.next)
      /\ \A i \in 1..Len(queue) : Late(queue[i])
      /\ \A t \in stale : t < card.asked
      /\ m.kind = "observer" => Late(m.seq)
  BY <1>1, <1>2 DEF Ordered, Arrived, OnlyAskOvertakes
<1>8. CASE UNCHANGED <<card.last, card.asked>> /\ stale' = stale
  BY <1>1, <1>4, <1>5, <1>6, <1>7, <1>8 DEF Ordered, Arrived, Late, OnlyAskOvertakes
<1>9. CASE HandleUpdate(m)
  <2>1. CASE card.status # "active" \/ TooOld(m)
    <3>1. /\ UNCHANGED <<card.last, card.asked>>
          /\ stale' = stale \/ (TooOld(m) /\ m.kind = "observer" /\ stale' = stale \cup {m.seq})
      BY <1>9, <2>1 DEF HandleUpdate
    <3>2. \A t \in stale' : t < card.asked
      <4>1. TooOld(m) /\ m.kind = "observer" => m.seq < card.asked
        BY <1>0, <1>3, <1>7 DEF TooOld, Late
      <4> QED BY <1>7, <3>1, <4>1
    <3> QED BY <1>1, <1>4, <1>5, <1>6, <1>7, <3>1, <3>2 DEF Ordered, Arrived, Late, OnlyAskOvertakes
  <2>2. CASE m.kind = "observer" /\ card.status = "active" /\ ~TooOld(m)
    <3>1. card' = [card EXCEPT !.last = m.seq, !.asked = card.asked] /\ stale' = stale
      BY <1>0, <1>9, <2>2 DEF HandleUpdate
    <3>2. card'.last = m.seq /\ card'.asked = card.asked /\ card.last < m.seq
      BY <1>0, <1>3, <2>2, <3>1 DEF TooOld
    <3>3. m.seq \in posted  BY <1>1, <1>2, <2>2 DEF Ordered, UnderWay
    <3>4. m.seq < coord.next /\ \A i \in 1..Len(queue) : m.seq < queue[i]
      BY <3>3 DEF Numbered, Ordered, Queued
    <3>5. \A i \in 1..Len(wire') : wire'[i].kind = "observer" => m.seq < wire'[i].seq
      BY <1>6, <2>2
    <3> QED BY <1>0, <1>1, <1>3, <1>4, <1>5, <1>7, <3>1, <3>2, <3>4, <3>5
            DEF Ordered, Arrived, Late, OnlyAskOvertakes
  <2>3. CASE m.kind = "interaction" /\ card.status = "active" /\ ~TooOld(m)
    <3>1. card' = [card EXCEPT !.last = m.seq, !.asked = m.seq] /\ stale' = stale
      BY <1>9, <2>3 DEF HandleUpdate
    <3>2. card'.last = m.seq /\ card'.asked = m.seq /\ card.last < m.seq
      BY <1>0, <1>3, <2>3, <3>1 DEF TooOld
    <3>3. PICK a \in Askers : ask[a].at = "done" /\ ask[a].seq = m.seq
      BY <1>1, <1>2, <2>3 DEF Ordered, UnderWay
    <3>4. m.seq < coord.next  BY <3>3 DEF Numbered
    <3>5. m.seq \notin posted /\ \A i \in 1..Len(queue) : queue[i] # m.seq
      BY <3>3 DEF Ordered, Queued
    <3>6. \A i \in 1..Len(queue') : Late(queue[i])'
      BY <1>0, <1>1, <1>3, <3>2, <3>5 DEF Late
    <3>7. \A i \in 1..Len(wire') : wire'[i].kind = "observer" => Late(wire[i].seq)'
      <4>1. TAKE i \in 1..Len(wire')
      <4>2. HAVE wire'[i].kind = "observer"
      <4>3. wire'[i].seq \in Nat /\ wire'[i].seq # m.seq  BY <1>0, <1>6, <3>5, <4>2
      <4> QED BY <1>3, <3>2, <4>3 DEF Late
    <3>8. \A t \in stale' : t < card'.asked  BY <1>0, <1>3, <1>7, <3>1, <3>2
    <3> QED BY <1>0, <1>1, <1>3, <1>4, <1>5, <3>2, <3>4, <3>6, <3>7, <3>8
            DEF Ordered, Arrived, OnlyAskOvertakes
  <2> QED BY <1>9, <2>1, <2>2, <2>3 DEF HandleUpdate
<1>10. HandleStarted(m) \/ HandleTerminal(m) => UNCHANGED <<card.last, card.asked>> /\ stale' = stale
  BY <1>0 DEF HandleStarted, HandleTerminal
<1> QED BY <1>1, <1>8, <1>9, <1>10

LEMMA OrderedStep == TypeOK /\ Life /\ Numbered /\ Ordered /\ [Next]_vars => Ordered'
<1> SUFFICES ASSUME TypeOK, Life, Numbered, Ordered, [Next]_vars PROVE Ordered'  OBVIOUS
<1> USE DEF runtime, threads, sidecar
<1>0. coord \in Coordinator /\ coord.next \in Nat  BY DEF TypeOK, Coordinator
<1>1. ASSUME UNCHANGED <<queue, posted, ask, wire, card, stale>>, coord'.next >= coord.next,
             coord'.next \in Nat
      PROVE  Ordered'
  <2>1. Queued' /\ UnderWay'  BY <1>1 DEF Ordered, Queued, UnderWay
  <2>2. card.last \in Nat  BY DEF TypeOK
  <2> QED BY <1>0, <1>1, <2>1, <2>2 DEF Ordered, Arrived, Late, OnlyAskOvertakes
<1>2. CASE ClaimTurn
  <2>1. coord.next = 0 /\ coord'.next = 1  BY <1>0, <1>2 DEF ClaimTurn, Life, Coordinator
  <2> QED BY <1>1, <1>2, <2>1 DEF ClaimTurn
<1>3. CASE PostStarted
  <2>1. CASE MayPost
    <3>1. Post("started", 0) /\ UNCHANGED <<coord, queue, posted, ask, card, stale>>
      BY <1>3, <2>1 DEF PostStarted
    <3> QED BY <1>0, <3>1, PostOrdered
  <2>2. CASE ~MayPost  BY <1>0, <1>1, <1>3, <2>2 DEF PostStarted
  <2> QED BY <2>1, <2>2
<1>4. CASE StartedReturns \/ Clean  BY <1>0, <1>1, <1>4 DEF StartedReturns, Clean
<1>5. CASE Delta  BY <1>5, SubmitOrdered DEF Delta, CardActive, Life
<1>6. ASSUME NEW p \in Tools, LookUp(p) \/ BuildPayload(p) \/ SubmitTool(p) PROVE Ordered'
  <2>1. CASE LookUp(p) \/ BuildPayload(p)  BY <1>0, <1>1, <2>1 DEF LookUp, BuildPayload
  <2>2. CASE SubmitTool(p)  BY <2>2, SubmitOrdered DEF SubmitTool, Life
  <2> QED BY <1>6, <2>1, <2>2
<1>7. ASSUME NEW a \in Askers, NumberAsk(a) \/ PostAsk(a) PROVE Ordered'
  <2>1. CASE NumberAsk(a)
    <3>0. /\ ask \in [Askers -> [at : AskSteps, seq : Nat]] /\ posted \subseteq Nat
          /\ queue \in Seq(Nat) /\ \A i \in 1..Len(queue) : queue[i] \in Nat
          /\ card.last \in Nat
      BY DEF TypeOK
    <3>1. /\ coord'.next = coord.next + 1 /\ ask[a].at = "idle"
          /\ ask' = [ask EXCEPT ![a] = [at |-> "numbered", seq |-> coord.next]]
          /\ UNCHANGED <<queue, posted, wire, card, stale>>
      BY <1>0, <2>1 DEF NumberAsk, Coordinator
    <3>2. /\ ask'[a].seq = coord.next /\ \A b \in Askers : b # a => ask'[b] = ask[b]
      BY <3>0, <3>1
    <3>3. coord.next \notin posted /\ \A i \in 1..Len(queue) : queue[i] # coord.next
      BY <1>0, <3>0 DEF Numbered
    <3>4. Queued'  BY <3>1, <3>2, <3>3 DEF Ordered, Queued
    <3>5. UnderWay'  BY <3>1, <3>2 DEF Ordered, UnderWay
    <3>6. Arrived'  BY <1>0, <3>0, <3>1 DEF Ordered, Arrived, Late, OnlyAskOvertakes
    <3> QED BY <3>4, <3>5, <3>6 DEF Ordered
  <2>2. CASE PostAsk(a)
    <3>1. /\ ask[a].at = "numbered" /\ Post("interaction", ask[a].seq) /\ ask[a].seq \in Nat
          /\ UNCHANGED <<coord, queue, posted, card, stale>>
      BY <2>2 DEF PostAsk, TypeOK
    <3>2. /\ ask'[a].at = "done" /\ ask'[a].seq = ask[a].seq
          /\ \A b \in Askers : b # a => ask'[b] = ask[b]
      BY <2>2, AskMoves DEF PostAsk, AskSteps
    <3> QED BY <1>0, <3>1, <3>2, PostOrdered
  <2> QED BY <1>7, <2>1, <2>2
<1>8. CASE Worker
  <2>1. CASE PostReturns \/ FindEmpty \/ LookClosed
    BY <1>0, <1>1, <2>1 DEF PostReturns, FindEmpty, LookClosed
  <2> QED BY <1>8, <2>1, TakeOrdered DEF Worker
<1>9. ASSUME NEW e \in Enders, EndTurn(e) \/ End(e) PROVE Ordered'
  <2>1. CASE PostTerminal(e)
    <3> DEFINE seq == IF coord.terminal # 0 THEN coord.terminal ELSE coord.next
    <3>1. seq \in Nat  BY <1>0 DEF Coordinator
    <3>2. /\ Post("terminal", seq) /\ UNCHANGED <<queue, posted, ask, card, stale>>
          /\ coord'.next >= coord.next /\ coord'.next \in Nat
      BY <1>0, <2>1 DEF PostTerminal
    <3> HIDE DEF seq
    <3> QED BY <3>1, <3>2, PostOrdered
  <2>2. CASE ~PostTerminal(e)
    <3>1. UNCHANGED <<queue, posted, ask, wire, card, stale>> /\ coord'.next = coord.next
      BY <1>0, <1>9, <2>2 DEF EndTurn, End, CloseBarrier, BeginDrain, EndDrain,
                              TerminalReturns, Coordinator
    <3> QED BY <1>0, <1>1, <3>1
  <2> QED BY <2>1, <2>2
<1>10. CASE CleanReturns
  <2>1. coord'.next = coord.next  BY <1>0, <1>10 DEF CleanReturns, Coordinator
  <2> QED BY <1>0, <1>1, <1>10, <2>1 DEF CleanReturns
<1>11. CASE UNCHANGED vars  BY <1>0, <1>1, <1>11 DEF vars
<1> QED
  BY <1>2, <1>3, <1>4, <1>5, <1>6, <1>7, <1>8, <1>9, <1>10, <1>11, HandleOrdered DEF Next

-----------------------------------------------------------------------------
\* The invariant, and what it implies.
LEMMA InvInit == Init => IInv
<1> SUFFICES ASSUME Init PROVE IInv  OBVIOUS
<1>1. TypeOK  BY TypeInit
<1>2. /\ Len(queue) = 0 /\ Len(wire) = 0 /\ coord.next = 0 /\ coord.terminal = 0
      /\ card.last = 0 /\ card.asked = 0
      /\ \A e \in Enders : ender[e].at = "idle" /\ ender[e].seq = 0
      /\ \A a \in Askers : ask[a].at = "idle" /\ ask[a].seq = 0
  BY DEF Init, At
<1>3. Life /\ QuietAfterCleanup  BY <1>2 DEF Init, Life, QuietAfterCleanup
<1>4. Barred /\ Numbered  BY <1>2 DEF Init, Barred, QuietEnd, Numbered
<1>5. Ordered
  BY <1>2 DEF Init, Ordered, Queued, UnderWay, Arrived, Late, OnlyAskOvertakes
<1> QED BY <1>1, <1>3, <1>4, <1>5 DEF IInv

LEMMA InvStep == IInv /\ [Next]_vars => IInv'
  BY TypeStep, LifeStep, CleanStep, BarredStep, NumberedStep, OrderedStep DEF IInv

LEMMA InvHolds == Spec => []IInv
  BY InvInit, InvStep, PTL DEF Spec

\* Whoever posts the end, it is numbered once and above every event of the turn.
THEOREM TurnTerminalIsLast == Spec => []TerminalIsLast
<1>1. IInv => TerminalIsLast
  <2> SUFFICES ASSUME IInv PROVE TerminalIsLast  OBVIOUS
  <2>0. TypeOK /\ Life /\ Numbered  BY DEF IInv
  <2>1. \A e \in Ended : ender[e].at # "idle" /\ ender[e].seq # 0 /\ e \in Enders
    BY DEF Ended
  <2>2. \A e, f \in Ended : e = f  BY <2>0, <2>1 DEF Life
  <2>3. Cardinality(Ended) <= 1
    <3>1. CASE Ended = {}  BY <3>1, FS_EmptySet
    <3>2. CASE Ended # {}
      <4>1. PICK e : e \in Ended  BY <3>2
      <4>2. Ended = {e}  BY <2>2, <4>1
      <4> QED BY <4>2, FS_Singleton
    <3> QED BY <3>1, <3>2
  <2>4. ASSUME NEW e \in Ended, NEW n \in Numbers PROVE n < ender[e].seq
    <3>1. coord.terminal # 0 /\ ender[e].seq = coord.terminal
      BY <2>0, <2>1 DEF Numbered
    <3>2. CASE n \in Range(queue)
      <4>1. PICK i \in DOMAIN queue : n = queue[i]  BY <3>2 DEF Range
      <4>2. i \in 1..Len(queue)  BY <2>0, <4>1 DEF TypeOK
      <4> QED BY <2>0, <3>1, <4>1, <4>2 DEF Numbered
    <3>3. CASE n \in posted  BY <2>0, <3>1, <3>3 DEF Numbered
    <3>4. CASE \E a \in Askers : n = ask[a].seq  BY <2>0, <3>1, <3>4 DEF Numbered
    <3> QED BY <3>2, <3>3, <3>4 DEF Numbers
  <2> QED BY <2>3, <2>4 DEF TerminalIsLast
<1> QED BY <1>1, InvHolds, PTL

\* Only an interaction makes the sidecar ignore an observer event as too old.
THEOREM TurnOnlyAskOvertakes == Spec => []OnlyAskOvertakes
<1>1. IInv => OnlyAskOvertakes  BY DEF IInv, Ordered, Arrived
<1> QED BY <1>1, InvHolds, PTL

\* A drained queue stays drained until the end is posted.
THEOREM TurnQuietEnd == Spec => []QuietEnd
<1>1. IInv => QuietEnd  BY DEF IInv, Barred
<1> QED BY <1>1, InvHolds, PTL

\* A reset that has returned leaves no start to be posted.
THEOREM TurnQuietAfterCleanup == Spec => []QuietAfterCleanup
<1>1. IInv => QuietAfterCleanup  BY DEF IInv
<1> QED BY <1>1, InvHolds, PTL

-----------------------------------------------------------------------------
(* What WorkerReclaimed rests on: a turn that is forgotten is closed, or will *)
(* be by the thread that cleans up and waits for the start of the turn, which *)
(* the worker then finds; and nothing reopens it.                             *)

ForgottenIsClosing == starting # "none" /\ ~bound => coord.closed \/ cleaner = "waiting"

\* What is closed takes no event more, and the worker never comes back.
OnlyDrains ==
    /\ coord.closed => coord'.closed /\ Len(queue') <= Len(queue)
    /\ worker.at = "left" => worker' = worker

LEMMA ForgottenStep == TypeOK /\ Life /\ ForgottenIsClosing /\ [Next]_vars => ForgottenIsClosing'
<1> SUFFICES ASSUME TypeOK, Life, ForgottenIsClosing, [Next]_vars PROVE ForgottenIsClosing'
  OBVIOUS
<1> USE DEF ForgottenIsClosing, Forget
<1>1. CASE ClaimTurn
  BY <1>1 DEF ClaimTurn
<1>2. CASE PostStarted \/ StartedReturns
  BY <1>2 DEF PostStarted, StartedReturns, runtime
<1>3. ASSUME coord' = coord \/ coord'.closed = coord.closed, UNCHANGED <<bound, starting, cleaner>>
      PROVE  ForgottenIsClosing'
  BY <1>3
<1>4. CASE Delta \/ (\E p \in Tools : LookUp(p) \/ BuildPayload(p) \/ SubmitTool(p))
  <2>1. UNCHANGED <<bound, starting, cleaner>>
    BY <1>4 DEF Delta, LookUp, BuildPayload, SubmitTool, runtime, threads
  <2>2. Submit => coord'.closed = coord.closed
    BY DEF Submit, SubmitAs, TypeOK, Coordinator
  <2>3. coord' = coord \/ Submit
    BY <1>4 DEF Delta, LookUp, BuildPayload, SubmitTool
  <2> QED BY <1>3, <2>1, <2>2, <2>3
<1>5. ASSUME NEW a \in Askers, NumberAsk(a) \/ PostAsk(a) PROVE ForgottenIsClosing'
  BY <1>3, <1>5 DEF NumberAsk, PostAsk, runtime, TypeOK, Coordinator
<1>6. CASE Worker \/ Handle \/ UNCHANGED vars
  BY <1>6 DEF Worker, Take, PostReturns, FindEmpty, LookClosed, Handle, vars, runtime, threads
<1>7. ASSUME NEW e \in Enders, EndTurn(e) PROVE ForgottenIsClosing'
  BY <1>7 DEF EndTurn, TypeOK, Coordinator
<1>8. ASSUME NEW e \in Enders, End(e) PROVE ForgottenIsClosing'
  <2>1. coord.closed => coord'.closed
    <3>1. coord \in Coordinator
      BY DEF TypeOK
    <3>2. CASE CloseBarrier(e) \/ EndDrain(e)
      BY <3>1, <3>2 DEF CloseBarrier, EndDrain, Coordinator
    <3>3. CASE BeginDrain(e) \/ TerminalReturns(e)
      BY <3>1, <3>3 DEF BeginDrain, TerminalReturns, Coordinator
    <3>4. CASE PostTerminal(e)
      BY <3>4 DEF PostTerminal
    <3> QED BY <1>8, <3>2, <3>3, <3>4 DEF End
  <2>2. UNCHANGED <<starting, cleaner>>
    BY <1>8 DEF End, CloseBarrier, BeginDrain, EndDrain, PostTerminal, TerminalReturns
  <2>3. CASE UNCHANGED bound
    BY <2>1, <2>2, <2>3
  <2>4. CASE TerminalReturns(e)
    BY <2>4 DEF TerminalReturns, TypeOK, Coordinator
  <2> QED BY <1>8, <2>3, <2>4
          DEF End, CloseBarrier, BeginDrain, EndDrain, PostTerminal, runtime
<1>9. CASE Clean
  BY <1>9 DEF Clean
<1>10. CASE CleanReturns
  BY <1>10 DEF CleanReturns, TypeOK, Coordinator
<1> QED BY <1>1, <1>2, <1>4, <1>5, <1>6, <1>7, <1>8, <1>9, <1>10 DEF Next

LEMMA OnlyDrainsStep == TypeOK /\ [Next]_vars => OnlyDrains
<1> SUFFICES ASSUME TypeOK, [Next]_vars PROVE OnlyDrains
  OBVIOUS
<1>0. coord \in Coordinator /\ queue \in Seq(Nat) /\ Len(queue) \in Nat
  BY DEF TypeOK
<1>1. CASE UNCHANGED <<coord, queue, worker>>
  BY <1>0, <1>1 DEF OnlyDrains
<1>2. CASE Submit /\ UNCHANGED worker
  BY <1>0, <1>2 DEF OnlyDrains, Submit, SubmitAs, Admits, Coordinator
<1>3. CASE Worker
  <2>1. coord' = coord /\ worker.at # "left"
    BY <1>3 DEF Worker, Take, PostReturns, FindEmpty, LookClosed
  <2>2. queue' = queue \/ (queue # <<>> /\ queue' = Tail(queue))
    BY <1>3 DEF Worker, Take, PostReturns, FindEmpty, LookClosed
  <2>3. Len(queue') <= Len(queue)
    BY <1>0, <2>2
  <2> QED BY <2>1, <2>3 DEF OnlyDrains
<1>4. ASSUME coord.closed => coord'.closed, UNCHANGED <<queue, worker>> PROVE OnlyDrains
  BY <1>0, <1>4 DEF OnlyDrains
<1>5. ASSUME NEW a \in Askers, NumberAsk(a) \/ PostAsk(a) PROVE OnlyDrains
  BY <1>0, <1>4, <1>5 DEF NumberAsk, PostAsk, Coordinator
<1>6. ASSUME NEW e \in Enders, EndTurn(e) \/ End(e) PROVE OnlyDrains
  BY <1>0, <1>4, <1>6 DEF EndTurn, End, CloseBarrier, BeginDrain, EndDrain, PostTerminal,
                          TerminalReturns, Coordinator
<1>7. CASE ClaimTurn \/ CleanReturns
  BY <1>0, <1>4, <1>7 DEF ClaimTurn, CleanReturns, Coordinator
<1> QED BY <1>1, <1>2, <1>3, <1>5, <1>6, <1>7
        DEF Next, vars, PostStarted, StartedReturns, Delta, LookUp, BuildPayload, SubmitTool,
            Clean, Handle, threads

\* A turn that the runtime has forgotten is closed, or its reset is about to
\* close it; from then on its queue only shrinks and its worker, once it has
\* left, stays away (_cleanup_turn_locked and TurnEventCoordinator.finish).
THEOREM TurnForgottenIsClosing == Spec => []ForgottenIsClosing /\ [][OnlyDrains]_vars
<1>1. Init => ForgottenIsClosing
  BY DEF Init, ForgottenIsClosing
<1>2. IInv /\ ForgottenIsClosing /\ [Next]_vars => ForgottenIsClosing'
  BY ForgottenStep DEF IInv
<1>3. IInv /\ [Next]_vars => OnlyDrains
  BY OnlyDrainsStep DEF IInv
<1> QED BY <1>1, <1>2, <1>3, InvHolds, PTL DEF Spec
=============================================================================
