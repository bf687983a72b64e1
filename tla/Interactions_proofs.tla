------------------------ MODULE Interactions_proofs ------------------------
(* What the questions of a turn promise, for any number of questions,      *)
(* clicks, ends and resets: proofs about Interactions.                     *)
EXTENDS Interactions, TLAPS

-----------------------------------------------------------------------------
(* The inductive invariant. *)

\* A question is registered and announced when it is asked, shown when its
\* card is sent, and reserves the session in between.
Posted ==
    /\ \A q \in Questions :
          /\ asker[q] = "idle" => post[q] = "none"
          /\ q \notin before[q]
          /\ q \in shown => post[q] \notin {"none", "wire"}
          /\ post[q] = "exact" => q \in shown
          /\ post[q] = "sending" <=> reserved = q
    /\ reserved # Nobody => reserved \notin session.passed
    /\ OwnedIsDelivered

\* A request that waits for a choice has its admission, also the one whose copy
\* is kept: no choice is made without asking Hermes.
Admitted(i) ==
    (i.status # "none" => i.q # Nobody) /\ (i.status = "pending" => i.admission)
Arrived(i) == i.q # Nobody => post[i.q] \notin {"none", "wire"}
BothAdmitted == Admitted(inter) /\ Admitted(rollback.inter)
BothArrived == Arrived(inter) /\ Arrived(rollback.inter)
Requests == BothAdmitted /\ BothArrived

\* A request to Hermes is about a card that is shown.
Clicked ==
    \A k \in Clicks :
        /\ click[k].q # Nobody => click[k].q \in shown
        /\ click[k].at \in {"calling", "success"} \/ call[k] # "none" =>
              click[k].q # Nobody /\ click[k].choice \in Choices
        /\ click[k].at = "idle" => call[k] = "none" /\ click[k].q = Nobody

\* Whatever counts as chosen is what Hermes' handle holds.
Chosen(i, handles) == i.status = "completed" => i.choice \in Choices /\ handles[i.q] = i.choice
Told(k) == click[k].at = "success" \/ call[k] \in {"taken", "accepted", "yes"}
Unasked == \A q \in Questions : asker[q] = "idle" => handle[q] = "none"
Recorded ==
    \A q \in Questions : entry[q].selected # "none" => handle[q] = entry[q].selected
Answered == \A k \in Clicks : Told(k) => handle[click[k].q] = click[k].choice
Held ==
    /\ Unasked /\ Recorded /\ Answered
    /\ Chosen(inter, handle) /\ Chosen(rollback.inter, handle)

\* Nothing is left of a turn that is gone, nothing is there of a question that
\* was not asked; an end that owns the turn posts.
Turns ==
    /\ \A q \in Questions : asker[q] = "idle" \/ turn = "gone" => entry[q] = Absent
    /\ \A e \in Ends : turn = e => cleaner[e].at = "posting"

\* Who runs a resolver holds the entry.
Claimed ==
    /\ \A k \in Resolving :
          entry[click[k].q].held /\ entry[click[k].q].resolving = click[k].choice
    /\ \A k, m \in Resolving : click[k].q = click[m].q => k = m

\* A clean-up keeps new resolutions out and knows the ones under way, or none
\* is under way any more.
Waiting == {"waiting", "late", "deferring", "ready", "posting"}
Cleaned ==
    \A c \in Cleaners :
        /\ cleaner[c].at \in Waiting /\ turn # "gone" => cleaning
        /\ cleaner[c].at = "waiting" => Resolving \subseteq cleaner[c].watched
        /\ cleaner[c].at \in {"ready", "posting"} => Resolving = {}

Safe == EndedTwice \/ (Claimed /\ Cleaned)

IInv ==
    /\ TypeOK /\ Posted /\ Requests /\ Clicked /\ Held /\ Turns /\ Safe /\ PutOffHasKeeper

-----------------------------------------------------------------------------
(* Types. *)

Entries == [held : BOOLEAN, resolving : Option, selected : Option]
\* Deadlines take away an entry only as a whole, and never under a resolver.
Neat(entries) ==
    /\ entries \in [Questions -> Entries]
    /\ \A q \in Questions : entries[q].selected # "none" => entries[q].resolving = "none"
NoEntries == [q \in Questions |-> Absent]

AskingOK ==
    /\ asker \in [Questions -> AskerSteps] /\ before \in [Questions -> SUBSET Questions]
    /\ handle \in [Questions -> Choices \cup {"none", "open", "closed"}]
    /\ post \in [Questions -> PostSteps] /\ shown \subseteq Questions
PluginOK ==
    /\ Neat(entry) /\ turn \in {"live", "gone"} \cup Ends
    /\ cleaning \in BOOLEAN /\ deferred \in BOOLEAN
ThreadsOK ==
    /\ cleaner \in [Cleaners -> [at : CleanerSteps, watched : SUBSET Clicks]]
    /\ click \in [Clicks -> [at : ClickSteps, q : Questions \cup {Nobody},
                             choice : Option, copy : Nat]]
    /\ call \in [Clicks -> CallSteps]
SessionOK ==
    /\ session \in SessionState /\ inter \in InteractionState
    /\ reserved \in Questions \cup {Nobody}
    /\ rollback \in [session : SessionState, inter : InteractionState]

\* The type invariant, part by part.
LEMMA TypeParts ==
    TypeOK <=> /\ AskingOK /\ PluginOK /\ ThreadsOK /\ SessionOK
               /\ overdue \in [Questions -> SUBSET Deadlines]
BY DEF TypeOK, AskingOK, PluginOK, ThreadsOK, SessionOK, Neat, Entries

\* What the sidecar does to a request.
LEMMA RequestTypes ==
    ASSUME NEW i \in InteractionState
    PROVE  /\ FailedState(i) \in InteractionState /\ Expired(i) \in InteractionState
           /\ AdmissionExpired(i) \in InteractionState
           /\ [i EXCEPT !.admission = FALSE] \in InteractionState
           /\ [i EXCEPT !.copy = @ + 1] \in InteractionState
           /\ \A choice \in Option : Completed(i, choice) \in InteractionState
<1>1. FailedState(i) \in InteractionState
  BY DEF FailedState, InteractionState
<1>2. Expired(i) \in InteractionState
  BY <1>1 DEF Expired
<1>3. AdmissionExpired(i) \in InteractionState
  BY <1>1 DEF AdmissionExpired
<1>4. \A choice \in Option : Completed(i, choice) \in InteractionState
  BY DEF InteractionState, Completed, Option
<1>5. [i EXCEPT !.admission = FALSE] \in InteractionState
  BY DEF InteractionState
<1>6. i.copy + 1 \in Nat
  BY DEF InteractionState
<1>7. [i EXCEPT !.copy = i.copy + 1] \in InteractionState
  BY <1>6 DEF InteractionState
<1> QED  BY <1>1, <1>2, <1>3, <1>4, <1>5, <1>7

\* Nor do a session, a snapshot or a new request leave their types.
LEMMA SessionTypesOf ==
    /\ NoSnapshot \in [session : SessionState, inter : InteractionState]
    /\ \A s \in SessionState :
          /\ s.passed \subseteq Questions
          /\ \A qs \in SUBSET Questions : [s EXCEPT !.passed = qs] \in SessionState
          /\ \A at \in {"ended", "abandoned"} : [s EXCEPT !.status = at] \in SessionState
    /\ \A q \in Questions : Requested(q) \in InteractionState
BY DEF NoSnapshot, NewSession, NoInteraction, SessionState, InteractionState, Option, Requested

\* A deadline leaves an entry alone or takes it as a whole.
LEMMA SweptTypes ==
    Neat(entry) => /\ Neat(Swept) /\ Neat(NoEntries)
                   /\ \A q \in Questions : NoEntries[q] = Absent
                   /\ \A q \in Questions : Neat([Swept EXCEPT ![q] = Registered])
                   /\ \A q \in Questions : Swept[q] = Absent \/ Swept[q] = entry[q]
                   /\ \A q \in Questions : entry[q].resolving # "none" => Swept[q] = entry[q]
BY DEF Neat, Swept, NoEntries, Entries, Registered, Absent, Option

\* A claim is made or given back.
LEMMA ClaimTypes ==
    ASSUME NEW f, Neat(f), NEW q \in Questions \cup {Nobody}, NEW v \in Option
    PROVE  /\ Neat([f EXCEPT ![q].resolving = "none"])
           /\ q = Nobody \/ f[q].selected = "none" => Neat([f EXCEPT ![q].resolving = v])
           /\ q = Nobody \/ f[q].resolving = "none" => Neat([f EXCEPT ![q].selected = v])
<1> DEFINE a == [f EXCEPT ![q].resolving = "none"]
           b == [f EXCEPT ![q].resolving = v]  c == [f EXCEPT ![q].selected = v]
<1>1. ASSUME NEW x \in Entries
      PROVE  /\ [x EXCEPT !.resolving = "none"] \in Entries
             /\ [x EXCEPT !.resolving = v] \in Entries
             /\ [x EXCEPT !.selected = v] \in Entries
             /\ [x EXCEPT !.resolving = "none"].resolving = "none"
             /\ [x EXCEPT !.resolving = v].selected = x.selected
             /\ [x EXCEPT !.selected = v].resolving = x.resolving
  BY DEF Entries, Option
<1>2. f \in [Questions -> Entries]
  BY DEF Neat
<1>3. ASSUME NEW p \in Questions
      PROVE  /\ a[p] = IF p = q THEN [f[p] EXCEPT !.resolving = "none"] ELSE f[p]
             /\ b[p] = IF p = q THEN [f[p] EXCEPT !.resolving = v] ELSE f[p]
             /\ c[p] = IF p = q THEN [f[p] EXCEPT !.selected = v] ELSE f[p]
             /\ f[p] \in Entries
  BY <1>2
<1>4. /\ a \in [Questions -> Entries] /\ b \in [Questions -> Entries]
      /\ c \in [Questions -> Entries]
  BY <1>1, <1>2, <1>3
<1> HIDE DEF a, b, c
<1>5. ASSUME NEW p \in Questions
      PROVE  /\ a[p].selected = f[p].selected
             /\ a[p].resolving = IF p = q THEN "none" ELSE f[p].resolving
             /\ b[p].selected = f[p].selected /\ (p # q => b[p].resolving = f[p].resolving)
             /\ c[p].resolving = f[p].resolving /\ (p # q => c[p].selected = f[p].selected)
             /\ f[p].selected # "none" => f[p].resolving = "none"
  <2>1. f[p].selected # "none" => f[p].resolving = "none"
    BY DEF Neat
  <2>2. CASE p = q
    BY <1>3, <2>1, <2>2 DEF Entries
  <2>3. CASE p # q
    BY <1>3, <2>1, <2>3
  <2> QED  BY <2>2, <2>3
<1>8. /\ Neat(a) /\ (q = Nobody \/ f[q].selected = "none" => Neat(b))
      /\ (q = Nobody \/ f[q].resolving = "none" => Neat(c))
  BY <1>4, <1>5, InteractionsAssumption DEF Neat
<1> QED  BY <1>8 DEF a, b, c

\* What forgetting a turn, and completing a clean-up that was put off, change.
LEMMA ForgetFields ==
    /\ Forget <=> turn' = "gone" /\ entry' = NoEntries /\ cleaning' = FALSE /\ deferred' = FALSE
    /\ CompleteDeferred <=>
          \/ deferred /\ (\A q \in Questions : entry[q].resolving = "none") /\ Forget
          \/ /\ ~(deferred /\ \A q \in Questions : entry[q].resolving = "none")
             /\ UNCHANGED <<entry, turn, cleaning, deferred>>
BY DEF Forget, CompleteDeferred, NoEntries, plugin

\* Every step keeps the types of what Hermes and Feishu hold,
LEMMA AskingTypes == TypeOK /\ [Next]_vars => AskingOK'
<1> SUFFICES ASSUME TypeOK, [Next]_vars PROVE AskingOK'
  BY DEF TypeOK
<1> USE TypeParts DEF AskingOK, AskerSteps, PostSteps
<1>0. \A k \in Clicks : click[k].choice \in Option /\ click[k].q \in Questions \cup {Nobody}
  BY DEF ThreadsOK
<1>1. CASE UNCHANGED <<asker, before, handle, post, shown>>
  BY <1>1
<1>2. ASSUME NEW q \in Questions, Ask(q) PROVE AskingOK'
  BY <1>2 DEF Ask, Numbered, asking, plugin, sidecar, threads
<1>3. ASSUME NEW q \in Questions, Admit(q) PROVE AskingOK'
  BY <1>3 DEF Admit, asking, plugin, sidecar, threads
<1>4. ASSUME NEW q \in Questions, Decline(q) PROVE AskingOK'
  BY <1>4 DEF Decline, asking, plugin, sidecar, threads
<1>5. ASSUME NEW q \in Questions, Return(q) PROVE AskingOK'
  BY <1>5 DEF Return, asking, plugin, sidecar, threads
<1>6. ASSUME NEW q \in Questions, Announced(q) PROVE AskingOK'
  BY <1>6 DEF Announced, asking, plugin, sidecar, threads
<1>7. ASSUME NEW q \in Questions, Settle(q) PROVE AskingOK'
  BY <1>7 DEF Settle, asking, plugin, sidecar, threads
<1>8. ASSUME NEW k \in Clicks, Resolve(k) PROVE AskingOK'
  BY <1>8, <1>0 DEF Resolve, Option, asking, plugin, sidecar, threads
<1> QED  BY <1>1, <1>2, <1>3, <1>4, <1>5, <1>6, <1>7, <1>8 DEF Next, Asks, Delivers,
          Serves, Cleans, vars, asking, plugin, sidecar, threads, Pass, OtherEvent, EndArrives,
          Abandon, ExpireCard, Click, Claim, Record, Respond, Unresolved, Resolved, Prepare,
          WaitOver, WaitFails, PutOff, Defer, End, EndPosted, Reset

\* ... of what the plugin holds,
LEMMA PluginTypes == TypeOK /\ [Next]_vars => PluginOK'
<1> SUFFICES ASSUME TypeOK, [Next]_vars PROVE PluginOK'
  BY DEF TypeOK
<1> USE TypeParts, SweptTypes, ClaimTypes, ForgetFields DEF PluginOK
<1>0. \A k \in Clicks : click[k].choice \in Option /\ click[k].q \in Questions \cup {Nobody}
  BY DEF ThreadsOK
<1>1. CASE UNCHANGED <<entry, turn, cleaning, deferred>>
  BY <1>1
<1>2. ASSUME NEW q \in Questions, Ask(q) PROVE PluginOK'
  BY <1>2 DEF Ask, asking, plugin, sidecar, threads
<1>3. ASSUME NEW q \in Questions, Admit(q) PROVE PluginOK'
  BY <1>3 DEF Admit, asking, plugin, sidecar, threads
<1>4. ASSUME NEW k \in Clicks, Claim(k) PROVE PluginOK'
  <2> DEFINE s == click[k].q
  <2>1. s \in Questions \cup {Nobody} /\ click[k].choice \in Option
    BY <1>0
  <2>2. Neat([Swept EXCEPT ![s].resolving = click[k].choice]) \/ ~Claimable(Swept[s])
    BY <2>1, ClaimTypes DEF Claimable
  <2> QED  BY <1>4, <2>2 DEF Claim
<1>5. ASSUME NEW k \in Clicks, Record(k) PROVE PluginOK'
  <2> DEFINE s == click[k].q  half == [entry EXCEPT ![s].resolving = "none"]
             v == IF call[k] = "taken" /\ entry[s].resolving = click[k].choice
                  THEN click[k].choice ELSE half[s].selected
  <2>1. s \in Questions \cup {Nobody} /\ click[k].choice \in Option
    BY <1>0
  <2>2. entry' = [half EXCEPT ![s].selected = v]
    BY <1>5 DEF Record
  <2>a. Neat(half)
    BY <2>1, ClaimTypes
  <2>b. ASSUME s \in Questions PROVE half[s].resolving = "none"
    BY <2>b DEF Neat, Entries
  <2>3. Neat(half) /\ (s = Nobody \/ half[s].resolving = "none")
    BY <2>1, <2>a, <2>b
  <2>4. s = Nobody \/ half[s].selected \in Option
    BY <2>1, <2>3 DEF Neat, Entries
  <2> HIDE DEF half
  <2>5. v \in Option => Neat([half EXCEPT ![s].selected = v])
    BY <2>1, <2>3, ClaimTypes
  <2>6. s = Nobody => [half EXCEPT ![s].selected = v] = half
    BY <2>3, InteractionsAssumption DEF Neat
  <2>7. Neat(entry')
    BY <2>1, <2>2, <2>3, <2>4, <2>5, <2>6
  <2> QED  BY <1>5, <2>7 DEF Record
<1>6. ASSUME NEW k \in Clicks, Respond(k) PROVE PluginOK'
  BY <1>6 DEF Respond, asking, plugin, sidecar, threads
<1>7. ASSUME NEW c \in Cleaners, Prepare(c) PROVE PluginOK'
  BY <1>7 DEF Prepare, Watch, Cleaners, asking, plugin, sidecar, threads
<1>8. ASSUME NEW c \in Cleaners, PutOff(c) PROVE PluginOK'
  BY <1>8 DEF PutOff, Goes, Cleaners, asking, plugin, sidecar, threads
<1>9. ASSUME NEW c \in Cleaners, Defer(c) PROVE PluginOK'
  BY <1>9 DEF Defer, LookAgain, asking, plugin, sidecar, threads
<1>10. ASSUME NEW e \in Ends, End(e) PROVE PluginOK'
  BY <1>10 DEF End, asking, plugin, sidecar, threads
<1>11. ASSUME NEW e \in Ends, EndPosted(e) PROVE PluginOK'
  BY <1>11 DEF EndPosted, asking, plugin, sidecar, threads
<1>12. ASSUME NEW r \in Resets, Reset(r) PROVE PluginOK'
  BY <1>12 DEF Reset, asking, plugin, sidecar, threads
<1> QED  BY <1>1, <1>2, <1>3, <1>4, <1>5, <1>6, <1>7, <1>8, <1>9, <1>10, <1>11, <1>12
          DEF Next, Asks, Delivers, Serves, Cleans, vars, asking, plugin, sidecar, threads,
          Decline, Return, Announced, Settle, Pass, OtherEvent, EndArrives, Abandon, ExpireCard,
          Click, Resolve, Unresolved, Resolved, WaitOver, WaitFails

\* ... of the clicks and the clean-ups,
LEMMA ThreadTypes == TypeOK /\ [Next]_vars => ThreadsOK'
<1> SUFFICES ASSUME TypeOK, [Next]_vars PROVE ThreadsOK'
  BY DEF TypeOK
<1> USE TypeParts DEF ThreadsOK, CleanerSteps, ClickSteps, CallSteps, Cleaners
<1>1. CASE UNCHANGED <<cleaner, click, call>>
  BY <1>1
<1>2. ASSUME NEW k \in Clicks, NEW q \in Questions, NEW choice \in Choices,
             Click(k, q, choice) PROVE ThreadsOK'
  BY <1>2 DEF Click, Refuse, Option, SessionOK, InteractionState, asking, plugin, sidecar,
      threads
<1>3. ASSUME NEW k \in Clicks, Claim(k) PROVE ThreadsOK'
  BY <1>3 DEF Claim, asking, plugin, sidecar, threads
<1>4. ASSUME NEW k \in Clicks, Resolve(k) PROVE ThreadsOK'
  BY <1>4 DEF Resolve, asking, plugin, sidecar, threads
<1>5. ASSUME NEW k \in Clicks, Record(k) PROVE ThreadsOK'
  BY <1>5 DEF Record, asking, plugin, sidecar, threads
<1>6. ASSUME NEW k \in Clicks, Respond(k) PROVE ThreadsOK'
  BY <1>6 DEF Respond, asking, plugin, sidecar, threads
<1>7. ASSUME NEW k \in Clicks, Unresolved(k) PROVE ThreadsOK'
  BY <1>7 DEF Unresolved, SameObject, AdmissionExpired, FailedState, asking, plugin,
      sidecar, threads
<1>8. ASSUME NEW k \in Clicks, Resolved(k) PROVE ThreadsOK'
  BY <1>8 DEF Resolved, SameObject, IsCurrent, Completed, asking, plugin, sidecar, threads
<1>9. ASSUME NEW c \in Cleaners, Prepare(c) PROVE ThreadsOK'
  BY <1>9 DEF Prepare, Watch, Resolving, asking, plugin, sidecar, threads
<1>10. ASSUME NEW c \in Cleaners, WaitOver(c) PROVE ThreadsOK'
  BY <1>10 DEF WaitOver, Goes, Cleaners, asking, plugin, sidecar, threads
<1>11. ASSUME NEW c \in Cleaners, WaitFails(c) PROVE ThreadsOK'
  BY <1>11 DEF WaitFails, Goes, Cleaners, asking, plugin, sidecar, threads
<1>12. ASSUME NEW c \in Cleaners, PutOff(c) PROVE ThreadsOK'
  BY <1>12 DEF PutOff, Goes, Cleaners, asking, plugin, sidecar, threads
<1>13. ASSUME NEW c \in Cleaners, Defer(c) PROVE ThreadsOK'
  BY <1>13 DEF Defer, Goes, asking, plugin, sidecar, threads
<1>14. ASSUME NEW e \in Ends, End(e) PROVE ThreadsOK'
  BY <1>14 DEF End, Goes, asking, plugin, sidecar, threads
<1>15. ASSUME NEW e \in Ends, EndPosted(e) PROVE ThreadsOK'
  BY <1>15 DEF EndPosted, Goes, asking, plugin, sidecar, threads
<1>16. ASSUME NEW r \in Resets, Reset(r) PROVE ThreadsOK'
  BY <1>16 DEF Reset, Goes, asking, plugin, sidecar, threads
<1> QED  BY <1>1, <1>2, <1>3, <1>4, <1>5, <1>6, <1>7, <1>8, <1>9, <1>10, <1>11, <1>12,
          <1>13, <1>14, <1>15, <1>16 DEF Next, Asks, Delivers, Serves, Cleans, vars, asking,
          plugin, sidecar, threads, Ask, Admit, Decline, Return, Announced, Settle, Pass,
          OtherEvent, EndArrives, Abandon, ExpireCard

\* ... of what the sidecar holds,
LEMMA SessionTypes == TypeOK /\ [Next]_vars => SessionOK'
<1> SUFFICES ASSUME TypeOK, [Next]_vars PROVE SessionOK'
  BY DEF TypeOK
<1> USE TypeParts, RequestTypes, SessionTypesOf DEF SessionOK
<1>0. \A k \in Clicks : click[k].choice \in Option /\ click[k].q \in Questions \cup {Nobody}
  BY DEF ThreadsOK
<1>1. CASE UNCHANGED <<session, inter, reserved, rollback>>
  BY <1>1
<1>2. ASSUME NEW q \in Questions, Announced(q) PROVE SessionOK'
  <2>1. before[q] \in SUBSET Questions
    BY DEF AskingOK
  <2>2. session.passed \cup before[q] \in SUBSET Questions
    BY <2>1
  <2>3. [session EXCEPT !.passed = @ \cup before[q]] \in SessionState
    BY <2>2
  <2>4. [inter EXCEPT !.copy = @ + 1] \in InteractionState
    BY RequestTypes
  <2>5. [session |-> session, inter |-> [inter EXCEPT !.copy = @ + 1]]
           \in [session : SessionState, inter : InteractionState]
    BY <2>4
  <2> QED  BY <1>2, <2>3, <2>5 DEF Announced
<1>3. ASSUME NEW q \in Questions, Settle(q) PROVE SessionOK'
  BY <1>3 DEF Settle, asking, plugin, sidecar, threads
<1>4. CASE OtherEvent
  BY <1>4 DEF OtherEvent, Numbered, asking, plugin, sidecar, threads
<1>5. CASE EndArrives
  BY <1>5 DEF EndArrives, asking, plugin, sidecar, threads
<1>6. CASE Abandon
  BY <1>6 DEF Abandon, asking, plugin, sidecar, threads
<1>7. CASE ExpireCard
  BY <1>7 DEF ExpireCard, asking, plugin, sidecar, threads
<1>8. ASSUME NEW k \in Clicks, NEW q \in Questions, NEW choice \in Choices,
             Click(k, q, choice) PROVE SessionOK'
  <2>1. /\ Expired(inter) \in InteractionState
        /\ Completed(inter, choice) \in InteractionState
    BY DEF Option
  <2> QED  BY <1>8, <2>1 DEF Click
<1>9. ASSUME NEW k \in Clicks, Unresolved(k) PROVE SessionOK'
  BY <1>9 DEF Unresolved, asking, plugin, sidecar, threads
<1>10. ASSUME NEW k \in Clicks, Resolved(k) PROVE SessionOK'
  BY <1>10, <1>0 DEF Resolved, asking, plugin, sidecar, threads
<1> QED  BY <1>1, <1>2, <1>3, <1>4, <1>5, <1>6, <1>7, <1>8, <1>9, <1>10 DEF Next, Asks,
          Delivers, Serves, Cleans, vars, asking, plugin, sidecar, threads, Ask, Admit, Decline,
          Return, Pass, Claim, Resolve, Record, Respond, Prepare, WaitOver, WaitFails, PutOff,
          Defer, End, EndPosted, Reset

\* ... and of the deadlines.
LEMMA TypesStep == TypeOK /\ [Next]_vars => TypeOK'
<1> SUFFICES ASSUME TypeOK, [Next]_vars PROVE overdue' \in [Questions -> SUBSET Deadlines]
  BY AskingTypes, PluginTypes, ThreadTypes, SessionTypes
     DEF TypeOK, AskingOK, PluginOK, ThreadsOK, SessionOK, Neat, Entries
<1> USE TypeParts
<1>1. CASE UNCHANGED overdue
  BY <1>1
<1>2. ASSUME NEW q \in Questions, NEW deadline \in Deadlines, Pass(q, deadline)
      PROVE  overdue' \in [Questions -> SUBSET Deadlines]
  BY <1>2 DEF Pass
<1> QED  BY <1>1, <1>2
         DEF Next, Asks, Delivers, Serves, Cleans, vars, asking, plugin, sidecar, threads, Ask,
             Admit, Decline, Return, Announced, Settle, OtherEvent, EndArrives, Abandon,
             ExpireCard, Click, Claim, Resolve, Record, Respond, Unresolved, Resolved, Prepare,
             WaitOver, WaitFails, PutOff, Defer, End, EndPosted, Reset

-----------------------------------------------------------------------------
(* What the sidecar changes of a request. *)

\* Which fields change.
LEMMA RequestFields ==
    ASSUME NEW i \in InteractionState
    PROVE  /\ FailedState(i).q = i.q /\ FailedState(i).status = "failed"
           /\ Expired(i) \in {i, FailedState(i)} /\ AdmissionExpired(i) \in {i, FailedState(i)}
           /\ [i EXCEPT !.admission = FALSE].q = i.q
           /\ [i EXCEPT !.admission = FALSE].status = i.status
           /\ [i EXCEPT !.admission = FALSE].choice = i.choice
           /\ [i EXCEPT !.copy = @ + 1].q = i.q
           /\ [i EXCEPT !.copy = @ + 1].status = i.status
           /\ [i EXCEPT !.copy = @ + 1].admission = i.admission
           /\ [i EXCEPT !.copy = @ + 1].choice = i.choice
           /\ \A choice \in Choices :
                 \/ Completed(i, choice) = i
                 \/ /\ Completed(i, choice).q = i.q
                    /\ Completed(i, choice).status = "completed"
                    /\ Completed(i, choice).choice = choice
<1>1. FailedState(i).q = i.q /\ FailedState(i).status = "failed"
  BY DEF FailedState, InteractionState
<1>2. Expired(i) \in {i, FailedState(i)} /\ AdmissionExpired(i) \in {i, FailedState(i)}
  BY DEF Expired, AdmissionExpired
<1>3. /\ [i EXCEPT !.admission = FALSE].q = i.q
      /\ [i EXCEPT !.admission = FALSE].status = i.status
      /\ [i EXCEPT !.admission = FALSE].choice = i.choice
  BY DEF InteractionState
<1>4. /\ [i EXCEPT !.copy = @ + 1].q = i.q
      /\ [i EXCEPT !.copy = @ + 1].status = i.status
      /\ [i EXCEPT !.copy = @ + 1].admission = i.admission
      /\ [i EXCEPT !.copy = @ + 1].choice = i.choice
  BY DEF InteractionState
<1>5. ASSUME NEW choice \in Choices
      PROVE  \/ Completed(i, choice) = i
             \/ /\ Completed(i, choice).q = i.q
                /\ Completed(i, choice).status = "completed"
                /\ Completed(i, choice).choice = choice
  BY DEF Completed, InteractionState
<1> QED  BY <1>1, <1>2, <1>3, <1>4, <1>5

\* Nothing the sidecar does to a request leaves it waiting without an admission.
LEMMA AdmittedStays ==
    ASSUME NEW i \in InteractionState, Admitted(i)
    PROVE  /\ i.status = "pending" => Admitted(FailedState(i))
           /\ Admitted(Expired(i)) /\ Admitted(AdmissionExpired(i))
           /\ i.status # "pending" => Admitted([i EXCEPT !.admission = FALSE])
           /\ Admitted([i EXCEPT !.copy = @ + 1])
           /\ i.status = "pending" => \A choice \in Choices : Admitted(Completed(i, choice))
           /\ \A q \in Questions : Admitted(Requested(q))
           /\ Admitted(NoInteraction)
<1>1. i.status = "pending" => Admitted(FailedState(i))
  BY RequestFields DEF Admitted
<1>2. Admitted(Expired(i)) /\ Admitted(AdmissionExpired(i))
  BY <1>1 DEF Expired, AdmissionExpired, CardExpired
<1>3. i.status # "pending" => Admitted([i EXCEPT !.admission = FALSE])
  BY RequestFields DEF Admitted
<1>4. Admitted([i EXCEPT !.copy = @ + 1])
  BY RequestFields DEF Admitted
<1>5. ASSUME NEW choice \in Choices, i.status = "pending"
      PROVE  Admitted(Completed(i, choice))
  BY <1>5, RequestFields DEF Admitted
<1>6. \A q \in Questions : Admitted(Requested(q))
  BY InteractionsAssumption DEF Admitted, Requested
<1>7. Admitted(NoInteraction)
  BY DEF Admitted, NoInteraction
<1> QED  BY <1>1, <1>2, <1>3, <1>4, <1>5, <1>6, <1>7

\* Nothing but a completion makes a choice of it.
LEMMA ChosenStays ==
    ASSUME NEW i \in InteractionState, NEW handles, Chosen(i, handles)
    PROVE  /\ Chosen(FailedState(i), handles)
           /\ Chosen(Expired(i), handles) /\ Chosen(AdmissionExpired(i), handles)
           /\ Chosen([i EXCEPT !.admission = FALSE], handles)
           /\ Chosen([i EXCEPT !.copy = @ + 1], handles)
           /\ \A q \in Questions : Chosen(Requested(q), handles)
           /\ Chosen(NoInteraction, handles)
<1>1. Chosen(FailedState(i), handles)
  BY RequestFields DEF Chosen
<1>2. Chosen(Expired(i), handles) /\ Chosen(AdmissionExpired(i), handles)
  BY <1>1, RequestFields
<1>3. Chosen([i EXCEPT !.admission = FALSE], handles)
  BY RequestFields DEF Chosen
<1>4. Chosen([i EXCEPT !.copy = @ + 1], handles)
  BY RequestFields DEF Chosen
<1>5. \A q \in Questions : Chosen(Requested(q), handles)
  BY DEF Chosen, Requested
<1>6. Chosen(NoInteraction, handles)
  BY DEF Chosen, NoInteraction
<1> QED  BY <1>1, <1>2, <1>3, <1>4, <1>5, <1>6

-----------------------------------------------------------------------------
(* What a claim and its return change of the entries. *)

\* A claim finds the entry free, answers with what was selected, or refuses.
LEMMA ClaimFields ==
    ASSUME TypeOK, NEW k \in Clicks, click[k].q \in Questions, click[k].choice \in Choices,
           Claim(k)
    PROVE  LET s == click[k].q IN
           /\ \A p \in Questions : entry[p].resolving # "none" => entry'[p] = entry[p]
           /\ \A p \in Questions : p # s => entry'[p] = Absent \/ entry'[p] = entry[p]
           /\ \/ /\ call' = [call EXCEPT ![k] = "resolving"] /\ ~cleaning
                 /\ entry[s].held /\ entry[s].resolving = "none" /\ entry'[s].held
                 /\ entry'[s].resolving = click[k].choice /\ entry'[s].selected = "none"
              \/ /\ call' = [call EXCEPT ![k] = "yes"] /\ entry[s].selected = click[k].choice
                 /\ entry'[s] = entry[s]
              \/ /\ call' = [call EXCEPT ![k] = "no"]
                 /\ (entry'[s] = Absent \/ entry'[s] = entry[s])
<1> DEFINE s == click[k].q
<1> USE TypeParts, SweptTypes, InteractionsAssumption DEF PluginOK
<1>1. Swept \in [Questions -> Entries] /\ entry \in [Questions -> Entries]
  BY DEF Neat
<1>2. Absent.held = FALSE /\ Absent.selected = "none"
  BY DEF Absent
<1>3. CASE /\ ~cleaning /\ Claimable(Swept[s])
           /\ call' = [call EXCEPT ![k] = "resolving"]
           /\ entry' = [Swept EXCEPT ![s].resolving = click[k].choice]
  <2>1. Swept[s] = entry[s] /\ entry[s].held /\ entry[s].resolving = "none"
        /\ entry[s].selected = "none"
    BY <1>2, <1>3 DEF Claimable
  <2>2. /\ entry'[s].held /\ entry'[s].resolving = click[k].choice
        /\ entry'[s].selected = "none"
    BY <1>1, <1>3, <2>1 DEF Entries
  <2>3. \A p \in Questions : p # s => entry'[p] = Swept[p]
    BY <1>1, <1>3
  <2> QED  BY <1>3, <2>1, <2>2, <2>3
<1>4. CASE /\ call' = [call EXCEPT ![k] = "yes"] /\ Swept[s].selected = click[k].choice
           /\ entry' = Swept
  BY <1>2, <1>4
<1>5. CASE call' = [call EXCEPT ![k] = "no"] /\ entry' = Swept
  BY <1>5
<1> QED  BY <1>3, <1>4, <1>5 DEF Claim

\* The claim is given back, and only a choice that was taken is remembered.
LEMMA RecordFields ==
    ASSUME TypeOK, NEW k \in Clicks, click[k].q \in Questions, Record(k)
    PROVE  LET s == click[k].q
               accepted == call[k] = "taken" /\ entry[s].resolving = click[k].choice IN
           /\ \A p \in Questions : p # s => entry'[p] = entry[p]
           /\ entry'[s].held = entry[s].held /\ entry'[s].resolving = "none"
           /\ entry'[s].selected = IF accepted THEN click[k].choice ELSE entry[s].selected
           /\ entry[s] = Absent /\ ~accepted => entry'[s] = Absent
<1> DEFINE s == click[k].q  half == [entry EXCEPT ![s].resolving = "none"]
           v == IF call[k] = "taken" /\ entry[s].resolving = click[k].choice
                THEN click[k].choice ELSE half[s].selected
<1>1. entry \in [Questions -> Entries] /\ click[k].choice \in Option
  BY TypeParts DEF PluginOK, Neat, ThreadsOK
<1>2. entry' = [half EXCEPT ![s].selected = v]
  BY DEF Record
<1>3. /\ half \in [Questions -> Entries] /\ half[s].selected = entry[s].selected
      /\ half[s].held = entry[s].held /\ half[s].resolving = "none"
      /\ \A p \in Questions : p # s => half[p] = entry[p]
      /\ entry[s] = Absent => half[s] = Absent
  BY <1>1 DEF Entries, Absent, Option
<1> HIDE DEF half
<1>4. v \in Option
  BY <1>1, <1>3 DEF Entries
<1> HIDE DEF v
<1>5. /\ \A p \in Questions : p # s => entry'[p] = half[p]
      /\ entry'[s].selected = v /\ entry'[s].held = half[s].held
      /\ entry'[s].resolving = half[s].resolving
      /\ half[s] = Absent /\ v = "none" => entry'[s] = Absent
  BY <1>2, <1>3, <1>4 DEF Entries, Absent
<1> QED  BY <1>3, <1>5 DEF v, Absent

-----------------------------------------------------------------------------
(* Announcements, requests, clicks and turns. *)

\* An announcement is numbered, sent, shown and owned in that order.
LEMMA PostedStep == IInv /\ [Next]_vars => Posted'
<1> SUFFICES ASSUME IInv, TypeOK', [Next]_vars PROVE Posted'
  BY TypesStep DEF IInv
<1> USE TypeParts, InteractionsAssumption DEF IInv, Posted, OwnedIsDelivered, AskingOK, SessionOK
<1>1. CASE UNCHANGED <<asker, before, post, shown, reserved, session>>
  BY <1>1
<1>2. ASSUME NEW q \in Questions, Ask(q) PROVE Posted'
  BY <1>2 DEF Ask, Numbered, asking, plugin, sidecar, threads
<1>3. ASSUME NEW q \in Questions, Admit(q) PROVE Posted'
  BY <1>3 DEF Admit, Confirmed, asking, plugin, sidecar, threads
<1>4. ASSUME NEW q \in Questions, Decline(q) PROVE Posted'
  BY <1>4 DEF Decline, asking, plugin, sidecar, threads
<1>5. ASSUME NEW q \in Questions, Return(q) PROVE Posted'
  BY <1>5 DEF Return, asking, plugin, sidecar, threads
<1>6. ASSUME NEW q \in Questions, Announced(q) PROVE Posted'
  BY <1>6 DEF Announced, Unreserved, Fresh, SessionState, asking, plugin, sidecar, threads
<1>7. ASSUME NEW q \in Questions, Settle(q) PROVE Posted'
  BY <1>7 DEF Settle, StillOwner, SessionState, asking, plugin, sidecar, threads
<1>8. CASE OtherEvent
  BY <1>8 DEF OtherEvent, Unreserved, asking, plugin, sidecar, threads
<1>9. CASE EndArrives
  BY <1>9 DEF EndArrives, SessionState, asking, plugin, sidecar, threads
<1>10. CASE Abandon
  BY <1>10 DEF Abandon, SessionState, asking, plugin, sidecar, threads
<1> QED  BY <1>1, <1>2, <1>3, <1>4, <1>5, <1>6, <1>7, <1>8, <1>9, <1>10 DEF Next, Asks,
          Delivers, Serves, Cleans, vars, asking, plugin, sidecar, threads, Pass, ExpireCard,
          Click, Claim, Resolve, Record, Respond, Unresolved, Resolved, Prepare, WaitOver,
          WaitFails, PutOff, Defer, End, EndPosted, Reset

\* A request that waits keeps its admission: a request is settled without its
\* owner only if it does not wait any more.
LEMMA AdmittedStep == IInv /\ [Next]_vars => BothAdmitted'
<1> SUFFICES ASSUME IInv, TypeOK', [Next]_vars PROVE BothAdmitted'
  BY TypesStep DEF IInv
<1> USE TypeParts, AdmittedStays DEF IInv, Requests, BothAdmitted, SessionOK
<1>1. CASE UNCHANGED <<inter, rollback>>
  BY <1>1
<1>2. ASSUME NEW q \in Questions, Announced(q) PROVE BothAdmitted'
  <2>1. CASE rollback' = rollback /\ inter' \in {inter, Expired(inter)}
    BY <2>1
  <2>2. CASE /\ inter' = Requested(q)
             /\ rollback' = [session |-> session, inter |-> [inter EXCEPT !.copy = @ + 1]]
    BY <2>2
  <2> QED  BY <1>2, <2>1, <2>2 DEF Announced
<1>3. ASSUME NEW q \in Questions, Settle(q) PROVE BothAdmitted'
  <2>1. Admitted(rollback'.inter)
    BY <1>3 DEF Settle, NoSnapshot
  <2>2. CASE StillOwner(q)
    BY <1>3, <2>1, <2>2 DEF Settle
  <2>3. CASE ~StillOwner(q)
    <3>1. SameRequest(q) => inter.status # "pending"
      BY <1>3, <2>3, InteractionsAssumption DEF Settle, StillOwner, Posted
    <3> QED  BY <1>3, <2>1, <2>3, <3>1 DEF Settle
  <2> QED  BY <2>2, <2>3
<1>4. CASE OtherEvent
  BY <1>4 DEF OtherEvent
<1>5. CASE EndArrives
  BY <1>5 DEF EndArrives
<1>6. CASE ExpireCard
  BY <1>6 DEF ExpireCard, CardExpired
<1>7. ASSUME NEW k \in Clicks, NEW q \in Questions, NEW choice \in Choices,
             Click(k, q, choice) PROVE BothAdmitted'
  <2>1. rollback' = rollback
    BY <1>7 DEF Click
  <2>a. Expired(inter).status = "pending" => inter.status = "pending"
    BY RequestFields
  <2>2. \/ inter' \in {inter, Expired(inter)}
        \/ inter' = Completed(inter, choice) /\ inter.status = "pending"
    BY <1>7, <2>a DEF Click
  <2> QED  BY <2>1, <2>2
<1>8. ASSUME NEW k \in Clicks, Unresolved(k) PROVE BothAdmitted'
  BY <1>8 DEF Unresolved
<1>9. ASSUME NEW k \in Clicks, Resolved(k) PROVE BothAdmitted'
  <2>1. rollback' = rollback /\ click[k].choice \in Choices
    BY <1>9 DEF Resolved, Clicked
  <2>2. CASE IsCurrent(k)
    BY <1>9, <2>1, <2>2 DEF Resolved, IsCurrent
  <2>3. CASE SameObject(k) /\ ~IsCurrent(k)
    <3>1. inter.status # "pending" /\ inter' = [inter EXCEPT !.admission = FALSE]
      BY <1>9, <2>3 DEF Resolved, IsCurrent, Admitted
    <3> QED  BY <2>1, <3>1
  <2>4. CASE ~SameObject(k)
    BY <1>9, <2>1, <2>4 DEF Resolved, IsCurrent
  <2> QED  BY <2>2, <2>3, <2>4
<1> QED  BY <1>1, <1>2, <1>3, <1>4, <1>5, <1>6, <1>7, <1>8, <1>9 DEF Next, Asks,
          Delivers, Serves, Cleans, vars, asking, plugin, sidecar, threads, Ask, Admit, Decline,
          Return, Pass, Abandon, Claim, Resolve, Record, Respond, Prepare, WaitOver, WaitFails,
          PutOff, Defer, End, EndPosted, Reset

\* A request is one of an announcement that arrived.
LEMMA ArrivedStep == IInv /\ [Next]_vars => BothArrived'
<1> SUFFICES ASSUME IInv, TypeOK', [Next]_vars PROVE BothArrived'
  BY TypesStep DEF IInv
<1> USE TypeParts, RequestFields, InteractionsAssumption
      DEF IInv, Requests, BothArrived, Arrived, SessionOK, AskingOK, InteractionState
<1>1. CASE UNCHANGED <<post, inter, rollback>>
  BY <1>1
<1>2. ASSUME NEW q \in Questions, Ask(q) PROVE BothArrived'
  BY <1>2 DEF Ask, Posted, asking, plugin, sidecar, threads
<1>3. ASSUME NEW q \in Questions, Announced(q) PROVE BothArrived'
  BY <1>3 DEF Announced, Requested, asking, plugin, sidecar, threads
<1>4. ASSUME NEW q \in Questions, Settle(q) PROVE BothArrived'
  BY <1>4 DEF Settle, Posted, NoSnapshot, NoInteraction, asking, plugin, sidecar, threads
<1>5. CASE OtherEvent
  BY <1>5 DEF OtherEvent, asking, plugin, sidecar, threads
<1>6. CASE EndArrives
  BY <1>6 DEF EndArrives, asking, plugin, sidecar, threads
<1>7. CASE ExpireCard
  BY <1>7 DEF ExpireCard, asking, plugin, sidecar, threads
<1>8. ASSUME NEW k \in Clicks, NEW q \in Questions, NEW choice \in Choices,
             Click(k, q, choice) PROVE BothArrived'
  BY <1>8 DEF Click, asking, plugin, sidecar, threads
<1>9. ASSUME NEW k \in Clicks, Unresolved(k) PROVE BothArrived'
  BY <1>9 DEF Unresolved, asking, plugin, sidecar, threads
<1>10. ASSUME NEW k \in Clicks, Resolved(k) PROVE BothArrived'
  BY <1>10 DEF Resolved, Clicked, asking, plugin, sidecar, threads
<1> QED  BY <1>1, <1>2, <1>3, <1>4, <1>5, <1>6, <1>7, <1>8, <1>9, <1>10 DEF Next, Asks,
          Delivers, Serves, Cleans, vars, asking, plugin, sidecar, threads, Admit, Decline,
          Return, Pass, Abandon, Claim, Resolve, Record, Respond, Prepare, WaitOver, WaitFails,
          PutOff, Defer, End, EndPosted, Reset

\* Nobody asks Hermes about a card that is not shown.
LEMMA ClickedStep == IInv /\ [Next]_vars => Clicked'
<1> SUFFICES ASSUME IInv, TypeOK', [Next]_vars PROVE Clicked'
  BY TypesStep DEF IInv
<1> USE TypeParts, InteractionsAssumption
       DEF IInv, Clicked, ThreadsOK, AskingOK, SessionOK
<1>1. CASE UNCHANGED <<click, call, shown>>
  BY <1>1
<1>2. ASSUME NEW q \in Questions, Settle(q) PROVE Clicked'
  BY <1>2 DEF Settle, asking, plugin, sidecar, threads
<1>3. ASSUME NEW k \in Clicks, NEW q \in Questions, NEW choice \in Choices,
             Click(k, q, choice) PROVE Clicked'
  <2>1. inter.admission \/ Expired(inter).status # "pending"
    BY RequestFields DEF Requests, BothAdmitted, Admitted
  <2>2. q \in shown /\ shown' = shown /\ inter.copy \in Nat
    BY <1>3 DEF Click, sidecar, InteractionState
  <2>3. \/ click' = [click EXCEPT ![k].at = "refused"] /\ call' = call
        \/ /\ click' = [click EXCEPT ![k] =
                  [at |-> "calling", q |-> q, choice |-> choice, copy |-> inter.copy]]
           /\ call' = [call EXCEPT ![k] = "sent"]
    BY <1>3, <2>1 DEF Click, Refuse
  <2>4. click[k].at = "idle" /\ call[k] = "none" /\ click[k].q = Nobody
    BY <1>3 DEF Click
  <2>5. \A m \in Clicks : m # k => click'[m] = click[m] /\ call'[m] = call[m]
    BY <2>3
  <2>6. /\ click'[k].q # Nobody => click'[k].q \in shown
        /\ click'[k].at # "idle" /\ click'[k].at # "success"
        /\ click'[k].at = "calling" \/ call'[k] # "none" =>
              click'[k].q # Nobody /\ click'[k].choice \in Choices
    BY <2>2, <2>3, <2>4
  <2> QED  BY <2>2, <2>5, <2>6
<1>4. ASSUME NEW k \in Clicks, Claim(k) PROVE Clicked'
  BY <1>4 DEF Claim, asking, plugin, sidecar, threads
<1>5. ASSUME NEW k \in Clicks, Resolve(k) PROVE Clicked'
  BY <1>5 DEF Resolve, asking, plugin, sidecar, threads
<1>6. ASSUME NEW k \in Clicks, Record(k) PROVE Clicked'
  BY <1>6 DEF Record, asking, plugin, sidecar, threads
<1>7. ASSUME NEW k \in Clicks, Respond(k) PROVE Clicked'
  BY <1>7 DEF Respond, asking, plugin, sidecar, threads
<1>8. ASSUME NEW k \in Clicks, Unresolved(k) PROVE Clicked'
  BY <1>8 DEF Unresolved, SameObject, AdmissionExpired, FailedState, asking, plugin,
      sidecar, threads
<1>9. ASSUME NEW k \in Clicks, Resolved(k) PROVE Clicked'
  BY <1>9 DEF Resolved, SameObject, IsCurrent, Completed, asking, plugin, sidecar, threads
<1> QED  BY <1>1, <1>2, <1>3, <1>4, <1>5, <1>6, <1>7, <1>8, <1>9 DEF Next, Asks,
          Delivers, Serves, Cleans, vars, asking, plugin, sidecar, threads, Ask, Admit, Decline,
          Return, Announced, Pass, OtherEvent, EndArrives, Abandon, ExpireCard, Prepare, WaitOver,
          WaitFails, PutOff, Defer, End, EndPosted, Reset

\* A turn that is gone stays without entries.
LEMMA TurnsStep == IInv /\ [Next]_vars => Turns'
<1> SUFFICES ASSUME IInv, TypeOK', [Next]_vars PROVE Turns'
  BY TypesStep DEF IInv
<1> USE TypeParts, SweptTypes, ForgetFields, InteractionsAssumption
       DEF IInv, Turns, PluginOK, ThreadsOK, AskingOK, Neat, Cleaners
<1>1. CASE UNCHANGED <<asker, entry, turn, cleaner>>
  BY <1>1
<1>2. ASSUME NEW q \in Questions, Ask(q) PROVE Turns'
  BY <1>2 DEF Ask, asking, plugin, sidecar, threads
<1>3. ASSUME NEW q \in Questions, Admit(q) PROVE Turns'
  BY <1>3 DEF Admit, asking, plugin, sidecar, threads
<1>4. ASSUME NEW q \in Questions, Decline(q) PROVE Turns'
  BY <1>4 DEF Decline, asking, plugin, sidecar, threads
<1>5. ASSUME NEW q \in Questions, Return(q) PROVE Turns'
  BY <1>5 DEF Return, asking, plugin, sidecar, threads
<1>6. ASSUME NEW k \in Clicks, Claim(k) PROVE Turns'
  <2>1. /\ click[k].q \in Questions /\ click[k].choice \in Choices
        /\ asker[click[k].q] # "idle"
    BY <1>6 DEF Clicked, Posted, Claim
  <2>2. \A p \in Questions : entry[p] = Absent => entry'[p] = Absent
    <3>1. ~Absent.held /\ Absent.selected \notin Choices
      BY DEF Absent
    <3> QED  BY <1>6, <2>1, <3>1, ClaimFields
  <2> QED  BY <1>6, <2>2 DEF Claim, asking
<1>7. ASSUME NEW k \in Clicks, Record(k) PROVE Turns'
  <2>1. /\ click[k].q \in Questions /\ click[k].choice \in Choices
    BY <1>7 DEF Clicked, Record
  <2>2. Absent.resolving = "none"
    BY DEF Absent
  <2>3. \A p \in Questions : entry[p] = Absent => entry'[p] = Absent
    BY <1>7, <2>1, <2>2, RecordFields
  <2> QED  BY <1>7, <2>3 DEF Record, asking
<1>8. ASSUME NEW k \in Clicks, Respond(k) PROVE Turns'
  BY <1>8 DEF Respond, asking, plugin, sidecar, threads
<1>9. ASSUME NEW c \in Cleaners, Prepare(c) PROVE Turns'
  BY <1>9 DEF Prepare, Watch, asking, plugin, sidecar, threads
<1>10. ASSUME NEW c \in Cleaners, WaitOver(c) PROVE Turns'
  BY <1>10 DEF WaitOver, Goes, asking, plugin, sidecar, threads
<1>11. ASSUME NEW c \in Cleaners, WaitFails(c) PROVE Turns'
  BY <1>11 DEF WaitFails, Goes, asking, plugin, sidecar, threads
<1>12. ASSUME NEW c \in Cleaners, PutOff(c) PROVE Turns'
  BY <1>12 DEF PutOff, Goes, asking, plugin, sidecar, threads
<1>13. ASSUME NEW c \in Cleaners, Defer(c) PROVE Turns'
  BY <1>13 DEF Defer, LookAgain, Goes, asking, plugin, sidecar, threads
<1>14. ASSUME NEW e \in Ends, End(e) PROVE Turns'
  <2>1. CASE turn # "live" /\ entry' = Swept /\ Goes(e, "done") /\ turn' = turn
    <3>1. turn # e
      BY <1>14, <2>1 DEF End
    <3>2. \A f \in Ends : f # e => cleaner'[f] = cleaner[f]
      BY <2>1 DEF Goes
    <3> QED  BY <1>14, <2>1, <3>1, <3>2 DEF End, asking
  <2>2. CASE Forget /\ Goes(e, "done")
    BY <1>14, <2>2 DEF End, asking
  <2>3. CASE turn' = e /\ entry' = Swept /\ Goes(e, "posting") /\ turn = "live"
    <3>1. cleaner'[e].at = "posting"
      BY <2>3 DEF Goes
    <3> QED  BY <1>14, <2>3, <3>1 DEF End, asking
  <2> QED  BY <1>14, <2>1, <2>2, <2>3 DEF End
<1>15. ASSUME NEW e \in Ends, EndPosted(e) PROVE Turns'
  BY <1>15 DEF EndPosted, Goes, asking, plugin, sidecar, threads
<1>16. ASSUME NEW r \in Resets, Reset(r) PROVE Turns'
  BY <1>16 DEF Reset, Goes, asking, plugin, sidecar, threads
<1> QED  BY <1>1, <1>2, <1>3, <1>4, <1>5, <1>6, <1>7, <1>8, <1>9, <1>10, <1>11, <1>12,
          <1>13, <1>14, <1>15, <1>16 DEF Next, Asks, Delivers, Serves, Cleans, vars, asking,
          plugin, sidecar, threads, Announced, Settle, Pass, OtherEvent, EndArrives, Abandon,
          ExpireCard, Click, Resolve, Unresolved, Resolved

-----------------------------------------------------------------------------
(* What counts as chosen. *)

\* A handle that holds a choice keeps it.
HandleKept == \A q \in Questions : handle[q] \in Choices => handle'[q] = handle[q]
LEMMA HandleStays == IInv /\ [Next]_vars => HandleKept
<1> SUFFICES ASSUME IInv, [Next]_vars PROVE HandleKept
  BY DEF IInv
<1> USE TypeParts, InteractionsAssumption DEF IInv, Held, Unasked, AskingOK, HandleKept
<1>1. CASE UNCHANGED handle
  BY <1>1
<1>2. ASSUME NEW q \in Questions, Ask(q) PROVE HandleKept
  BY <1>2 DEF Ask, asking, plugin, sidecar, threads
<1>3. ASSUME NEW q \in Questions, Return(q) PROVE HandleKept
  BY <1>3 DEF Return, asking, plugin, sidecar, threads
<1>4. ASSUME NEW k \in Clicks, Resolve(k) PROVE HandleKept
  BY <1>4 DEF Resolve
<1> QED  BY <1>1, <1>2, <1>3, <1>4 DEF Next, Asks, Delivers, Serves, Cleans, vars,
          asking, plugin, sidecar, threads, Admit, Decline, Announced, Settle, Pass, OtherEvent,
          EndArrives, Abandon, ExpireCard, Click, Claim, Record, Respond, Unresolved, Resolved,
          Prepare, WaitOver, WaitFails, PutOff, Defer, End, EndPosted, Reset

\* What an entry remembers as selected is what the handle was given.
LEMMA RecordedStep == IInv /\ [Next]_vars => Recorded'
<1> SUFFICES ASSUME IInv, TypeOK', [Next]_vars PROVE Recorded'
  BY TypesStep DEF IInv
<1> USE TypeParts, HandleStays, SweptTypes, ForgetFields, InteractionsAssumption
      DEF IInv, Held, Recorded, Answered, HandleKept, PluginOK, Neat, AskingOK
<1>0. Absent.selected = "none" /\ Registered.selected = "none"
  BY DEF Absent, Registered
<1>k. \A p \in Questions : entry[p].selected \in Choices \cup {"none"}
  BY DEF Entries, Option
<1>1. CASE UNCHANGED <<entry, handle>>
  BY <1>1, <1>k
<1>2. ASSUME NEW q \in Questions, Ask(q) PROVE Recorded'
  <2>1. \A p \in Questions : entry'[p].selected = "none" \/ entry'[p] = entry[p]
    BY <1>2, <1>0 DEF Ask, asking
  <2> QED  BY <2>1, <1>k
<1>3. ASSUME NEW q \in Questions, Admit(q) PROVE Recorded'
  <2>1. \A p \in Questions : entry'[p].selected = "none" \/ entry'[p] = entry[p]
    BY <1>3, <1>0 DEF Admit
  <2> QED  BY <2>1, <1>k
<1>4. ASSUME NEW q \in Questions, Return(q) PROVE Recorded'
  BY <1>4, <1>k DEF Return, plugin
<1>5. ASSUME NEW k \in Clicks, Claim(k) PROVE Recorded'
  <2>1. click[k].q \in Questions /\ click[k].choice \in Choices
    BY <1>5 DEF Clicked, Claim
  <2>2. \A p \in Questions : entry'[p].selected = "none" \/ entry'[p] = entry[p]
    BY <1>5, <1>0, <2>1, ClaimFields
  <2> QED  BY <2>2, <1>k
<1>6. ASSUME NEW k \in Clicks, Resolve(k) PROVE Recorded'
  BY <1>6, <1>k DEF Resolve, plugin
<1>7. ASSUME NEW k \in Clicks, Record(k) PROVE Recorded'
  <2>1. click[k].q \in Questions /\ click[k].choice \in Choices
    BY <1>7 DEF Clicked, Record
  <2>2. \A p \in Questions :
           \/ entry'[p].selected = entry[p].selected
           \/ /\ p = click[k].q /\ call[k] = "taken" /\ entry'[p].selected = click[k].choice
    BY <1>7, <2>1, RecordFields
  <2>3. call[k] = "taken" => handle[click[k].q] = click[k].choice
    BY DEF Told
  <2> QED  BY <2>1, <2>2, <2>3, <1>k
<1>8. ASSUME NEW k \in Clicks, Respond(k) PROVE Recorded'
  <2>1. \A p \in Questions : entry'[p].selected = "none" \/ entry'[p] = entry[p]
    BY <1>8, <1>0 DEF Respond
  <2> QED  BY <2>1, <1>k
<1>9. ASSUME NEW c \in Cleaners, Defer(c) PROVE Recorded'
  <2>1. \A p \in Questions : entry'[p].selected = "none" \/ entry'[p] = entry[p]
    BY <1>9, <1>0 DEF Defer, LookAgain
  <2> QED  BY <2>1, <1>k
<1>10. ASSUME NEW e \in Ends, End(e) PROVE Recorded'
  <2>1. \A p \in Questions : entry'[p].selected = "none" \/ entry'[p] = entry[p]
    BY <1>10, <1>0 DEF End
  <2> QED  BY <2>1, <1>k
<1>11. ASSUME NEW e \in Ends, EndPosted(e) PROVE Recorded'
  <2>1. \A p \in Questions : entry'[p].selected = "none" \/ entry'[p] = entry[p]
    BY <1>11, <1>0 DEF EndPosted, plugin
  <2> QED  BY <2>1, <1>k
<1>12. ASSUME NEW r \in Resets, Reset(r) PROVE Recorded'
  <2>1. \A p \in Questions : entry'[p].selected = "none" \/ entry'[p] = entry[p]
    BY <1>12, <1>0 DEF Reset
  <2> QED  BY <2>1, <1>k
<1> QED  BY <1>1, <1>2, <1>3, <1>4, <1>5, <1>6, <1>7, <1>8, <1>9, <1>10, <1>11, <1>12
          DEF Next, Asks, Delivers, Serves, Cleans, vars, asking, plugin, sidecar, threads,
          Decline, Announced, Settle, Pass, OtherEvent, EndArrives, Abandon, ExpireCard, Click,
          Unresolved, Resolved, Prepare, WaitOver, WaitFails, PutOff

\* Whoever is told that a click counts finds its choice in the handle.
LEMMA ToldStep == IInv /\ [Next]_vars => Answered'
<1> SUFFICES ASSUME IInv, TypeOK', [Next]_vars PROVE Answered'
  BY TypesStep DEF IInv
<1> USE TypeParts, HandleStays, InteractionsAssumption
      DEF IInv, Clicked, ThreadsOK, AskingOK, Answered, Recorded, HandleKept
<1>0. \A m \in Clicks : Told(m) => click[m].q \in Questions /\ click[m].choice \in Choices
            /\ handle[click[m].q] = click[m].choice
  BY DEF Told, Held
<1>1. CASE UNCHANGED <<handle, click, call>>
  BY <1>0, <1>1 DEF Told
<1>2. ASSUME NEW q \in Questions, Ask(q) PROVE Answered'
  <2>1. \A m \in Clicks : click'[m] = click[m] /\ (Told(m)' => Told(m))
    BY <1>2 DEF Ask, Told, threads
  <2> QED  BY <2>1, <1>0
<1>3. ASSUME NEW q \in Questions, Return(q) PROVE Answered'
  <2>1. \A m \in Clicks : click'[m] = click[m] /\ (Told(m)' => Told(m))
    BY <1>3 DEF Return, Told, threads
  <2> QED  BY <2>1, <1>0
<1>4. ASSUME NEW k \in Clicks, NEW q \in Questions, NEW choice \in Choices,
             Click(k, q, choice) PROVE Answered'
  <2>1. \A m \in Clicks : m # k => click'[m] = click[m] /\ (Told(m)' => Told(m))
    BY <1>4 DEF Click, Refuse, Told
  <2>2. inter.admission \/ Expired(inter).status # "pending"
    BY RequestFields DEF Requests, BothAdmitted, Admitted, SessionOK
  <2>3. ~Told(k)'
    BY <1>4, <2>2 DEF Click, Refuse, Told
  <2> QED  BY <2>1, <2>3, <1>0
<1>5. ASSUME NEW k \in Clicks, Claim(k) PROVE Answered'
  <2>1. click[k].q \in Questions /\ click[k].choice \in Choices /\ click' = click
    BY <1>5 DEF Claim
  <2>2. \A m \in Clicks : Told(m)' =>
           Told(m) \/ (m = k /\ entry[click[k].q].selected = click[k].choice)
    BY <1>5, <2>1, ClaimFields DEF Told
  <2>3. handle' = handle
    BY <1>5 DEF Claim
  <2>4. entry[click[k].q].selected = click[k].choice => handle[click[k].q] = click[k].choice
    BY <2>1 DEF Held, Unasked, Recorded, Answered
  <2> QED  BY <2>1, <2>2, <2>3, <2>4, <1>0
<1>6. ASSUME NEW k \in Clicks, Resolve(k) PROVE Answered'
  <2>1. click[k].q \in Questions /\ click[k].choice \in Choices /\ click' = click
    BY <1>6 DEF Resolve
  <2>2. \A m \in Clicks : Told(m)' => Told(m) \/ (m = k /\ handle[click[k].q] = "open")
    BY <1>6 DEF Resolve, Told
  <2>3. handle[click[k].q] = "open" => handle'[click[k].q] = click[k].choice
    BY <1>6, <2>1 DEF Resolve
  <2> QED  BY <2>1, <2>2, <2>3, <1>0
<1>7. ASSUME NEW k \in Clicks, Record(k) PROVE Answered'
  <2>1. \A m \in Clicks : click'[m] = click[m] /\ (Told(m)' => Told(m))
    BY <1>7 DEF Record, Told
  <2> QED  BY <2>1, <1>0
<1>8. ASSUME NEW k \in Clicks, Respond(k) PROVE Answered'
  <2>1. \A m \in Clicks : click'[m] = click[m] /\ (Told(m)' => Told(m))
    BY <1>8 DEF Respond, Told
  <2> QED  BY <2>1, <1>0
<1>9. ASSUME NEW k \in Clicks, Unresolved(k) PROVE Answered'
  <2>1. \A m \in Clicks : /\ click'[m].q = click[m].q /\ click'[m].choice = click[m].choice
                          /\ Told(m)' => Told(m)
    BY <1>9 DEF Unresolved, Told
  <2>2. ASSUME NEW m \in Clicks, Told(m)'
        PROVE  handle'[click'[m].q] = click'[m].choice
    <3>1. /\ click[m].q \in Questions /\ click[m].choice \in Choices
          /\ handle[click[m].q] = click[m].choice
      BY <2>1, <2>2, <1>0
    <3> QED  BY <2>1, <3>1
  <2> QED  BY <2>2
<1>10. ASSUME NEW k \in Clicks, Resolved(k) PROVE Answered'
  <2>1. \A m \in Clicks : /\ click'[m].q = click[m].q /\ click'[m].choice = click[m].choice
                          /\ Told(m)' => Told(m)
    BY <1>10 DEF Resolved, Told
  <2>2. ASSUME NEW m \in Clicks, Told(m)'
        PROVE  handle'[click'[m].q] = click'[m].choice
    <3>1. /\ click[m].q \in Questions /\ click[m].choice \in Choices
          /\ handle[click[m].q] = click[m].choice
      BY <2>1, <2>2, <1>0
    <3> QED  BY <2>1, <3>1
  <2> QED  BY <2>2
<1> QED  BY <1>1, <1>2, <1>3, <1>4, <1>5, <1>6, <1>7, <1>8, <1>9, <1>10 DEF Next, Asks,
          Delivers, Serves, Cleans, vars, asking, plugin, sidecar, threads, Admit, Decline,
          Announced, Settle, Pass, OtherEvent, EndArrives, Abandon, ExpireCard, Prepare, WaitOver,
          WaitFails, PutOff, Defer, End, EndPosted, Reset

\* A request is completed with a choice that the handle already holds.
StillChosen == Chosen(inter', handle) /\ Chosen(rollback'.inter, handle)
LEMMA ChosenStep == IInv /\ [Next]_vars => StillChosen
<1> SUFFICES ASSUME IInv, TypeOK', [Next]_vars PROVE StillChosen
  BY TypesStep DEF IInv
<1> USE TypeParts DEF IInv, SessionOK, StillChosen
<1>0. /\ Chosen(inter, handle) /\ Chosen(rollback.inter, handle) /\ Chosen(NoInteraction, handle)
      /\ Chosen(FailedState(inter), handle) /\ Chosen(Expired(inter), handle)
      /\ Chosen(AdmissionExpired(inter), handle)
      /\ Chosen([inter EXCEPT !.admission = FALSE], handle)
      /\ Chosen([inter EXCEPT !.copy = @ + 1], handle)
      /\ \A q \in Questions : Chosen(Requested(q), handle)
  BY ChosenStays DEF Held
<1>1. CASE UNCHANGED <<inter, rollback>>
  BY <1>0, <1>1
<1>2. ASSUME NEW q \in Questions, Announced(q) PROVE StillChosen
  <2>1. CASE rollback' = rollback /\ inter' \in {inter, Expired(inter)}
    BY <1>0, <2>1
  <2>2. CASE /\ inter' = Requested(q)
             /\ rollback' = [session |-> session, inter |-> [inter EXCEPT !.copy = @ + 1]]
    BY <1>0, <2>2
  <2> QED  BY <1>2, <2>1, <2>2 DEF Announced
<1>3. ASSUME NEW q \in Questions, Settle(q) PROVE StillChosen
  <2>1. Chosen(rollback'.inter, handle)
    BY <1>0, <1>3 DEF Settle, NoSnapshot
  <2>2. Chosen(inter', handle)
    BY <1>0, <1>3 DEF Settle
  <2> QED  BY <2>1, <2>2
<1>4. CASE OtherEvent
  BY <1>0, <1>4 DEF OtherEvent
<1>5. CASE EndArrives
  BY <1>0, <1>5 DEF EndArrives
<1>6. CASE ExpireCard
  BY <1>0, <1>6 DEF ExpireCard
<1>7. ASSUME NEW k \in Clicks, NEW q \in Questions, NEW choice \in Choices,
             Click(k, q, choice) PROVE StillChosen
  <2>1. inter.admission \/ Expired(inter).status # "pending"
    BY RequestFields DEF Requests, BothAdmitted, Admitted
  <2>2. rollback' = rollback /\ inter' \in {inter, Expired(inter)}
    BY <1>7, <2>1 DEF Click
  <2> QED  BY <1>0, <2>2
<1>8. ASSUME NEW k \in Clicks, Unresolved(k) PROVE StillChosen
  BY <1>0, <1>8 DEF Unresolved
<1>9. ASSUME NEW k \in Clicks, Resolved(k) PROVE StillChosen
  <2>1. /\ rollback' = rollback /\ click[k].choice \in Choices
        /\ handle[click[k].q] = click[k].choice
    BY <1>9 DEF Resolved, Clicked, Told, Held, Unasked, Recorded, Answered
  <2>2. CASE IsCurrent(k)
    <3>1. inter' = Completed(inter, click[k].choice) /\ inter.q = click[k].q
      BY <1>9, <2>2 DEF Resolved, IsCurrent, SameObject
    <3>2. Chosen(inter', handle)
      BY <1>0, <2>1, <3>1, RequestFields DEF Chosen
    <3> QED  BY <1>0, <2>1, <3>2
  <2>3. CASE ~IsCurrent(k)
    BY <1>9, <2>1, <2>3, <1>0 DEF Resolved
  <2> QED  BY <2>2, <2>3
<1> QED  BY <1>1, <1>2, <1>3, <1>4, <1>5, <1>6, <1>7, <1>8, <1>9 DEF Next, Asks,
          Delivers, Serves, Cleans, vars, asking, plugin, sidecar, threads, Ask, Admit, Decline,
          Return, Pass, Abandon, Claim, Resolve, Record, Respond, Prepare, WaitOver, WaitFails,
          PutOff, Defer, End, EndPosted, Reset

\* A handle is open only once its question is asked.
LEMMA UnaskedStep == IInv /\ [Next]_vars => Unasked'
<1> SUFFICES ASSUME IInv, TypeOK', [Next]_vars PROVE Unasked'
  BY TypesStep DEF IInv
<1> USE TypeParts, InteractionsAssumption DEF IInv, Held, Unasked, AskingOK
<1>1. CASE UNCHANGED <<asker, handle>>
  BY <1>1
<1>2. ASSUME NEW q \in Questions, Ask(q) PROVE Unasked'
  BY <1>2 DEF Ask
<1>3. ASSUME NEW q \in Questions, Admit(q) PROVE Unasked'
  BY <1>3 DEF Admit
<1>4. ASSUME NEW q \in Questions, Decline(q) PROVE Unasked'
  BY <1>4 DEF Decline, asking, plugin, sidecar, threads
<1>5. ASSUME NEW q \in Questions, Return(q) PROVE Unasked'
  BY <1>5 DEF Return, asking, plugin, sidecar, threads
<1>6. ASSUME NEW k \in Clicks, Resolve(k) PROVE Unasked'
  <2>1. click[k].q \in Questions
    BY <1>6 DEF Resolve, Clicked
  <2> QED  BY <1>6, <2>1 DEF Resolve, asking
<1> QED  BY <1>1, <1>2, <1>3, <1>4, <1>5, <1>6 DEF Next, Asks, Delivers, Serves, Cleans,
          vars, asking, plugin, sidecar, threads, Announced, Settle, Pass, OtherEvent, EndArrives,
          Abandon, ExpireCard, Click, Claim, Record, Respond, Unresolved, Resolved, Prepare,
          WaitOver, WaitFails, PutOff, Defer, End, EndPosted, Reset

\* Together: whatever counts as chosen is what the handle holds.
LEMMA HeldStep == IInv /\ [Next]_vars => Held'
<1> SUFFICES ASSUME IInv, TypeOK', [Next]_vars
             PROVE  Chosen(inter, handle)' /\ Chosen(rollback.inter, handle)'
  BY TypesStep, UnaskedStep, RecordedStep, ToldStep DEF IInv, Held
<1>1. /\ inter'.status = "completed" => inter'.q \in Questions
      /\ rollback'.inter.status = "completed" => rollback'.inter.q \in Questions
  BY AdmittedStep DEF BothAdmitted, Admitted, TypeOK, InteractionState
<1> QED  BY <1>1, ChosenStep, HandleStays DEF Chosen, StillChosen, HandleKept

-----------------------------------------------------------------------------
(* Claims and clean-ups. *)

\* That a turn was ended twice stays so.
LEMMA TwiceStays == IInv /\ [Next]_vars => (EndedTwice => EndedTwice')
<1> SUFFICES ASSUME IInv, [Next]_vars PROVE EndedTwice => EndedTwice'
  BY DEF IInv
<1> USE TypeParts DEF IInv, ThreadsOK, Cleaners
<1>1. CASE UNCHANGED cleaner
  BY <1>1 DEF EndedTwice
<1>2. ASSUME NEW c \in Cleaners, Prepare(c) PROVE EndedTwice => EndedTwice'
  <2>1. \A b \in Cleaners : cleaner[b].at \in {"posted", "done"} => cleaner'[b] = cleaner[b]
    BY <1>2 DEF Prepare, Watch
  <2>2. \A b \in Cleaners : cleaner[b].at = "posting" => cleaner'[b].at \in {"posting", "posted"}
    BY <1>2 DEF Prepare, Watch
  <2> QED  BY <2>1, <2>2 DEF EndedTwice
<1>3. ASSUME NEW c \in Cleaners, WaitOver(c) PROVE EndedTwice => EndedTwice'
  <2>1. \A b \in Cleaners : cleaner[b].at \in {"posted", "done"} => cleaner'[b] = cleaner[b]
    BY <1>3 DEF WaitOver, Goes
  <2>2. \A b \in Cleaners : cleaner[b].at = "posting" => cleaner'[b].at \in {"posting", "posted"}
    BY <1>3 DEF WaitOver, Goes
  <2> QED  BY <2>1, <2>2 DEF EndedTwice
<1>4. ASSUME NEW c \in Cleaners, WaitFails(c) PROVE EndedTwice => EndedTwice'
  <2>1. \A b \in Cleaners : cleaner[b].at \in {"posted", "done"} => cleaner'[b] = cleaner[b]
    BY <1>4 DEF WaitFails, Goes
  <2>2. \A b \in Cleaners : cleaner[b].at = "posting" => cleaner'[b].at \in {"posting", "posted"}
    BY <1>4 DEF WaitFails, Goes
  <2> QED  BY <2>1, <2>2 DEF EndedTwice
<1>5. ASSUME NEW c \in Cleaners, PutOff(c) PROVE EndedTwice => EndedTwice'
  <2>1. \A b \in Cleaners : cleaner[b].at \in {"posted", "done"} => cleaner'[b] = cleaner[b]
    BY <1>5 DEF PutOff, Goes
  <2>2. \A b \in Cleaners : cleaner[b].at = "posting" => cleaner'[b].at \in {"posting", "posted"}
    BY <1>5 DEF PutOff, Goes
  <2> QED  BY <2>1, <2>2 DEF EndedTwice
<1>6. ASSUME NEW c \in Cleaners, Defer(c) PROVE EndedTwice => EndedTwice'
  <2>1. \A b \in Cleaners : cleaner[b].at \in {"posted", "done"} => cleaner'[b] = cleaner[b]
    BY <1>6 DEF Defer, Goes, LookAgain
  <2>2. \A b \in Cleaners : cleaner[b].at = "posting" => cleaner'[b].at \in {"posting", "posted"}
    BY <1>6 DEF Defer, Goes, LookAgain
  <2> QED  BY <2>1, <2>2 DEF EndedTwice
<1>7. ASSUME NEW e \in Ends, End(e) PROVE EndedTwice => EndedTwice'
  <2>1. \A b \in Cleaners : cleaner[b].at \in {"posted", "done"} => cleaner'[b] = cleaner[b]
    BY <1>7 DEF End, Goes
  <2>2. \A b \in Cleaners : cleaner[b].at = "posting" => cleaner'[b].at \in {"posting", "posted"}
    BY <1>7 DEF End, Goes
  <2> QED  BY <2>1, <2>2 DEF EndedTwice
<1>8. ASSUME NEW e \in Ends, EndPosted(e) PROVE EndedTwice => EndedTwice'
  <2>1. \A b \in Cleaners : cleaner[b].at \in {"posted", "done"} => cleaner'[b] = cleaner[b]
    BY <1>8 DEF EndPosted, Goes
  <2>2. \A b \in Cleaners : cleaner[b].at = "posting" => cleaner'[b].at \in {"posting", "posted"}
    BY <1>8 DEF EndPosted, Goes
  <2> QED  BY <2>1, <2>2 DEF EndedTwice
<1>9. ASSUME NEW r \in Resets, Reset(r) PROVE EndedTwice => EndedTwice'
  <2>1. \A b \in Cleaners : cleaner[b].at \in {"posted", "done"} => cleaner'[b] = cleaner[b]
    BY <1>9 DEF Reset, Goes
  <2>2. \A b \in Cleaners : cleaner[b].at = "posting" => cleaner'[b].at \in {"posting", "posted"}
    BY <1>9 DEF Reset, Goes
  <2> QED  BY <2>1, <2>2 DEF EndedTwice
<1> QED  BY <1>1, <1>2, <1>3, <1>4, <1>5, <1>6, <1>7, <1>8, <1>9 DEF Next, Asks,
          Delivers, Serves, Cleans, vars, asking, plugin, sidecar, threads, Ask, Admit, Decline,
          Return, Announced, Settle, Pass, OtherEvent, EndArrives, Abandon, ExpireCard, Click,
          Claim, Resolve, Record, Respond, Unresolved, Resolved

\* Nobody takes the entry from a resolver.  A clean-up does only when no
\* resolver is under way.
LEMMA ClaimedStep == IInv /\ [Next]_vars /\ ~EndedTwice' => Claimed'
<1> SUFFICES ASSUME IInv, TypeOK', [Next]_vars, ~EndedTwice' PROVE Claimed'
  BY TypesStep DEF IInv
<1> USE TypeParts, InteractionsAssumption DEF IInv, ThreadsOK, AskingOK
<1>0. Claimed /\ Cleaned
  BY TwiceStays DEF Safe
<1>k. \A m \in Resolving :
          /\ m \in Clicks /\ click[m].at # "idle" /\ click[m].q \in Questions
          /\ click[m].choice \in Choices /\ entry[click[m].q].held
          /\ entry[click[m].q].resolving = click[m].choice
          /\ entry[click[m].q].resolving # "none"
  BY <1>0 DEF Claimed, Resolving, Clicked
<1>u. \A m, n \in Resolving : click[m].q = click[n].q => m = n
  BY <1>0 DEF Claimed
<1>1. CASE UNCHANGED <<click, call, entry>>
  BY <1>1, <1>k, <1>u DEF Claimed, Resolving
<1>2. ASSUME NEW q \in Questions, Ask(q) PROVE Claimed'
  <2>1. Resolving' = Resolving /\ click' = click /\ entry[q] = Absent
    BY <1>2 DEF Ask, Turns, Resolving, threads
  <2>2. \A m \in Resolving : click[m].q # q
    BY <2>1, <1>k DEF Absent
  <2>3. \A m \in Resolving : entry'[click[m].q] = entry[click[m].q]
    BY <1>2, <2>2, <1>k, SweptTypes DEF Ask, PluginOK, Neat
  <2> QED  BY <2>1, <2>3, <1>k, <1>u DEF Claimed
<1>3. ASSUME NEW q \in Questions, Admit(q) PROVE Claimed'
  <2>1. /\ Resolving' \subseteq Resolving
        /\ \A m \in Resolving : click'[m] = click[m] /\ entry'[click[m].q] = entry[click[m].q]
    BY <1>3, <1>k, SweptTypes DEF Admit, Resolving, PluginOK, threads
  <2> QED  BY <2>1, <1>k, <1>u DEF Claimed
<1>4. ASSUME NEW k \in Clicks, NEW q \in Questions, NEW choice \in Choices,
             Click(k, q, choice) PROVE Claimed'
  <2>1. /\ Resolving' \subseteq Resolving
        /\ \A m \in Resolving : click'[m] = click[m] /\ entry'[click[m].q] = entry[click[m].q]
    BY <1>4, <1>k DEF Click, Refuse, Resolving, plugin
  <2> QED  BY <2>1, <1>k, <1>u DEF Claimed
<1>5. ASSUME NEW k \in Clicks, Claim(k) PROVE Claimed'
  <2> DEFINE s == click[k].q
  <2>1. s \in Questions /\ click[k].choice \in Choices /\ click' = click
    BY <1>5 DEF Clicked, Claim
  <2>2. \A p \in Questions : entry[p].resolving # "none" => entry'[p] = entry[p]
    BY <1>5, <2>1, ClaimFields
  <2>3. CASE Resolving' \subseteq Resolving
    BY <2>1, <2>2, <2>3, <1>k, <1>u DEF Claimed
  <2>4. CASE /\ call' = [call EXCEPT ![k] = "resolving"] /\ entry[s].resolving = "none"
             /\ entry'[s].held /\ entry'[s].resolving = click[k].choice
    <3>1. Resolving' \subseteq Resolving \cup {k}
      BY <2>4 DEF Resolving
    <3>2. \A m \in Resolving : click[m].q # s
      BY <2>4, <1>k
    <3>3. \A m \in Resolving : entry'[click[m].q] = entry[click[m].q]
      BY <2>2, <1>k
    <3>4. \A m \in Resolving' :
             entry'[click'[m].q].held /\ entry'[click'[m].q].resolving = click'[m].choice
      BY <2>1, <2>4, <3>1, <3>3, <1>k
    <3>5. \A m, n \in Resolving' : click'[m].q = click'[n].q => m = n
      BY <2>1, <3>1, <3>2, <1>u
    <3> QED  BY <3>4, <3>5 DEF Claimed
  <2>5. \/ call' \in {[call EXCEPT ![k] = "yes"], [call EXCEPT ![k] = "no"]}
        \/ /\ call' = [call EXCEPT ![k] = "resolving"] /\ entry[s].resolving = "none"
           /\ entry'[s].held /\ entry'[s].resolving = click[k].choice
    BY <1>5, <2>1, ClaimFields
  <2>6. call' \in {[call EXCEPT ![k] = "yes"], [call EXCEPT ![k] = "no"]}
           => Resolving' \subseteq Resolving
    BY DEF Resolving
  <2> QED  BY <2>3, <2>4, <2>5, <2>6
<1>6. ASSUME NEW k \in Clicks, Resolve(k) PROVE Claimed'
  <2>1. /\ Resolving' \subseteq Resolving
        /\ \A m \in Resolving : click'[m] = click[m] /\ entry'[click[m].q] = entry[click[m].q]
    BY <1>6, <1>k DEF Resolve, Resolving, plugin
  <2> QED  BY <2>1, <1>k, <1>u DEF Claimed
<1>7. ASSUME NEW k \in Clicks, Record(k) PROVE Claimed'
  <2> DEFINE s == click[k].q
  <2>1. s \in Questions /\ click' = click /\ k \in Resolving
    BY <1>7 DEF Clicked, Record, Resolving
  <2>2. \A p \in Questions : p # s => entry'[p] = entry[p]
    BY <1>7, <2>1, RecordFields
  <2>3. Resolving' \subseteq Resolving \ {k}
    BY <1>7 DEF Record, Resolving
  <2> QED  BY <2>1, <2>2, <2>3, <1>k, <1>u DEF Claimed
<1>8. ASSUME NEW k \in Clicks, Respond(k) PROVE Claimed'
  <2>1. CASE Resolving = {}
    <3>1. Resolving' = {}
      BY <1>8, <2>1 DEF Respond, Resolving
    <3> QED  BY <3>1 DEF Claimed
  <2>2. CASE \A m \in Resolving : entry'[click[m].q] = entry[click[m].q]
    <3>1. Resolving' \subseteq Resolving /\ click' = click
      BY <1>8 DEF Respond, Resolving
    <3> QED  BY <2>2, <3>1, <1>k, <1>u DEF Claimed
  <2>3. Resolving = {} \/ \A m \in Resolving : entry'[click[m].q] = entry[click[m].q]
    BY <1>8, <1>0, <1>k, SweptTypes, ForgetFields DEF Respond, PluginOK, Cleaned, plugin, Cleaners
  <2> QED  BY <2>1, <2>2, <2>3
<1>9. ASSUME NEW k \in Clicks, Unresolved(k) PROVE Claimed'
  <2>1. Resolving' = Resolving /\ entry' = entry
    BY <1>9 DEF Unresolved, Resolving, plugin
  <2>2. \A m \in Clicks : click'[m].q = click[m].q /\ click'[m].choice = click[m].choice
    BY <1>9 DEF Unresolved
  <2>3. \A m \in Resolving : click'[m].q = click[m].q /\ click'[m].choice = click[m].choice
    BY <2>2, <1>k
  <2> QED  BY <2>1, <2>3, <1>k, <1>u DEF Claimed
<1>10. ASSUME NEW k \in Clicks, Resolved(k) PROVE Claimed'
  <2>1. Resolving' = Resolving /\ entry' = entry
    BY <1>10 DEF Resolved, Resolving, plugin
  <2>2. \A m \in Clicks : click'[m].q = click[m].q /\ click'[m].choice = click[m].choice
    BY <1>10 DEF Resolved
  <2>3. \A m \in Resolving : click'[m].q = click[m].q /\ click'[m].choice = click[m].choice
    BY <2>2, <1>k
  <2> QED  BY <2>1, <2>3, <1>k, <1>u DEF Claimed
<1>11. ASSUME NEW c \in Cleaners, Defer(c) PROVE Claimed'
  <2>1. CASE Resolving = {}
    <3>1. Resolving' = {}
      BY <1>11, <2>1 DEF Defer, Resolving, LookAgain
    <3> QED  BY <3>1 DEF Claimed
  <2>2. CASE \A m \in Resolving : entry'[click[m].q] = entry[click[m].q]
    <3>1. Resolving' \subseteq Resolving /\ click' = click
      BY <1>11 DEF Defer, Resolving, LookAgain
    <3> QED  BY <2>2, <3>1, <1>k, <1>u DEF Claimed
  <2>3. Resolving = {} \/ \A m \in Resolving : entry'[click[m].q] = entry[click[m].q]
    BY <1>11, <1>0, <1>k, SweptTypes, ForgetFields
       DEF Defer, PluginOK, Cleaned, plugin, LookAgain, Cleaners
  <2> QED  BY <2>1, <2>2, <2>3
<1>12. ASSUME NEW e \in Ends, End(e) PROVE Claimed'
  <2>1. CASE Resolving = {}
    <3>1. Resolving' = {}
      BY <1>12, <2>1 DEF End, Resolving
    <3> QED  BY <3>1 DEF Claimed
  <2>2. CASE \A m \in Resolving : entry'[click[m].q] = entry[click[m].q]
    <3>1. Resolving' \subseteq Resolving /\ click' = click
      BY <1>12 DEF End, Resolving
    <3> QED  BY <2>2, <3>1, <1>k, <1>u DEF Claimed
  <2>3. Resolving = {} \/ \A m \in Resolving : entry'[click[m].q] = entry[click[m].q]
    BY <1>12, <1>0, <1>k, SweptTypes, ForgetFields DEF End, PluginOK, Cleaned, plugin, Cleaners
  <2> QED  BY <2>1, <2>2, <2>3
<1>13. ASSUME NEW e \in Ends, EndPosted(e) PROVE Claimed'
  <2>1. CASE Resolving = {}
    <3>1. Resolving' = {}
      BY <1>13, <2>1 DEF EndPosted, Resolving
    <3> QED  BY <3>1 DEF Claimed
  <2>2. CASE \A m \in Resolving : entry'[click[m].q] = entry[click[m].q]
    <3>1. Resolving' \subseteq Resolving /\ click' = click
      BY <1>13 DEF EndPosted, Resolving
    <3> QED  BY <2>2, <3>1, <1>k, <1>u DEF Claimed
  <2>3. Resolving = {} \/ \A m \in Resolving : entry'[click[m].q] = entry[click[m].q]
    BY <1>13, <1>0, <1>k, SweptTypes, ForgetFields
       DEF EndPosted, PluginOK, Cleaned, plugin, Cleaners
  <2> QED  BY <2>1, <2>2, <2>3
<1>14. ASSUME NEW r \in Resets, Reset(r) PROVE Claimed'
  <2>1. CASE Resolving = {}
    <3>1. Resolving' = {}
      BY <1>14, <2>1 DEF Reset, Resolving
    <3> QED  BY <3>1 DEF Claimed
  <2>2. CASE \A m \in Resolving : entry'[click[m].q] = entry[click[m].q]
    <3>1. Resolving' \subseteq Resolving /\ click' = click
      BY <1>14 DEF Reset, Resolving
    <3> QED  BY <2>2, <3>1, <1>k, <1>u DEF Claimed
  <2>3. Resolving = {} \/ \A m \in Resolving : entry'[click[m].q] = entry[click[m].q]
    BY <1>14, <1>0, <1>k, SweptTypes, ForgetFields DEF Reset, PluginOK, Cleaned, plugin, Cleaners
  <2> QED  BY <2>1, <2>2, <2>3
<1> QED  BY <1>1, <1>2, <1>3, <1>4, <1>5, <1>6, <1>7, <1>8, <1>9, <1>10, <1>11, <1>12,
          <1>13, <1>14 DEF Next, Asks, Delivers, Serves, Cleans, vars, asking, plugin, sidecar,
          threads, Decline, Return, Announced, Settle, Pass, OtherEvent, EndArrives, Abandon,
          ExpireCard, Prepare, WaitOver, WaitFails, PutOff

\* A clean-up keeps its flag up: the flag goes down with the turn, or with an
\* end that finds another one posting.
LEMMA CleanedStep == IInv /\ [Next]_vars /\ ~EndedTwice' => Cleaned'
<1> SUFFICES ASSUME IInv, TypeOK', [Next]_vars, ~EndedTwice' PROVE Cleaned'
  BY TypesStep DEF IInv
<1> USE TypeParts, InteractionsAssumption DEF IInv, ThreadsOK, AskingOK, Cleaners
<1>0. Claimed /\ Cleaned
  BY TwiceStays DEF Safe
<1>k. \A m \in Resolving :
          /\ m \in Clicks /\ click[m].at # "idle" /\ click[m].q \in Questions
          /\ click[m].choice \in Choices /\ entry[click[m].q].held
          /\ entry[click[m].q].resolving = click[m].choice
          /\ entry[click[m].q].resolving # "none"
  BY <1>0 DEF Claimed, Resolving, Clicked
<1>c. ASSUME \A b \in Cleaners : cleaner'[b] = cleaner[b], Resolving' \subseteq Resolving,
             turn' = "gone" \/ (turn' = turn /\ cleaning' = cleaning)
      PROVE  Cleaned'
  BY <1>0, <1>c DEF Cleaned
<1>1. CASE UNCHANGED <<cleaner, turn, cleaning, call>>
  BY <1>1, <1>0 DEF Cleaned, Resolving
<1>2. ASSUME NEW k \in Clicks, NEW q \in Questions, NEW choice \in Choices,
             Click(k, q, choice) PROVE Cleaned'
  <2>1. cleaner' = cleaner /\ Resolving' \subseteq Resolving
    BY <1>2 DEF Click, Resolving, Refuse
  <2>2. turn' = "gone" \/ (turn' = turn /\ cleaning' = cleaning)
    BY <1>2, ForgetFields DEF Click, Refuse, plugin
  <2> QED  BY <2>1, <2>2, <1>c
<1>3. ASSUME NEW k \in Clicks, Claim(k) PROVE Cleaned'
  <2> DEFINE s == click[k].q
  <2>1. s \in Questions /\ click[k].choice \in Choices
    BY <1>3 DEF Clicked, Claim
  <2>2. cleaner' = cleaner /\ turn' = turn /\ cleaning' = cleaning
    BY <1>3 DEF Claim
  <2>3. CASE call' \in {[call EXCEPT ![k] = "yes"], [call EXCEPT ![k] = "no"]}
    <3>1. Resolving' \subseteq Resolving
      BY <2>3 DEF Resolving
    <3> QED  BY <2>2, <3>1, <1>c
  <2>4. CASE ~cleaning /\ entry[s].held
    <3>1. turn # "gone"
      BY <2>1, <2>4 DEF Turns, Absent
    <3>2. \A b \in Cleaners : cleaner[b].at \notin Waiting
      BY <2>4, <3>1, <1>0 DEF Cleaned
    <3> QED  BY <2>2, <3>2 DEF Cleaned, Waiting
  <2> QED  BY <1>3, <2>1, <2>3, <2>4, ClaimFields
<1>4. ASSUME NEW k \in Clicks, Resolve(k) PROVE Cleaned'
  <2>1. cleaner' = cleaner /\ Resolving' \subseteq Resolving
    BY <1>4 DEF Resolve, Resolving
  <2>2. turn' = "gone" \/ (turn' = turn /\ cleaning' = cleaning)
    BY <1>4, ForgetFields DEF Resolve, plugin
  <2> QED  BY <2>1, <2>2, <1>c
<1>5. ASSUME NEW k \in Clicks, Record(k) PROVE Cleaned'
  <2>1. cleaner' = cleaner /\ Resolving' \subseteq Resolving
    BY <1>5 DEF Record, Resolving
  <2>2. turn' = "gone" \/ (turn' = turn /\ cleaning' = cleaning)
    BY <1>5, ForgetFields DEF Record, plugin
  <2> QED  BY <2>1, <2>2, <1>c
<1>6. ASSUME NEW k \in Clicks, Respond(k) PROVE Cleaned'
  <2>1. cleaner' = cleaner /\ Resolving' \subseteq Resolving
    BY <1>6 DEF Respond, Resolving
  <2>2. turn' = "gone" \/ (turn' = turn /\ cleaning' = cleaning)
    BY <1>6, ForgetFields DEF Respond, plugin
  <2> QED  BY <2>1, <2>2, <1>c
<1>7. ASSUME NEW c \in Cleaners, Prepare(c) PROVE Cleaned'
  <2>1. /\ \A b \in Cleaners : b # c => cleaner'[b] = cleaner[b]
        /\ Resolving' = Resolving /\ cleaning' = TRUE
    BY <1>7 DEF Prepare, Watch, Resolving
  <2>2. cleaner'[c].at = "waiting" /\ cleaner'[c].watched = Resolving
    BY <1>7, <1>k DEF Prepare, Watch
  <2> QED  BY <2>1, <2>2, <1>0 DEF Cleaned, Waiting
<1>8. ASSUME NEW c \in Cleaners, WaitOver(c) PROVE Cleaned'
  <2>1. /\ \A b \in Cleaners : b # c => cleaner'[b] = cleaner[b]
        /\ Resolving' = Resolving /\ turn' = turn /\ cleaning' = cleaning
    BY <1>8 DEF WaitOver, Goes, Resolving, plugin
  <2>2. cleaner'[c].at = "ready" /\ cleaner[c].at = "waiting" /\ Resolving = {}
    BY <1>8, <1>0 DEF WaitOver, Goes, Cleaned
  <2> QED  BY <2>1, <2>2, <1>0 DEF Cleaned, Waiting
<1>9. ASSUME NEW c \in Cleaners, WaitFails(c) PROVE Cleaned'
  <2>1. /\ \A b \in Cleaners : b # c => cleaner'[b] = cleaner[b]
        /\ Resolving' = Resolving /\ turn' = turn /\ cleaning' = cleaning
    BY <1>9 DEF WaitFails, Goes, Resolving, plugin
  <2>2. cleaner'[c].at = "late" /\ cleaner[c].at = "waiting"
    BY <1>9 DEF WaitFails, Goes
  <2> QED  BY <2>1, <2>2, <1>0 DEF Cleaned, Waiting
<1>10. ASSUME NEW c \in Cleaners, PutOff(c) PROVE Cleaned'
  <2>1. /\ \A b \in Cleaners : b # c => cleaner'[b] = cleaner[b]
        /\ Resolving' = Resolving /\ turn' = turn /\ cleaning' = cleaning
    BY <1>10 DEF PutOff, Goes, Resolving, plugin
  <2>2. cleaner'[c].at = "deferring" /\ cleaner[c].at = "late"
    BY <1>10 DEF PutOff, Goes
  <2> QED  BY <2>1, <2>2, <1>0 DEF Cleaned, Waiting
<1>11. ASSUME NEW c \in Cleaners, Defer(c) PROVE Cleaned'
  <2>1. /\ \A b \in Cleaners : b # c => cleaner'[b] = cleaner[b]
        /\ Resolving' = Resolving /\ cleaner'[c].at = "done"
    BY <1>11 DEF Defer, Goes, Resolving, LookAgain
  <2>2. turn' = "gone" \/ (turn' = turn /\ cleaning' = cleaning)
    BY <1>11, ForgetFields DEF Defer, LookAgain, plugin
  <2>3. \A b \in Cleaners : b # c =>
           /\ cleaner'[b].at \in Waiting /\ turn' # "gone" => cleaning'
           /\ cleaner'[b].at = "waiting" => Resolving' \subseteq cleaner'[b].watched
           /\ cleaner'[b].at \in {"ready", "posting"} => Resolving' = {}
    BY <2>1, <2>2, <1>0 DEF Cleaned
  <2> QED  BY <2>1, <2>3 DEF Cleaned, Waiting
<1>12. ASSUME NEW e \in Ends, End(e) PROVE Cleaned'
  <2>0. Resolving' = Resolving /\ Resolving = {}
    BY <1>12, <1>0 DEF End, Resolving, Cleaned
  <2>1. CASE turn # "live" /\ turn' = turn /\ Goes(e, "done")
    <3>1. /\ \A b \in Cleaners : b # e => cleaner'[b] = cleaner[b]
          /\ cleaner'[e].at = "done"
      BY <2>1 DEF Goes
    <3>2. turn = "gone"
      <4>1. ASSUME turn \in Ends PROVE FALSE
        <5>1. cleaner[turn].at = "posting" /\ turn # e
          BY <1>12, <4>1 DEF Turns, End
        <5>2. EndedTwice'
          BY <3>1, <4>1, <5>1 DEF EndedTwice
        <5> QED  BY <5>2
      <4> QED  BY <2>1, <4>1 DEF PluginOK
    <3> QED  BY <2>0, <2>1, <3>1, <3>2 DEF Cleaned
  <2>2. CASE Forget /\ Goes(e, "done")
    <3>1. /\ \A b \in Cleaners : b # e => cleaner'[b] = cleaner[b]
          /\ cleaner'[e].at = "done" /\ turn' = "gone"
      BY <2>2, ForgetFields DEF Goes
    <3> QED  BY <2>0, <3>1 DEF Cleaned
  <2>3. CASE turn = "live" /\ cleaning' = cleaning /\ Goes(e, "posting")
    <3>1. /\ \A b \in Cleaners : b # e => cleaner'[b] = cleaner[b]
          /\ cleaner'[e].at = "posting"
      BY <2>3 DEF Goes
    <3>2. cleaning
      BY <1>12, <2>3, <1>0 DEF End, Cleaned, Waiting
    <3> QED  BY <2>0, <2>3, <3>1, <3>2 DEF Cleaned
  <2> QED  BY <1>12, <2>1, <2>2, <2>3 DEF End
<1>13. ASSUME NEW e \in Ends, EndPosted(e) PROVE Cleaned'
  <2>1. /\ \A b \in Cleaners : b # e => cleaner'[b] = cleaner[b]
        /\ Resolving' = Resolving /\ cleaner'[e].at = "posted"
    BY <1>13 DEF EndPosted, Goes, Resolving
  <2>2. turn' = "gone" \/ (turn' = turn /\ cleaning' = cleaning)
    BY <1>13, ForgetFields DEF EndPosted, plugin
  <2>3. \A b \in Cleaners : b # e =>
           /\ cleaner'[b].at \in Waiting /\ turn' # "gone" => cleaning'
           /\ cleaner'[b].at = "waiting" => Resolving' \subseteq cleaner'[b].watched
           /\ cleaner'[b].at \in {"ready", "posting"} => Resolving' = {}
    BY <2>1, <2>2, <1>0 DEF Cleaned
  <2> QED  BY <2>1, <2>3 DEF Cleaned, Waiting
<1>14. ASSUME NEW r \in Resets, Reset(r) PROVE Cleaned'
  <2>1. /\ \A b \in Cleaners : b # r => cleaner'[b] = cleaner[b]
        /\ Resolving' = Resolving /\ cleaner'[r].at = "done"
    BY <1>14 DEF Reset, Goes, Resolving
  <2>2. turn' = "gone"
    BY <1>14, ForgetFields DEF Reset
  <2> QED  BY <2>1, <2>2, <1>0 DEF Cleaned, Waiting
<1> QED  BY <1>1, <1>2, <1>3, <1>4, <1>5, <1>6, <1>7, <1>8, <1>9, <1>10, <1>11, <1>12,
          <1>13, <1>14 DEF Next, Asks, Delivers, Serves, Cleans, vars, asking, plugin, sidecar,
          threads, Ask, Admit, Decline, Return, Announced, Settle, Pass, OtherEvent, EndArrives,
          Abandon, ExpireCard, Unresolved, Resolved

\* Both hold until a turn is ended twice.
LEMMA SafeStep == IInv /\ [Next]_vars => Safe'
BY ClaimedStep, CleanedStep DEF Safe

\* The last resolution under way keeps the clean-up that was put off, until it
\* has looked again itself.
LEMMA KeeperStep == IInv /\ [Next]_vars => PutOffHasKeeper'
<1> SUFFICES ASSUME IInv, TypeOK', [Next]_vars PROVE PutOffHasKeeper'
  BY TypesStep DEF IInv
<1> USE TypeParts, InteractionsAssumption DEF IInv, ThreadsOK, Cleaners, PutOffHasKeeper
<1>1. CASE UNCHANGED <<deferred, entry, call, cleaner>>
  BY <1>1
<1>e. ASSUME deferred' = deferred,
             \A p \in Questions : entry[p].resolving # "none" => entry'[p] = entry[p],
             \A m \in Clicks : call[m] \in {"accepted", "rejected"} => call'[m] = call[m],
             \A b \in Cleaners : cleaner[b].at = "deferring" => cleaner'[b] = cleaner[b]
      PROVE  PutOffHasKeeper'
  BY <1>e
<1>2. ASSUME NEW q \in Questions, Ask(q) PROVE PutOffHasKeeper'
  <2>1. entry[q] = Absent /\ Absent.resolving = "none"
    BY <1>2 DEF Ask, Turns, Absent
  <2>2. \A p \in Questions : entry[p].resolving # "none" => entry'[p] = entry[p]
    BY <1>2, <2>1, SweptTypes DEF Ask, PluginOK, Neat
  <2> QED  BY <1>2, <2>2, <1>e DEF Ask, threads
<1>3. ASSUME NEW q \in Questions, Admit(q) PROVE PutOffHasKeeper'
  <2>1. \A p \in Questions : entry[p].resolving # "none" => entry'[p] = entry[p]
    BY <1>3, SweptTypes DEF Admit, PluginOK
  <2> QED  BY <1>3, <2>1, <1>e DEF Admit, threads
<1>4. ASSUME NEW k \in Clicks, NEW q \in Questions, NEW choice \in Choices,
             Click(k, q, choice) PROVE PutOffHasKeeper'
  <2>1. call[k] = "none"
    BY <1>4 DEF Click, Clicked
  <2>2. \A m \in Clicks : call[m] \in {"accepted", "rejected"} => call'[m] = call[m]
    BY <1>4, <2>1 DEF Click
  <2> QED  BY <1>4, <2>2, <1>e DEF Click, plugin
<1>5. ASSUME NEW k \in Clicks, Claim(k) PROVE PutOffHasKeeper'
  <2>1. click[k].q \in Questions /\ click[k].choice \in Choices
    BY <1>5 DEF Clicked, Claim, AskingOK
  <2>2. \A p \in Questions : entry[p].resolving # "none" => entry'[p] = entry[p]
    BY <1>5, <2>1, ClaimFields
  <2>3. \A m \in Clicks : call[m] \in {"accepted", "rejected"} => call'[m] = call[m]
    BY <1>5 DEF Claim
  <2> QED  BY <1>5, <2>2, <2>3, <1>e DEF Claim
<1>6. ASSUME NEW k \in Clicks, Resolve(k) PROVE PutOffHasKeeper'
  <2>1. \A m \in Clicks : call[m] \in {"accepted", "rejected"} => call'[m] = call[m]
    BY <1>6 DEF Resolve
  <2> QED  BY <1>6, <2>1, <1>e DEF Resolve, plugin
<1>7. ASSUME NEW k \in Clicks, Record(k) PROVE PutOffHasKeeper'
  BY <1>7 DEF Record
<1>g. ASSUME CompleteDeferred, deferred' PROVE \E p \in Questions : entry'[p].resolving # "none"
  BY <1>g, ForgetFields
<1>8. ASSUME NEW k \in Clicks, Respond(k) PROVE PutOffHasKeeper'
  BY <1>8, <1>g DEF Respond
<1>9. ASSUME NEW c \in Cleaners, Prepare(c) PROVE PutOffHasKeeper'
  <2>1. \A b \in Cleaners : cleaner[b].at = "deferring" => cleaner'[b] = cleaner[b]
    BY <1>9 DEF Prepare, Watch
  <2> QED  BY <1>9, <2>1, <1>e DEF Prepare
<1>10. ASSUME NEW c \in Cleaners, WaitOver(c) \/ WaitFails(c) PROVE PutOffHasKeeper'
  <2>1. \A b \in Cleaners : cleaner[b].at = "deferring" => cleaner'[b] = cleaner[b]
    BY <1>10 DEF WaitOver, WaitFails, Goes
  <2> QED  BY <1>10, <2>1, <1>e DEF WaitOver, WaitFails, plugin
<1>11. ASSUME NEW c \in Cleaners, PutOff(c) PROVE PutOffHasKeeper'
  <2>1. cleaner'[c].at = "deferring"
    BY <1>11 DEF PutOff, Goes
  <2> QED  BY <2>1
<1>12. ASSUME NEW c \in Cleaners, Defer(c) PROVE PutOffHasKeeper'
  BY <1>12, <1>g DEF Defer, LookAgain
<1>13. ASSUME NEW e \in Ends, End(e) PROVE PutOffHasKeeper'
  <2>1. CASE Forget
    BY <2>1, ForgetFields
  <2>2. CASE entry' = Swept /\ deferred' = deferred
    <3>1. \A b \in Cleaners : cleaner[b].at = "deferring" => cleaner'[b] = cleaner[b]
      BY <1>13 DEF End, Goes
    <3>2. \A p \in Questions : entry[p].resolving # "none" => entry'[p] = entry[p]
      BY <2>2, SweptTypes DEF PluginOK
    <3> QED  BY <1>13, <2>2, <3>1, <3>2, <1>e DEF End
  <2> QED  BY <1>13, <2>1, <2>2 DEF End
<1>14. ASSUME NEW e \in Ends, EndPosted(e) PROVE PutOffHasKeeper'
  <2>1. CASE Forget
    BY <2>1, ForgetFields
  <2>2. CASE UNCHANGED plugin
    <3>1. \A b \in Cleaners : cleaner[b].at = "deferring" => cleaner'[b] = cleaner[b]
      BY <1>14 DEF EndPosted, Goes
    <3> QED  BY <1>14, <2>2, <3>1, <1>e DEF EndPosted, plugin
  <2> QED  BY <1>14, <2>1, <2>2 DEF EndPosted
<1>15. ASSUME NEW r \in Resets, Reset(r) PROVE PutOffHasKeeper'
  <2>1. CASE Forget
    BY <2>1, ForgetFields
  <2>2. CASE entry' = Swept /\ deferred' = deferred
    <3>1. \A b \in Cleaners : cleaner[b].at = "deferring" => cleaner'[b] = cleaner[b]
      BY <1>15 DEF Reset, Goes
    <3>2. \A p \in Questions : entry[p].resolving # "none" => entry'[p] = entry[p]
      BY <2>2, SweptTypes DEF PluginOK
    <3> QED  BY <1>15, <2>2, <3>1, <3>2, <1>e DEF Reset
  <2> QED  BY <1>15, <2>1, <2>2 DEF Reset
<1> QED  BY <1>1, <1>2, <1>3, <1>4, <1>5, <1>6, <1>7, <1>8, <1>9, <1>10, <1>11, <1>12,
          <1>13, <1>14, <1>15 DEF Next, Asks, Delivers, Serves, Cleans, vars, asking, plugin,
          sidecar, threads, Decline, Return, Announced, Settle, Pass, OtherEvent, EndArrives,
          Abandon, ExpireCard, Unresolved, Resolved

-----------------------------------------------------------------------------
(* The theorems. *)

\* The invariant holds at the start,
LEMMA InvariantInit == Init => IInv
<1> SUFFICES ASSUME Init PROVE IInv
  OBVIOUS
<1> USE InteractionsAssumption DEF Init
<1>1. AskingOK /\ overdue \in [Questions -> SUBSET Deadlines]
  BY DEF AskingOK, AskerSteps, PostSteps
<1>2. PluginOK
  BY DEF PluginOK, Neat, Entries, Absent, Option
<1>3. ThreadsOK
  BY DEF ThreadsOK, Unclicked, CleanerSteps, ClickSteps, CallSteps, Option
<1>4. SessionOK
  BY SessionTypesOf DEF SessionOK, NewSession, NoInteraction, NoSnapshot, SessionState,
     InteractionState, Option
<1>5. TypeOK
  BY <1>1, <1>2, <1>3, <1>4, TypeParts
<1>6. Posted
  BY DEF Posted, OwnedIsDelivered
<1>7. Requests
  BY DEF Requests, BothAdmitted, BothArrived, Admitted, Arrived, NoSnapshot, NoInteraction
<1>8. Clicked
  BY DEF Clicked, Unclicked
<1>9. Held
  BY
     DEF Held, Unasked, Recorded, Answered, Chosen, Told, NoSnapshot, NoInteraction, Absent,
         Unclicked
<1>10. Turns
  BY DEF Turns
<1>11. Claimed /\ Cleaned
  BY DEF Claimed, Cleaned, Resolving, Waiting
<1>12. PutOffHasKeeper
  BY DEF PutOffHasKeeper
<1> QED  BY <1>5, <1>6, <1>7, <1>8, <1>9, <1>10, <1>11, <1>12 DEF IInv, Safe

\* ... and every step keeps it.
LEMMA InvariantStep == IInv /\ [Next]_vars => IInv'
<1> SUFFICES ASSUME IInv, [Next]_vars PROVE IInv'
  OBVIOUS
<1>1. TypeOK'
  BY TypesStep DEF IInv
<1>2. Requests'
  BY AdmittedStep, ArrivedStep DEF Requests
<1> QED  BY <1>1, <1>2, PostedStep, ClickedStep, HeldStep, TurnsStep, SafeStep, KeeperStep
         DEF IInv

\* For any number of questions, clicks, ends, resets and deadlines: the
\* inductive invariant.
THEOREM InteractionsInvariant == Spec => []IInv
BY InvariantInit, InvariantStep, PTL DEF Spec

\* The state of the plugin, the sidecar and their threads keeps its types.
THEOREM InteractionsTypes == Spec => []TypeOK
<1>1. IInv => TypeOK
  BY DEF IInv
<1> QED  BY <1>1, InteractionsInvariant, PTL

\* The plugin owns a question, which Hermes then does not ask natively, only if
\* Feishu shows its card, whatever is late, lost or overtaken
\* (admit_patch_interaction).
THEOREM InteractionsOwnedIsDelivered == Spec => []OwnedIsDelivered
<1>1. IInv => OwnedIsDelivered
  BY DEF IInv, Posted
<1> QED  BY <1>1, InteractionsInvariant, PTL

\* A card that shows a choice, and a click that was told it counts, have Hermes'
\* own handle hold exactly that choice (_interaction_action and
\* resolve_runtime_interaction_payload).
THEOREM InteractionsChosenIsAnswered == Spec => []ChosenIsAnswered
<1>1. IInv => ChosenIsAnswered
  BY DEF IInv, Held, Unasked, Recorded, Answered, Chosen, Told, ChosenIsAnswered
<1> QED  BY <1>1, InteractionsInvariant, PTL

\* A clean-up that was put off is in somebody's hands until it is done
\* (_complete_deferred_interaction_cleanup has no other wake-up).
THEOREM InteractionsPutOffHasKeeper == Spec => []PutOffHasKeeper
<1>1. IInv => PutOffHasKeeper
  BY DEF IInv
<1> QED  BY <1>1, InteractionsInvariant, PTL

\* A choice that was taken is given back by Record alone, which finds the claim.
LEMMA AcceptedStep ==
    ASSUME IInv, [Next]_vars, NEW k \in Clicks, call[k] = "taken", call'[k] # "taken"
    PROVE  call'[k] = "accepted" \/ EndedTwice
<1> USE TypeParts DEF IInv, ThreadsOK
<1>1. Record(k)
  <2>1. \A m \in Clicks, q \in Questions, choice \in Choices :
           Click(m, q, choice) => call'[k] = call[k]
    BY DEF Click, Clicked
  <2>2. \A m \in Clicks : Claim(m) \/ Resolve(m) \/ Respond(m) => call'[k] = call[k]
    BY DEF Claim, Resolve, Respond
  <2>3. \A m \in Clicks : Record(m) => m = k
    BY DEF Record
  <2> QED  BY <2>1, <2>2, <2>3
           DEF Next, Asks, Delivers, Serves, Cleans, vars, threads, Ask, Admit, Decline, Return,
               Announced, Settle, Pass, OtherEvent, EndArrives, Abandon, ExpireCard, Unresolved,
               Resolved, Prepare, WaitOver, WaitFails, PutOff, Defer, End, EndPosted, Reset
<1>2. EndedTwice \/ entry[click[k].q].resolving = click[k].choice
  BY DEF Safe, Claimed, Resolving
<1> QED  BY <1>1, <1>2 DEF Record

\* A choice that Hermes' handle has taken is recorded as taken, for as long as
\* the turn is not ended twice (_expire_locked and _cleanup_turn_locked leave the
\* entry of a resolver that runs).
THEOREM InteractionsAcceptedIsResolved == Spec => AcceptedIsResolved
<1>1. IInv /\ [Next]_vars =>
         [\A k \in Clicks : call[k] = "taken" /\ call'[k] # "taken" =>
              call'[k] = "accepted" \/ EndedTwice]_vars
  BY AcceptedStep
<1> QED  BY <1>1, InteractionsInvariant, PTL DEF Spec, AcceptedIsResolved

-----------------------------------------------------------------------------
(* The questions implement OneAnswer. *)

\* The copy of the session that is kept is that of the reservation: the request
\* that is being sent is the reserved one, and the copy is of an earlier question.
Keeping ==
    /\ reserved = Nobody => rollback = NoSnapshot
    /\ reserved # Nobody => inter.q = reserved /\ rollback.inter.q # reserved

\* Who changes the session's request.
LEMMA RequestChanges ==
    ASSUME [Next]_vars
    PROVE  \/ UNCHANGED <<inter, reserved, rollback, post>>
           \/ \E q \in Questions : Ask(q) /\ UNCHANGED <<inter, reserved, rollback>>
           \/ \E q \in Questions : Announced(q) \/ Settle(q)
           \/ OtherEvent \/ EndArrives \/ ExpireCard
           \/ \E k \in Clicks, q \in Questions, choice \in Choices : Click(k, q, choice)
           \/ \E k \in Clicks : Unresolved(k) \/ Resolved(k)
<1>1. CASE UNCHANGED vars \/ Abandon
  BY <1>1 DEF vars, sidecar, Abandon
<1>2. ASSUME NEW q \in Questions, Asks(q)
      PROVE  \/ UNCHANGED <<inter, reserved, rollback, post>>
             \/ Ask(q) /\ UNCHANGED <<inter, reserved, rollback>>
  BY <1>2 DEF Asks, Ask, Admit, Decline, Return, sidecar
<1>3. ASSUME NEW q \in Questions, Delivers(q) PROVE Announced(q) \/ Settle(q)
  BY <1>3 DEF Delivers
<1>4. ASSUME NEW q \in Questions, NEW deadline \in Deadlines, Pass(q, deadline)
      PROVE  UNCHANGED <<inter, reserved, rollback, post>>
  BY <1>4 DEF Pass, sidecar
<1>5. ASSUME NEW k \in Clicks, Claim(k) \/ Serves(k)
      PROVE  UNCHANGED <<inter, reserved, rollback, post>>
  BY <1>5 DEF Claim, Serves, Resolve, Record, Respond, sidecar
<1>6. ASSUME NEW c \in Cleaners, Cleans(c)
      PROVE  UNCHANGED <<inter, reserved, rollback, post>>
  BY <1>6 DEF Cleans, Prepare, WaitOver, WaitFails, PutOff, Defer, sidecar
<1>7. ASSUME NEW e \in Ends, End(e) \/ EndPosted(e)
      PROVE  UNCHANGED <<inter, reserved, rollback, post>>
  BY <1>7 DEF End, EndPosted, sidecar
<1>8. ASSUME NEW c \in Resets, Reset(c) PROVE UNCHANGED <<inter, reserved, rollback, post>>
  BY <1>8 DEF Reset, sidecar
<1> QED BY <1>1, <1>2, <1>3, <1>4, <1>5, <1>6, <1>7, <1>8 DEF Next

\* Whatever happens to the request of a session, it remains that of its question.
LEMMA SameQuestion ==
    ASSUME IInv, [Next]_vars, inter'.q # inter.q
    PROVE  \E q \in Questions : Announced(q) \/ Settle(q)
<1>0. inter \in InteractionState
  BY TypeParts DEF IInv, SessionOK
<1>1. /\ Expired(inter).q = inter.q /\ AdmissionExpired(inter).q = inter.q
      /\ FailedState(inter).q = inter.q /\ [inter EXCEPT !.admission = FALSE].q = inter.q
  BY <1>0, RequestFields
<1>2. \A choice \in Choices : Completed(inter, choice).q = inter.q
  BY <1>0, RequestFields
<1>3. ~OtherEvent /\ ~EndArrives /\ ~ExpireCard
  BY <1>1 DEF OtherEvent, EndArrives, ExpireCard
<1>4. \A k \in Clicks, q \in Questions, choice \in Choices : ~Click(k, q, choice)
  BY <1>1, <1>2 DEF Click
<1>5. \A k \in Clicks : ~Unresolved(k)
  BY <1>1 DEF Unresolved
<1>6. ASSUME NEW k \in Clicks PROVE ~Resolved(k)
  <2> SUFFICES ASSUME Resolved(k) PROVE FALSE
    OBVIOUS
  <2>1. click[k].choice \in Choices
    BY DEF IInv, Clicked, Resolved
  <2>2. inter' \in {inter, Completed(inter, click[k].choice), [inter EXCEPT !.admission = FALSE]}
    BY DEF Resolved
  <2> QED BY <1>1, <1>2, <2>1, <2>2
<1> QED  BY <1>3, <1>4, <1>5, <1>6, RequestChanges

LEMMA ReservedStays ==
    ASSUME [Next]_vars, \A q \in Questions : ~Announced(q) /\ ~Settle(q)
    PROVE  UNCHANGED <<reserved, rollback>>
BY RequestChanges DEF OtherEvent, EndArrives, ExpireCard, Click, Unresolved, Resolved

LEMMA KeepingStep == IInv /\ Keeping /\ [Next]_vars => Keeping'
<1> SUFFICES ASSUME IInv, Keeping, [Next]_vars PROVE Keeping'
  OBVIOUS
<1> USE TypeParts, InteractionsAssumption DEF Keeping
<1>1. ASSUME NEW q \in Questions, Announced(q) PROVE Keeping'
  <2>1. inter.q # q
    BY <1>1 DEF Announced, IInv, Requests, BothArrived, Arrived
  <2>2. inter \in InteractionState
    BY DEF IInv, SessionOK
  <2>3. CASE Unreserved /\ Fresh(q)
    <3>1. reserved' = q /\ inter'.q = q /\ q # Nobody
      BY <1>1, <2>3 DEF Announced, Requested, Unreserved
    <3>2. rollback' = [session |-> session, inter |-> [inter EXCEPT !.copy = @ + 1]]
      BY <1>1, <2>3 DEF Announced
    <3>3. rollback'.inter.q = inter.q
      BY <2>2, <3>2, RequestFields
    <3> QED BY <2>1, <3>1, <3>3
  <2>4. CASE ~(Unreserved /\ Fresh(q))
    <3>1. UNCHANGED <<reserved, rollback>> /\ (inter' = inter \/ inter' = Expired(inter))
      BY <1>1, <2>4 DEF Announced
    <3>2. inter'.q = inter.q
      BY <2>2, <3>1, RequestFields
    <3> QED BY <3>1, <3>2
  <2> QED BY <2>3, <2>4
<1>2. ASSUME NEW q \in Questions, Settle(q) PROVE Keeping'
  <2>1. reserved = q
    BY <1>2 DEF Settle, IInv, Posted
  <2> QED BY <1>2, <2>1 DEF Settle
<1>3. CASE \A q \in Questions : ~Announced(q) /\ ~Settle(q)
  <2>1. inter'.q = inter.q
    BY <1>3, SameQuestion
  <2> QED BY <1>3, <2>1, ReservedStays
<1> QED BY <1>1, <1>2, <1>3

\* What a card may say, and what may follow it when Hermes holds a.
Sayings == Choices \cup {"none", "open", "failed", "withdrawn"}
Moves(v, w, a) ==
    \/ v = w
    \/ v = "none" /\ w = "open"
    \/ v = "open" /\ (w = "failed" \/ (w = a /\ a \in Choices))
    \/ w = "withdrawn"

LEMMA MovesFollow ==
    ASSUME NEW q \in Questions, CardOf(q) \in Sayings,
           Moves(CardOf(q), CardOf(q)', handle[q])
    PROVE  CardOf(q)' \in OA!Follows(q)
<1>1. CASE CardOf(q) = "none"
  BY <1>1, InteractionsAssumption DEF Moves, OA!Follows, OA!Decided
<1>2. CASE CardOf(q) = "open"
  BY <1>2, InteractionsAssumption DEF Moves, OA!Follows, OA!Decided
<1>3. CASE CardOf(q) \in OA!Decided
  BY <1>3, InteractionsAssumption DEF Moves, OA!Follows, OA!Decided
<1> QED BY <1>1, <1>2, <1>3 DEF Sayings, OA!Decided

\* What is done to a request, seen on its card: nothing, or a decision.
LEMMA SaysMoves ==
    ASSUME NEW i \in InteractionState, NEW a
    PROVE  /\ Moves(SaysOf(i), SaysOf(Expired(i)), a)
           /\ Moves(SaysOf(i), SaysOf(AdmissionExpired(i)), a)
           /\ i.status = "pending" => Moves(SaysOf(i), SaysOf(FailedState(i)), a)
           /\ SaysOf([i EXCEPT !.admission = FALSE]) = SaysOf(i)
           /\ SaysOf([i EXCEPT !.copy = @ + 1]) = SaysOf(i)
           /\ i.status = "pending" /\ a \in Choices =>
                 Moves(SaysOf(i), SaysOf(Completed(i, a)), a)
           /\ Chosen(i, handle) => SaysOf(i) \in Choices \cup {"open", "failed"}
<1>1. i.status = "pending" => Moves(SaysOf(i), SaysOf(FailedState(i)), a)
  BY RequestFields DEF SaysOf, Moves
<1>2. Moves(SaysOf(i), SaysOf(Expired(i)), a)
  BY <1>1 DEF Expired, CardExpired, Moves
<1>3. Moves(SaysOf(i), SaysOf(AdmissionExpired(i)), a)
  BY <1>1 DEF AdmissionExpired, Moves
<1>4. /\ SaysOf([i EXCEPT !.admission = FALSE]) = SaysOf(i)
      /\ SaysOf([i EXCEPT !.copy = @ + 1]) = SaysOf(i)
  BY RequestFields DEF SaysOf
<1>5. ASSUME i.status = "pending", a \in Choices
      PROVE  Moves(SaysOf(i), SaysOf(Completed(i, a)), a)
  BY <1>5, RequestFields DEF SaysOf, Moves
<1>6. Chosen(i, handle) => SaysOf(i) \in Choices \cup {"open", "failed"}
  BY DEF SaysOf, Chosen
<1> QED BY <1>1, <1>2, <1>3, <1>4, <1>5, <1>6

\* As long as the session has the same question, its request is decided at most:
\* by a deadline, an end, or a click whose choice Hermes' handle holds.
LEMMA SaysStep ==
    ASSUME IInv, [Next]_vars, inter'.q = inter.q, \A q \in Questions : ~Settle(q)
    PROVE  Moves(SaysOf(inter), SaysOf(inter'), handle[inter.q])
<1> DEFINE Fine == Moves(SaysOf(inter), SaysOf(inter'), handle[inter.q])
<1>0. inter \in InteractionState /\ Admitted(inter)
  BY TypeParts DEF IInv, SessionOK, Requests, BothAdmitted
<1> USE SaysMoves, <1>0
<1>1. CASE \/ inter' \in {inter, Expired(inter), AdmissionExpired(inter),
                          [inter EXCEPT !.admission = FALSE]}
           \/ inter' = FailedState(inter) /\ inter.status = "pending"
  <2>1. ASSUME SaysOf(inter') = SaysOf(inter) PROVE Fine
    BY <2>1 DEF Moves
  <2>2. CASE inter' \in {inter, [inter EXCEPT !.admission = FALSE]}
    BY <2>1, <2>2
  <2>3. CASE inter' \in {Expired(inter), AdmissionExpired(inter)}
    BY <2>3
  <2> QED BY <1>1, <2>2, <2>3
<1>2. ASSUME NEW q \in Questions, Announced(q) PROVE Fine
  <2>1. inter.q # q
    BY <1>2, InteractionsAssumption DEF Announced, IInv, Requests, BothArrived, Arrived
  <2>2. inter' # Requested(q)
    BY <2>1 DEF Requested
  <2> QED BY <1>1, <1>2, <2>2 DEF Announced
<1>3. CASE OtherEvent \/ EndArrives \/ ExpireCard
  BY <1>1, <1>3 DEF OtherEvent, EndArrives, ExpireCard, CardExpired
<1>4. ASSUME NEW k \in Clicks, NEW q \in Questions, NEW choice \in Choices, Click(k, q, choice)
      PROVE  Fine
  <2>1. Expired(inter).status = "pending" => inter.status = "pending"
    BY RequestFields
  <2>2. inter' \in {inter, Expired(inter)}
    BY <1>4, <2>1 DEF Click, Admitted
  <2> QED BY <1>1, <2>2
<1>5. ASSUME NEW k \in Clicks, Unresolved(k) PROVE Fine
  BY <1>1, <1>5 DEF Unresolved
<1>6. ASSUME NEW k \in Clicks, Resolved(k) PROVE Fine
  <2>1. click[k].choice \in Choices /\ handle[click[k].q] = click[k].choice
    BY <1>6 DEF Resolved, IInv, Clicked, Held, Answered, Told
  <2>2. CASE IsCurrent(k)
    <3>1. inter.q = click[k].q /\ inter.status = "pending"
      BY <2>2 DEF IsCurrent, SameObject
    <3>2. inter' = Completed(inter, click[k].choice)
      BY <1>6, <2>2 DEF Resolved
    <3> QED BY <2>1, <3>1, <3>2
  <2>3. CASE ~IsCurrent(k)
    BY <1>1, <1>6, <2>3 DEF Resolved
  <2> QED BY <2>2, <2>3
<1> QED  BY <1>1, <1>2, <1>3, <1>4, <1>5, <1>6, RequestChanges

\* An announcement goes on, and never back.
LEMMA PostMoves ==
    ASSUME IInv, [Next]_vars, NEW q \in Questions
    PROVE  \/ post'[q] = post[q]
           \/ post[q] = "none" /\ post'[q] = "wire"
           \/ post'[q] \notin {"none", "wire"}
<1> USE TypeParts DEF IInv, AskingOK
<1>1. CASE post' = post
  BY <1>1
<1>2. ASSUME NEW p \in Questions, Ask(p) 
      PROVE  post'[q] = post[q] \/ (post[q] = "none" /\ post'[q] = "wire")
  <2>1. post[p] = "none" /\ (post' = post \/ post' = [post EXCEPT ![p] = "wire"])
    BY <1>2 DEF Ask, Posted
  <2>2. post \in [Questions -> PostSteps]
    OBVIOUS
  <2> QED BY <2>1, <2>2
<1>3. ASSUME NEW p \in Questions, Announced(p)
      PROVE  post'[q] = post[q] \/ post'[q] \notin {"none", "wire"}
  BY <1>3 DEF Announced
<1>4. ASSUME NEW p \in Questions, Settle(p)
      PROVE  post'[q] = post[q] \/ post'[q] \notin {"none", "wire"}
  BY <1>4 DEF Settle
<1> QED BY <1>1, <1>2, <1>3, <1>4, RequestChanges
        DEF OtherEvent, EndArrives, ExpireCard, Click, Unresolved, Resolved

\* How a card is read: of the session's request, of the copy, or of neither.
LEMMA CardFacts ==
    ASSUME NEW q \in Questions
    PROVE  /\ inter.q = q => CardOf(q) = SaysOf(inter)
           /\ inter.q # q /\ rollback.inter.q = q => CardOf(q) = SaysOf(rollback.inter)
           /\ inter.q # q /\ rollback.inter.q # q =>
                 CardOf(q) = IF post[q] \in {"none", "wire"} THEN "none" ELSE "withdrawn"
BY DEF CardOf

LEMMA CardFactsNext ==
    ASSUME NEW q \in Questions
    PROVE  /\ inter'.q = q => CardOf(q)' = SaysOf(inter')
           /\ inter'.q # q /\ rollback'.inter.q = q => CardOf(q)' = SaysOf(rollback'.inter)
           /\ inter'.q # q /\ rollback'.inter.q # q =>
                 CardOf(q)' = IF post'[q] \in {"none", "wire"} THEN "none" ELSE "withdrawn"
BY DEF CardOf, SaysOf

\* The announcement that takes the session.
LEMMA ReservingMoves ==
    ASSUME IInv, Keeping, NEW q \in Questions, Announced(q), inter'.q # inter.q,
           NEW p \in Questions
    PROVE  Moves(CardOf(p), CardOf(p)', handle[p])
<1>0. /\ inter \in InteractionState /\ post \in [Questions -> PostSteps]
      /\ inter.q # q /\ rollback.inter.q # q
  BY TypeParts, InteractionsAssumption
     DEF IInv, SessionOK, AskingOK, Announced, Requests, BothArrived, Arrived
<1>1. inter' # inter /\ inter' # Expired(inter)
  BY <1>0, RequestFields
<1>2. /\ Unreserved /\ inter' = Requested(q) /\ post' = [post EXCEPT ![q] = "sending"]
      /\ rollback'.inter = [inter EXCEPT !.copy = @ + 1]
  BY <1>1 DEF Announced
<1>3. inter'.q = q /\ SaysOf(inter') = "open"
  BY <1>2 DEF Requested, SaysOf
<1>4. rollback'.inter.q = inter.q /\ SaysOf(rollback'.inter) = SaysOf(inter)
  BY <1>0, <1>2, RequestFields, SaysMoves
<1>5. rollback.inter.q = Nobody /\ Nobody \notin Questions
  BY <1>2, InteractionsAssumption DEF Keeping, Unreserved, NoSnapshot, NoInteraction
<1>6. CASE p = q
  <2>1. CardOf(p) = "none"
    BY <1>0, <1>6, CardFacts DEF Announced
  <2>2. CardOf(p)' = "open"
    BY <1>3, <1>6, CardFactsNext
  <2> QED BY <2>1, <2>2 DEF Moves
<1>7. CASE p # q /\ p = inter.q
  <2>1. CardOf(p) = SaysOf(inter)
    BY <1>7, CardFacts
  <2>2. CardOf(p)' = SaysOf(inter)
    BY <1>3, <1>4, <1>7, CardFactsNext
  <2> QED BY <2>1, <2>2 DEF Moves
<1>8. CASE p # q /\ p # inter.q
  <2>1. post'[p] = post[p]
    BY <1>0, <1>2, <1>8
  <2>2. CardOf(p)' = CardOf(p)
    BY <1>3, <1>4, <1>5, <1>8, <2>1, CardFacts, CardFactsNext
  <2> QED BY <2>2 DEF Moves
<1> QED BY <1>6, <1>7, <1>8

\* The end of a sending: the copy is dropped, or put back in place of the request.
LEMMA SettlingMoves ==
    ASSUME IInv, Keeping, NEW q \in Questions, Settle(q), NEW p \in Questions
    PROVE  Moves(CardOf(p), CardOf(p)', handle[p])
<1>0. /\ inter \in InteractionState /\ post \in [Questions -> PostSteps]
      /\ Nobody \notin Questions
  BY TypeParts, InteractionsAssumption DEF IInv, SessionOK, AskingOK
<1>1. reserved = q /\ inter.q = q /\ rollback.inter.q # q
  BY <1>0 DEF Settle, IInv, Posted, Keeping
<1>2. rollback'.inter.q = Nobody
  BY <1>1 DEF Settle, NoSnapshot, NoInteraction
<1>3. /\ post'[q] \notin {"none", "wire"}
      /\ p # q => post'[p] = post[p]
  BY <1>0 DEF Settle
<1>4. CASE inter' = rollback.inter
  <2>1. CASE p = q
    <3>1. CardOf(p)' = "withdrawn"
      BY <1>0, <1>1, <1>2, <1>3, <1>4, <2>1, CardFactsNext
    <3> QED BY <3>1 DEF Moves
  <2>2. CASE p # q
    <3>1. CardOf(p)' = CardOf(p)
      BY <1>0, <1>1, <1>2, <1>3, <1>4, <2>2, CardFacts, CardFactsNext
    <3> QED BY <3>1 DEF Moves
  <2> QED BY <2>1, <2>2
<1>5. CASE inter'.q = inter.q /\ SaysOf(inter') = SaysOf(inter)
  <2>1. CASE p = q
    <3>1. CardOf(p)' = CardOf(p)
      BY <1>1, <1>5, <2>1, CardFacts, CardFactsNext
    <3> QED BY <3>1 DEF Moves
  <2>2. CASE p # q /\ p = rollback.inter.q
    <3>1. post[p] \notin {"none", "wire"}
      BY <2>2, InteractionsAssumption DEF IInv, Requests, BothArrived, Arrived
    <3>2. CardOf(p)' = "withdrawn"
      BY <1>0, <1>1, <1>2, <1>3, <1>5, <2>2, <3>1, CardFactsNext
    <3> QED BY <3>2 DEF Moves
  <2>3. CASE p # q /\ p # rollback.inter.q
    <3>1. CardOf(p)' = CardOf(p)
      BY <1>0, <1>1, <1>2, <1>3, <1>5, <2>3, CardFacts, CardFactsNext
    <3> QED BY <3>1 DEF Moves
  <2> QED BY <2>1, <2>2, <2>3
<1>6. inter' \in {inter, rollback.inter, [inter EXCEPT !.admission = FALSE]}
  BY DEF Settle
<1> QED BY <1>0, <1>4, <1>5, <1>6, RequestFields, SaysMoves

\* Every card follows OneAnswer in every step.
LEMMA CardMoves ==
    ASSUME IInv, Keeping, [Next]_vars, NEW p \in Questions
    PROVE  CardOf(p)' \in OA!Follows(p)
<1>0. /\ inter \in InteractionState /\ rollback.inter \in InteractionState
      /\ Chosen(inter, handle) /\ Chosen(rollback.inter, handle)
  BY TypeParts DEF IInv, SessionOK, Held
<1>1. CardOf(p) \in Sayings
  <2>1. /\ SaysOf(inter) \in Choices \cup {"open", "failed"}
        /\ SaysOf(rollback.inter) \in Choices \cup {"open", "failed"}
    BY <1>0, SaysMoves
  <2> QED BY <2>1, CardFacts DEF Sayings
<1>2. Moves(CardOf(p), CardOf(p)', handle[p])
  <2>1. CASE \E q \in Questions : Settle(q)
    BY <2>1, SettlingMoves
  <2>2. CASE inter'.q # inter.q /\ \A q \in Questions : ~Settle(q)
    BY <2>2, SameQuestion, ReservingMoves
  <2>3. CASE inter'.q = inter.q /\ \A q \in Questions : ~Settle(q)
    <3>1. rollback' = rollback
      <4>1. ASSUME NEW q \in Questions, Announced(q) PROVE rollback' = rollback
        <5>1. inter'.q # q
          BY <2>3, <4>1, InteractionsAssumption
             DEF Announced, IInv, Requests, BothArrived, Arrived
        <5>2. inter' # Requested(q)
          BY <5>1 DEF Requested
        <5> QED BY <4>1, <5>2 DEF Announced
      <4> QED BY <2>3, <4>1, ReservedStays
    <3>2. CASE p = inter.q
      BY <2>3, <3>2, SaysStep, CardFacts, CardFactsNext
    <3>3. CASE p # inter.q /\ p = rollback.inter.q
      <4>1. CardOf(p)' = CardOf(p)
        BY <2>3, <3>1, <3>3, CardFacts, CardFactsNext
      <4> QED BY <4>1 DEF Moves
    <3>4. CASE p # inter.q /\ p # rollback.inter.q
      <4>1. CardOf(p) = CardOf(p)' \/ CardOf(p)' = "withdrawn"
        BY <2>3, <3>1, <3>4, CardFacts, CardFactsNext, PostMoves
      <4> QED BY <4>1 DEF Moves
    <3> QED BY <3>2, <3>3, <3>4
  <2> QED BY <2>1, <2>2, <2>3
<1> QED BY <1>1, <1>2, MovesFollow

\* A click is told at most once that it counts, and then with Hermes' answer.
LEMMA TellStep ==
    ASSUME IInv, [Next]_vars
    PROVE  \/ \A k \in Clicks : ToldTo(k)' = ToldTo(k)
           \/ \E k \in Clicks, q \in Questions :
                 /\ ToldTo(k) = OA!Nothing /\ handle[q] \in Choices
                 /\ ToldTo(k)' = [question |-> q, choice |-> handle[q]]
                 /\ \A m \in Clicks : m # k => ToldTo(m)' = ToldTo(m)
<1> DEFINE Untold == \A k \in Clicks : ToldTo(k)' = ToldTo(k)
           Tells == \E k \in Clicks, q \in Questions :
                 /\ ToldTo(k) = OA!Nothing /\ handle[q] \in Choices
                 /\ ToldTo(k)' = [question |-> q, choice |-> handle[q]]
                 /\ \A m \in Clicks : m # k => ToldTo(m)' = ToldTo(m)
<1>0. /\ inter \in InteractionState /\ Admitted(inter)
      /\ click \in [Clicks -> [at : ClickSteps, q : Questions \cup {Nobody},
                               choice : Option, copy : Nat]]
  BY TypeParts DEF IInv, SessionOK, ThreadsOK, Requests, BothAdmitted
<1>1. ASSUME UNCHANGED click PROVE Untold
  BY <1>1 DEF ToldTo
<1>2. ASSUME NEW k \in Clicks, NEW q \in Questions, NEW choice \in Choices, Click(k, q, choice)
      PROVE  Untold
  <2>1. Expired(inter).status = "pending" => inter.admission
    BY <1>0, RequestFields DEF Admitted
  <2>2. /\ click[k].at = "idle" /\ click'[k].at # "success"
        /\ \A m \in Clicks : m # k => click'[m] = click[m]
    BY <1>0, <1>2, <2>1 DEF Click, Refuse
  <2> QED BY <2>2 DEF ToldTo
<1>3. ASSUME NEW k \in Clicks, Unresolved(k) PROVE Untold
  BY <1>0, <1>3 DEF Unresolved, ToldTo
<1>4. ASSUME NEW k \in Clicks, Resolved(k) PROVE Untold \/ Tells
  <2>1. /\ \A m \in Clicks : m # k => click'[m] = click[m]
        /\ click[k].at = "calling" /\ click'[k].q = click[k].q
        /\ click'[k].choice = click[k].choice /\ click'[k].at \in {"success", "refused"}
    BY <1>0, <1>4 DEF Resolved
  <2>2. /\ handle[click[k].q] = click[k].choice /\ click[k].choice \in Choices
        /\ click[k].q \in Questions
    BY <1>0, <1>4 DEF Resolved, IInv, Clicked, Held, Answered, Told
  <2>3. \A m \in Clicks : m # k => ToldTo(m)' = ToldTo(m)
    BY <2>1 DEF ToldTo
  <2>4. ToldTo(k) = OA!Nothing
    BY <2>1 DEF ToldTo, OA!Nothing
  <2>5. CASE click'[k].at = "success"
    <3>1. ToldTo(k)' = [question |-> click[k].q, choice |-> handle[click[k].q]]
      BY <2>1, <2>2, <2>5 DEF ToldTo
    <3> QED BY <2>2, <2>3, <2>4, <3>1
  <2>6. CASE click'[k].at = "refused"
    BY <2>1, <2>3, <2>6 DEF ToldTo
  <2> QED BY <2>1, <2>5, <2>6
<1> HIDE DEF Untold, Tells
<1>5. Untold \/ Tells
  BY <1>1, <1>2, <1>3, <1>4 DEF Next, Asks, Delivers, Serves, Cleans, vars,
          asking, plugin, sidecar, threads, Ask, Admit, Decline, Return, Announced, Settle, Pass,
          OtherEvent, EndArrives, Abandon, ExpireCard, Claim, Resolve, Record, Respond,
          Prepare, WaitOver, WaitFails, PutOff, Defer, End, EndPosted, Reset, Untold
<1> QED BY <1>5 DEF Untold, Tells

\* Hermes is asked, and answers, without the session: no card and no click changes.
LEMMA AnswerStep ==
    ASSUME IInv, [Next]_vars, handle' # handle
    PROVE  \E q \in Questions :
              /\ \/ handle[q] = "none" /\ handle' = [handle EXCEPT ![q] = "open"]
                 \/ /\ handle[q] = "open"
                    /\ \E what \in Choices \cup {"closed"} : handle' = [handle EXCEPT ![q] = what]
              /\ UNCHANGED <<inter, rollback, click>>
              /\ \A p \in Questions : post'[p] = post[p] \/ {post[p], post'[p]} \subseteq {"none", "wire"}
<1> USE TypeParts DEF IInv, AskingOK
<1>1. ASSUME NEW q \in Questions, Ask(q)
      PROVE  /\ handle[q] = "none" /\ handle' = [handle EXCEPT ![q] = "open"]
             /\ UNCHANGED <<inter, rollback, click>>
             /\ \A p \in Questions : post'[p] = post[p] \/ {post[p], post'[p]} \subseteq {"none", "wire"}
  BY <1>1 DEF Ask, Held, Unasked, Posted, threads
<1>2. ASSUME NEW q \in Questions, Return(q)
      PROVE  /\ handle[q] = "open" /\ handle' = [handle EXCEPT ![q] = "closed"]
             /\ UNCHANGED <<inter, rollback, click, post>>
  BY <1>2 DEF Return, sidecar, threads
<1>3. ASSUME NEW k \in Clicks, Resolve(k)
      PROVE  /\ click[k].q \in Questions /\ click[k].choice \in Choices
             /\ handle[click[k].q] = "open"
             /\ handle' = [handle EXCEPT ![click[k].q] = click[k].choice]
             /\ UNCHANGED <<inter, rollback, click, post>>
  <2>1. click[k].q \in Questions /\ click[k].choice \in Choices
    BY <1>3 DEF Resolve, Clicked, ThreadsOK
  <2>2. handle[click[k].q] = "open"
    BY <1>3, <2>1 DEF Resolve
  <2> QED BY <1>3, <2>1, <2>2 DEF Resolve, sidecar
<1>4. \/ \E q \in Questions : Ask(q) \/ Return(q)
      \/ \E k \in Clicks : Resolve(k)
  BY DEF Next, Asks, Delivers, Serves, Cleans, vars,
          asking, plugin, sidecar, threads, Admit, Decline, Announced, Settle, Pass, OtherEvent,
          EndArrives, Abandon, ExpireCard, Click, Claim, Record, Respond, Unresolved, Resolved,
          Prepare, WaitOver, WaitFails, PutOff, Defer, End, EndPosted, Reset
<1> HIDE DEF IInv, AskingOK
<1> QED BY <1>1, <1>2, <1>3, <1>4

Cards == [q \in Questions |-> CardOf(q)]
Tolds == [k \in Clicks |-> ToldTo(k)]

LEMMA OneAnswerStep ==
    ASSUME IInv, Keeping, [Next]_vars
    PROVE  [OA!Next]_<<handle, Cards, Tolds>>
<1>0. handle \in [Questions -> Choices \cup {"none", "open", "closed"}]
  BY TypeParts DEF IInv, AskingOK
<1>1. CASE handle' # handle
  <2>1. PICK q \in Questions :
              /\ \/ handle[q] = "none" /\ handle' = [handle EXCEPT ![q] = "open"]
                 \/ /\ handle[q] = "open"
                    /\ \E what \in Choices \cup {"closed"} : handle' = [handle EXCEPT ![q] = what]
              /\ UNCHANGED <<inter, rollback, click>>
              /\ \A p \in Questions : post'[p] = post[p] \/ {post[p], post'[p]} \subseteq {"none", "wire"}
    BY <1>1, AnswerStep
  <2>2. ASSUME NEW p \in Questions PROVE CardOf(p)' = CardOf(p)
    BY <2>1, CardFacts, CardFactsNext
  <2>3. ASSUME NEW k \in Clicks PROVE ToldTo(k)' = ToldTo(k)
    BY <2>1 DEF ToldTo
  <2>4. Cards' = Cards /\ Tolds' = Tolds
    BY <2>2, <2>3 DEF Cards, Tolds
  <2> QED BY <2>1, <2>4 DEF OA!Next, OA!Ask, OA!Answer, Cards, Tolds
<1>2. CASE handle' = handle
  <2>1. /\ Cards' = [q \in Questions |-> Cards'[q]]
        /\ \A q \in Questions : Cards'[q] \in OA!Follows(q)
    BY CardMoves DEF Cards
  <2>2. CASE \A k \in Clicks : ToldTo(k)' = ToldTo(k)
    <3>1. Tolds' = Tolds
      BY <2>2 DEF Tolds
    <3> QED BY <1>2, <2>1, <3>1 DEF OA!Next, OA!Change, Cards, Tolds
  <2>3. ASSUME NEW k \in Clicks, NEW q \in Questions,
               ToldTo(k) = OA!Nothing, handle[q] \in Choices,
               ToldTo(k)' = [question |-> q, choice |-> handle[q]],
               \A m \in Clicks : m # k => ToldTo(m)' = ToldTo(m)
        PROVE  OA!Next
    <3>1. Tolds' = [Tolds EXCEPT ![k] = [question |-> q, choice |-> handle[q]]]
      BY <2>3 DEF Tolds
    <3>2. Tolds[k] = OA!Nothing
      BY <2>3 DEF Tolds
    <3> QED BY <1>2, <2>1, <2>3, <3>1, <3>2 DEF OA!Next, OA!Change, Cards, Tolds
  <2> QED BY <2>2, <2>3, TellStep
<1> QED BY <1>1, <1>2

\* The questions of a turn implement OneAnswer: Hermes takes one answer, a card
\* that was decided is never open again, whatever snapshot is put back, and cards
\* and clicks agree with Hermes (_complete_runtime_interaction_delivery,
\* _interaction_action and resolve_runtime_interaction_payload).
THEOREM InteractionsAnsweredOnce == Spec => AnsweredOnce
<1>1. Init => Keeping
  BY InteractionsAssumption DEF Init, Keeping
<1>2. Init => OA!Init
  <2> SUFFICES ASSUME Init PROVE OA!Init
    OBVIOUS
  <2>1. ASSUME NEW q \in Questions PROVE CardOf(q) = "none"
    BY CardFacts, InteractionsAssumption DEF Init, NoInteraction, NoSnapshot
  <2>2. ASSUME NEW k \in Clicks PROVE ToldTo(k) = OA!Nothing
    BY DEF Init, ToldTo, Unclicked, OA!Nothing
  <2> QED BY <2>1, <2>2 DEF Init, OA!Init
<1>3. IInv /\ Keeping /\ [Next]_vars =>
         [OA!Next]_<<handle, [q \in Questions |-> CardOf(q)], [k \in Clicks |-> ToldTo(k)]>>
  BY OneAnswerStep DEF Cards, Tolds
<1> QED BY <1>1, <1>2, <1>3, KeepingStep, InteractionsInvariant, PTL
        DEF Spec, AnsweredOnce, OA!Spec
=============================================================================
