---------------------------- MODULE OneAnswer ----------------------------
(***************************************************************************)
(* What the questions of a turn promise to whoever clicks on their cards:  *)
(* Hermes takes one answer to a question at most and keeps it; a card is   *)
(* open, then decided, and never open again; what it shows as chosen, and  *)
(* what a click is told, is the answer that Hermes has taken.              *)
(***************************************************************************)
CONSTANTS Questions, Choices, Clicks

VARIABLES
    answer,  \* what Hermes has been given: none, open, closed or a choice
    card,    \* what a question's card says: none, open, failed, withdrawn or a choice
    told     \* what a click was told that counts, or nothing

Decided == Choices \cup {"failed", "withdrawn"}
Nothing == [question |-> "none", choice |-> "none"]

Init ==
    /\ answer = [q \in Questions |-> "none"]
    /\ card = [q \in Questions |-> "none"]
    /\ told = [k \in Clicks |-> Nothing]

Ask(q) == answer[q] = "none" /\ answer' = [answer EXCEPT ![q] = "open"] /\ UNCHANGED <<card, told>>

Answer(q) ==
    /\ answer[q] = "open"
    /\ \E what \in Choices \cup {"closed"} : answer' = [answer EXCEPT ![q] = what]
    /\ UNCHANGED <<card, told>>

\* What a card may say next: a decided one can only be withdrawn.
Follows(q) ==
    CASE card[q] = "none" -> {"none", "open", "withdrawn"}
      [] card[q] = "open" -> {"open", "failed", "withdrawn"} \cup ({answer[q]} \cap Choices)
      [] card[q] \in Decided -> {card[q], "withdrawn"}

\* The session changes, and with it the cards of its questions; a click may be
\* told that it counts.
Change ==
    /\ card' = [q \in Questions |-> card'[q]]
    /\ \A q \in Questions : card'[q] \in Follows(q)
    /\ \/ UNCHANGED told
       \/ \E k \in Clicks, q \in Questions :
             /\ told[k] = Nothing /\ answer[q] \in Choices
             /\ told' = [told EXCEPT ![k] = [question |-> q, choice |-> answer[q]]]
    /\ UNCHANGED answer

Next == (\E q \in Questions : Ask(q) \/ Answer(q)) \/ Change

Spec == Init /\ [][Next]_<<answer, card, told>>
=============================================================================
