----------------------- MODULE FileTransaction_proofs -----------------------
(* All files or none, for any number of files: proofs about FileTransaction. *)
EXTENDS FileTransaction, TLAPS

-----------------------------------------------------------------------------
(* The inductive invariant. *)

\* Targets whose new version is in place, if no other process changed them.
New(t) ==
    \/ phase \in {"verify", "validate"} \/ outcome = "done"
    \/ phase = "write" /\ (t < at \/ (t = at /\ step = "confirm"))
    \/ phase \in {"undo", "back"} /\ (t < at \/ (t = at /\ step # "confirm"))
    \/ outcome = "review" /\ preserve /\ t < written

\* Targets that nothing was done to yet.
Old(t) ==
    \/ phase = "bind"
    \/ phase = "write" /\ (t > at \/ (t = at /\ step # "confirm"))

\* Targets that have been put back, or were never written.
Former(t) ==
    \/ outcome = "refused"
    \/ phase \in {"undo", "back"} /\ ~failed /\ (t > at \/ (t = at /\ step = "confirm"))

Contents == \A t \in Targets \ touched :
    /\ New(t) => file[t] = "ours"
    /\ Old(t) => file[t] = Original(t)
    /\ Former(t) /\ t \notin stranded => file[t] \in {Original(t), Undone(t)}

\* Where a new version may be at all, when earlier writes are to be preserved.
Reached(t) ==
    \/ phase \in {"verify", "validate"} \/ outcome = "done"
    \/ phase = "write" /\ (t < at \/ (t = at /\ step = "confirm"))
    \/ phase \in {"undo", "back"} /\ t <= at
    \/ outcome = "review" /\ t <= written
OursReached == preserve =>
    \A t \in Targets : file[t] = "ours" /\ t \notin stranded => Reached(t)

FailedLate ==
    /\ phase \in {"bind", "write", "undo", "verify", "validate"} \/ outcome = "refused" => ~failed
    /\ (phase = "back" => written = at) /\ (phase = "bind" => written = 0)

\* The check found what it expected; whoever came later has raced.
CheckedOrRaced == Writing /\ step = "rename" /\ file[at] = "foreign" => at \in raced

IInv == TypeOK /\ FailedLate /\ Contents /\ OursReached /\ CheckedOrRaced

USE DEF Targets

-----------------------------------------------------------------------------
LEMMA Initially == Init => IInv
<1> SUFFICES ASSUME Init PROVE IInv
  OBVIOUS
<1>u. \A t \in Targets : Original(t) \in {"none", "original"}
  BY DEF Original
<1>1. TypeOK
  <2>1. file \in [Targets -> Versions]
    BY <1>u DEF Init, Versions
  <2>2. 1 \in Targets /\ 0 \in 0 .. N /\ 0 \in 0 .. MaxForeign /\ 1 \in 0 .. N + 1
    BY FileAssumption
  <2> QED  BY <2>1, <2>2 DEF Init, TypeOK
<1>2. Contents
  <2>1. ASSUME NEW t \in Targets PROVE file[t] = Original(t)
    BY <2>1 DEF Init
  <2> QED  BY <2>1 DEF Init, Contents, New, Old, Former
<1>3. OursReached /\ FailedLate /\ CheckedOrRaced
  BY <1>u, FileAssumption DEF Init, OursReached, FailedLate, CheckedOrRaced
<1> QED  BY <1>1, <1>2, <1>3 DEF IInv

\* The rollback begins, or goes on, below the targets that are put back.
LEMMA BackKeeps ==
    ASSUME IInv, NEW n \in 0 .. N, NEW f \in BOOLEAN, Back(n, f), outcome = "running",
           file' = file, UNCHANGED others, stranded \subseteq stranded', stranded' \subseteq Targets,
           \A t \in Targets \ touched : t <= n => file[t] = "ours",
           ~f => \A t \in Targets \ touched :
                    t > n /\ t \notin stranded' => file[t] \in {Original(t), Undone(t)},
           preserve => \A t \in Targets :
                    file[t] = "ours" /\ t \notin stranded' => t <= n
    PROVE  IInv'
<1>1. CASE n = 0
  BY <1>1, FileAssumption
     DEF IInv, TypeOK, FailedLate, Contents, OursReached, CheckedOrRaced,
     New, Old, Former, Reached, Writing, Back, Over, Goes, others, Original, Undone
<1>2. CASE n # 0
  BY <1>2, FileAssumption
     DEF IInv, TypeOK, FailedLate, Contents, OursReached, CheckedOrRaced,
     New, Old, Former, Reached, Writing, Back, Goes, others, Original, Undone
<1> QED  BY <1>1, <1>2

LEMMA FailsKeeps ==
    ASSUME IInv, Fails, outcome = "running", phase \in {"write", "undo", "verify", "validate", "back"},
           file' = file, UNCHANGED others
    PROVE  IInv'
<1>t. /\ at \in 0 .. N + 1 /\ written \in 0 .. N /\ N \in Nat
      /\ file \in [Targets -> Versions] /\ stranded \subseteq Targets
      /\ phase \in {"write", "undo", "back", "verify"} => at \in Targets
      /\ phase \in {"write", "undo"} => written = at - 1
      /\ phase \in {"verify", "validate"} => written = N
      /\ phase = "back" => written = at
      /\ phase # "back" => ~failed
      /\ failed \in BOOLEAN
  BY FileAssumption DEF IInv, TypeOK, FailedLate
<1>s. stranded \subseteq stranded' /\ stranded' \subseteq Targets
  BY <1>t DEF Fails
<1>u. \A t \in Targets : Original(t) # "ours" /\ Undone(t) # "ours"
  BY DEF Original, Undone
<1>1. CASE phase \in {"write", "verify", "validate"}
  <2>1. Back(written, failed)
    BY <1>1 DEF Fails
  <2>2. \A t \in Targets \ touched : t <= written => file[t] = "ours"
    BY <1>1, <1>t DEF IInv, Contents, New
  <2>3. \A t \in Targets \ touched :
          t > written /\ t \notin stranded' => file[t] \in {Original(t), Undone(t)}
    BY <1>1, <1>t DEF IInv, Contents, Old, Fails
  <2>4. preserve => \A t \in Targets : file[t] = "ours" /\ t \notin stranded' => t <= written
    BY <1>1, <1>t DEF IInv, OursReached, Reached, Fails, TypeOK
  <2> QED  BY <1>t, <1>s, <2>1, <2>2, <2>3, <2>4, BackKeeps
<1>2. CASE phase = "undo"
  <2>1. Back(written, TRUE)
    BY <1>2 DEF Fails
  <2>2. \A t \in Targets \ touched : t <= written => file[t] = "ours"
    BY <1>2, <1>t DEF IInv, Contents, New
  <2>4. preserve => \A t \in Targets : file[t] = "ours" /\ t \notin stranded' => t <= written
    BY <1>2, <1>t DEF IInv, OursReached, Reached, Fails, TypeOK
  <2> QED  BY <1>t, <1>s, <2>1, <2>2, <2>4, BackKeeps
<1>3. CASE phase = "back" /\ ~preserve
  <2>1. Back(at - 1, TRUE)
    BY <1>3 DEF Fails, NotPutBack
  <2>2. \A t \in Targets \ touched : t <= at - 1 => file[t] = "ours"
    BY <1>3, <1>t DEF IInv, Contents, New
  <2>3. at - 1 \in 0 .. N /\ TRUE \in BOOLEAN
    BY <1>3, <1>t
  <2>4. preserve => \A t \in Targets : file[t] = "ours" /\ t \notin stranded' => t <= at - 1
    BY <1>3
  <2> QED  BY <1>s, <2>1, <2>2, <2>3, <2>4, BackKeeps
<1>4. CASE phase = "back" /\ preserve
  <2>1. Over("review") /\ failed' = TRUE /\ written' = at /\ stranded' = stranded
    BY <1>4 DEF Fails, NotPutBack
  <2>2. Contents'
    BY <1>4, <1>t, <2>1 DEF IInv, Contents, New, Old, Former, Over, Goes, others
  <2>3. OursReached'
    BY <1>4, <1>t, <2>1 DEF IInv, TypeOK, OursReached, Reached, Over, Goes, others
  <2>4. TypeOK' /\ FailedLate' /\ CheckedOrRaced'
    BY <1>4, <1>t, <2>1 DEF IInv, TypeOK, FailedLate, CheckedOrRaced, Writing, Over, Goes, others
  <2> QED  BY <2>2, <2>3, <2>4 DEF IInv
<1> QED  BY <1>1, <1>2, <1>3, <1>4

\* Every step preserves the invariant.
LEMMA Step == IInv /\ [Next]_vars => IInv'
<1> SUFFICES ASSUME IInv, [Next]_vars PROVE IInv'
  OBVIOUS
<1>t. /\ at \in 0 .. N + 1 /\ written \in 0 .. N /\ N \in Nat \ {0}
      /\ file \in [Targets -> Versions] /\ stranded \subseteq Targets
      /\ phase \in {"bind", "write", "undo", "back", "verify"} => at \in Targets
      /\ phase \in {"write", "undo"} => written = at - 1
      /\ phase \in {"verify", "validate"} => written = N
      /\ (phase = "back" => written = at) /\ (phase = "bind" => written = 0)
      /\ phase \notin {"back", "over"} => ~failed
      /\ failed \in BOOLEAN /\ preserve \in BOOLEAN
      /\ phase # "over" => outcome = "running"
  BY FileAssumption DEF IInv, TypeOK, FailedLate
<1>u. \A t \in Targets : /\ Original(t) \in Versions \ {"ours", "foreign"}
                        /\ Undone(t) \in Versions \ {"ours", "foreign"}
  BY DEF Original, Undone, Versions
<1>1. CASE Bind
  <2>0. phase = "bind" /\ at \in Targets /\ outcome = "running" /\ ~failed
    BY <1>1, <1>t DEF Bind
  <2>1. CASE file[at] = Original(at) /\ at < N /\ Goes("bind", at + 1)
             /\ UNCHANGED <<file, others, stranded, written, failed, outcome>>
    BY <1>1, <1>t, <1>u, <2>1
       DEF IInv, TypeOK, FailedLate, Contents, OursReached, CheckedOrRaced, New, Old, Former,
           Reached, Writing, Goes, others, Bind
  <2>2. CASE file[at] = Original(at) /\ at = N /\ Goes("write", 1)
             /\ UNCHANGED <<file, others, stranded, written, failed, outcome>>
    BY <1>1, <1>t, <1>u, <2>2
       DEF IInv, TypeOK, FailedLate, Contents, OursReached, CheckedOrRaced, New, Old, Former,
           Reached, Writing, Goes, others, Bind
  <2>3. CASE Over("refused") /\ UNCHANGED <<file, others, stranded, written, failed>>
    BY <1>1, <1>t, <1>u, <2>3
       DEF IInv, TypeOK, FailedLate, Contents, OursReached, CheckedOrRaced, New, Old, Former,
           Reached, Writing, Goes, Over, others, Bind
  <2> QED  BY <1>1, <1>t, <2>1, <2>2, <2>3 DEF Bind
<1>2. CASE Check
  <2>1. CASE Fails
    BY <1>2, <1>t, <2>1, FailsKeeps DEF Check, Writing
  <2>2. CASE file[at] = Expects(at) /\ step' = "rename"
             /\ UNCHANGED <<phase, at, written, failed, outcome, stranded>>
    BY <1>2, <1>t, <1>u, <2>2
       DEF Check, IInv, TypeOK, FailedLate, Contents, OursReached, CheckedOrRaced, New, Old, Former,
           Reached, Writing, others, Expects
  <2> QED  BY <1>2, <2>1, <2>2 DEF Check
<1>3. CASE Rename
  <2>1. CASE file' = file /\ Fails
    BY <1>3, <1>t, <2>1, FailsKeeps DEF Rename, Writing
  <2>2. CASE file' = [file EXCEPT ![at] = Result(at)] /\ step' = "confirm"
             /\ UNCHANGED <<phase, at, written, failed, outcome, stranded>>
    <3>1. Writing /\ UNCHANGED others /\ step = "rename" /\ at \in Targets
      BY <1>3, <1>t DEF Rename, Writing
    <3>2. Result(at) \in Versions /\ (phase # "write" => Result(at) = Undone(at) /\ Result(at) # "ours")
          /\ (phase = "write" => Result(at) = "ours")
      BY <1>u, <3>1 DEF Result, Versions
    <3>3. file'[at] = Result(at) /\ \A t \in Targets \ {at} : file'[t] = file[t]
      BY <1>t, <2>2, <3>1
    <3>4. Contents'
      BY <1>t, <2>2, <3>1, <3>2, <3>3
         DEF IInv, Contents, New, Old, Former, Writing, others, Original, Undone
    <3>5. OursReached'
      BY <1>t, <2>2, <3>1, <3>2, <3>3 DEF IInv, OursReached, Reached, Writing, others
    <3>6. TypeOK' /\ FailedLate' /\ CheckedOrRaced'
      BY <1>t, <2>2, <3>1, <3>2 DEF IInv, TypeOK, FailedLate, CheckedOrRaced, Writing, others
    <3> QED  BY <3>4, <3>5, <3>6 DEF IInv
  <2> QED  BY <1>3, <2>1, <2>2 DEF Rename
<1>4. CASE Confirm
  <2>0. Writing /\ step = "confirm" /\ UNCHANGED <<file, others>> /\ at \in Targets
    BY <1>4, <1>t DEF Confirm, Writing
  <2>1. CASE Fails
    BY <1>t, <2>0, <2>1, FailsKeeps DEF Writing
  <2>2. CASE file[at] = Result(at) /\ stranded' = stranded /\ phase = "write" /\ Written
    <3>1. CASE at < N
      BY <1>t, <1>u, <2>0, <2>2, <3>1
         DEF IInv, TypeOK, FailedLate, Contents, OursReached, CheckedOrRaced, New, Old, Former,
             Reached, Writing, Written, Goes, others, Result
    <3>2. CASE at = N
      BY <1>t, <1>u, <2>0, <2>2, <3>2
         DEF IInv, TypeOK, FailedLate, Contents, OursReached, CheckedOrRaced, New, Old, Former,
             Reached, Writing, Written, Goes, others, Result
    <3> QED  BY <1>t, <2>0, <3>1, <3>2
  <2>3. CASE file[at] = Result(at) /\ stranded' = stranded /\ phase = "write" /\ Goes("undo", at)
             /\ UNCHANGED <<written, failed, outcome>>
    BY <1>t, <1>u, <2>0, <2>3
       DEF IInv, TypeOK, FailedLate, Contents, OursReached, CheckedOrRaced, New, Old, Former,
           Reached, Writing, Goes, others, Result
  <2>4. CASE file[at] = Result(at) /\ stranded' = stranded /\ phase # "write" /\ Back(at - 1, failed)
    <3>1. \A t \in Targets \ touched : t <= at - 1 => file[t] = "ours"
      BY <1>t, <2>0, <2>4 DEF IInv, Contents, New, Writing
    <3>2. ~failed => \A t \in Targets \ touched :
                       t > at - 1 /\ t \notin stranded' => file[t] \in {Original(t), Undone(t)}
      BY <1>t, <2>0, <2>4 DEF IInv, Contents, Former, Writing
    <3>3. file[at] # "ours"
      BY <1>u, <2>0, <2>4 DEF Result
    <3>4. preserve => \A t \in Targets : file[t] = "ours" /\ t \notin stranded' => t <= at - 1
      BY <1>t, <2>0, <2>4, <3>3 DEF IInv, OursReached, Reached, Writing
    <3>5. at - 1 \in 0 .. N /\ stranded \subseteq stranded' /\ stranded' \subseteq Targets
          /\ outcome = "running"
      BY <1>t, <2>0, <2>4 DEF Writing
    <3> QED  BY <1>t, <2>0, <2>4, <3>1, <3>2, <3>4, <3>5, BackKeeps
  <2> QED  BY <1>4, <2>1, <2>2, <2>3, <2>4 DEF Confirm
<1>5. CASE Verify
  <2>0. phase = "verify" /\ UNCHANGED <<file, preserve, moved, foreign, raced>> /\ at \in Targets
    BY <1>5, <1>t DEF Verify
  <2>1. CASE Fails /\ touched' = touched
    BY <1>t, <2>0, <2>1, FailsKeeps DEF others
  <2>2. CASE StillOurs(at) /\ touched' = touched \ {at} /\ at < N /\ Goes("verify", at + 1)
             /\ UNCHANGED <<written, failed, outcome, stranded>>
    BY <1>t, <2>0, <2>2
       DEF StillOurs, IInv, TypeOK, FailedLate, Contents, OursReached, CheckedOrRaced, New, Old, Former,
           Reached, Writing, Goes
  <2>3. CASE StillOurs(at) /\ touched' = touched \ {at} /\ Goes("validate", at)
             /\ UNCHANGED <<written, failed, outcome, stranded>>
    BY <1>t, <2>0, <2>3
       DEF StillOurs, IInv, TypeOK, FailedLate, Contents, OursReached, CheckedOrRaced, New, Old, Former,
           Reached, Writing, Goes
  <2> QED  BY <1>5, <2>1, <2>2, <2>3 DEF Verify
<1>6. CASE Validate
  <2>1. CASE Fails
    BY <1>6, <1>t, <2>1, FailsKeeps DEF Validate
  <2>2. CASE Over("done") /\ UNCHANGED <<written, failed, stranded>>
    BY <1>6, <1>t, <2>2
       DEF Validate, Over, Goes, IInv, TypeOK, FailedLate, Contents, OursReached, CheckedOrRaced, New,
           Old, Former, Reached, Writing, others
  <2> QED  BY <1>6, <2>1, <2>2 DEF Validate
<1>7. ASSUME NEW t \in Targets, Change(t) PROVE IInv'
  <2>1. PICK v \in {"foreign", "none"} : file' = [file EXCEPT ![t] = v]
    BY <1>7 DEF Change
  <2>2. /\ file'[t] = v /\ v \in Versions \ {"ours"} /\ touched' = touched \cup {t}
        /\ \A s \in Targets \ {t} : file'[s] = file[s]
        /\ file' \in [Targets -> Versions]
    BY <1>7, <1>t, <2>1 DEF Change, Versions
  <2>3. UNCHANGED <<preserve, moved, job, stranded>> /\ raced \subseteq raced'
        /\ (Writing /\ step = "rename" /\ at = t => t \in raced') /\ raced' \subseteq raced \cup {t}
        /\ foreign' \in 0 .. MaxForeign
    BY <1>7, FileAssumption DEF Change, IInv, TypeOK
  <2>4. Contents'
    BY <2>2, <2>3 DEF IInv, Contents, New, Old, Former, job
  <2>5. OursReached'
    BY <2>2, <2>3 DEF IInv, OursReached, Reached, job
  <2>6. CheckedOrRaced'
    BY <1>t, <2>2, <2>3 DEF IInv, CheckedOrRaced, Writing, job
  <2>7. TypeOK' /\ FailedLate'
    BY <2>2, <2>3 DEF IInv, TypeOK, FailedLate, job
  <2> QED  BY <2>4, <2>5, <2>6, <2>7 DEF IInv
<1>8. ASSUME NEW t \in Targets, Move(t) PROVE IInv'
  BY <1>8, <1>t, FileAssumption
     DEF Move, IInv, TypeOK, FailedLate, Contents, OursReached, CheckedOrRaced, New, Old, Former,
         Reached, Writing, job
<1>9. CASE UNCHANGED vars
  BY <1>9 DEF vars, job, others, IInv, TypeOK, FailedLate, Contents, OursReached, CheckedOrRaced, New,
         Old, Former, Reached, Writing
<1> QED  BY <1>1, <1>2, <1>3, <1>4, <1>5, <1>6, <1>7, <1>8, <1>9 DEF Next

-----------------------------------------------------------------------------
(* What follows. *)

\* The inductive invariant holds in every state of a transaction.
THEOREM FilesInvariant == Spec => []IInv
BY Initially, Step, PTL DEF Spec

\* The type invariant, for any number of files and of changes by others.
THEOREM FilesTypes == Spec => []TypeOK
<1>1. IInv => TypeOK
  BY DEF IInv
<1> QED  BY <1>1, FilesInvariant, PTL

\* All of the files are new or all of them have their former contents
\* (_write_targets_transactionally), unless manual review is asked for.
THEOREM FilesAllOrNothing == Spec => []AllOrNothing
<1>1. IInv => AllOrNothing
  BY DEF IInv, Contents, New, Former, AllOrNothing
<1> QED  BY <1>1, FilesInvariant, PTL

\* Earlier writes stay when a later one can be neither kept nor put back
\* (preserve_earlier_writes_on_rollback_failure).
THEOREM FilesEvidenceKept == Spec => []EvidenceKept
<1>1. ASSUME IInv, preserve, outcome # "running",
             NEW s \in Targets, NEW t \in Targets, s < t, file[t] = "ours", t \notin stranded
      PROVE  file[s] = "ours" \/ s \in touched
  <2>1. Reached(t) /\ phase = "over"
    BY <1>1 DEF IInv, OursReached, TypeOK
  <2>2. outcome = "done" \/ (outcome = "review" /\ t <= written)
    BY <2>1 DEF Reached
  <2>3. New(s)
    BY <1>1, <2>2, FileAssumption DEF New, IInv, TypeOK
  <2> QED  BY <1>1, <2>3 DEF IInv, Contents
<1>2. IInv => EvidenceKept
  BY <1>1 DEF EvidenceKept
<1> QED  BY <1>2, FilesInvariant, PTL

\* No file of another process is lost but in the window between the check and
\* the rename.
THEOREM FilesOnlyRacedIsLost == Spec => OnlyRacedIsLost
<1>1. IInv /\ [Next]_vars =>
        [\A t \in Targets :
            file[t] = "foreign" /\ file'[t] # "foreign" /\ foreign' = foreign => t \in raced]_vars
  <2> SUFFICES ASSUME IInv, Next, NEW t \in Targets,
                      file[t] = "foreign", file'[t] # "foreign", foreign' = foreign
               PROVE  t \in raced
    BY DEF vars
  <2>1. CASE Rename
    <3>1. Writing /\ step = "rename" /\ at \in Targets
      BY <2>1 DEF Rename, Writing, IInv, TypeOK
    <3>2. at = t
      BY <2>1, <3>1 DEF Rename, IInv, TypeOK
    <3> QED  BY <3>1, <3>2 DEF IInv, CheckedOrRaced
  <2>2. CASE Bind \/ Check \/ Confirm \/ Verify \/ Validate
    BY <2>2 DEF Bind, Check, Confirm, Verify, Validate
  <2>3. ASSUME NEW s \in Targets, Change(s) \/ Move(s) PROVE FALSE
    BY <2>3, FileAssumption DEF Change, Move, IInv, TypeOK
  <2> QED  BY <2>1, <2>2, <2>3 DEF Next
<1> QED  BY <1>1, FilesInvariant, PTL DEF Spec, OnlyRacedIsLost

=============================================================================
