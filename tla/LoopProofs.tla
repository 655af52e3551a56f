----------------------------- MODULE LoopProofs -----------------------------
(***************************************************************************)
(* Theorems about Loop, for every route, every cap and, unless a theorem    *)
(* says otherwise, every fault at any time.                                 *)
(***************************************************************************)
EXTENDS Loop, TLAPS

Statuses == {"absent", "ready", "in_progress", "blocked", "done", "cancelled"}
Reports == {"none", "stopped", "error", "landed"}

\* What the proofs need of the types: the counters play no part in them.
Shape ==
  /\ status \in [Tasks -> Statuses] /\ report \in [Tasks -> Reports]
  /\ pc \in {"picked", "running", "landed"} => cur \in Tasks

----------------------------------------------------------------------------
\* A controller step, whatever it writes, starts nothing.
LEMMA WritesKeepMine ==
  ASSUME Shape, Writes
  PROVE  status' \in [Tasks -> Statuses] /\ report' = report /\ Mine' = Mine
<1> USE DEF Shape, Statuses
<1>1. CASE UNCHANGED <<status, driver, report>>
  BY <1>1 DEF Mine
<1>2. ASSUME NEW t \in Tasks, NEW s \in {"ready", "cancelled"},
             status[t] # "in_progress", status' = [status EXCEPT ![t] = s],
             report' = report
      PROVE status' \in [Tasks -> Statuses] /\ report' = report /\ Mine' = Mine
  BY <1>2 DEF Mine
<1> QED
  BY <1>1, <1>2 DEF Writes, route

\* One work order at a time.  While one is picked that is still ready, none
\* is in progress: `First` took the task in progress before it.
Alone ==
  /\ OneInProgress
  /\ (pc = "picked" /\ status[cur] = "ready") => Mine = {}
  /\ (pc \in {"running", "landed"} /\ status[cur] = "ready") => Mine = {}

LEMMA AloneHolds == Spec => [](Shape /\ Alone)
<1>1. Init => Shape /\ Alone
  BY DEF Init, Shape, Alone, OneInProgress, Mine, Statuses, Reports
<1>2. Shape /\ Alone /\ [Next]_lvars => (Shape /\ Alone)'
  <2> SUFFICES ASSUME Shape, Alone, [Next]_lvars PROVE (Shape /\ Alone)'
    OBVIOUS
  <2> USE DEF Shape, Alone, OneInProgress, Statuses, Reports, Go, Stop, disk,
              route, counters, eval
  <2>1. ASSUME Mine' = Mine, status' \in [Tasks -> Statuses], report' = report,
               pc' \notin {"picked", "running", "landed"}
        PROVE (Shape /\ Alone)'
    BY <2>1
  <2>2. CASE Launch
    <3>1. Mine' \subseteq Mine
      BY <2>2 DEF Launch, Mine
    <3> QED BY <2>2, <3>1 DEF Launch
  <2>3. CASE BeginCycle
    BY <2>1, <2>3, WritesKeepMine DEF BeginCycle, Eval, Mine
  <2>4. CASE Fill
    BY <2>1, <2>4, WritesKeepMine DEF Fill, Mine
  <2>5. CASE Work
    <3>1. UNCHANGED <<status, report>> /\ Mine' = Mine
      BY <2>5 DEF Work, Mine
    <3>2. CASE pc' = "picked"
      <4>1. cur' \in First
        BY <2>5, <3>2 DEF Work
      <4>2. cur' \in Tasks /\ (status[cur'] = "ready" => Mine = {})
        BY <4>1 DEF First, Unreported, Mine, Ready
      <4> QED BY <3>1, <3>2, <4>2
    <3>3. CASE pc' # "picked"
      BY <2>1, <2>5, <3>1, <3>3 DEF Work
    <3> QED BY <3>2, <3>3
  <2>6. CASE Begin
    <3>1. CASE status[cur] = "ready"
      <4>1. Mine' = {cur}
        BY <2>6, <3>1 DEF Begin, Mine
      <4> QED BY <2>6, <3>1, <4>1 DEF Begin
    <3>2. CASE status[cur] # "ready"
      BY <2>6, <3>2 DEF Begin, Mine
    <3> QED BY <3>1, <3>2
  <2>7. CASE WorkerMoves
    BY <2>7 DEF WorkerMoves, Mine
  <2>8. CASE Return
    BY <2>8 DEF Return, Mine
  <2>9. CASE Raise
    BY <2>9 DEF Raise, Mine
  <2>10. CASE Land
    <3>1. \/ status' = status \/ status' = [status EXCEPT ![cur] = "done"]
          \/ status' = [status EXCEPT ![cur] = "blocked"]
      <4>1. Settle
        BY <2>10 DEF Land
      <4>2. CASE verdict = "incomplete" /\ status[cur] # "done"
        BY <4>1, <4>2 DEF Settle
      <4>3. CASE verdict = "blocked"
        BY <4>1, <4>3 DEF Settle
      <4>4. CASE ~(verdict = "incomplete" /\ status[cur] # "done")
                 /\ verdict # "blocked"
        BY <4>1, <4>4 DEF Settle
      <4> QED BY <4>2, <4>3, <4>4
    <3> QED BY <2>10, <3>1 DEF Land, Mine
  <2>11. CASE Review
    BY <2>1, <2>11, WritesKeepMine DEF Review, Eval
  <2>12. CASE Tail
    BY <2>1, <2>12, WritesKeepMine DEF Tail, Eval, Mine
  <2>13. CASE Close
    BY <2>1, <2>13 DEF Close, Idle, NextCycle, Mine
  <2>14. CASE Kill
    BY <2>1, <2>14 DEF Kill, Mine
  <2>15. CASE Person \/ Deadline \/ UNCHANGED lvars
    BY <2>15 DEF Person, Deadline, lvars, Mine
  <2> QED
    BY <2>2, <2>3, <2>4, <2>5, <2>6, <2>7, <2>8, <2>9, <2>10, <2>11, <2>12,
       <2>13, <2>14, <2>15 DEF Next, Driver
<1> QED
  BY <1>1, <1>2, PTL DEF Spec

\* Two work orders are never in progress at once, over kills, holds, crashes
\* and restarts.
THEOREM OneInProgressHolds == Spec => []OneInProgress
  BY AloneHolds, PTL DEF Alone

----------------------------------------------------------------------------
\* An unreviewed landing is on its way to its review, or its review is owed
\* and the loop has not yet come to a work order.
ReviewDue ==
  unseen # {} => \/ pc \in {"landed", "review"}
                 \/ owed /\ pc \in {"off", "cycle"}

\* No work order runs before the last landing's review, as long as controller
\* steps do not raise and the process is not killed: holds and restarts, and
\* workers that raise, never lose a review.
THEOREM ReviewBeforeNextHolds ==
  ASSUME Faults \subseteq {"worker"}
  PROVE  Spec => []ReviewBeforeNext
<1>1. Init => ReviewDue
  BY DEF Init, ReviewDue
<1>2. ReviewDue /\ [Next]_lvars => ReviewDue'
  <2> SUFFICES ASSUME ReviewDue, [Next]_lvars PROVE ReviewDue'
    OBVIOUS
  <2> USE DEF ReviewDue, Go, Stop, disk, counters
  <2>1. Eval => unseen' = {}
    BY DEF Eval
  <2>2. CASE Launch \/ Fill \/ Work
    BY <2>2 DEF Launch, Fill, Work, eval
  <2>3. CASE BeginCycle
    BY <2>1, <2>3 DEF BeginCycle, eval
  <2>4. CASE Begin \/ WorkerMoves \/ Raise
    BY <2>4 DEF Begin, WorkerMoves, Raise, eval
  <2>5. CASE Return
    BY <2>5 DEF Return
  <2>6. CASE Land
    BY <2>6 DEF Land, Owes, eval
  <2>7. CASE Review \/ Tail
    BY <2>1, <2>7 DEF Review, Tail, eval
  <2>8. CASE Close
    BY <2>8 DEF Close
  <2>9. CASE Kill
    BY <2>9 DEF Kill
  <2>10. CASE Person \/ Deadline \/ UNCHANGED lvars
    BY <2>10 DEF Person, Deadline, lvars, eval
  <2> QED
    BY <2>2, <2>3, <2>4, <2>5, <2>6, <2>7, <2>8, <2>9, <2>10 DEF Next, Driver
<1>3. ReviewDue => ReviewBeforeNext
  BY DEF ReviewDue, ReviewBeforeNext
<1> QED
  BY <1>1, <1>2, <1>3, PTL DEF Spec

----------------------------------------------------------------------------
\* Without a worker that raises no report says error, and a run that ended
\* completed had nothing left to run.
NothingLeft ==
  /\ Shape
  /\ \A t \in Tasks : report[t] # "error"
  /\ pc = "off" /\ stop = "completed" => Unreported = {}

\* A run that calls the brief complete has the report of every work order
\* that is done, over kills and holds at any point: provided no work order
\* raised.
THEOREM WriteUpsLandedHolds ==
  ASSUME "worker" \notin Faults
  PROVE  Spec => []WriteUpsLanded
<1>1. Init => NothingLeft
  BY DEF Init, NothingLeft, Shape, Statuses, Reports
<1>2. Shape' /\ NothingLeft /\ [Next]_lvars => NothingLeft'
  <2> SUFFICES ASSUME Shape', NothingLeft, [Next]_lvars PROVE NothingLeft'
    OBVIOUS
  <2> USE DEF NothingLeft, Shape, Go, Stop, disk, route, counters
  <2>1. ASSUME report' = report, ~(pc' = "off" /\ stop' = "completed")
        PROVE NothingLeft'
    BY <2>1
  <2>2. CASE Launch \/ WorkerMoves
    BY <2>1, <2>2 DEF Launch, WorkerMoves
  <2>3. CASE BeginCycle \/ Fill \/ Review \/ Tail
    BY <2>1, <2>3, WritesKeepMine DEF BeginCycle, Fill, Review, Tail, Eval
  <2>4. CASE Work
    BY <2>1, <2>4 DEF Work
  <2>5. CASE Begin
    BY <2>5 DEF Begin
  <2>6. CASE Return
    BY <2>6 DEF Return
  <2>7. CASE Raise
    BY <2>7 DEF Raise
  <2>8. CASE Land \/ Kill
    BY <2>1, <2>8 DEF Land, Kill
  <2>9. CASE Close
    <3>1. UNCHANGED <<status, report>> /\ Unreported' = Unreported
      BY <2>9 DEF Close, Unreported
    <3>2. CASE pc' = "off" /\ stop' = "completed"
      <4>1. Runnable = {}
        BY <2>9, <3>2 DEF Close, NextCycle
      <4> QED BY <3>1, <4>1 DEF Runnable
    <3> QED BY <2>1, <3>1, <3>2
  <2>10. CASE Person \/ Deadline \/ UNCHANGED lvars
    BY <2>10 DEF Person, Deadline, lvars, Unreported
  <2> QED
    BY <2>2, <2>3, <2>4, <2>5, <2>6, <2>7, <2>8, <2>9, <2>10 DEF Next, Driver
<1>3. NothingLeft => WriteUpsLanded
  BY DEF NothingLeft, Shape, Reports, WriteUpsLanded, Unreported
<1> QED
  BY <1>1, <1>2, <1>3, AloneHolds, PTL DEF Spec

----------------------------------------------------------------------------
\* TypeOK in two halves: what the loop is at, and what it counts.
Placed ==
  /\ status \in [Tasks -> Statuses] /\ driver \subseteq Tasks
  /\ report \in [Tasks -> Reports]
  /\ hold \in BOOLEAN /\ owed \in BOOLEAN /\ late \in BOOLEAN
  /\ asks \in {"none", "open", "blocking"}
  /\ pc \in {"off", "cycle", "fill", "work", "picked", "running", "landed",
             "review", "tail", "close"}
  /\ cur \in Tasks \cup {NoTask}
  /\ verdict \in {"none", "complete", "incomplete", "blocked", "stopped"}
  /\ stop \in Stops
  /\ look \in {"none", "looked", "failed"} /\ minted \in BOOLEAN
  /\ unseen \subseteq Tasks

Counts ==
  /\ phases \in 0..Phases /\ starts \in 0..MaxStarts
  /\ cycle \in 0..MaxCycles /\ tasksRun \in 0..MaxTasks
  /\ errors \in 0..(MaxErrors + MaxCycles) /\ stalled \in 0..1

LEMMA TypeOKHalves == TypeOK <=> Placed /\ Counts
  BY DEF TypeOK, Placed, Counts, Statuses, Reports

\* A controller step leaves a well-formed route and brief.
LEMMA WritesTyped ==
  ASSUME Placed, Writes
  PROVE  /\ status' \in [Tasks -> Statuses] /\ driver' \subseteq Tasks
         /\ report' = report /\ asks' \in {"none", "open", "blocking"}
<1> USE DEF Placed, Statuses
<1>1. CASE UNCHANGED <<route, asks>>
  BY <1>1 DEF route
<1>2. CASE asks' \in {"open", "blocking"} /\ UNCHANGED route
  BY <1>2 DEF route
<1>3. ASSUME NEW t \in Tasks, NEW s \in {"ready", "cancelled"},
             status' = [status EXCEPT ![t] = s], driver' = driver \ {t},
             UNCHANGED <<report, asks>>
      PROVE /\ status' \in [Tasks -> Statuses] /\ driver' \subseteq Tasks
            /\ report' = report /\ asks' \in {"none", "open", "blocking"}
  BY <1>3
<1> QED
  BY <1>1, <1>2, <1>3 DEF Writes

LEMMA EvalTyped ==
  ASSUME Placed, Eval
  PROVE  /\ look' \in {"none", "looked", "failed"} /\ minted' \in BOOLEAN
         /\ unseen' \subseteq Tasks
BY DEF Placed, Eval, Mints

LEMMA PlacedHolds == Spec => [](Shape /\ Placed)
<1>1. Init => Placed
  BY DEF Init, Placed, Stops, Statuses, Reports
<1>2. Placed /\ Shape /\ [Next]_lvars => Placed'
  <2> SUFFICES ASSUME Placed, Shape, [Next]_lvars PROVE Placed'
    OBVIOUS
  <2> USE DEF Go, Stop, disk, counters, eval, route, Shape, Placed, Statuses,
              Reports, Stops
  <2>2. CASE Launch
    BY <2>2 DEF Launch
  <2>1. ASSUME Eval \/ UNCHANGED <<route, asks, eval>>,
               pc' \in {"fill", "work", "close"}, owed' \in BOOLEAN,
               UNCHANGED <<hold, cur, verdict, stop, late>>
        PROVE Placed'
    <3>1. CASE Eval
      <4>1. Writes
        BY <3>1 DEF Eval
      <4>2. /\ status' \in [Tasks -> Statuses] /\ driver' \subseteq Tasks
            /\ report' = report /\ asks' \in {"none", "open", "blocking"}
        BY <4>1, WritesTyped
      <4>3. /\ look' \in {"none", "looked", "failed"} /\ minted' \in BOOLEAN
            /\ unseen' \subseteq Tasks
        BY <3>1, EvalTyped
      <4> QED BY <2>1, <4>2, <4>3
    <3>2. CASE UNCHANGED <<route, asks, eval>>
      BY <2>1, <3>2
    <3> QED BY <2>1, <3>1, <3>2
  <2>3. CASE BeginCycle
    BY <2>1, <2>3 DEF BeginCycle
  <2>4. CASE Fill
    BY <2>4, WritesTyped DEF Fill
  <2>5. CASE Work
    BY <2>5 DEF Work, CountsTask, First, Unreported, Mine, Ready
  <2>6. CASE Begin
    BY <2>6 DEF Begin
  <2>7. CASE WorkerMoves
    BY <2>7 DEF WorkerMoves
  <2>8. CASE Return
    BY <2>8 DEF Return, Verdicts
  <2>9. CASE Raise
    BY <2>9 DEF Raise
  <2>10. CASE Land
    BY <2>10 DEF Land, Settle, Owes
  <2>11. CASE Review \/ Tail
    BY <2>1, <2>11 DEF Review, Tail
  <2>12. CASE Close
    <3>1. Outcomes \subseteq Stops \cup {"again"}
      BY DEF Outcomes
    <3>2. stop' \in Stops /\ pc' \in {"off", "cycle"}
      BY <2>12, <3>1 DEF Close, Idle, NextCycle
    <3>3. look' \in {look, "none"} /\ minted' \in BOOLEAN
      BY <2>12 DEF Close, Idle, NextCycle
    <3> QED BY <2>12, <3>2, <3>3 DEF Close
  <2>13. CASE Kill
    BY <2>13 DEF Kill
  <2>14. CASE Person
    <3>1. (~hold) \in BOOLEAN
      OBVIOUS
    <3>2. hold' \in BOOLEAN /\ asks' \in {"none", "open", "blocking"}
      BY <2>14, <3>1 DEF Person
    <3> QED BY <2>14, <3>2 DEF Person
  <2>15. CASE Deadline
    BY <2>15 DEF Deadline
  <2>16. CASE UNCHANGED lvars
    BY <2>16 DEF lvars
  <2> QED
    BY <2>2, <2>3, <2>4, <2>5, <2>6, <2>7, <2>8, <2>9, <2>10, <2>11, <2>12,
       <2>13, <2>14, <2>15, <2>16 DEF Next, Driver
<1> QED
  BY <1>1, <1>2, AloneHolds, PTL DEF Spec

\* The failures a run may have counted by now.  A work order that raised went
\* on only below MaxErrors; a route step that failed is held against no cap,
\* and there is one for each cycle that has filled.
Filled == IF pc \in {"cycle", "fill"} THEN cycle - 1 ELSE cycle
ErrorsBounded ==
  pc # "off" => cycle \in 1..MaxCycles /\ errors <= MaxErrors - 1 + Filled

LEMMA BoundsHold == Spec => [](Counts /\ ErrorsBounded)
<1>0. /\ MaxCycles \in Nat /\ MaxTasks \in Nat /\ MaxErrors \in Nat
      /\ MaxCycles >= 1 /\ MaxErrors >= 1 /\ MaxStarts \in Nat /\ Phases \in Nat
  BY LoopAssumption
<1>1. Init => Counts /\ ErrorsBounded
  BY <1>0 DEF Init, Counts, ErrorsBounded
<1>2. Counts /\ ErrorsBounded /\ [Next]_lvars => (Counts /\ ErrorsBounded)'
  <2> SUFFICES ASSUME Counts, ErrorsBounded, [Next]_lvars
               PROVE (Counts /\ ErrorsBounded)'
    OBVIOUS
  <2> USE <1>0 DEF Go, Stop, disk, counters, eval, Counts, ErrorsBounded, Filled
  <2>2. CASE Launch
    BY <2>2 DEF Launch
  <2>3. CASE BeginCycle \/ Begin \/ WorkerMoves \/ Land \/ Review \/ Tail
    BY <2>3 DEF BeginCycle, Begin, WorkerMoves, Land, Review, Tail
  <2>4. CASE Fill
    BY <2>4 DEF Fill
  <2>5. CASE Work
    BY <2>5 DEF Work, CountsTask
  <2>6. CASE Return
    BY <2>6 DEF Return
  <2>7. CASE Raise
    BY <2>7 DEF Raise
  <2>8. CASE Close
    BY <2>8 DEF Close, Idle, NextCycle
  <2>9. CASE Kill \/ Person \/ Deadline \/ UNCHANGED lvars
    BY <2>9 DEF Kill, Person, Deadline, lvars
  <2> QED
    BY <2>2, <2>3, <2>4, <2>5, <2>6, <2>7, <2>8, <2>9 DEF Next, Driver
<1> QED
  BY <1>1, <1>2, PTL DEF Spec

\* The loop's files and counters keep their range over every fault and
\* restart: no run exceeds its caps on cycles and work orders, and the failures
\* it counts stay below the cap plus one per cycle.
THEOREM TypeOKHolds == Spec => []TypeOK
  BY TypeOKHalves, PlacedHolds, BoundsHold, PTL
=============================================================================
