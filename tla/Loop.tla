-------------------------------- MODULE Loop --------------------------------
(***************************************************************************)
(* The unattended loop (engine/mizpah/src/mizpah/loop.py, `run`): route,    *)
(* work, review, close the phase, until something stops it.  The worker     *)
(* (worker.py, `_run_task`) and the controller (controller.py, `step`) are  *)
(* what they do to the route and the reports they leave; what they think    *)
(* is a choice.  One loop runs per session (session_lock); a run that ended *)
(* or was killed is started again over what it left on disk.                *)
(*                                                                         *)
(* On disk: the route (status, driver), the work orders' reports, the STOP  *)
(* file (hold), EVAL_OWED (owed), the brief's proposals (asks) and phases.  *)
(* In the process: everything else.  unseen remembers what no file does:    *)
(* the landings no controller step has looked at.                           *)
(***************************************************************************)
EXTENDS Naturals, FiniteSets

CONSTANTS Tasks, NoTask,
          Dep,          \* what a task waits on, a task or NoTask
          MaxCycles, MaxTasks,   \* --max-cycles, --max-tasks
          MaxErrors,    \* max_consecutive_errors
          MaxStarts,    \* bound: times the loop is started
          Phases,       \* phases the brief declares
          Faults        \* what may go wrong, a subset of AllFaults

AllFaults == {"worker",      \* run_task raises
              "controller",  \* a controller step raises
              "kill"}        \* the process ends anywhere

ASSUME LoopAssumption ==
  /\ NoTask \notin Tasks /\ Dep \in [Tasks -> Tasks \cup {NoTask}]
  /\ {MaxCycles, MaxTasks, MaxErrors} \subseteq Nat \ {0}
  /\ {MaxStarts, Phases} \subseteq Nat /\ Faults \subseteq AllFaults

VARIABLES status, driver, report,            \* route and reports
          hold, owed, asks, phases,          \* the other files
          pc, cur, verdict, stop,            \* where the loop is
          cycle, tasksRun, errors, stalled,  \* its counters
          look, minted,                      \* this cycle's last eval
          late,                              \* past the deadline
          starts, unseen

route == <<status, driver, report>>
disk == <<hold, owed, asks, phases>>
counters == <<cycle, tasksRun, errors, stalled>>
eval == <<look, minted, unseen>>
lvars == <<route, disk, pc, cur, verdict, stop, counters, eval, late, starts>>

Stops == {"max_cycles", "disk_high", "stopped_by_operator", "proposals_pending",
          "driver_failing", "deadline", "blocked", "completed",
          "controller_stalled", "max_tasks", "interrupted"}

TypeOK ==
  /\ status \in [Tasks -> {"absent", "ready", "in_progress", "blocked",
                           "done", "cancelled"}]
  /\ driver \subseteq Tasks       \* blocked with "driver error: ..."
  /\ report \in [Tasks -> {"none", "stopped", "error", "landed"}]
  /\ hold \in BOOLEAN /\ owed \in BOOLEAN /\ late \in BOOLEAN
  /\ asks \in {"none", "open", "blocking"} /\ phases \in 0..Phases
  /\ pc \in {"off", "cycle", "fill", "work", "picked", "running", "landed",
             "review", "tail", "close"}
  /\ cur \in Tasks \cup {NoTask}
  /\ verdict \in {"none", "complete", "incomplete", "blocked", "stopped"}
  /\ stop \in Stops
  /\ cycle \in 0..MaxCycles /\ tasksRun \in 0..MaxTasks
  /\ errors \in 0..(MaxErrors + MaxCycles) /\ stalled \in 0..1
  /\ look \in {"none", "looked", "failed"} /\ minted \in BOOLEAN
  /\ starts \in 0..MaxStarts /\ unseen \subseteq Tasks

Init ==
  /\ status = [t \in Tasks |-> "absent"] /\ driver = {}
  /\ report = [t \in Tasks |-> "none"]
  /\ hold = FALSE /\ owed = FALSE /\ asks = "none" /\ phases = Phases
  /\ pc = "off" /\ cur = NoTask /\ verdict = "none" /\ stop = "max_cycles"
  /\ cycle = 0 /\ tasksRun = 0 /\ errors = 0 /\ stalled = 0
  /\ look = "none" /\ minted = FALSE /\ late = FALSE
  /\ starts = 0 /\ unseen = {}

----------------------------------------------------------------------------
\* What the loop may run (pickable): done on the route with no report, or one
\* a hold wrote, then its own task in progress, then what the route offers.
UnreportedKilled ==
  {t \in Tasks : status[t] = "done" /\ report[t] = "none"}
Unreported ==
  {t \in Tasks : status[t] = "done" /\ report[t] \in {"none", "stopped"}}
Mine == {t \in Tasks : status[t] = "in_progress"}
Ready == {t \in Tasks : status[t] = "ready"
                        /\ (Dep[t] = NoTask \/ status[Dep[t]] = "done")}
Runnable == Unreported \cup Mine \cup Ready
FirstReady == IF Unreported # {} THEN Unreported
              ELSE IF Ready # {} THEN Ready ELSE Mine
First == IF Unreported # {} THEN Unreported
         ELSE IF Mine # {} THEN Mine ELSE Ready
Blocked == {t \in Tasks : status[t] = "blocked"}

\* The loop ends for reason r.
Stop(r) == pc' = "off" /\ stop' = r
Go(l) == pc' = l /\ UNCHANGED stop

----------------------------------------------------------------------------
\* What one controller step may write (apply): nothing, one proposal, one
\* task added, released, cancelled or reopened.
Writes ==
  \/ UNCHANGED <<route, asks>>
  \/ /\ asks = "none" /\ asks' \in {"open", "blocking"}
     /\ UNCHANGED route
  \/ \E t \in Tasks :
       /\ \/ status[t] = "absent" /\ (Dep[t] # NoTask => status[Dep[t]] # "absent")
             /\ status' = [status EXCEPT ![t] = "ready"]
          \/ status[t] = "blocked" /\ status' = [status EXCEPT ![t] = "ready"]
          \/ status[t] \in {"ready", "blocked"}
             /\ status' = [status EXCEPT ![t] = "cancelled"]
          \/ status[t] = "done" /\ status' = [status EXCEPT ![t] = "ready"]
       /\ driver' = driver \ {t}
       /\ UNCHANGED <<report, asks>>

\* The step's reply counts tasks and releases as minted; not a reopen, a
\* cancel or a proposal.
Mints == \E t \in Tasks : status[t] \in {"absent", "blocked"}
                          /\ status'[t] = "ready"

\* failing_step: a step that raises is recorded, with nothing in `applied`,
\* whatever it had written.
Eval ==
  /\ Writes
  /\ \/ look' = "looked" /\ minted' = Mints /\ unseen' = {}
     \/ "controller" \in Faults
        /\ look' = "failed" /\ minted' = FALSE /\ UNCHANGED unseen

----------------------------------------------------------------------------
\* A start: what the last run blocked on its own plumbing is released.
Launch ==
  /\ pc = "off" /\ starts < MaxStarts
  /\ starts' = starts + 1
  /\ status' = [t \in Tasks |-> IF t \in driver THEN "ready" ELSE status[t]]
  /\ driver' = {}
  /\ cycle' = 1 /\ tasksRun' = 0 /\ errors' = 0 /\ stalled' = 0
  /\ look' = "none" /\ minted' = FALSE /\ late' = FALSE
  /\ cur' = NoTask /\ verdict' = "none"
  /\ pc' = "cycle" /\ stop' = "max_cycles"
  /\ UNCHANGED <<report, disk, unseen>>

\* A cycle begins with the review a hold left owing.
BeginCycle ==
  /\ pc = "cycle"
  /\ IF owed THEN Eval ELSE UNCHANGED <<route, asks, eval>>
  /\ owed' = FALSE
  /\ Go("fill")
  /\ UNCHANGED <<hold, phases, cur, verdict, counters, late, starts>>

\* Nothing to run: a route step, which counts as an error if it fails.
Fill ==
  /\ pc = "fill"
  /\ IF Runnable # {} THEN UNCHANGED <<route, asks, errors>>
     ELSE /\ Writes
          /\ \/ UNCHANGED errors
             \/ "controller" \in Faults /\ errors' = errors + 1
  /\ Go("work")
  /\ UNCHANGED <<hold, owed, phases, cur, verdict, cycle, tasksRun, stalled,
                 eval, late, starts>>

\* The boundary before a work order: what ends the run, what ends the cycle,
\* and otherwise the next one.
CountsTaskNever(n) == n
CountsTask(n) == n + 1
Work ==
  /\ pc = "work"
  /\ IF tasksRun >= MaxTasks \/ late THEN Go("tail") /\ UNCHANGED <<cur, tasksRun>>
     ELSE \/ Stop("disk_high") /\ UNCHANGED <<cur, tasksRun>>
          \/ hold /\ Stop("stopped_by_operator") /\ UNCHANGED <<cur, tasksRun>>
          \/ /\ ~hold /\ asks = "blocking"
             /\ Stop("proposals_pending") /\ UNCHANGED <<cur, tasksRun>>
          \/ /\ ~hold /\ asks # "blocking" /\ Runnable = {}
             /\ Go("tail") /\ UNCHANGED <<cur, tasksRun>>
          \/ /\ ~hold /\ asks # "blocking"
             /\ cur' \in First /\ tasksRun' = CountsTask(tasksRun)
             /\ Go("picked")
  /\ UNCHANGED <<route, disk, verdict, cycle, errors, stalled, eval, late, starts>>

----------------------------------------------------------------------------
\* run_task opens: the last round's report is moved aside and a ready task is
\* started on the route; one in progress or done is resumed.
Begin ==
  /\ pc = "picked"
  /\ report' = [report EXCEPT ![cur] = "none"]
  /\ status' = [status EXCEPT ![cur] = IF @ = "ready" THEN "in_progress" ELSE @]
  /\ Go("running")
  /\ UNCHANGED <<driver, disk, cur, verdict, counters, eval, late, starts>>

\* The worker's own `route complete` or `route block`, written back.
WorkerMoves ==
  /\ pc = "running" /\ status[cur] = "in_progress"
  /\ status' \in {[status EXCEPT ![cur] = s] : s \in {"done", "blocked"}}
  /\ Go("running")
  /\ UNCHANGED <<driver, report, disk, cur, verdict, counters, eval, late, starts>>

\* The verdicts the route's word for the task allows.
Verdicts ==
  CASE status[cur] = "blocked" -> {"blocked"}
    [] status[cur] = "done" -> {"complete", "incomplete", "stopped"}
    [] OTHER -> {"incomplete", "stopped"}

\* run_task returns and leaves its report.  Only a STOP file stops a worker.
Return ==
  /\ pc = "running"
  /\ verdict' \in Verdicts
  /\ verdict' = "stopped" => hold
  /\ report' = [report EXCEPT ![cur] = IF verdict' = "stopped" THEN "stopped"
                                       ELSE "landed"]
  /\ unseen' = IF verdict' = "stopped" THEN unseen ELSE unseen \cup {cur}
  /\ errors' = 0
  /\ IF verdict' = "stopped" THEN Stop("stopped_by_operator") ELSE Go("landed")
  /\ UNCHANGED <<status, driver, disk, cur, cycle, tasksRun, stalled,
                 look, minted, late, starts>>

\* run_task raises: an error report if there is none (nor when the work order
\* has no directory yet), and the task blocked if the route lets it be (a done
\* one is refused, and that is passed over).
Raise ==
  /\ "worker" \in Faults /\ pc \in {"picked", "running"}
  /\ \/ report' = [report EXCEPT ![cur] = IF @ = "none" THEN "error" ELSE @]
     \/ pc = "picked" /\ status[cur] = "ready" /\ UNCHANGED report
  /\ IF status[cur] = "done" THEN UNCHANGED <<status, driver>>
     ELSE /\ status' = [status EXCEPT ![cur] = "blocked"]
          /\ driver' = driver \cup {cur}
  /\ errors' = errors + 1
  /\ IF errors' >= MaxErrors THEN Stop("driver_failing") ELSE Go("work")
  /\ UNCHANGED <<disk, cur, verdict, cycle, tasksRun, stalled, eval, late, starts>>

\* What a landing leaves on the route: a red one is blocked unless it is done,
\* a block that resolved a part is settled as done.
Settle ==
  CASE verdict = "incomplete" /\ status[cur] # "done" ->
         status' = [status EXCEPT ![cur] = "blocked"]
    [] verdict = "blocked" ->
         status' \in {status, [status EXCEPT ![cur] = "done"]}
    [] OTHER -> UNCHANGED status

\* A hold that came meanwhile puts the review off to the next start.
OwesNever == FALSE
Owes == hold
Land ==
  /\ pc = "landed"
  /\ Settle
  /\ owed' = (owed \/ Owes)
  /\ IF hold THEN Stop("stopped_by_operator") ELSE Go("review")
  /\ UNCHANGED <<driver, report, hold, asks, phases, cur, verdict, counters,
                 eval, late, starts>>

Review ==
  /\ pc = "review"
  /\ Eval
  /\ Go("work")
  /\ UNCHANGED <<hold, owed, phases, cur, verdict, counters, late, starts>>

\* A cycle without an eval gets one at its end.
Tail ==
  /\ pc = "tail"
  /\ IF look = "none" THEN Eval ELSE UNCHANGED <<route, asks, eval>>
  /\ Go("close")
  /\ UNCHANGED <<hold, owed, phases, cur, verdict, counters, late, starts>>

\* The next cycle, or the end of the last one.
NextCycleOver ==
  /\ look' = "none" /\ minted' = FALSE
  /\ IF cycle <= MaxCycles THEN cycle' = cycle + 1 /\ Go("cycle")
     ELSE UNCHANGED cycle /\ Stop("max_cycles")
NextCycle ==
  /\ look' = "none" /\ minted' = FALSE
  /\ IF cycle < MaxCycles THEN cycle' = cycle + 1 /\ Go("cycle")
     ELSE UNCHANGED cycle /\ Stop("max_cycles")

\* How a run may go on when nothing was minted, nothing can run and no phase
\* closed.  Green is the gate's to say: a choice here.
Outcomes ==
  CASE Blocked # {} -> {"blocked"}
    [] Blocked = {} /\ asks # "none" -> {"proposals_pending"}
    [] OTHER -> (IF phases = 0 THEN {"completed"} ELSE {}) \cup
                {IF stalled < 1 THEN "again" ELSE "controller_stalled"}

Idle ==
  \/ "again" \in Outcomes /\ stalled' = 1 /\ NextCycle
  \/ \E r \in Outcomes \ {"again"} :
        Stop(r) /\ UNCHANGED <<cycle, stalled, look, minted>>

Close ==
  /\ pc = "close"
  /\ IF late THEN Stop("deadline") /\ UNCHANGED <<phases, cycle, stalled, look, minted>>
     ELSE IF minted \/ Runnable # {}
     THEN /\ stalled' = 0 /\ UNCHANGED phases
          /\ IF tasksRun >= MaxTasks
             THEN Stop("max_tasks") /\ UNCHANGED <<cycle, look, minted>>
             ELSE NextCycle
     ELSE \/ /\ phases > 0 /\ phases' = phases - 1
             /\ stalled' = 0 /\ NextCycle
          \/ Idle /\ UNCHANGED phases
  /\ UNCHANGED <<route, hold, owed, asks, cur, verdict, tasksRun, errors,
                 unseen, late, starts>>

Driver == \/ BeginCycle \/ Fill \/ Work \/ Begin \/ WorkerMoves \/ Return
          \/ Raise \/ Land \/ Review \/ Tail \/ Close

----------------------------------------------------------------------------
\* SIGTERM, Ctrl-C, SIGKILL or a power cut.
Kill ==
  /\ "kill" \in Faults /\ pc # "off"
  /\ Stop("interrupted")
  /\ UNCHANGED <<route, disk, cur, verdict, counters, eval, late, starts>>

\* The person puts up or takes down STOP, and decides what was proposed.
Person ==
  /\ \/ hold' = ~hold /\ UNCHANGED asks
     \/ asks # "none" /\ asks' = "none" /\ UNCHANGED hold
  /\ UNCHANGED <<route, owed, phases, pc, cur, verdict, stop, counters, eval,
                 late, starts>>

Deadline ==
  /\ pc # "off" /\ ~late /\ late' = TRUE
  /\ UNCHANGED <<route, disk, pc, cur, verdict, stop, counters, eval, starts>>

Next == Launch \/ Driver \/ Kill \/ Person \/ Deadline

Spec == Init /\ [][Next]_lvars
\* The process runs on until it ends; a worker's bursts are capped in turns.
FairSpec == Spec /\ WF_lvars(Driver)

----------------------------------------------------------------------------
\* One work order at a time: what a kill or a hold left in progress is resumed
\* before another is started, over every restart.
OneInProgress == \A t, u \in Mine : t = u

\* A run that calls the brief complete has every done work order's report in:
\* "resumed first, so the write-up lands instead of being skipped".
WriteUpsLanded ==
  (pc = "off" /\ stop = "completed")
  => \A t \in Tasks : status[t] = "done" => report[t] = "landed"

\* The review comes before the next work order, over holds and restarts: "the
\* next start runs it before anything else".
ReviewBeforeNext == pc \in {"picked", "running"} => unseen = {}

\* A started run ends.
RunEnds == pc # "off" ~> pc = "off"

\* A phase closes only when "the eval looked and minted nothing".
PhaseClosesOnLook == [][phases' < phases => look = "looked"]_lvars
=============================================================================
