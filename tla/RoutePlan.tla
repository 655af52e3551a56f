----------------------------- MODULE RoutePlan -----------------------------
(***************************************************************************)
(* The effort ledger of the route (engine/terra/src/terra/route.py) and the *)
(* budget of the brief it is measured against (brief.py), composed with the *)
(* task lifecycle of Route: one route.json holds both.                      *)
(*                                                                         *)
(* Every task has working points and plan points (the baseline); 0 stands   *)
(* for no bucket.  Sectors reserve points for tasks to come.  A locked plan *)
(* keeps its baseline.  Bucket and points move together in the code         *)
(* (low/medium/high are 3/8/21), so points stand for both.                  *)
(***************************************************************************)
EXTENDS Route, Integers, Functions

CONSTANTS Sectors,    \* sector ids that may ever be declared
          NoSector,   \* sector_id is null
          Efforts,    \* points a caller gives a task; 0 is no --bucket
          Reserves,   \* reserved_points a caller gives a sector
          Budgets,    \* numbers given to brief set --budget-points
          Deltas,     \* budget_delta of the proposals a person accepts
          NoBudget,   \* budget_points is null
          MaxBudget   \* bound: the budget accepted deltas may reach

ASSUME PlanAssumption ==
  /\ NoSector \notin Sectors /\ NoBudget \notin Int
  /\ Efforts \subseteq Nat /\ Reserves \subseteq Nat
  /\ Budgets \subseteq Nat /\ Deltas \subseteq Int /\ MaxBudget \in Nat

VARIABLES points, plan, sector, reserve, locked, budget

lvars == <<points, plan, sector, reserve, locked, budget>>
pvars == <<tvars, lvars>>

\* reserve is a function on the sectors declared so far.
PlanTypeOK ==
  /\ TypeOK
  /\ points \in [Tasks -> Nat] /\ plan \in [Tasks -> Nat]
  /\ sector \in [Tasks -> Sectors \cup {NoSector}]
  /\ DOMAIN reserve \subseteq Sectors
  /\ \A s \in DOMAIN reserve : reserve[s] \in Nat
  /\ locked \in BOOLEAN
  /\ budget \in Nat \cup {NoBudget}

PlanInit ==
  /\ Init
  /\ points = [t \in Tasks |-> 0] /\ plan = [t \in Tasks |-> 0]
  /\ sector = [t \in Tasks |-> NoSector]
  /\ reserve = <<>>
  /\ locked = FALSE
  /\ budget = NoBudget

----------------------------------------------------------------------------
\* assert_planned_within_budget: what each part of the plan has taken.

Counted == {t \in Known : status[t] # "cancelled"}

\* `_plan_task_points(t) or _task_points(t)`
Weight(t) == IF plan[t] # 0 THEN plan[t] ELSE points[t]

Taken(S) == SumFunctionOnSet([t \in Tasks |-> Weight(t)], S)
InSector(s) == {t \in Counted : sector[t] = s}
Reserved == SumFunction(reserve)

SectorsFit ==
  \A t \in Counted : sector[t] # NoSector
     => sector[t] \in DOMAIN reserve
        /\ Taken(InSector(sector[t])) <= reserve[sector[t]]

BudgetFits ==
  budget # NoBudget =>
    /\ Reserved <= budget
    /\ Taken(InSector(NoSector)) <= budget - Reserved
    /\ Taken(Counted) <= budget

FitsBudgetOnly == BudgetFits
FitsSectorsOnly == SectorsFit
Fits == SectorsFit /\ BudgetFits

----------------------------------------------------------------------------
\* A locked plan takes only tasks drawn from a sector, and a budget wants
\* every task weighed.
Admits(e, s) == /\ budget # NoBudget => e # 0
                /\ s # NoSector => s \in DOMAIN reserve
                /\ locked => s # NoSector

\* add_task: the plan with the new task must fit.
PlanTask(t, ds, e, s) ==
  /\ AddTask(t, ds)
  /\ Admits(e, s)
  /\ points' = [points EXCEPT ![t] = e]
  /\ plan' = [plan EXCEPT ![t] = e]
  /\ sector' = [sector EXCEPT ![t] = s]
  /\ UNCHANGED <<reserve, locked, budget>>
  /\ Fits'

\* add_sector
AddSector(s, n) ==
  /\ ~locked
  /\ s \notin DOMAIN reserve
  /\ reserve' = [r \in DOMAIN reserve \cup {s} |->
                   IF r = s THEN n ELSE reserve[r]]
  /\ UNCHANGED <<tvars, points, plan, sector, locked, budget>>
  /\ Fits'

\* set_sector_reserve with --points
SetReserve(s, n) ==
  /\ ~locked
  /\ s \in DOMAIN reserve
  /\ reserve' = [reserve EXCEPT ![s] = n]
  /\ UNCHANGED <<tvars, points, plan, sector, locked, budget>>
  /\ Fits'

\* set_task_effort on the baseline: only when unlocked, and then it must fit.
ReplanAlways(t, e) == plan' = [plan EXCEPT ![t] = e] /\ Fits'
Replan(t, e) ==
  \/ locked /\ UNCHANGED plan
  \/ ~locked /\ plan' = [plan EXCEPT ![t] = e] /\ Fits'

\* set_task_effort: working points, and the baseline too when unlocked.
SetEffort(t, e) ==
  /\ t \in Counted
  /\ e # 0
  /\ points' = [points EXCEPT ![t] = e]
  /\ UNCHANGED <<tvars, sector, reserve, locked, budget>>
  /\ Replan(t, e)

\* lock_plan: every weighed task's working points become its baseline.
LockPlan ==
  /\ ~locked
  /\ locked' = TRUE
  /\ plan' = [t \in Tasks |-> IF t \in Counted /\ points[t] # 0
                              THEN points[t] ELSE plan[t]]
  /\ UNCHANGED <<tvars, points, sector, reserve, budget>>
  /\ Fits'

\* unlock_plan --confirm
UnlockPlan ==
  /\ locked
  /\ locked' = FALSE
  /\ UNCHANGED <<tvars, points, plan, sector, reserve, budget>>

\* brief set --budget-points: refuses a budget smaller than the plan.
SetBudget(b) ==
  /\ budget' = b
  /\ UNCHANGED <<tvars, points, plan, sector, reserve, locked>>
  /\ Fits'

\* brief set --clear-budget-points
ClearBudget ==
  /\ budget' = NoBudget
  /\ UNCHANGED <<tvars, points, plan, sector, reserve, locked>>

SumUnfloored(b, d) == b + d
SumFloored(b, d) == IF b + d < 0 THEN 0 ELSE b + d

\* accept_proposal with a budget_delta: added to the budget, not below 0.
AcceptDelta(d) ==
  /\ budget # NoBudget
  /\ budget + d <= MaxBudget
  /\ budget' = SumFloored(budget, d)
  /\ UNCHANGED <<tvars, points, plan, sector, reserve, locked>>

PlanStep(t) ==
  \/ Step(t) /\ UNCHANGED lvars
  \/ \E e \in Efforts : SetEffort(t, e)
  \/ \E ds \in SUBSET Tasks, e \in Efforts, s \in Sectors \cup {NoSector} :
        PlanTask(t, ds, e, s)

LedgerStep ==
  \/ \E s \in Sectors, n \in Reserves : AddSector(s, n) \/ SetReserve(s, n)
  \/ \E b \in Budgets : SetBudget(b)
  \/ \E d \in Deltas : AcceptDelta(d)
  \/ LockPlan \/ UnlockPlan \/ ClearBudget

PlanNext == (\E t \in Tasks : PlanStep(t)) \/ LedgerStep

PlanSpec == PlanInit /\ [][PlanNext]_pvars

----------------------------------------------------------------------------
\* No sector holds more plan than it reserved, however tasks were added,
\* re-weighed, cancelled, reopened or replanned since.
SectorsWithinReserve == SectorsFit

\* The budget goes on covering the plan: unsectored work fits the pool the
\* reserves leave, and all of it fits the budget ("Refuse budget that is already
\* smaller than planned route points", brief.py:346).  Only an accepted
\* give-back ever leaves it short.
BudgetCoversPlan ==
  [][BudgetFits => BudgetFits' \/ \E d \in Deltas : d < 0 /\ AcceptDelta(d)]_pvars

\* A locked baseline does not drift (lock_plan: "stop baseline drift"): no
\* task's plan points move, and what a task of the plan takes from its
\* allocation stays what it was.
BaselineFrozen ==
  [][(locked /\ locked') =>
       \A t \in Known : plan'[t] = plan[t] /\ Weight(t)' = Weight(t)]_pvars

\* Under a lock the plan grows only inside the sectors' reserves: whatever
\* verb brings a task into being, it draws on a sector.
LockedGrowsInSectors ==
  [][(locked /\ locked') =>
       \A t \in Tasks : (status[t] = "absent" /\ status'[t] # "absent")
                        => sector'[t] # NoSector]_pvars
=============================================================================
