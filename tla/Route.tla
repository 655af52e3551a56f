------------------------------- MODULE Route -------------------------------
(***************************************************************************)
(* The task route (engine/terra/src/terra/route.py): the DAG of work orders *)
(* in route.json.  One action per `terra route` verb that moves a task; a   *)
(* verb loads the file, refuses or edits, and saves, and is atomic here     *)
(* (RouteStore opens that read-modify-write up).  RoutePlan adds the        *)
(* effort ledger.                                                           *)
(*                                                                         *)
(* beat abstracts the age of last_heartbeat_at to what the code asks of it: *)
(* never stamped, younger than HEARTBEAT_STALE_HOURS, or older.             *)
(*                                                                         *)
(* writers is not in the file.  writers[t] are the agents that were given t *)
(* and are still at work on it: the environment the ownership checks exist  *)
(* for.  Discipline names the rules callers follow.                         *)
(***************************************************************************)
EXTENDS Naturals, FiniteSets

CONSTANTS Tasks,       \* task ids that may ever be added
          Agents,      \* names given with --agent
          NoOne,       \* owner_agent is null
          Discipline   \* the rules callers keep, a subset of Rules

Rules == {"named",            \* start always passes --agent
          "own_tasks",        \* heartbeat, complete, block: by who works on it
          "unblock_blocked",  \* unblock only what is blocked
          "silent_is_dead"}   \* an agent silent for six hours never returns

ASSUME RouteAssumption == NoOne \notin Agents /\ Discipline \subseteq Rules

VARIABLES status, deps, owner, beat, writers

tvars == <<status, deps, owner, beat, writers>>

Statuses == {"absent", "ready", "in_progress", "blocked", "done", "cancelled"}
Terminal == {"done", "cancelled"}

TypeOK ==
  /\ status \in [Tasks -> Statuses]
  /\ deps \in [Tasks -> SUBSET Tasks]
  /\ owner \in [Tasks -> Agents \cup {NoOne}]
  /\ beat \in [Tasks -> {"none", "fresh", "stale"}]
  /\ writers \in [Tasks -> SUBSET Agents]

Init ==
  /\ status = [t \in Tasks |-> "absent"]
  /\ deps = [t \in Tasks |-> {}]
  /\ owner = [t \in Tasks |-> NoOne]
  /\ beat = [t \in Tasks |-> "none"]
  /\ writers = [t \in Tasks |-> {}]

----------------------------------------------------------------------------
\* What every load derives from deps and status (_recompute_ready).

Known == {t \in Tasks : status[t] # "absent"}
Open == {t \in Known : status[t] \notin Terminal}

WaitingOn(t) == {d \in deps[t] : status[d] # "done"}
Pickable(t) == status[t] = "ready" /\ WaitingOn(t) = {}

\* Tasks the load stamps waiting_on_cancelled: only ready ones are examined.
StrandedSettled == {t \in Tasks : status[t] = "ready"
                                  /\ \E d \in deps[t] : status[d] \in Terminal}
Stranded == {t \in Tasks : status[t] = "ready"
                           /\ \E d \in deps[t] : status[d] = "cancelled"}

\* The fixpoint of `unreachable_via`: the least set that holds roots and,
\* with a task, every task of `among` that depends on it.
Behind(roots, among) ==
  {t \in Tasks :
     \A S \in SUBSET Tasks :
        (roots \subseteq S /\ \A u \in among : deps[u] \cap S # {} => u \in S)
        => t \in S}
Unreachable == Behind(Stranded, Open)

Live(t) == status[t] = "in_progress" /\ beat[t] = "fresh"

----------------------------------------------------------------------------
\* validate_route: deps exist and make no cycle.  A new task is nobody's
\* dependency yet, so the only cycle it can close is on its own id.
ValidIgnoringDeps(ds) == TRUE
ValidDeps(ds) == ds \subseteq Known

\* add_task
AddTask(t, ds) ==
  /\ status[t] = "absent"
  /\ ValidDeps(ds)
  /\ status' = [status EXCEPT ![t] = "ready"]
  /\ deps' = [deps EXCEPT ![t] = ds]
  /\ UNCHANGED <<owner, beat, writers>>

\* start_task on a pickable task: claims it for `who`, the name passed.
StartReady(t, a, who) ==
  /\ Pickable(t)
  /\ status' = [status EXCEPT ![t] = "in_progress"]
  /\ owner' = [owner EXCEPT ![t] = who]
  /\ beat' = [beat EXCEPT ![t] = "fresh"]
  /\ writers' = [writers EXCEPT ![t] = @ \cup {a}]
  /\ UNCHANGED deps

\* A task in progress may be started again by its own owner, or when nobody
\* owns it or its heartbeat is missing or stale.
ReclaimableAlways(t, who) == TRUE
ReclaimableUnstamped(t, who) == who = owner[t] \/ beat[t] # "stale"
Reclaimable(t, who) ==
  \/ who # NoOne /\ who = owner[t]
  \/ owner[t] = NoOne \/ beat[t] # "fresh"

\* start_task on a task in progress
Reclaim(t, a, who) ==
  /\ status[t] = "in_progress"
  /\ Reclaimable(t, who)
  /\ owner' = [owner EXCEPT ![t] = IF who = NoOne THEN @ ELSE who]
  /\ beat' = [beat EXCEPT ![t] = "fresh"]
  /\ writers' = [writers EXCEPT ![t] = @ \cup {a}]
  /\ UNCHANGED <<status, deps>>

\* The name `a` passes with --agent, or none (blank is null).
NamesBlank(a) == {a, ""}
Names(a) == IF "named" \in Discipline THEN {a} ELSE {a, NoOne}
Start(t, a) == \E who \in Names(a) : StartReady(t, a, who) \/ Reclaim(t, a, who)

\* heartbeat_task: stamps, and a name passed becomes the owner.
Heartbeat(t, a) ==
  /\ status[t] = "in_progress"
  /\ "own_tasks" \in Discipline => a \in writers[t]
  /\ beat' = [beat EXCEPT ![t] = "fresh"]
  /\ \E who \in Names(a) :
        owner' = [owner EXCEPT ![t] = IF who = NoOne THEN @ ELSE who]
  /\ UNCHANGED <<status, deps, writers>>

\* Who may complete or block: with own_tasks, nobody else is at work on it.
MayClose(t, a) == "own_tasks" \in Discipline => writers[t] \subseteq {a}

\* complete_task: any open task, whatever its deps.  A completion may also
\* be refused for its evidence, which is the action not taken.
Complete(t, a) ==
  /\ t \in Open
  /\ MayClose(t, a)
  /\ status' = [status EXCEPT ![t] = "done"]
  /\ owner' = [owner EXCEPT ![t] = NoOne]
  /\ beat' = [beat EXCEPT ![t] = "none"]
  /\ writers' = [writers EXCEPT ![t] = @ \ {a}]
  /\ UNCHANGED deps

\* block_task: any open task.
Block(t, a) ==
  /\ t \in Open
  /\ MayClose(t, a)
  /\ status' = [status EXCEPT ![t] = "blocked"]
  /\ owner' = [owner EXCEPT ![t] = NoOne]
  /\ beat' = [beat EXCEPT ![t] = "none"]
  /\ writers' = [writers EXCEPT ![t] = @ \ {a}]
  /\ UNCHANGED deps

\* cancel_task: work in progress that may be alive needs --force.
Cancel(t, force) ==
  /\ t \in Open
  /\ status[t] = "in_progress" => force \/ beat[t] = "stale"
  /\ status' = [status EXCEPT ![t] = "cancelled"]
  /\ owner' = [owner EXCEPT ![t] = NoOne]
  /\ beat' = [beat EXCEPT ![t] = "none"]
  /\ UNCHANGED <<deps, writers>>

\* unblock_task: any open task becomes ready; owner and heartbeat stay.
Unblock(t) ==
  /\ t \in Open
  /\ "unblock_blocked" \in Discipline => status[t] = "blocked"
  /\ status' = [status EXCEPT ![t] = "ready"]
  /\ UNCHANGED <<deps, owner, beat, writers>>

\* reopen_task: a done task is owed again.
Reopen(t) ==
  /\ status[t] = "done"
  /\ status' = [status EXCEPT ![t] = "ready"]
  /\ UNCHANGED <<deps, owner, beat, writers>>

\* HEARTBEAT_STALE_HOURS pass without a heartbeat on t.
Lapse(t) ==
  /\ beat[t] = "fresh"
  /\ beat' = [beat EXCEPT ![t] = "stale"]
  /\ writers' = [writers EXCEPT
       ![t] = IF "silent_is_dead" \in Discipline THEN {} ELSE @]
  /\ UNCHANGED <<status, deps, owner>>

\* An agent's process ends without a word to the route.
Die(t, a) ==
  /\ a \in writers[t]
  /\ writers' = [writers EXCEPT ![t] = @ \ {a}]
  /\ UNCHANGED <<status, deps, owner, beat>>

\* The verbs and events that leave the set of tasks alone.
Step(t) ==
  \/ \E a \in Agents : \/ Start(t, a) \/ Heartbeat(t, a)
                       \/ Complete(t, a) \/ Block(t, a) \/ Die(t, a)
  \/ \E force \in BOOLEAN : Cancel(t, force)
  \/ Unblock(t)
  \/ Reopen(t)
  \/ Lapse(t)

Next == \E t \in Tasks : Step(t) \/ \E ds \in SUBSET Tasks : AddTask(t, ds)

Spec == Init /\ [][Next]_tvars

----------------------------------------------------------------------------
\* One writer at a time: "two writers on one task is how the master model
\* got corrupted" (route.py:828).  Needs all of Discipline.
SoleWriter == \A t \in Tasks : \A a, b \in writers[t] : a = b

\* A live owner keeps the task for as long as it is in progress: no step
\* hands it to another name ("stealing a LIVE one must not", route.py:827).
LiveOwnerKept ==
  [][\A t \in Tasks :
       (Live(t) /\ owner[t] # NoOne /\ status'[t] = "in_progress")
       => owner'[t] = owner[t]]_tvars

\* Settled outcomes stay: cancelled for good, done until a reopen makes the
\* same work order ready again, and never straight back into work.
SettledStays ==
  [][\A t \in Tasks :
       /\ status[t] = "cancelled" => status'[t] = "cancelled"
       /\ status[t] = "done" => status'[t] \in {"done", "ready"}]_tvars

\* A route whose open tasks are all ready always has one to pick: deps exist
\* and make no cycle ("a cycle silently makes tasks never-pickable").
SomethingPickable ==
  LET owed == {t \in Known : status[t] # "done"}
  IN  (owed # {} /\ \A t \in owed : status[t] = "ready")
      => \E t \in owed : Pickable(t)

\* The unreachable flag never falls on a task `route next` would offer.
FlaggedNeverPickable == \A t \in Unreachable : ~Pickable(t)

\* The flag falls on every ready task behind a cancelled one ("Unreachability is
\* TRANSITIVE ... Fixpoint to closure", route.py:560-565): also where the task
\* between them waits on the cancelled one and is itself blocked.
FlagsEveryStranded ==
  LET waiting == {t \in Tasks : status[t] \in {"ready", "blocked"}}
      roots == {t \in waiting : \E d \in deps[t] : status[d] = "cancelled"}
  IN  {t \in Behind(roots, waiting) : status[t] = "ready"} \subseteq Unreachable
=============================================================================
