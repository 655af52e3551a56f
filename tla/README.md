# A verification project for Mizpah

Mizpah is a harness for long unattended agent work. A person signs a *brief*; a *controller*
turns it into unknowns and tasks; *workers* resolve them with measurements; `terra` keeps the
record (brief, route, map) in JSON files; an unattended *loop* drives the rest until something
stops it. This directory holds TLA+ modules for the parts of that machinery whose correctness
depends on order, interleaving and failure, TLC configurations that check small instances, and
TLAPS proofs for every value of the constants.

Paths below are relative to `src/`. Run from this directory:

    tlc -workers 2 -config MCRoute.cfg MCRoute.tla
    tlapm RouteProofs.tla

## 1. Inventory

| component | state it keeps | operations | hard behaviour |
|---|---|---|---|
| terra route (`engine/terra/src/terra/route.py`) | tasks with status, deps, owner, heartbeat, effort; sectors; plan lock; all in `route.json` | add, start, heartbeat, complete, block, unblock, cancel, reopen, set-effort, prioritize, phase, sector add/set, lock-plan, unlock-plan | several agents on one file; dead or slow owners; stale readiness; budgets moved by a dozen verbs |
| terra brief (`brief.py`) | needs, deliverables, non-goals, phases, enablers, proposals, budget, in `brief.json` | set, propose, accept, reject, phase add/close, enabler | entries are cited *by position* from phases, proposals and the map's notes; several files written one by one |
| terra map (`unknowns.py`, `knowns.py`, `probe_run.py`, `staleness.py`, `gate.py`) | unknowns, knowns with their runs and dependency stamps, run directories, on a task's map and its parent | run, void, unvoid, graduate, link, unlink, depend, reaffirm, adopt; derived: reading, stale, gate | a known goes stale when a source moves; the gate must not be green on it; adoption is a dozen writes in turn |
| mizpah loop (`engine/mizpah/src/mizpah/loop.py`) | counters in the process; `STOP`, `eval.owed`, reports, `run.json` on disk | one run: route, work, review, close a phase, stop | killed and started again anywhere; held by the person at any moment; controller or worker fails |
| mizpah worker (`worker.py`) | a session per task, the notes beside it (`reopen.md`, `release.md`, `nudge.md`), the mark of the reflection, `result.json` | open or resume, tell, run a burst, judge, ask again, harvest, report | killed and resumed anywhere, outages in the middle of a burst, nine places that speak to a session which takes a word only when complete or paused |
| mizpah controller (`controller.py`) | journal, memory, notes | observe, decide, guard, apply | decisions applied verb by verb, model outages |
| mizpah ops (`ops.py`) | health, failure streaks, services | patience, network wait, disk watermark, reaping | time budgets against outages |
| deputy, draft | conversation and draft brief | draft, revise, sign | - |
| harness focused session (`engine/harness/cg/bp_focused_agent_session_python/src/focused_agent_session.py`) | the conversation, what is pending, the calls of the turn, the tree they act on, its snapshots, the reviewer's cadence and budget | turn, tool, hand-off, review, reject, interject, continue, discard, reset, open | a command torn by a kill; saves deferred inside a turn; snapshots pruned before the turn is committed; reflections and roll-overs crossing |
| harness sandbox | none | run a command | operating-system behaviour |
| playbook, casebook, cartograph | stores of procedures, cases, widgets | file, retire, check in, install | locks and directory swaps |
| desktop app | none of its own | views over the files | - |

How they interact: worker, controller, loop and app never share memory. They call the `terra`
command, which loads a JSON file, edits it and saves it, and they leave files for each other under
the session root (`STOP`, `eval.owed`, `tasks/<id>/result.json`). Inside one run of a work order the
worker's host (`run_task`) drives a focused session in its own process: it runs it for a burst of
turns, reads its status and says something to it; the session calls the model, its tools and its
reviewer. So there are two kinds of
concurrency: several processes on one record, and one process killed and resumed over its files.

What makes each correct:

* route: one writer per task, work only on done dependencies, settled outcomes stay, work that can
  run is offered and work that never can is flagged, no pool overdrawn, a locked baseline frozen;
* storage: an acknowledged edit is not silently lost (it is, when two saves race), readers see whole files;
* brief: a citation, a phase or a proposal goes on meaning the entry it was made for;
* map: what the gate lets pass was read from what is there now, an unknown resolved by a command has
  its known, and what a known cites travels with it when the parent adopts it;
* session: what the worker was told of its calls is what its tree shows, whatever is torn; what the
  host was told once stays so;
* worker: the host speaks only where it is heard, a reported green is what the gate judged, effort
  boundaries do not slip, a method is asked for once, a run ends;
* loop: one work order at a time, nothing landed goes unreviewed or without its write-up, a phase
  closes only on a look, a run ends.

The hazards this code is exposed to, each at its line, are in `PROJECT.json` under `hazards`.

## 2. Modules

| module | models | composes |
|---|---|---|
| `Route` | the task lifecycle of `route.py`: one action per verb, atomic | - |
| `RoutePlan` | the effort ledger of `route.py` and the budget of `brief.py` | EXTENDS `Route`, whose verbs it constrains and weighs |
| `RouteStore` | `load_route` / `save_route` step by step, several processes | - |
| `Brief` | change control of `brief.py`, with the notes of the map and the phases | - |
| `Loop` | `run` of `loop.py`, with worker and controller as what they write | - |
| `TerraMap` | knowns, runs and unknowns on a task's map and its parent, adoption write by write, staleness and the gate | - |
| `HostSession` | what a session promises the host that drives it | abstract |
| `Session` | the focused session with its checkpoint, reviewer, window and tools | implements `HostSession` (`ServesHost`) |
| `WorkerRun` | one work order in `worker.py`, from open to report | EXTENDS `HostSession`: drives any session that keeps it |
| `*Proofs` | the theorems of the module of that name | EXTEND it and TLAPS |
| `MC*` | small instances | EXTEND it |

### Route

`status`, `deps`, `owner` are the fields of a task; `absent` stands for a task not in the file.
`beat` is the age of `last_heartbeat_at` as far as the code looks at it: never stamped, younger
than `HEARTBEAT_STALE_HOURS`, or older (`Lapse` is the passing of those hours). `Pickable`,
`Stranded`, `Unreachable` are what `_recompute_ready` derives at every load; they are operators and
not variables because the file does not keep them. `Behind` is its fixpoint as the least closed set.

`writers` is not in the file: the agents that were handed a task and are still at work on it. The
ownership checks exist for them. The route cannot enforce everything by itself, so `Discipline`
names what callers keep: `named` (start passes `--agent`), `own_tasks` (only who works on a task
heartbeats or closes it), `unblock_blocked`, `silent_is_dead` (an agent silent for six hours never
comes back). Properties that need none of these are checked and proved without them.

Left out: priority and phase tags, the evidence a completion must cite (a refused completion is
the action not taken), `init --force`, reports.

### RoutePlan

Points stand for bucket and points (they move together, 3/8/21); 0 is "no bucket". `Fits` is
`assert_planned_within_budget`, evaluated in the new state, as the code evaluates it on the edited
record before saving. `AcceptDelta` is the one path to the budget that does not check.

### RouteStore

A process is one command that edits the route once; the file is the set of edits it holds. Load
(with the hash), check of the hash, mkstemp, write and fsync, rename, and the second load that
prints the task are separate steps; a kill may fall between any two. No lock is taken, so any number
of processes may be between check and rename at once. `raced` remembers the saves that were there
together with one that replaced the file: the comment of `load_route` promises that no edit is lost
silently (`NoLostUpdate`, violated), and what the code keeps is that none is lost outside such a race
(`LostOnlyInRace`).

### Brief

Entries are identities; a position is what the files hold. `about`, `claimed` and the `meant` of a
proposal remember which entry was meant, which no file does: the properties compare the two. A
removal is three kinds of steps, as in the code: the decision, one rewrite of each unknown's file,
and the save of the brief; a refusal of the budget and a crash can fall in between. The passes over
one unknown's file, one for each entry removed (`brief.py:696-704`), are merged into one write, and
the save of the brief is one step, though `save_brief` truncates the file in place (`brief.py:216`).
One section stands for needs, deliverables and non-goals, which are handled alike. `Upsets` says which
of refusals and crashes happen. Any proposals may be open at once; `strays` remembers those that were
carried out on another entry than the one meant, `moved` those whose entry a removal had moved while
they were open, and `adrift` the notes rewritten for a removal that was never saved. Left out: entries added by proposals, the mission, enablers, closing
phases, and `--replace-lists` with rewritten text, which the code does not treat as a removal. Two
commands never overlap here: `save_brief` has no baseline at all.

### Loop

`pc` follows `run`: cycle start (owed review), fill (a route step if nothing can run), work (the
boundary checks), picked, running, landed, review, tail, close. `report` is `result.json`;
`hold` is `STOP`; `owed` is `eval.owed`; `asks` the proposals that are open; `phases` counts the
phases still open. What the worker and the controller think is a choice: the worker may complete,
block, stop, return or raise; a controller step may write nothing, a proposal, or one task added,
released, cancelled or reopened. The gate being green is a choice, so is which phase exit
condition is met. `unseen` remembers the landings no controller step has looked at. Left out:
enablers, host steps for the app, reports, reaping, notification, adoption of a base.

### TerraMap

A task's map and the brief's above it; knowns that read a file (`File`) or another known (`On`).
`run` is a run's record: what it read and the input it declared; `disk` says where its directory is
(`partial` is a copy that was cut off). A number over runs that disagree is a set of values, and
`reads` is the reading as last saved, which can differ from `Reads`, what the runs that count say
now. A stamp (`as_of` against `updated_at`) is kept as `moved`, the maps whose record of the source
was saved since with another date, so dates need no clock: they are whole seconds and compared with
`>`, so a save in the second of the last one may leave the date as it was. `Gate(here, m)` is the gate of the map `m` asked while
`here` is the active map: the declared input of a run is looked for where the command runs, not on
the map it scans. Chains are at most two long (`MapAssumption`), so readings are taken one level
deep; longer chains, which staleness follows by recursion, are not modelled.

`adopt_known` is five steps with a void for each abandoned run, and a kill may fall between any two
or inside the copying, which leaves any of the runs there and one at most by half; everything else is
one write, or two for graduation and for voiding. A user may delete a known, which leaves its unknown
and its runs as they are (`knowns.py:723`), and set an unknown's status in prose (`unknowns.py:206`);
`byHand` remembers where that was done since a command last resolved the unknown. `Rules` names what
callers keep: `honest` (a known is stamped while its runs hold), `in_order` (a known is adopted after
its source), `kept` (what others depend on is not deleted), `apart` (a record is saved once a second
at most). Left out: the verbs that drop a dependency (`known undepend`, `knowns.py:960`), supersede a
known (1079) or graduate several unknowns together or into a known that is there (470-508), retired
unknowns, `updated_at` in an input snapshot, the design layer and cohorts, numeric evaluation.

### HostSession and Session

`HostSession` is what `worker.py` relies on: a session works until it is complete, a turn at a time;
complete, it stays so until the host continues it; paused, it takes an interjection; what it heard
it does not forget. `Session` is the checkpoint machinery under that promise: `s` in memory, `saved`
committed, `Commit` and `Defer` the two modes of `_save`, `Fails` and `Kill` the ways back to
`saved`, `Open` and `Discard` how a process comes back. A call is a pair (response, position), so a
call can be seen to act twice; `tree` counts how often each acted. In bind mode the tree is the
project (`dir`) and does not go back. `Torn` is what a command that was cut off may have done: acted
or not, and pruned or not.

The window is `filled` once it holds more than its base; whether it is at its threshold or full is a
choice from then on, and so is what the model answers, whether a tool fails and what the reviewer
decides. `Told`, `FinishTurn`, `Reject`, `Decide` carry the whole bookkeeping of a turn: reflection,
forced roll-over, rejected generations per purpose, the block, the reviewer's cadence (`Due`),
malformed decisions and the budget of corrections. Left out: the block on context capacity, the
reviewer with tools of its own (a worker's reviewer is the plain one), scratch directories on the
host, which no snapshot restores (`focused_agent_session.py:841-856`), and the archive a hand-off puts
beside the worker's files (1487-1496), which touches none of them.

### WorkerRun

`host` holds the locals of `_run_task`, `host.at` its place; `copy` is what the worker's copy of the
project is worth to the gate (readings that do not hold, walks left unticked, given up), `wrote` the
project itself. A turn may change `copy` in any way, before and after green. In snapshot mode only the
write-back before the gate (`Judge`) and the harvest touch the project; with `Bind` the directory is
the workspace (`bind_mode`), so every turn may change it in place (`InPlace`). The harvest writes there
in both modes: it may stage a library version that clashes with a widget, and put conflict markers in
its files (`staged`), and it stamps what an artifact depends on. `Open` resumes a session from any
place a kill left it, `Tell`/`FileNote` deliver the notes in their order and `Unmark` lifts the mark of
the reflection after a reopening, `Round` computes the next burst, `Outage`, `SayTooBig` (a reply over
the transport's limit) and `TakeNudge` come in its middle, `Judge` is the gate and what follows from
it. Left out: the notes about a done tool and open walks (told at the same place as the others),
retuning and policy refresh, marking a restart.

## 3. Runs

Each run's properties are in its `.cfg`. Deadlock is not checked anywhere: every module can reach a
state where nothing is left to do (all tasks cancelled, all commands ended, all starts used).

| run | question | bounds, and why they are enough |
|---|---|---|
| `route` (`MCRoute.cfg`) | do agents that keep the rules ever share or steal a task; is something always pickable; is the flag sound | 3 tasks (a chain with a middle), 2 agents (owner and claimant) |
| `plan` (`MCRoutePlan.cfg`) | do pools and a locked baseline hold over any sequence of verbs | 2 tasks, 1 sector of 8, efforts 3 and 8, budgets 11 and 14, deltas 3 and -21: one task in the sector and one outside fit exactly or do not, a proposal raises the budget to its cap or gives it all back so that the floor at 0 is hit; one agent, the interleavings of agents are `route`'s |
| `store` (`MCRouteStore.cfg`) | is an edit lost outside a race, does a refused caller get through, does anybody read half a file | 3 processes: a winner, a loser, and one to win again; saves overlap as they like |
| `store_lost` (`MCRouteStoreLost.cfg`) | is an acknowledged edit ever lost: it is | as above |
| `brief` (`MCBrief.cfg`) | do notes, phases and proposals go on naming their entries; is the same ask queued twice carried out once | 3 entries (two removed at once with a survivor between them), any 2 of proposals, notes and phases (`MaxRefs`: each pair meets, and positions of a third are renumbered alike), refusals and crashes; 1.4 million states |
| `loop` (`MCLoop.cfg`) | one work order at a time, no write-up skipped, over kills | 2 independent tasks, 3 starts, 2 cycles, 3 work orders per run |
| `loop_review` (`MCLoopReview.cfg`) | is every landing reviewed before the next work order; does a run end | 2 tasks, 2 starts, 2 cycles, 2 work orders, worker crashes, holds |
| `map` (`MCTerraMap.cfg`) | is the gate ever green over what was read before; does a kill between two writes, or a hand on a record, leave an unknown without its known or a citation without its evidence | a known on a file and one on it, 2 runs of the first and 1 of the second, 2 readings, 1 edit, 2 adoptions (one of each, or one twice with `--update`), 1 upset: a kill, a deletion or a status set by hand; verbs on the task's map, under the four rules; 2.0 million states |
| `session` (`MCSession.cfg`) | does what the worker was told stay true, is the committed snapshot on disk, does the session keep its promise to the host | snapshot mode, 2 turns of up to 3 calls (a call before and one after the torn one), a review due and one not, 1 correction, 2 retries, 1 word, 2 faults (a kill during the recovery of the first); 2.6 million states |
| `session_bind` (`MCSessionBind.cfg`) | the same in bind mode: violated | as above with one call a turn |
| `worker` (`MCWorkerRun.cfg`) | is the host ever refused by its session, does a green stand, is the method asked for once, do effort boundaries slip, does a run end | snapshot mode, estimate 2 and cap 4 in 8 turns, so a boundary, an overrun and the cap are met; 2 gate rounds, 1 reading and 1 tick, 1 fault, 1 nudge, 1 reopening; every word may be heard 3 times; 0.8 million states |
| `loop_phase` (`MCLoopPhase.cfg`) | does a phase close only on a look: violated | 2 tasks, failing controller |

`BudgetCoversPlan` is an action property: a plan that fits the budget goes on fitting, except by an
accepted proposal that gives budget back, which is not compared with the plan.

Fairness. `RouteStore`: a command that was started goes on, and a refused one is brought again
(the error message asks for it: "Re-read the route and re-apply your edit"). Every process edits
once, so only finitely many edits can refuse another one; kills and failures need no fairness.
`Loop`: weak fairness of the process's own next step (`Driver`) and of nothing else. The person
may never lift a hold, the deadline may never pass. A worker's burst is capped in turns and its
gate rounds are counted, so `Return` or `Raise` comes; `WorkerMoves` cannot repeat for ever since
it leaves `in_progress`.
`WorkerRun`: weak fairness of the host's own next step, and of the session that is running ending a
turn and coming to a boundary. The first is `_run_task` running on; the other two say that a model
call returns or times out and that a turn has finitely many calls: `FocusedSession.run` is a loop
that returns at the boundary. Outages, stops, kills and notes need no fairness, and nothing obliges
the worker ever to be green.

Each property of a passing run has a mutant in `PROJECT.json`: a plausible bug in one definition
(a dropped guard, a wrong order, a missing floor) under which TLC finds the property violated.

## 4. Proofs

| theorem | assumption on the constants | argument |
|---|---|---|
| `RouteProofs!TypeCorrect` | none | inductive, one step per verb |
| `RouteProofs!SettledStaysHolds` | none: any callers | from the type invariant, per verb |
| `RouteProofs!FlaggedNeverPickableHolds` | none | no induction over time: the tasks that are not pickable are a closed set holding the roots, so the least one is inside it |
| `RouteProofs!SoleWriterHolds`, `LiveOwnerKeptHolds` | `Discipline = Rules` | invariant `WritersOwn`: a writer of a task is its named owner, the task is in progress or was cancelled under it, and its heartbeat is fresh; `SoleWriter` alone is not inductive, because a reclaim is safe only if the old owner's silence means it left |
| `RouteProofs!SomethingPickableHolds` | none | invariant `Grounded`: what an owed task waits for is known, and every non-empty set of known tasks has one that waits for none of the set, because a task is added over tasks there already are and never moved |
| `RoutePlanProofs!LockedGrowsInSectorsHolds` | none | only `PlanTask` brings a task into being |
| `RoutePlanProofs!BaselineFrozenHolds` | `0 \notin Efforts` | invariant `Weighed`: every known task has a baseline that is not 0, so its weight is its baseline |
| `RoutePlanProofs!PlanTypeOKHolds` | none | invariant `LedgerTyped` (the plan is a finite set of tasks, besides the types) |
| `RoutePlanProofs!SectorsWithinReserveHolds`, `BudgetCoversPlanHolds` | `0 \notin Efforts` | `ChecksOrKeeps`: a verb either checks the plan it leaves or takes no more from any pool; a sum over fewer tasks of no greater weights is no greater (`SumGrows`) |
| `RouteStoreProofs!WholeFileHolds`, `TempsClearedHolds` | none: saves may overlap | invariant `TempFollowsPc`: a staged file is whole |
| `RouteStoreProofs!RefusedForAnotherHolds` | none: saves may overlap | invariant `ReadFromFile`: an edit that was read had been renamed into place, and a route that is not the one a waiting command loaded holds an edit it did not load |
| `RouteStoreProofs!LostOnlyInRaceHolds` | none: saves may overlap | invariant `RaceInv`: two saves under way at once are both `raced`; one that is not has loaded what is in the file, and what it put there is in the file and in what every save under way has loaded |
| `LoopProofs!OneInProgressHolds` | none: any faults | invariant `Alone`: while the work order that was picked is still ready, nothing is in progress; so starting it makes one |
| `LoopProofs!ReviewBeforeNextHolds` | `Faults \subseteq {"worker"}` | invariant `ReviewDue`: an unseen landing has a review ahead of it or `eval.owed` on disk |
| `LoopProofs!WriteUpsLandedHolds` | `"worker" \notin Faults` | invariant `NothingLeft`: no report says error, and a run that stopped as completed left nothing unreported; a done task's report is then the one that landed |
| `LoopProofs!TypeOKHolds` | none: any faults | invariants `Placed` (types) and `ErrorsBounded`: at most one failure was counted for every cycle that was filled, beyond those the cap allowed |
| `TerraMapProofs!MapTyped`, `ResolvedHasKnownHolds`, `EvidenceTravelsHolds` | none | invariant `MapInv`: beside the types, evidence a known cites was run, and while an adoption (or a void inside one) is under way its runs are on disk from the copy on and its known from the save on; `EvidenceTravels` alone says nothing of the steps before the save |
| `TerraMapProofs!FreshIsTrueHolds` | `Rules = AllRules` | invariant `FreshInv`: an unmoved stamp means that every run of the known read what its source reads (`StampsHold`), and an adoption under way will save one for which that holds (`AdoptionFits`); a save of the source dates every stamp taken from it, which is why the reading may change |
| `SessionProofs!Sound`, `ToldIsTrueHolds` | `~Bind` for the second | invariant `SessionInv`, of the state in memory and of the committed one alike: a call is told at most one outcome and the tree shows it, the calls of the turn still ahead are new (`Fresh`, `Past`), what is pending belongs to the phase; the freshness of the calls to come is what `ToldIsTrue` lacks |
| `SessionProofs!SnapshotKeptHolds` | none | the same invariant: pruning keeps the tree of the state that is committed next and of the one committed now |
| `SessionProofs!SessionTypeOKHolds` | none | invariant `Budgets`: each state, in memory and committed, is `Within` its counts, and a purpose past its retries is blocked until it is reset |
| `SessionProofs!ServesHostHolds` | none | refinement of `HostSession`: both states agree on the turns, on what was heard and on being complete, so falling back from one to the other is work the host cannot tell from a turn that came to nothing |
| `WorkerRunProofs!Typed` | none | inductive, one step per action |
| `WorkerRunProofs!SaysAreTakenHolds` | none | invariant `SaysInv`: at the steps before a word is said the session is already where it takes one, and a judged round that was complete is still complete |
| `WorkerRunProofs!GreenKeptHolds` | none (the property speaks of snapshot mode) | invariant `GreenInv`: from green on nothing is judged, so nothing is written back, and what the harvest does without a conflict leaves no fewer readings right |
| `WorkerRunProofs!ReflectedOnceHolds` | `"reflect" \in Words` | invariant `ReflectInv`, a count: an asking is owed by the first green, by a mark that was not yet said, or by a reopening note, and each is spent once |
| `WorkerRunProofs!EffortOnTimeHolds` | none | invariant `OnTimeInv`: a burst ends at the boundary owed when it began, and an outage only moves it when it fell on the boundary itself |
| `WorkerRunProofs!NotesPaidHolds` | none | invariant `PaidInv` itself: heard and still waiting never exceed the times the note was left plus the faults |
| `WorkerRunProofs!WorkerTypeOKHolds` | `Cap <= MaxTurns + 1`; the words are notes or the asking for the method; `MaxHeard` leaves room for what may be said | `RoundsInv`, `TurnsInv` (the counts of the rounds and of the efforts), `PaidInv` and `ReflectedOnce` for the words |
| `BriefProofs!TypeOKHolds`, `PhasesFollowHolds` | none: any upsets | invariant `BriefInv`: owned positions lie in the section and hold claimed entries also while notes are rewritten, and the removal being written names positions of the section; `RenumberingFollows` carries it over the save |
| `BriefProofs!CitesFollowHolds` | none: any upsets | invariant `CitesInv`: a note that is rewritten already cites where its entry is going to be, one that is not cites where it is, and only those rewritten for a removal that is not saved go adrift; `CitesFollow` alone says nothing while a removal is written |
| `BriefProofs!StraysWereMovedHolds` | none: any upsets, any asks open at once | invariant `MeantInv`: an open ask names the entry it was made for or was moved; `StraysWereMoved` alone says nothing of the asks still open |

Two of these rest on recursions over sets, which the provers cannot do by an induction theorem: the
sums of the ledger and the renumbering of the brief. The library defines both as folds over the
subsets of a finite set; the lemmas about them take a least counterexample (`LeastSubset`, from the
well-foundedness of strict inclusion) instead. `BriefProofs!RenumberingFollows` is the fact about
the algorithm itself: entries are taken out highest position first, a position that is kept then
leads to the same entry, and a position that is taken out is gone.

Those of `WorkerTypeOKHolds` and `"reflect" \in Words` only fix the bounds and words of the model; the
other assumptions are needed. With 0 in `Efforts` TLC finds both pool properties
violated: a task added without effort or bucket, then a lock, then `set-effort`, which under a lock
is not checked against the sector or the budget (`route.py:1532-1547`). The rest are needed
one by one: without any single rule of `Discipline` TLC finds `SoleWriter` and `LiveOwnerKept`
violated, without any single one of the four rules of `TerraMap` `FreshIsTrue`, with either further fault
`ReviewBeforeNext`, and with failing workers `WriteUpsLanded`.

Only model-checked: liveness (`AllEnd`, `RunEnds` of `Loop` and of `WorkerRun`), which rests on
fairness and ENABLED.

## 5. Where code and comments part

Runs that keep a counterexample:

* `loop_phase`: a controller step that fails returns the reply of one that minted nothing; the phase
  closes on it although the comment says it closes after a look.
* `store_lost`: the baseline is to turn a silent lost update into a loud refusal, but check and rename
  are not atomic: two saves that both pass the check lose the first edit, and nobody is refused.
* `session_bind`: `discard_pending` answers a command that was cut off with "its effects were
  discarded. Run it again if still needed."; with a bound directory they were not, and the command
  acts twice when the worker does as it is told.

Stated in a module and violated when a run is changed as given; each is a hazard in `PROJECT.json`
with its line:

| definition | what the code or a comment says | how to see it |
|---|---|---|
| `Route!FlagsEveryStranded` | the unreachable flag is a "Fixpoint to closure" (`route.py:561-565`); only *ready* tasks carry it on, so a ready task behind a blocked or running one that waits on a cancelled task is not flagged | add it to `MCRoute.cfg` |
| `Brief!AcceptHitsMeant` | accepting a removal renumbers phases and notes, but not the other open proposals: one accepted afterwards is carried out on the neighbour of the entry it was about | add it to `MCBrief.cfg` |
| `Brief!EveryNoteFollows` | citations are renumbered "rather than silently pointing at its neighbour" (`brief.py:678-681`); `brief set` renumbers them before it checks the budget (`brief.py:346`), so a refused command leaves the notes below the entries it did not remove on a neighbour, as a crash there does | add it to `MCBrief.cfg` |
| `WorkerRun!GreenStands` | "the work order is done and what it produced stands" (`prompts/messages/reflect_green_worker.md:1`); in bind mode the round it asks for works on the project itself ("The tree changed in place", `test_bind_mode.py:47`) and no gate looks again before the report says complete | `Bind = TRUE`, `MaxTurns = 4` and no faults, notes or library in `MCWorkerRun.cfg` |
| `TerraMap!BottomUpWorks` | a chain is adopted source first (`test_map_tree.py:219-221`); adopting the source dates it again (`adopted_to`), so what rests on it is stale and refused until it is reaffirmed | as a PROPERTY of `MCTerraMap.cfg` |
| `WorkerRun!NoteHeard` | a note is filed as delivered also where the session was in the middle of something and was told nothing | add it to `MCWorkerRun.cfg` |
| `WorkerRun!ReopenedIsReviewed` | reviews are suspended at green and resumed by a red round only; a reopened work order works its next round without a reviewer | as a PROPERTY of `MCWorkerRun.cfg` |
| `Session!ReflectsWhereAsked` | a roll-over forced during a reflection carries the reflection into the next window, which was never asked for one | add it to `MCSession.cfg` |

Kept as assumptions of the passing runs: a heartbeat makes its caller the owner, so a slow agent
takes a reclaimed task back; `unblock` accepts a task in progress; a task without effort has a
baseline that drifts and can outgrow its sector and the budget under a lock; a source saved again in
the second it was stamped in is not seen to have moved; a crash after `route complete` leaves the task done with an error report and no write-up; `eval.owed` is
removed even when the owed review fails; an adoption cut off inside the copy of a run leaves a
directory that the next adoption takes for the run.

## 6. Plan

1. Done: route, ledger, storage, brief, loop; the map, the focused session and the worker's run,
   with the abstract session between the last two; the safety theorems of each.
2. `Loop` over `WorkerRun` and `TerraMap`: the verdicts of a run shown to be the ones `Loop` assumes,
   so that "completed" means a green gate.
3. The decision of the controller verb by verb, with an unguarded verb failing midway; `eval.owed`
   over failing reviews.
4. `Patience` (failure streak and network wait against one clock), the run record and its heartbeat
   thread, the store of the brief.
5. Proofs: `Loop` as a refinement of a short abstract run (pick, work, review).

## 7. Not modelled

Numeric evaluation, formulas and probe validation (pure data, no order to get wrong), rendering and
prompt text, argument parsing, the sandbox, provider protocols, the desktop app, and cartograph (an
upstream project kept in the tree, with an engine of its own). The drafting deputy, bases, episodes,
housekeeping, the playbook and the casebook keep state of their own and are candidates once section
6 is done; `PROJECT.json` gives the reason for each under `components`.
