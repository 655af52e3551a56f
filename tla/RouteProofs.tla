---------------------------- MODULE RouteProofs ----------------------------
(***************************************************************************)
(* Theorems about Route, for every set of tasks and agents.                 *)
(***************************************************************************)
EXTENDS Route, TLAPS

----------------------------------------------------------------------------
\* The state has its type whatever rules callers keep: every verb leaves a
\* well-formed route.
THEOREM TypeCorrect == Spec => []TypeOK
<1>1. Init => TypeOK
  BY DEF Init, TypeOK, Statuses
<1>2. TypeOK /\ [Next]_tvars => TypeOK'
  <2> SUFFICES ASSUME TypeOK, [Next]_tvars PROVE TypeOK'
    OBVIOUS
  <2> USE DEF TypeOK, Statuses
  <2>1. ASSUME NEW t \in Tasks, NEW ds \in SUBSET Tasks, AddTask(t, ds)
        PROVE TypeOK'
    BY <2>1 DEF AddTask
  <2>2. ASSUME NEW t \in Tasks, NEW a \in Agents, Start(t, a)
        PROVE TypeOK'
    <3>1. PICK who \in Names(a) : StartReady(t, a, who) \/ Reclaim(t, a, who)
      BY <2>2 DEF Start
    <3>2. who \in Agents \cup {NoOne}
      BY <3>1 DEF Names
    <3>3. CASE StartReady(t, a, who)
      BY <3>2, <3>3 DEF StartReady
    <3>4. CASE Reclaim(t, a, who)
      BY <3>2, <3>4 DEF Reclaim
    <3> QED BY <3>1, <3>3, <3>4
  <2>3. ASSUME NEW t \in Tasks, NEW a \in Agents, Heartbeat(t, a)
        PROVE TypeOK'
    BY <2>3 DEF Heartbeat, Names
  <2>4. ASSUME NEW t \in Tasks, NEW a \in Agents,
               Complete(t, a) \/ Block(t, a)
        PROVE TypeOK'
    BY <2>4 DEF Complete, Block
  <2>5. ASSUME NEW t \in Tasks, NEW a \in Agents, Die(t, a)
        PROVE TypeOK'
    BY <2>5 DEF Die
  <2>6. ASSUME NEW t \in Tasks, NEW force \in BOOLEAN, Cancel(t, force)
        PROVE TypeOK'
    BY <2>6 DEF Cancel
  <2>7. ASSUME NEW t \in Tasks, Unblock(t) \/ Reopen(t) \/ Lapse(t)
        PROVE TypeOK'
    BY <2>7 DEF Unblock, Reopen, Lapse
  <2>8. CASE UNCHANGED tvars
    BY <2>8 DEF tvars
  <2> QED
    BY <2>1, <2>2, <2>3, <2>4, <2>5, <2>6, <2>7, <2>8 DEF Next, Step
<1> QED
  BY <1>1, <1>2, PTL DEF Spec

----------------------------------------------------------------------------
\* No verb unsettles an outcome: complete, block, cancel and unblock all stand
\* on Open, and reopen on done.
LEMMA NothingUnsettles ==
  ASSUME TypeOK, [Next]_tvars, NEW u \in Tasks
  PROVE  /\ status[u] = "cancelled" => status'[u] = "cancelled"
         /\ status[u] = "done" => status'[u] \in {"done", "ready"}
<1>1. CASE UNCHANGED tvars
  BY <1>1 DEF tvars
<1>2. CASE Next
  <2> USE DEF TypeOK, Statuses, Terminal
  <2>1. PICK t \in Tasks : Step(t) \/ \E ds \in SUBSET Tasks : AddTask(t, ds)
    BY <1>2 DEF Next
  <2>2. ASSUME NEW ds \in SUBSET Tasks, AddTask(t, ds)
        PROVE status' = [status EXCEPT ![t] = "ready"] /\ status[t] = "absent"
    BY <2>2 DEF AddTask
  <2>3. ASSUME NEW a \in Agents, Start(t, a)
        PROVE /\ status[t] \in {"ready", "in_progress"}
              /\ \/ status' = [status EXCEPT ![t] = "in_progress"]
                 \/ status' = status
    BY <2>3 DEF Start, StartReady, Reclaim, Pickable
  <2>4. ASSUME NEW a \in Agents,
               Heartbeat(t, a) \/ Die(t, a) \/ Lapse(t)
        PROVE status' = status
    BY <2>4 DEF Heartbeat, Die, Lapse
  <2>5. ASSUME NEW a \in Agents, Complete(t, a) \/ Block(t, a)
        PROVE status[t] \notin Terminal
              /\ \E s \in {"done", "blocked"} : status' = [status EXCEPT ![t] = s]
    BY <2>5 DEF Complete, Block, Open
  <2>6. ASSUME NEW force \in BOOLEAN, Cancel(t, force)
        PROVE status[t] \notin Terminal
              /\ status' = [status EXCEPT ![t] = "cancelled"]
    BY <2>6 DEF Cancel, Open
  <2>7. ASSUME Unblock(t)
        PROVE status[t] \notin Terminal /\ status' = [status EXCEPT ![t] = "ready"]
    BY <2>7 DEF Unblock, Open
  <2>8. ASSUME Reopen(t)
        PROVE status[t] = "done" /\ status' = [status EXCEPT ![t] = "ready"]
    BY <2>8 DEF Reopen
  <2>9. ASSUME Lapse(t) PROVE status' = status
    BY <2>9 DEF Lapse
  <2> QED
    BY <2>1, <2>2, <2>3, <2>4, <2>5, <2>6, <2>7, <2>8, <2>9 DEF Step
<1> QED
  BY <1>1, <1>2

\* Cancelled is for good, and done ends only in a reopen.
THEOREM SettledStaysHolds == Spec => SettledStays
<1>1. TypeOK /\ [Next]_tvars
      => [\A t \in Tasks :
            /\ status[t] = "cancelled" => status'[t] = "cancelled"
            /\ status[t] = "done" => status'[t] \in {"done", "ready"}]_tvars
  BY NothingUnsettles
<1> QED
  BY <1>1, TypeCorrect, PTL DEF Spec, SettledStays

----------------------------------------------------------------------------
\* The flag of `unreachable_via` spares every pickable task: the tasks that
\* are neither done nor pickable hold the roots and are closed under it.
THEOREM FlaggedNeverPickableHolds == Spec => []FlaggedNeverPickable
<1>1. FlaggedNeverPickable
  <2> SUFFICES ASSUME NEW t \in Unreachable PROVE ~Pickable(t)
    BY DEF FlaggedNeverPickable
  <2> DEFINE S == {u \in Tasks : status[u] # "done" /\ ~Pickable(u)}
  <2>1. Stranded \subseteq S
    BY DEF Stranded, Pickable, WaitingOn
  <2>2. ASSUME NEW u \in Open, deps[u] \cap S # {} PROVE u \in S
    BY <2>2 DEF Open, Known, Terminal, Pickable, WaitingOn
  <2>3. t \in S
    BY <2>1, <2>2 DEF Unreachable, Behind
  <2> QED BY <2>3
<1> QED
  BY <1>1, PTL

----------------------------------------------------------------------------
\* What the ownership checks keep when callers follow all of Discipline: an
\* agent at work on a task owns it with a fresh heartbeat, it is alone, and
\* it works on nothing but a task in progress or one cancelled under it.
WritersOwn ==
  \A t \in Tasks : \A a \in writers[t] :
     /\ writers[t] = {a}
     /\ status[t] \in {"in_progress", "cancelled"}
     /\ status[t] = "in_progress" => owner[t] = a /\ beat[t] = "fresh"

\* WritersOwn is inductive under the whole Discipline; TypeOK goes with it.
LEMMA WritersOwnHolds ==
  ASSUME Discipline = Rules
  PROVE  Spec => [](TypeOK /\ WritersOwn)
<1>1. Init => WritersOwn
  BY DEF Init, WritersOwn
<1>2. TypeOK /\ WritersOwn /\ [Next]_tvars => WritersOwn'
  <2> SUFFICES ASSUME TypeOK, WritersOwn, [Next]_tvars, NEW u \in Tasks
               PROVE \A a \in writers'[u] :
                        /\ writers'[u] = {a}
                        /\ status'[u] \in {"in_progress", "cancelled"}
                        /\ status'[u] = "in_progress"
                           => owner'[u] = a /\ beat'[u] = "fresh"
    BY DEF WritersOwn
  <2> DEFINE Held == \A a \in writers'[u] :
                        /\ writers'[u] = {a}
                        /\ status'[u] \in {"in_progress", "cancelled"}
                        /\ status'[u] = "in_progress"
                           => owner'[u] = a /\ beat'[u] = "fresh"
  <2> USE RouteAssumption DEF TypeOK
  <2>0. /\ \A a \in Agents : Names(a) = {a}
        /\ "own_tasks" \in Discipline /\ "unblock_blocked" \in Discipline
        /\ "silent_is_dead" \in Discipline
    BY DEF Names, Rules
  <2>1. ASSUME NEW t \in Tasks, NEW ds \in SUBSET Tasks, AddTask(t, ds)
        PROVE Held
    BY <2>1 DEF AddTask, WritersOwn
  <2>2. ASSUME NEW t \in Tasks, NEW a \in Agents, StartReady(t, a, a)
        PROVE Held
    <3>1. status[t] = "ready"
      BY <2>2 DEF StartReady, Pickable
    <3>2. writers[t] = {}
      BY <3>1 DEF WritersOwn
    <3> QED BY <2>2, <3>2 DEF StartReady, WritersOwn
  <2>3. ASSUME NEW t \in Tasks, NEW a \in Agents, Reclaim(t, a, a)
        PROVE Held
    <3>1. status[t] = "in_progress" /\ (a = owner[t] \/ owner[t] = NoOne
                                          \/ beat[t] # "fresh")
      BY <2>3 DEF Reclaim, Reclaimable
    <3>2. \A b \in writers[t] : b = a
      BY <3>1 DEF WritersOwn
    <3>3. writers'[t] = {a}
      BY <2>3, <3>2 DEF Reclaim
    <3>4. a # NoOne
      OBVIOUS
    <3> QED BY <2>3, <3>1, <3>3, <3>4 DEF Reclaim, WritersOwn
  <2>4. ASSUME NEW t \in Tasks, NEW a \in Agents, Heartbeat(t, a)
        PROVE Held
    <3>1. a \in writers[t] /\ a # NoOne
      BY <2>0, <2>4 DEF Heartbeat
    <3>2. owner' = [owner EXCEPT ![t] = a]
      <4>1. PICK who \in Names(a) :
               owner' = [owner EXCEPT ![t] = IF who = NoOne THEN @ ELSE who]
        BY <2>4 DEF Heartbeat
      <4>2. who = a
        BY <2>0, <4>1
      <4> QED BY <3>1, <4>1, <4>2
    <3> QED BY <2>4, <3>1, <3>2 DEF Heartbeat, WritersOwn
  <2>5. ASSUME NEW t \in Tasks, NEW a \in Agents,
               Complete(t, a) \/ Block(t, a)
        PROVE Held
    <3>1. writers'[t] = {}
      BY <2>0, <2>5 DEF Complete, Block, MayClose
    <3> QED BY <2>5, <3>1 DEF Complete, Block, WritersOwn
  <2>6. ASSUME NEW t \in Tasks, NEW a \in Agents, Die(t, a) PROVE Held
    BY <2>6 DEF Die, WritersOwn
  <2>7. ASSUME NEW t \in Tasks, NEW force \in BOOLEAN, Cancel(t, force)
        PROVE Held
    BY <2>7 DEF Cancel, WritersOwn
  <2>8. ASSUME NEW t \in Tasks, Unblock(t) \/ Reopen(t) PROVE Held
    <3>1. writers[t] = {}
      BY <2>0, <2>8 DEF Unblock, Reopen, WritersOwn
    <3> QED BY <2>8, <3>1 DEF Unblock, Reopen, WritersOwn
  <2>9. ASSUME NEW t \in Tasks, Lapse(t) PROVE Held
    BY <2>0, <2>9 DEF Lapse, WritersOwn
  <2>10. CASE UNCHANGED tvars
    BY <2>10 DEF tvars, WritersOwn
  <2>11. \A t \in Tasks, a \in Agents :
            Start(t, a) => StartReady(t, a, a) \/ Reclaim(t, a, a)
    BY <2>0 DEF Start
  <2> QED
    BY <2>1, <2>2, <2>3, <2>4, <2>5, <2>6, <2>7, <2>8, <2>9, <2>10, <2>11
       DEF Next, Step
<1> QED
  BY <1>1, <1>2, TypeCorrect, PTL DEF Spec

\* Two agents never work on one task, when callers keep all four rules: name
\* themselves, touch only their own task, unblock only the blocked, and stay
\* away once they were silent for six hours.
THEOREM SoleWriterHolds ==
  ASSUME Discipline = Rules
  PROVE  Spec => []SoleWriter
<1>1. WritersOwn => SoleWriter
  BY DEF WritersOwn, SoleWriter
<1> QED
  BY <1>1, WritersOwnHolds, PTL

\* Under the same rules no step takes a task from its live owner.
THEOREM LiveOwnerKeptHolds ==
  ASSUME Discipline = Rules
  PROVE  Spec => LiveOwnerKept
<1>1. TypeOK /\ WritersOwn /\ [Next]_tvars
      => [\A t \in Tasks :
            (Live(t) /\ owner[t] # NoOne /\ status'[t] = "in_progress")
            => owner'[t] = owner[t]]_tvars
  <2> SUFFICES ASSUME TypeOK, WritersOwn, Next, NEW u \in Tasks, Live(u),
                      owner[u] # NoOne, status'[u] = "in_progress"
               PROVE owner'[u] = owner[u]
    OBVIOUS
  <2> USE DEF TypeOK
  <2>0. (\A a \in Agents : Names(a) = {a}) /\ "own_tasks" \in Discipline
    BY DEF Names, Rules
  <2>1. PICK t \in Tasks : Step(t) \/ \E ds \in SUBSET Tasks : AddTask(t, ds)
    BY DEF Next
  <2>2. ASSUME NEW a \in Agents, StartReady(t, a, a)
        PROVE owner'[u] = owner[u]
    BY <2>2 DEF StartReady, Pickable, Live
  <2>3. ASSUME NEW a \in Agents, Reclaim(t, a, a)
        PROVE owner'[u] = owner[u]
    BY <2>3 DEF Reclaim, Reclaimable, Live
  <2>4. ASSUME NEW a \in Agents, Heartbeat(t, a)
        PROVE owner'[u] = owner[u]
    BY <2>0, <2>4 DEF Heartbeat, WritersOwn
  <2>5. ASSUME NEW a \in Agents, Complete(t, a) \/ Block(t, a) \/ Die(t, a)
        PROVE owner'[u] = owner[u]
    BY <2>5 DEF Complete, Block, Die
  <2>6. ASSUME NEW force \in BOOLEAN, Cancel(t, force)
        PROVE owner'[u] = owner[u]
    BY <2>6 DEF Cancel
  <2>7. ASSUME Unblock(t) \/ Reopen(t) \/ Lapse(t)
        PROVE owner'[u] = owner[u]
    BY <2>7 DEF Unblock, Reopen, Lapse
  <2>8. ASSUME NEW ds \in SUBSET Tasks, AddTask(t, ds)
        PROVE owner'[u] = owner[u]
    BY <2>8 DEF AddTask
  <2> QED
    BY <2>0, <2>1, <2>2, <2>3, <2>4, <2>5, <2>6, <2>7, <2>8 DEF Step, Start
<1> QED
  BY <1>1, WritersOwnHolds, PTL DEF Spec, LiveOwnerKept
----------------------------------------------------------------------------
\* No step but AddTask makes a task known or touches what tasks wait for.
LEMMA StepKeepsGraph ==
  ASSUME TypeOK, NEW t \in Tasks, Step(t)
  PROVE  Known' = Known /\ deps' = deps
<1> USE DEF TypeOK, Known
<1>1. ASSUME NEW a \in Agents, NEW who, StartReady(t, a, who)
      PROVE Known' = Known /\ deps' = deps
  BY <1>1 DEF StartReady, Pickable
<1>2. ASSUME NEW a \in Agents, NEW who, Reclaim(t, a, who)
      PROVE Known' = Known /\ deps' = deps
  BY <1>2 DEF Reclaim
<1>3. ASSUME NEW a \in Agents,
             Heartbeat(t, a) \/ Complete(t, a) \/ Block(t, a) \/ Die(t, a)
      PROVE Known' = Known /\ deps' = deps
  BY <1>3 DEF Heartbeat, Complete, Block, Die, Open
<1>4. ASSUME NEW force \in BOOLEAN, Cancel(t, force)
      PROVE Known' = Known /\ deps' = deps
  BY <1>4 DEF Cancel, Open
<1>5. ASSUME Unblock(t) \/ Reopen(t) \/ Lapse(t)
      PROVE Known' = Known /\ deps' = deps
  BY <1>5 DEF Unblock, Reopen, Lapse, Open
<1> QED
  BY <1>1, <1>2, <1>3, <1>4, <1>5 DEF Step, Start

\* A route is a DAG: deps are known, and every set of known tasks has one that
\* waits for none of the others, so there is no cycle to wait around.
Grounded ==
  /\ \A t \in Known : deps[t] \subseteq Known
  /\ \A S \in SUBSET Known : S # {} => \E t \in S : deps[t] \cap S = {}

\* Grounded is inductive: a task is nobody's dependency when it is added, so
\* any set it joins keeps the member that waited for none of the others.
LEMMA GroundedHolds == Spec => [](TypeOK /\ Grounded)
<1>1. Init => Grounded
  BY DEF Init, Grounded, Known
<1>2. TypeOK /\ Grounded /\ [Next]_tvars => Grounded'
  <2> SUFFICES ASSUME TypeOK, Grounded, [Next]_tvars PROVE Grounded'
    OBVIOUS
  <2>1. ASSUME Known' = Known, deps' = deps PROVE Grounded'
    BY <2>1 DEF Grounded
  <2>2. ASSUME NEW t \in Tasks, NEW ds \in SUBSET Tasks, AddTask(t, ds)
        PROVE Grounded'
    <3>1. /\ t \notin Known /\ Known' = Known \cup {t}
          /\ ds \subseteq Known
          /\ deps'[t] = ds
          /\ \A u \in Known : deps'[u] = deps[u]
      BY <2>2 DEF AddTask, ValidDeps, Known, TypeOK
    <3>2. \A u \in Known : deps[u] \subseteq Known
      BY DEF Grounded
    <3>3. \A u \in Known' : deps'[u] \subseteq Known'
      BY <3>1, <3>2
    <3>4. ASSUME NEW S \in SUBSET Known', S # {}
          PROVE \E u \in S : deps'[u] \cap S = {}
      <4>1. CASE S \cap Known = {}
        <5>1. S = {t}
          BY <3>1, <3>4, <4>1
        <5> QED BY <3>1, <5>1
      <4>2. CASE S \cap Known # {}
        <5>1. PICK u \in S \cap Known : deps[u] \cap (S \cap Known) = {}
          BY <4>2 DEF Grounded
        <5>2. deps'[u] \cap S = {}
          BY <3>1, <3>2, <5>1
        <5> QED BY <5>1, <5>2
      <4> QED BY <4>1, <4>2
    <3> QED BY <3>3, <3>4 DEF Grounded
  <2>3. CASE UNCHANGED tvars
    BY <2>1, <2>3 DEF tvars, Known
  <2> QED BY <2>1, <2>2, <2>3, StepKeepsGraph DEF Next
<1> QED
  BY <1>1, <1>2, TypeCorrect, PTL DEF Spec

\* Whatever was added, reopened or cancelled: a route whose owed tasks are all
\* ready has one to offer.  The owed task that waits for no owed one waits
\* only for what is done.
THEOREM SomethingPickableHolds == Spec => []SomethingPickable
<1>1. TypeOK /\ Grounded => SomethingPickable
  <2> DEFINE owed == {t \in Known : status[t] # "done"}
  <2> SUFFICES ASSUME Grounded, owed # {}, \A t \in owed : status[t] = "ready"
               PROVE \E t \in owed : Pickable(t)
    BY DEF SomethingPickable
  <2>1. PICK t \in owed : deps[t] \cap owed = {}
    BY DEF Grounded
  <2>2. \A d \in deps[t] : status[d] = "done"
    BY <2>1 DEF Grounded
  <2>3. Pickable(t)
    BY <2>1, <2>2 DEF Pickable, WaitingOn
  <2> QED BY <2>1, <2>3
<1> QED
  BY <1>1, GroundedHolds, PTL
=============================================================================
