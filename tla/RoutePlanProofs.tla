-------------------------- MODULE RoutePlanProofs --------------------------
(***************************************************************************)
(* Theorems about RoutePlan, for every set of tasks, sectors and efforts.   *)
(* What a pool has left is a sum over the tasks of the plan, so the ledger's *)
(* theorems begin with facts about sums.                                    *)
(***************************************************************************)
EXTENDS RoutePlan, RouteProofs, FiniteSetTheorems

----------------------------------------------------------------------------
\* Facts about sums of points.  The library defines a sum over S by recursion
\* over the subsets of S; they are proved from a least counterexample.

LEMMA LeastNumber ==
  ASSUME NEW T, T \subseteq Nat, T # {}
  PROVE  \E n \in T : \A m \in T : ~(m < n)
<1> DEFINE R == {ss \in Nat \X Nat : ss[1] < ss[2]}
<1>1. IsWellFoundedOn(R, Nat)
  BY NatLessThanWellFounded DEF OpToRel
<1> HIDE DEF R
<1>2. PICK n \in T : \A m \in T : ~(<<m, n>> \in R)
  BY <1>1, WFMin
<1> QED BY <1>2 DEF R

LEMMA LeastSubset ==
  ASSUME NEW S, IsFiniteSet(S), NEW T, T \subseteq SUBSET S, T # {}
  PROVE  \E x \in T : \A y \in T : ~(y \subseteq x /\ y # x)
<1> DEFINE R == StrictSubsetOrdering(S)
<1>1. IsWellFoundedOn(R, SUBSET S)
  BY FS_StrictSubsetOrderingWellFounded, FS_FiniteSubsetsOfFinite
<1> HIDE DEF R
<1>2. PICK x \in T : \A y \in T : ~(<<y, x>> \in R)
  BY <1>1, WFMin
<1> QED BY <1>2 DEF R, StrictSubsetOrdering

\* g holds the sum of f over each set of D, one element taken at a time.
Pick(s) == CHOOSE x \in s : TRUE
Sums(f, g, D) ==
  g = [s \in D |-> IF s = {} THEN 0 ELSE f[Pick(s)] + g[s \ {Pick(s)}]]

LEMMA SumsExist ==
  ASSUME NEW f, NEW S, IsFiniteSet(S)
  PROVE  \E g : Sums(f, g, SUBSET S)
<1> DEFINE Upto(n) == {s \in SUBSET S : Cardinality(s) <= n}
           Bad == {n \in Nat : ~\E g : Sums(f, g, Upto(n))}
<1>0. \A s \in SUBSET S : IsFiniteSet(s) /\ Cardinality(s) \in Nat
                          /\ Cardinality(s) <= Cardinality(S)
  BY FS_Subset, FS_CardinalityType
<1>1. SUFFICES ASSUME Bad # {} PROVE FALSE
  <2>1. Cardinality(S) \in Nat
    BY FS_CardinalityType
  <2>2. Upto(Cardinality(S)) = SUBSET S
    BY <1>0
  <2> HIDE DEF Upto
  <2>3. (Bad = {}) => \E g : Sums(f, g, Upto(Cardinality(S)))
    BY <2>1
  <2> QED BY <2>2, <2>3
<1>2. PICK n \in Bad : \A m \in Bad : ~(m < n)
  <2> HIDE DEF Bad
  <2>1. Bad \subseteq Nat
    BY DEF Bad
  <2> QED BY <1>1, <2>1, LeastNumber
<1>3. \A s \in SUBSET S : s # {} =>
         /\ Pick(s) \in s /\ s \ {Pick(s)} \in SUBSET S
         /\ Cardinality(s \ {Pick(s)}) = Cardinality(s) - 1
  <2> TAKE s \in SUBSET S
  <2> HAVE s # {}
  <2>1. Pick(s) \in s
    BY DEF Pick
  <2> QED BY <1>0, <2>1, FS_RemoveElement
<1>4. CASE n = 0
  <2> DEFINE g == [s \in Upto(0) |-> 0]
  <2>1. Upto(0) = {{}}
    BY <1>0, FS_EmptySet
  <2> HIDE DEF Upto
  <2>2. Sums(f, g, Upto(0))
    BY <2>1 DEF Sums
  <2> QED BY <1>2, <1>4, <2>2
<1>5. CASE n # 0
  <2>1. n - 1 \in Nat /\ n \in Nat /\ ~(n - 1 \in Bad)
    <3> HIDE DEF Bad
    <3>1. n \in Nat
      BY DEF Bad
    <3> QED BY <1>2, <1>5, <3>1
  <2>2. PICK g : Sums(f, g, Upto(n - 1))
    BY <2>1
  <2> DEFINE h == [s \in Upto(n) |-> IF s = {} THEN 0
                                     ELSE f[Pick(s)] + g[s \ {Pick(s)}]]
  <2>3. \A s \in Upto(n) : s # {} => s \ {Pick(s)} \in Upto(n - 1)
    BY <1>0, <1>3, <2>1
  <2>4. Upto(n - 1) \subseteq Upto(n)
    BY <1>0, <2>1
  <2> HIDE DEF Upto
  <2>5. \A u \in Upto(n - 1) : h[u] = g[u]
    BY <2>2, <2>4 DEF Sums
  <2>6. h = [s \in Upto(n) |-> IF s = {} THEN 0
                               ELSE f[Pick(s)] + h[s \ {Pick(s)}]]
    BY <2>3, <2>5
  <2> HIDE DEF h
  <2>7. Sums(f, h, Upto(n))
    BY <2>6 DEF Sums
  <2> QED BY <1>2, <2>7
<1> QED BY <1>4, <1>5

LEMMA SumsUnique ==
  ASSUME NEW f, NEW g, NEW h, NEW S, NEW T \in SUBSET S, IsFiniteSet(S),
         Sums(f, g, SUBSET S), Sums(f, h, SUBSET T)
  PROVE  \A s \in SUBSET T : g[s] = h[s]
<1> DEFINE Bad == {s \in SUBSET T : g[s] # h[s]}
<1>1. SUFFICES ASSUME Bad # {} PROVE FALSE
  OBVIOUS
<1>2. PICK s \in Bad : \A u \in Bad : ~(u \subseteq s /\ u # s)
  <2>1. IsFiniteSet(T) /\ Bad \subseteq SUBSET T
    BY FS_Subset
  <2> HIDE DEF Bad
  <2> QED BY <1>1, <2>1, LeastSubset
<1>3. s \in SUBSET T /\ s \in SUBSET S
  OBVIOUS
<1>4. CASE s = {}
  <2>1. g[s] = 0 /\ h[s] = 0
    BY <1>3, <1>4 DEF Sums
  <2> QED BY <2>1
<1>5. CASE s # {}
  <2>1. Pick(s) \in s
    BY <1>5 DEF Pick
  <2>2. g[s \ {Pick(s)}] = h[s \ {Pick(s)}]
    BY <1>2, <1>3, <2>1
  <2>3. /\ g[s] = f[Pick(s)] + g[s \ {Pick(s)}]
        /\ h[s] = f[Pick(s)] + h[s \ {Pick(s)}]
    BY <1>3, <1>5 DEF Sums
  <2> QED BY <2>2, <2>3
<1> QED BY <1>4, <1>5

LEMMA SumIs ==
  ASSUME NEW f, NEW S, IsFiniteSet(S)
  PROVE  \E g : Sums(f, g, SUBSET S) /\ SumFunctionOnSet(f, S) = g[S]
<1>1. SumFunctionOnSet(f, S) = (CHOOSE g : Sums(f, g, SUBSET S))[S]
  BY DEF SumFunctionOnSet, FoldFunctionOnSet, MapThenFoldSet, Sums, Pick
<1> QED BY <1>1, SumsExist

\* The sum over nothing, and over a set by its chosen element.
LEMMA SumUnfolds ==
  ASSUME NEW f, NEW S, IsFiniteSet(S)
  PROVE  /\ S = {} => SumFunctionOnSet(f, S) = 0
         /\ S # {} => /\ Pick(S) \in S
                      /\ SumFunctionOnSet(f, S)
                         = f[Pick(S)] + SumFunctionOnSet(f, S \ {Pick(S)})
<1>1. PICK g : Sums(f, g, SUBSET S) /\ SumFunctionOnSet(f, S) = g[S]
  BY SumIs
<1>2. CASE S = {}
  BY <1>1, <1>2 DEF Sums
<1>3. CASE S # {}
  <2> DEFINE T == S \ {Pick(S)}
  <2>1. Pick(S) \in S
    BY <1>3 DEF Pick
  <2>2. g[S] = f[Pick(S)] + g[T]
    BY <1>1, <1>3 DEF Sums
  <2>3. T \in SUBSET S /\ IsFiniteSet(T)
    BY FS_Subset
  <2> HIDE DEF T
  <2>4. PICK h : Sums(f, h, SUBSET T) /\ SumFunctionOnSet(f, T) = h[T]
    BY <2>3, SumIs
  <2>5. g[T] = h[T]
    BY <1>1, <2>3, <2>4, SumsUnique
  <2> QED BY <1>1, <1>3, <2>1, <2>2, <2>4, <2>5 DEF T
<1> QED BY <1>2, <1>3

\* A sum of naturals is a natural.
LEMMA SumTyped ==
  ASSUME NEW f, NEW S, IsFiniteSet(S), \A x \in S : f[x] \in Nat
  PROVE  SumFunctionOnSet(f, S) \in Nat
<1> DEFINE Bad == {T \in SUBSET S : SumFunctionOnSet(f, T) \notin Nat}
<1>1. SUFFICES ASSUME Bad # {} PROVE FALSE
  OBVIOUS
<1>2. PICK T \in Bad : \A U \in Bad : ~(U \subseteq T /\ U # T)
  <2>1. Bad \subseteq SUBSET S
    OBVIOUS
  <2> HIDE DEF Bad
  <2> QED BY <1>1, <2>1, LeastSubset
<1>3. T \subseteq S /\ IsFiniteSet(T) /\ SumFunctionOnSet(f, T) \notin Nat
  BY FS_Subset
<1>4. T # {} /\ Pick(T) \in T
      /\ SumFunctionOnSet(f, T) = f[Pick(T)] + SumFunctionOnSet(f, T \ {Pick(T)})
  <2>0. T = {} => SumFunctionOnSet(f, T) = 0
    BY <1>3, SumUnfolds
  <2>1. T # {}
    BY <1>3, <2>0
  <2> QED BY <1>3, <2>1, SumUnfolds
<1>5. SumFunctionOnSet(f, T \ {Pick(T)}) \in Nat
  BY <1>2, <1>3, <1>4
<1> QED BY <1>3, <1>4, <1>5

\* A sum is the same whichever element is taken first.
LEMMA SumRemove ==
  ASSUME NEW f, NEW S, IsFiniteSet(S), \A x \in S : f[x] \in Nat, NEW y \in S
  PROVE  SumFunctionOnSet(f, S) = f[y] + SumFunctionOnSet(f, S \ {y})
<1> DEFINE Taking(T, z) == SumFunctionOnSet(f, T)
                           = f[z] + SumFunctionOnSet(f, T \ {z})
           Bad == {T \in SUBSET S : \E z \in T : ~Taking(T, z)}
<1>1. SUFFICES ASSUME Bad # {} PROVE FALSE
  OBVIOUS
<1>2. PICK T \in Bad : \A U \in Bad : ~(U \subseteq T /\ U # T)
  <2>1. Bad \subseteq SUBSET S
    OBVIOUS
  <2> HIDE DEF Bad
  <2> QED BY <1>1, <2>1, LeastSubset
<1>3. PICK z \in T : ~Taking(T, z)
  BY <1>2
<1> DEFINE c == Pick(T)
<1>4. T \subseteq S /\ IsFiniteSet(T)
  BY FS_Subset
<1>5. c \in T /\ Taking(T, c)
  BY <1>3, <1>4, SumUnfolds
<1> HIDE DEF c
<1>6. c # z
  BY <1>3, <1>5
<1>7. Taking(T \ {c}, z) /\ Taking(T \ {z}, c)
  <2>1. T \ {c} \notin Bad /\ T \ {z} \notin Bad
    <3> HIDE DEF Bad
    <3> QED BY <1>2, <1>3, <1>5
  <2> QED BY <1>3, <1>4, <1>5, <1>6, <2>1
<1>8. (T \ {c}) \ {z} = (T \ {z}) \ {c}
  OBVIOUS
<1>9. f[c] \in Nat /\ f[z] \in Nat
      /\ SumFunctionOnSet(f, (T \ {z}) \ {c}) \in Nat
  <2>1. IsFiniteSet((T \ {z}) \ {c})
    BY <1>4, FS_Subset
  <2>2. \A x \in (T \ {z}) \ {c} : f[x] \in Nat
    BY <1>4
  <2>3. SumFunctionOnSet(f, (T \ {z}) \ {c}) \in Nat
    BY <2>1, <2>2, SumTyped
  <2> QED BY <1>3, <1>4, <1>5, <2>3
<1>10. SumFunctionOnSet(f, T) = f[c] + (f[z] + SumFunctionOnSet(f, (T \ {z}) \ {c}))
  BY <1>5, <1>7, <1>8
<1>11. SumFunctionOnSet(f, T \ {z}) = f[c] + SumFunctionOnSet(f, (T \ {z}) \ {c})
  BY <1>7
<1> QED BY <1>3, <1>9, <1>10, <1>11

\* A sum grows with the set and with the numbers.
LEMMA SumGrows ==
  ASSUME NEW f, NEW g, NEW S, IsFiniteSet(S), NEW R \in SUBSET S,
         \A x \in S : g[x] \in Nat,
         \A x \in R : f[x] \in Nat /\ f[x] <= g[x]
  PROVE  SumFunctionOnSet(f, R) <= SumFunctionOnSet(g, S)
<1> DEFINE Bad == {T \in SUBSET S : ~(SumFunctionOnSet(f, R \cap T)
                                       <= SumFunctionOnSet(g, T))}
<1>1. SUFFICES ASSUME Bad # {} PROVE FALSE
  <2>1. S \in SUBSET S /\ R \cap S = R
    OBVIOUS
  <2> QED BY <2>1
<1>2. PICK T \in Bad : \A U \in Bad : ~(U \subseteq T /\ U # T)
  <2>1. Bad \subseteq SUBSET S
    OBVIOUS
  <2> HIDE DEF Bad
  <2> QED BY <1>1, <2>1, LeastSubset
<1>3. T \subseteq S /\ IsFiniteSet(T) /\ IsFiniteSet(R \cap T)
      /\ (\A x \in T : g[x] \in Nat) /\ \A x \in R \cap T : f[x] \in Nat
  BY FS_Subset
<1>4. T # {}
  <2>1. SUFFICES ASSUME T = {} PROVE FALSE
    OBVIOUS
  <2>2. R \cap T = {}
    BY <2>1
  <2>3. SumFunctionOnSet(f, R \cap T) = 0 /\ SumFunctionOnSet(g, T) = 0
    BY <1>3, <2>1, <2>2, SumUnfolds
  <2> QED BY <1>2, <2>3
<1>5. PICK z \in T : TRUE
  BY <1>4
<1>6. SumFunctionOnSet(f, R \cap (T \ {z})) <= SumFunctionOnSet(g, T \ {z})
  <2>1. T \ {z} \notin Bad
    <3> HIDE DEF Bad
    <3> QED BY <1>2, <1>5
  <2> QED BY <1>3, <2>1
<1>7. SumFunctionOnSet(g, T) = g[z] + SumFunctionOnSet(g, T \ {z})
  BY <1>3, SumRemove
<1>8. /\ SumFunctionOnSet(g, T \ {z}) \in Nat
      /\ SumFunctionOnSet(f, R \cap (T \ {z})) \in Nat
  <2>1. IsFiniteSet(T \ {z}) /\ IsFiniteSet(R \cap (T \ {z}))
    BY <1>3, FS_Subset
  <2>2. (\A x \in T \ {z} : g[x] \in Nat)
        /\ \A x \in R \cap (T \ {z}) : f[x] \in Nat
    BY <1>3
  <2> QED BY <2>1, <2>2, SumTyped
<1>0. ~(SumFunctionOnSet(f, R \cap T) <= SumFunctionOnSet(g, T))
  BY <1>2
<1>9. CASE z \in R
  <2>1. SumFunctionOnSet(f, R \cap T)
        = f[z] + SumFunctionOnSet(f, (R \cap T) \ {z})
    BY <1>3, <1>9, SumRemove
  <2>2. (R \cap T) \ {z} = R \cap (T \ {z})
    OBVIOUS
  <2>3. f[z] \in Nat /\ f[z] <= g[z] /\ g[z] \in Nat
    BY <1>3, <1>9
  <2> HIDE DEF Bad
  <2> QED BY <1>0, <1>6, <1>7, <1>8, <2>1, <2>2, <2>3
<1>10. CASE z \notin R
  <2>1. R \cap (T \ {z}) = R \cap T
    BY <1>10
  <2>2. g[z] \in Nat
    BY <1>3
  <2> HIDE DEF Bad
  <2> QED BY <1>0, <1>6, <1>7, <1>8, <2>1, <2>2
<1> QED BY <1>9, <1>10

----------------------------------------------------------------------------
\* The ledger's own verbs leave the tasks alone.
LEMMA LedgerStepsKeepTasks ==
  ASSUME LedgerStep
  PROVE  UNCHANGED <<tvars, points, sector>>
BY DEF LedgerStep, AddSector, SetReserve, SetBudget, AcceptDelta,
       LockPlan, UnlockPlan, ClearBudget

\* So every step is a step of the route or none: planning a task adds it as
\* `route add` does.
LEMMA StepsAreRouteSteps ==
  ASSUME [PlanNext]_pvars
  PROVE  [Next]_tvars
<1>1. ASSUME NEW t \in Tasks, Step(t) PROVE Next
  BY <1>1 DEF Next
<1>2. ASSUME NEW t \in Tasks, NEW e \in Efforts, SetEffort(t, e)
      PROVE UNCHANGED tvars
  BY <1>2 DEF SetEffort
<1>3. ASSUME NEW t \in Tasks, NEW ds \in SUBSET Tasks, NEW e, NEW s,
             PlanTask(t, ds, e, s)
      PROVE Next
  BY <1>3 DEF PlanTask, Next
<1>4. ASSUME LedgerStep PROVE UNCHANGED tvars
  BY <1>4, LedgerStepsKeepTasks
<1>5. CASE UNCHANGED pvars
  BY <1>5 DEF pvars
<1> QED
  BY <1>1, <1>2, <1>3, <1>4, <1>5 DEF PlanNext, PlanStep

\* Everything proved of Route therefore holds of the route with its ledger.
LEMMA RoutePart == PlanSpec => Spec
<1>1. PlanInit => Init
  BY DEF PlanInit
<1> QED
  BY <1>1, StepsAreRouteSteps, PTL DEF PlanSpec, Spec

\* The first of those: the route's part of the state keeps its type.
COROLLARY RouteTyped == PlanSpec => []TypeOK
  BY RoutePart, TypeCorrect, PTL

----------------------------------------------------------------------------
SectorTyped == /\ status \in [Tasks -> Statuses]
               /\ sector \in [Tasks -> Sectors \cup {NoSector}]

\* Under a lock a task comes into being only by drawing on a sector; no other
\* verb of the route, and no ledger verb, adds one.
THEOREM LockedGrowsInSectorsHolds == PlanSpec => LockedGrowsInSectors
<1>1. PlanInit => SectorTyped
  BY DEF SectorTyped, PlanInit, Init, Statuses
<1>2. ASSUME SectorTyped, NEW t \in Tasks, Step(t), NEW u \in Tasks,
             status[u] = "absent"
      PROVE status'[u] = "absent"
  <2> USE DEF SectorTyped, Statuses, Terminal
  <2>1. ASSUME NEW a \in Agents, NEW who, StartReady(t, a, who)
        PROVE status'[u] = "absent"
    BY <1>2, <2>1 DEF StartReady, Pickable
  <2>2. ASSUME NEW a \in Agents, NEW who, Reclaim(t, a, who)
        PROVE status'[u] = "absent"
    BY <1>2, <2>2 DEF Reclaim
  <2>3. ASSUME NEW a \in Agents,
               Heartbeat(t, a) \/ Complete(t, a) \/ Block(t, a) \/ Die(t, a)
        PROVE status'[u] = "absent"
    BY <1>2, <2>3 DEF Heartbeat, Complete, Block, Die, Open, Known
  <2>4. ASSUME NEW force \in BOOLEAN, Cancel(t, force)
        PROVE status'[u] = "absent"
    BY <1>2, <2>4 DEF Cancel, Open, Known
  <2>5. ASSUME Unblock(t) \/ Reopen(t) \/ Lapse(t)
        PROVE status'[u] = "absent"
    BY <1>2, <2>5 DEF Unblock, Reopen, Lapse, Open, Known
  <2> QED BY <1>2, <2>1, <2>2, <2>3, <2>4, <2>5 DEF Step, Start
<1>3. SectorTyped /\ [PlanNext]_pvars
      => [(locked /\ locked') =>
            \A t \in Tasks : (status[t] = "absent" /\ status'[t] # "absent")
                             => sector'[t] # NoSector]_pvars
  <2> SUFFICES ASSUME SectorTyped, PlanNext, locked, locked', NEW u \in Tasks,
                      status[u] = "absent", status'[u] # "absent"
               PROVE sector'[u] # NoSector
    OBVIOUS
  <2>1. ASSUME NEW t \in Tasks, NEW ds \in SUBSET Tasks, NEW e,
               NEW s \in Sectors \cup {NoSector}, PlanTask(t, ds, e, s)
        PROVE sector'[u] # NoSector
    <3>1. u = t
      BY <2>1 DEF PlanTask, AddTask, SectorTyped
    <3> QED BY <2>1, <3>1 DEF PlanTask, Admits, SectorTyped
  <2>2. ASSUME NEW t \in Tasks, NEW e, SetEffort(t, e) PROVE FALSE
    BY <2>2 DEF SetEffort, tvars
  <2>3. ASSUME LedgerStep PROVE FALSE
    BY <2>3, LedgerStepsKeepTasks DEF tvars
  <2> QED BY <1>2, <2>1, <2>2, <2>3 DEF PlanNext, PlanStep
<1>4. SectorTyped /\ TypeOK' /\ [PlanNext]_pvars => SectorTyped'
  <2> SUFFICES ASSUME SectorTyped, TypeOK', [PlanNext]_pvars
               PROVE sector' \in [Tasks -> Sectors \cup {NoSector}]
    BY DEF SectorTyped, TypeOK
  <2>1. ASSUME NEW t \in Tasks, NEW ds, NEW e,
               NEW s \in Sectors \cup {NoSector}, PlanTask(t, ds, e, s)
        PROVE sector' \in [Tasks -> Sectors \cup {NoSector}]
    BY <2>1 DEF PlanTask, SectorTyped
  <2>2. ASSUME NEW t \in Tasks, NEW e, SetEffort(t, e)
        PROVE sector' = sector
    BY <2>2 DEF SetEffort
  <2>3. ASSUME LedgerStep PROVE sector' = sector
    BY <2>3, LedgerStepsKeepTasks
  <2> QED BY <2>1, <2>2, <2>3 DEF PlanNext, PlanStep, lvars, pvars, SectorTyped
<1>5. PlanSpec => []SectorTyped
  BY <1>1, <1>4, RouteTyped, PTL DEF PlanSpec
<1> QED
  BY <1>3, <1>5, PTL DEF PlanSpec, LockedGrowsInSectors

----------------------------------------------------------------------------
\* Every task on the route was weighed when it was added.
Weighed ==
  /\ plan \in [Tasks -> Nat]
  /\ \A t \in Known : plan[t] # 0 /\ points[t] # 0
  /\ points \in [Tasks -> Nat]

\* Weighed lasts when no caller leaves the bucket out.
LEMMA WeighedHolds ==
  ASSUME 0 \notin Efforts
  PROVE  PlanSpec => [](TypeOK /\ Weighed)
<1>1. PlanInit => Weighed
  BY DEF PlanInit, Init, Weighed, Known
<1>2. TypeOK /\ TypeOK' /\ Weighed /\ [PlanNext]_pvars => Weighed'
  <2> SUFFICES ASSUME TypeOK, TypeOK', Weighed, [PlanNext]_pvars PROVE Weighed'
    OBVIOUS
  <2>1. ASSUME NEW t \in Tasks, Step(t), UNCHANGED lvars PROVE Weighed'
    <3>1. Known' = Known
      BY <2>1 DEF Step, Start, StartReady, Pickable, Reclaim, Heartbeat,
                  Complete, Block, Die, Cancel, Unblock, Reopen, Lapse,
                  Known, Open, TypeOK
    <3> QED BY <2>1, <3>1 DEF lvars, Weighed
  <2>2. ASSUME NEW t \in Tasks, NEW e \in Efforts, SetEffort(t, e)
        PROVE Weighed'
    <3>1. Known' = Known
      BY <2>2 DEF SetEffort, tvars, Known
    <3> QED BY <2>2, <3>1, PlanAssumption DEF SetEffort, Replan, Known, Weighed
  <2>3. ASSUME NEW t \in Tasks, NEW ds \in SUBSET Tasks, NEW e \in Efforts,
               NEW s, PlanTask(t, ds, e, s)
        PROVE Weighed'
    <3>1. Known' = Known \cup {t}
      BY <2>3 DEF PlanTask, AddTask, Known, TypeOK
    <3> QED BY <2>3, <3>1, PlanAssumption DEF PlanTask, Weighed
  <2>4. CASE LedgerStep
    <3>1. Known' = Known
      BY <2>4, LedgerStepsKeepTasks DEF tvars, Known
    <3>2. CASE LockPlan
      BY <3>1, <3>2 DEF LockPlan, Weighed, Known
    <3>3. CASE ~LockPlan
      BY <2>4, <3>1, <3>3 DEF LedgerStep, AddSector, SetReserve, SetBudget,
                              AcceptDelta, UnlockPlan, ClearBudget,
                              Weighed
    <3> QED BY <3>2, <3>3
  <2>5. CASE UNCHANGED pvars
    BY <2>5 DEF pvars, tvars, lvars, Known, Weighed
  <2> QED BY <2>1, <2>2, <2>3, <2>4, <2>5 DEF PlanNext, PlanStep
<1> QED
  BY <1>1, <1>2, RouteTyped, PTL DEF PlanSpec

\* A locked baseline does not move as long as no task was added without a
\* bucket: only the working points of such a task count as its plan.
THEOREM BaselineFrozenHolds ==
  ASSUME 0 \notin Efforts
  PROVE  PlanSpec => BaselineFrozen
<1>1. TypeOK /\ Weighed /\ [PlanNext]_pvars
      => [(locked /\ locked') =>
            \A t \in Known : plan'[t] = plan[t] /\ Weight(t)' = Weight(t)]_pvars
  <2> SUFFICES ASSUME Weighed, PlanNext, locked, locked', NEW u \in Known
               PROVE plan'[u] = plan[u] /\ Weight(u)' = Weight(u)
    OBVIOUS
  <2>1. plan'[u] = plan[u]
    <3>1. ASSUME NEW t \in Tasks, NEW ds, NEW e, NEW s, PlanTask(t, ds, e, s)
          PROVE plan'[u] = plan[u]
      <4>1. t # u
        BY <3>1 DEF PlanTask, AddTask, Known
      <4> QED BY <3>1, <4>1 DEF PlanTask, Weighed, Known
    <3>2. ASSUME NEW t \in Tasks, NEW e, SetEffort(t, e) PROVE plan' = plan
      BY <3>2 DEF SetEffort, Replan
    <3>3. ASSUME LedgerStep PROVE plan' = plan
      BY <3>3 DEF LedgerStep, AddSector, SetReserve, SetBudget, AcceptDelta,
                  LockPlan, UnlockPlan, ClearBudget
    <3> QED BY <3>1, <3>2, <3>3 DEF PlanNext, PlanStep, lvars
  <2>2. plan[u] # 0
    BY DEF Weighed
  <2> QED BY <2>1, <2>2 DEF Weight
<1> QED
  BY <1>1, WeighedHolds, PTL DEF PlanSpec, BaselineFrozen

----------------------------------------------------------------------------
\* The plan is a finite one: it grows by one task or one sector at a time.
LedgerTyped ==
  /\ PlanTypeOK
  /\ IsFiniteSet(Known) /\ IsFiniteSet(DOMAIN reserve)

\* No verb leaves points, plan, reserves or the budget malformed: an accepted
\* delta is floored at zero, whatever it takes away.
LEMMA LedgerTypedHolds == PlanSpec => []LedgerTyped
<1>1. PlanInit => LedgerTyped
  <2> SUFFICES ASSUME PlanInit PROVE LedgerTyped
    OBVIOUS
  <2>1. Known = {} /\ DOMAIN reserve = {}
    BY DEF PlanInit, Init, Known
  <2>2. TypeOK
    BY DEF PlanInit, Init, TypeOK, Statuses
  <2> QED BY <2>1, <2>2, FS_EmptySet DEF PlanInit, LedgerTyped, PlanTypeOK
<1>2. TypeOK' /\ LedgerTyped /\ [PlanNext]_pvars => LedgerTyped'
  <2> SUFFICES ASSUME TypeOK', LedgerTyped, [PlanNext]_pvars PROVE LedgerTyped'
    OBVIOUS
  <2> USE PlanAssumption DEF LedgerTyped, PlanTypeOK
  <2>1. ASSUME NEW t \in Tasks, Step(t), UNCHANGED lvars PROVE LedgerTyped'
    <3>1. Known' = Known
      BY <2>1, StepKeepsGraph
    <3> QED BY <2>1, <3>1 DEF lvars
  <2>2. ASSUME NEW t \in Tasks, NEW e \in Efforts, SetEffort(t, e)
        PROVE LedgerTyped'
    <3>1. Known' = Known
      BY <2>2 DEF SetEffort, tvars, Known
    <3>2. e \in Nat
      OBVIOUS
    <3> QED BY <2>2, <3>1, <3>2 DEF SetEffort, Replan
  <2>3. ASSUME NEW t \in Tasks, NEW ds \in SUBSET Tasks, NEW e \in Efforts,
               NEW s \in Sectors \cup {NoSector}, PlanTask(t, ds, e, s)
        PROVE LedgerTyped'
    <3>1. Known' = Known \cup {t}
      BY <2>3 DEF PlanTask, AddTask, Known, TypeOK
    <3>2. IsFiniteSet(Known')
      BY <3>1, FS_AddElement
    <3>3. e \in Nat
      OBVIOUS
    <3> QED BY <2>3, <3>2, <3>3 DEF PlanTask
  <2>4. ASSUME NEW s \in Sectors, NEW n \in Reserves, AddSector(s, n)
        PROVE LedgerTyped'
    <3>1. DOMAIN reserve' = DOMAIN reserve \cup {s} /\ Known' = Known
      BY <2>4 DEF AddSector, tvars, Known
    <3>2. IsFiniteSet(DOMAIN reserve')
      BY <3>1, FS_AddElement
    <3>3. \A r \in DOMAIN reserve' : reserve'[r] \in Nat
      BY <2>4, <3>1 DEF AddSector
    <3> QED BY <2>4, <3>1, <3>2, <3>3 DEF AddSector
  <2>5. ASSUME NEW s \in Sectors, NEW n \in Reserves, SetReserve(s, n)
        PROVE LedgerTyped'
    <3>1. DOMAIN reserve' = DOMAIN reserve /\ Known' = Known
      BY <2>5 DEF SetReserve, tvars, Known
    <3>2. \A r \in DOMAIN reserve' : reserve'[r] \in Nat
      BY <2>5, <3>1 DEF SetReserve
    <3> QED BY <2>5, <3>1, <3>2 DEF SetReserve
  <2>6. ASSUME NEW d \in Deltas, AcceptDelta(d) PROVE LedgerTyped'
    <3>1. budget \in Nat /\ d \in Int
      BY <2>6 DEF AcceptDelta
    <3>2. SumFloored(budget, d) \in Nat
      BY <3>1 DEF SumFloored
    <3> QED BY <2>6, <3>2 DEF AcceptDelta, tvars, Known
  <2>7. CASE LockPlan
    <3>1. plan' \in [Tasks -> Nat]
      BY <2>7 DEF LockPlan
    <3> QED BY <2>7, <3>1 DEF LockPlan, tvars, Known
  <2>8. ASSUME (\E b \in Budgets : SetBudget(b)) \/ ClearBudget \/ UnlockPlan
        PROVE LedgerTyped'
    BY <2>8 DEF SetBudget, ClearBudget, UnlockPlan, tvars, Known
  <2>9. CASE UNCHANGED pvars
    BY <2>9 DEF pvars, tvars, lvars, Known
  <2> QED
    BY <2>1, <2>2, <2>3, <2>4, <2>5, <2>6, <2>7, <2>8, <2>9
       DEF PlanNext, PlanStep, LedgerStep
<1> QED
  BY <1>1, <1>2, RouteTyped, PTL DEF PlanSpec

\* Every number the ledger keeps stays a number in its range, over any verbs:
\* points only of tasks there are, and no sector or budget below 0 although a
\* proposal may give back more than the budget has (the floor of _add_budget).
THEOREM PlanTypeOKHolds == PlanSpec => []PlanTypeOK
  BY LedgerTypedHolds, PTL DEF LedgerTyped

----------------------------------------------------------------------------
\* What is taken from the pools can only shrink in this step.
PlanKept ==
  /\ Counted' \subseteq Counted /\ sector' = sector /\ reserve' = reserve
  /\ \A t \in Counted' : Weight(t)' = Weight(t)

\* A verb checks the plan it leaves, or takes nothing more from any pool: the
\* route's own verbs only ever drop a task from the plan, and under a lock a
\* weighed task's new points are not its plan's.
LEMMA ChecksOrKeeps ==
  ASSUME LedgerTyped, Weighed, [PlanNext]_pvars
  PROVE  Fits' \/ PlanKept
<1> USE DEF LedgerTyped, PlanTypeOK
<1>1. ASSUME NEW t \in Tasks, Step(t), UNCHANGED lvars PROVE PlanKept
  <2>1. Known' = Known
    BY <1>1, StepKeepsGraph
  <2>2. \A u \in Tasks : status[u] = "cancelled" => status'[u] = "cancelled"
    BY <1>1, NothingUnsettles DEF Next
  <2>3. Counted' \subseteq Counted
    BY <2>1, <2>2 DEF Counted, Known
  <2> QED BY <1>1, <2>3 DEF lvars, PlanKept, Weight
<1>2. ASSUME NEW t \in Tasks, NEW e \in Efforts, SetEffort(t, e)
      PROVE Fits' \/ PlanKept
  <2>1. CASE ~locked
    BY <1>2, <2>1 DEF SetEffort, Replan
  <2>2. CASE locked
    <3>1. Counted' = Counted /\ plan' = plan
      BY <1>2, <2>2 DEF SetEffort, Replan, tvars, Counted, Known
    <3>2. \A u \in Counted : plan[u] # 0
      BY DEF Weighed, Counted
    <3> QED BY <1>2, <3>1, <3>2 DEF SetEffort, PlanKept, Weight
  <2> QED BY <2>1, <2>2
<1>3. ASSUME NEW t \in Tasks, NEW ds, NEW e, NEW s, PlanTask(t, ds, e, s)
      PROVE Fits'
  BY <1>3 DEF PlanTask
<1>4. CASE \E s \in Sectors, n \in Reserves : AddSector(s, n) \/ SetReserve(s, n)
  BY <1>4 DEF AddSector, SetReserve
<1>5. CASE LockPlan \/ \E b \in Budgets : SetBudget(b)
  BY <1>5 DEF LockPlan, SetBudget
<1>6. ASSUME UnlockPlan \/ ClearBudget \/ (\E d \in Deltas : AcceptDelta(d))
             \/ UNCHANGED pvars
      PROVE PlanKept
  <2>1. UNCHANGED <<tvars, points, plan, sector, reserve>>
    BY <1>6 DEF UnlockPlan, ClearBudget, AcceptDelta, pvars, lvars
  <2> QED BY <2>1 DEF tvars, PlanKept, Counted, Known, Weight
<1> QED
  BY <1>1, <1>2, <1>3, <1>4, <1>5, <1>6 DEF PlanNext, PlanStep, LedgerStep

\* Then every sum the checks read is no larger than before.
LEMMA TakenShrinks ==
  ASSUME LedgerTyped, LedgerTyped', PlanKept,
         NEW S, NEW R, S \subseteq Counted, R \subseteq S \cap Counted'
  PROVE  /\ SumFunctionOnSet([t \in Tasks |-> Weight(t)], S) \in Nat
         /\ SumFunctionOnSet([t \in Tasks |-> Weight(t)'], R) \in Nat
         /\ SumFunctionOnSet([t \in Tasks |-> Weight(t)'], R)
            <= SumFunctionOnSet([t \in Tasks |-> Weight(t)], S)
<1> DEFINE w == [t \in Tasks |-> Weight(t)]
           v == [t \in Tasks |-> Weight(t)']
<1>1. S \subseteq Tasks /\ IsFiniteSet(S)
  BY FS_Subset DEF Counted, Known, LedgerTyped
<1>2. \A t \in Tasks : Weight(t) \in Nat
  BY DEF Weight, LedgerTyped, PlanTypeOK
<1>3. \A t \in R : Weight(t)' = Weight(t)
  BY DEF PlanKept
<1>4. \A t \in S : w[t] \in Nat
  BY <1>1, <1>2
<1>5. \A t \in R : v[t] \in Nat /\ v[t] <= w[t]
  BY <1>1, <1>2, <1>3
<1> HIDE DEF w, v
<1>6. SumFunctionOnSet(v, R) <= SumFunctionOnSet(w, S)
  BY <1>1, <1>4, <1>5, SumGrows
<1>7. SumFunctionOnSet(w, S) \in Nat
  BY <1>1, <1>4, SumTyped
<1>8. SumFunctionOnSet(v, R) \in Nat
  <2>1. IsFiniteSet(R)
    BY <1>1, FS_Subset
  <2> QED BY <1>5, <2>1, SumTyped
<1> QED BY <1>6, <1>7, <1>8 DEF w, v

\* No sector is ever overdrawn, in whatever order tasks are added, weighed
\* again, cancelled, reopened or replanned.  A task added without a bucket is
\* the exception: its working points count as its plan, and under a lock they
\* are not checked.
THEOREM SectorsWithinReserveHolds ==
  ASSUME 0 \notin Efforts
  PROVE  PlanSpec => []SectorsWithinReserve
<1>1. PlanInit => SectorsFit
  BY DEF PlanInit, Init, SectorsFit, Counted, Known
<1>2. LedgerTyped /\ LedgerTyped' /\ Weighed /\ SectorsFit /\ [PlanNext]_pvars
      => SectorsFit'
  <2> SUFFICES ASSUME LedgerTyped, LedgerTyped', Weighed, SectorsFit, PlanKept
               PROVE SectorsFit'
    BY ChecksOrKeeps DEF Fits
  <2> SUFFICES ASSUME NEW t \in Counted', sector'[t] # NoSector
               PROVE /\ sector'[t] \in DOMAIN reserve'
                     /\ Taken(InSector(sector[t]))' <= reserve'[sector'[t]]
    BY DEF SectorsFit
  <2> DEFINE s == sector[t]
  <2>1. t \in Counted /\ sector'[t] = s /\ s # NoSector /\ reserve' = reserve
    BY DEF PlanKept
  <2>2. s \in DOMAIN reserve /\ Taken(InSector(s)) <= reserve[s]
    BY <2>1 DEF SectorsFit
  <2>3. {u \in Counted' : sector'[u] = s} \subseteq InSector(s)
    BY DEF PlanKept, InSector
  <2>4. Taken(InSector(sector[t]))'
        = SumFunctionOnSet([u \in Tasks |-> Weight(u)'],
                           {u \in Counted' : sector'[u] = s})
    BY <2>1 DEF Taken, InSector
  <2>5. /\ Taken(InSector(s)) \in Nat /\ Taken(InSector(sector[t]))' \in Nat
        /\ Taken(InSector(sector[t]))' <= Taken(InSector(s))
    BY <2>3, <2>4, TakenShrinks DEF Taken, InSector
  <2>6. reserve[s] \in Nat
    BY <2>2 DEF LedgerTyped, PlanTypeOK
  <2> QED BY <2>1, <2>2, <2>5, <2>6
<1> QED
  BY <1>1, <1>2, LedgerTypedHolds, WeighedHolds, PTL
     DEF PlanSpec, SectorsWithinReserve

\* The budget goes on covering the plan over every verb but one: an accepted
\* proposal that gives points back is not compared with what is planned.
THEOREM BudgetCoversPlanHolds ==
  ASSUME 0 \notin Efforts
  PROVE  PlanSpec => BudgetCoversPlan
<1>1. LedgerTyped /\ LedgerTyped' /\ Weighed /\ [PlanNext]_pvars
      => [BudgetFits => BudgetFits' \/ \E d \in Deltas : d < 0 /\ AcceptDelta(d)]_pvars
  <2> SUFFICES ASSUME LedgerTyped, LedgerTyped', Weighed, PlanNext, BudgetFits,
                      ~\E d \in Deltas : d < 0 /\ AcceptDelta(d), PlanKept, ~Fits'
               PROVE BudgetFits'
    BY ChecksOrKeeps DEF Fits
  <2>1. SUFFICES ASSUME budget' # NoBudget
                 PROVE /\ Reserved' <= budget'
                       /\ Taken(InSector(NoSector))' <= budget' - Reserved'
                       /\ Taken(Counted)' <= budget'
    BY DEF BudgetFits
  <2>2. Reserved' = Reserved
    BY DEF PlanKept, Reserved
  <2>3. Reserved \in Nat
    BY SumTyped DEF Reserved, SumFunction, LedgerTyped, PlanTypeOK
  <2>4. /\ Taken(Counted) \in Nat /\ Taken(Counted)' \in Nat
        /\ Taken(Counted)' <= Taken(Counted)
    BY TakenShrinks DEF Taken, PlanKept
  <2>5. /\ Taken(InSector(NoSector)) \in Nat /\ Taken(InSector(NoSector))' \in Nat
        /\ Taken(InSector(NoSector))' <= Taken(InSector(NoSector))
    <3>1. {u \in Counted' : sector'[u] = NoSector} \subseteq InSector(NoSector)
      BY DEF PlanKept, InSector
    <3>2. InSector(NoSector) \subseteq Counted
      BY DEF InSector
    <3> QED BY <3>1, <3>2, TakenShrinks DEF Taken, InSector
  <2>6. /\ budget # NoBudget /\ budget \in Nat /\ budget' \in Nat
        /\ budget <= budget'
    <3>1. CASE \E d \in Deltas : AcceptDelta(d)
      <4>1. PICK d \in Deltas : AcceptDelta(d)
        BY <3>1
      <4>2. d \in Int /\ ~(d < 0)
        BY <4>1, PlanAssumption
      <4>3. budget # NoBudget /\ budget \in Nat
        BY <4>1 DEF AcceptDelta, LedgerTyped, PlanTypeOK
      <4>4. budget' = budget + d
        BY <4>1, <4>2, <4>3 DEF AcceptDelta, SumFloored
      <4> QED BY <4>2, <4>3, <4>4
    <3>2. CASE budget' = budget
      BY <2>1, <3>2 DEF LedgerTyped, PlanTypeOK
    <3>3. (\E d \in Deltas : AcceptDelta(d)) \/ budget' = budget
      <4>1. ASSUME NEW b \in Budgets, SetBudget(b) PROVE FALSE
        BY <4>1 DEF SetBudget
      <4>2. ~ClearBudget
        BY <2>1 DEF ClearBudget
      <4>3. ASSUME NEW t \in Tasks, PlanStep(t) PROVE budget' = budget
        BY <4>3 DEF PlanStep, lvars, SetEffort, PlanTask
      <4> QED BY <4>1, <4>2, <4>3 DEF PlanNext, LedgerStep, AddSector,
                                      SetReserve, LockPlan, UnlockPlan
    <3> QED BY <3>1, <3>2, <3>3
  <2> QED
    BY <2>2, <2>3, <2>4, <2>5, <2>6 DEF BudgetFits
<1> QED
  BY <1>1, LedgerTypedHolds, WeighedHolds, PTL DEF PlanSpec, BudgetCoversPlan
=============================================================================
