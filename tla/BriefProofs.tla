---------------------------- MODULE BriefProofs ----------------------------
(***************************************************************************)
(* Theorems of Brief.  Entries are removed highest position first, and       *)
(* each removal renumbers what cites a position: RenumberingFollows says,    *)
(* by a least counterexample over the sets of removed positions, that a      *)
(* position which is kept follows its entry and that a removed one is gone.  *)
(* On that rest the invariants: BriefInv (the shape of the records, and the  *)
(* phases), CitesInv (where a note points while others are still being       *)
(* rewritten) and MeantInv (what the open proposals name).  A position above *)
(* every removed one stays (ShiftAllAbove).                                  *)
(***************************************************************************)
EXTENDS Brief, FiniteSetTheorems, WellFoundedInduction, TLAPS

----------------------------------------------------------------------------
\* Facts about sets of positions, and a least counterexample.

LEMMA LeastNumber ==
  ASSUME NEW T, T \subseteq Nat, T # {}
  PROVE  \E n \in T : \A m \in T : n <= m
<1> DEFINE R == {ss \in Nat \X Nat : ss[1] < ss[2]}
<1>1. IsWellFoundedOn(R, Nat)
  BY NatLessThanWellFounded DEF OpToRel
<1> HIDE DEF R
<1>2. PICK n \in T : \A m \in T : ~(<<m, n>> \in R)
  BY <1>1, WFMin
<1>3. \A m \in T : ~(m < n)
  BY <1>2 DEF R
<1>4. \A m \in T : n <= m
  BY <1>3
<1> QED BY <1>4

LEMMA LeastSubset ==
  ASSUME NEW S, IsFiniteSet(S), NEW T, T \subseteq SUBSET S, T # {}
  PROVE  \E x \in T : \A y \in T : ~(y \subseteq x /\ y # x)
<1> DEFINE R == StrictSubsetOrdering(S)
<1>1. IsWellFoundedOn(R, SUBSET S)
  BY FS_StrictSubsetOrderingWellFounded, FS_FiniteSubsetsOfFinite
<1> HIDE DEF R
<1>2. PICK x \in T : \A y \in T : ~(<<y, x>> \in R)
  BY <1>1, WFMin
<1> QED BY <1>2 DEF R, StrictSubsetOrdering

LEMMA LowestIs ==
  ASSUME NEW s, s \subseteq Nat, s # {}
  PROVE  Min(s) \in s /\ \A r \in s : Min(s) <= r
<1>1. \E n \in s : \A r \in s : n <= r
  BY LeastNumber
<1> QED BY <1>1 DEF Min

----------------------------------------------------------------------------
\* The two recursions over the positions that are removed: g renumbers the
\* position n, h removes the entries of q; both take the lowest last.
Renumbers(n, g, D) ==
  g = [s \in D |-> IF s = {} THEN n ELSE Shift(g[s \ {Min(s)}], Min(s))]
Removes(q, h, D) ==
  h = [s \in D |-> IF s = {} THEN q ELSE RemoveAt(h[s \ {Min(s)}], Min(s))]

\* They are one recursion over pairs.
Both(n, q, g, D) ==
  g = [s \in D |-> IF s = {} THEN <<n, q>>
                   ELSE <<Shift(g[s \ {Min(s)}][1], Min(s)), RemoveAt(g[s \ {Min(s)}][2], Min(s))>>]

LEMMA BothExist ==
  ASSUME NEW n, NEW q, NEW D, D \subseteq Nat, IsFiniteSet(D)
  PROVE  \E g : Both(n, q, g, SUBSET D)
<1> DEFINE Upto(k) == {s \in SUBSET D : Cardinality(s) <= k}
           Bad == {k \in Nat : ~\E g : Both(n, q, g, Upto(k))}
<1>0. \A s \in SUBSET D : IsFiniteSet(s) /\ Cardinality(s) \in Nat
                          /\ Cardinality(s) <= Cardinality(D)
  BY FS_Subset, FS_CardinalityType
<1>1. SUFFICES ASSUME Bad # {} PROVE FALSE
  <2>1. Cardinality(D) \in Nat
    BY FS_CardinalityType
  <2>2. Upto(Cardinality(D)) = SUBSET D
    BY <1>0
  <2> HIDE DEF Upto
  <2>3. (Bad = {}) => \E g : Both(n, q, g, Upto(Cardinality(D)))
    BY <2>1
  <2> QED BY <2>2, <2>3
<1>2. PICK k \in Bad : \A m \in Bad : k <= m
  <2> HIDE DEF Bad
  <2>1. Bad \subseteq Nat
    BY DEF Bad
  <2> QED BY <1>1, <2>1, LeastNumber
<1>3. \A s \in SUBSET D : s # {} =>
         /\ Min(s) \in s /\ s \ {Min(s)} \in SUBSET D
         /\ Cardinality(s \ {Min(s)}) = Cardinality(s) - 1
  <2> TAKE s \in SUBSET D
  <2> HAVE s # {}
  <2>1. Min(s) \in s
    BY LowestIs
  <2> QED BY <1>0, <2>1, FS_RemoveElement
<1>4. CASE k = 0
  <2> DEFINE g == [s \in Upto(0) |-> <<n, q>>]
  <2>1. Upto(0) = {{}}
    BY <1>0, FS_EmptySet
  <2> HIDE DEF Upto
  <2>2. Both(n, q, g, Upto(0))
    BY <2>1 DEF Both
  <2> QED BY <1>2, <1>4, <2>2
<1>5. CASE k # 0
  <2>1. k - 1 \in Nat /\ k \in Nat /\ ~(k - 1 \in Bad)
    <3> HIDE DEF Bad
    <3>1. k \in Nat
      BY DEF Bad
    <3> QED BY <1>2, <1>5, <3>1
  <2>2. PICK g : Both(n, q, g, Upto(k - 1))
    BY <2>1
  <2> DEFINE h == [s \in Upto(k) |->
                     IF s = {} THEN <<n, q>>
                     ELSE <<Shift(g[s \ {Min(s)}][1], Min(s)),
                            RemoveAt(g[s \ {Min(s)}][2], Min(s))>>]
  <2>3. \A s \in Upto(k) : s # {} => s \ {Min(s)} \in Upto(k - 1)
    BY <1>0, <1>3, <2>1
  <2>4. Upto(k - 1) \subseteq Upto(k)
    BY <1>0, <2>1
  <2> HIDE DEF Upto
  <2>5. \A u \in Upto(k - 1) : h[u] = g[u]
    BY <2>2, <2>4 DEF Both
  <2>6. h = [s \in Upto(k) |->
               IF s = {} THEN <<n, q>>
               ELSE <<Shift(h[s \ {Min(s)}][1], Min(s)), RemoveAt(h[s \ {Min(s)}][2], Min(s))>>]
    BY <2>3, <2>5
  <2> HIDE DEF h
  <2>7. Both(n, q, h, Upto(k))
    BY <2>6 DEF Both
  <2> QED BY <1>2, <2>7
<1> QED BY <1>4, <1>5

LEMMA ShiftAllIs ==
  ASSUME NEW n, NEW D, D \subseteq Nat, IsFiniteSet(D)
  PROVE  \E g : Renumbers(n, g, SUBSET D) /\ ShiftAll(n, D) = g[D]
<1>1. ShiftAll(n, D) = (CHOOSE g : Renumbers(n, g, SUBSET D))[D]
  BY DEF ShiftAll, MapThenFoldSet, Renumbers, LastRemoved
<1>2. PICK g : Both(n, <<>>, g, SUBSET D)
  BY BothExist
<1> DEFINE h == [s \in SUBSET D |-> g[s][1]]
<1>3. h = [s \in SUBSET D |-> IF s = {} THEN n ELSE Shift(h[s \ {Min(s)}], Min(s))]
  <2>1. \A s \in SUBSET D : s \ {Min(s)} \in SUBSET D
    OBVIOUS
  <2>2. \A s \in SUBSET D : h[s] = IF s = {} THEN n ELSE Shift(h[s \ {Min(s)}], Min(s))
    <3> TAKE s \in SUBSET D
    <3> DEFINE u == s \ {Min(s)}
    <3>1. h[u] = g[u][1] /\ h[s] = g[s][1]
      BY <2>1
    <3>2. g[s] = IF s = {} THEN <<n, <<>>>>
                 ELSE <<Shift(g[u][1], Min(s)), RemoveAt(g[u][2], Min(s))>>
      BY <1>2 DEF Both
    <3> HIDE DEF h, u
    <3>3. g[s][1] = IF s = {} THEN n ELSE Shift(g[u][1], Min(s))
      BY <3>2
    <3> QED BY <3>1, <3>3 DEF u
  <2> QED BY <2>2
<1> HIDE DEF h
<1>4. Renumbers(n, h, SUBSET D)
  BY <1>3 DEF Renumbers
<1> QED BY <1>1, <1>4

LEMMA RemainingIs ==
  ASSUME NEW q, NEW D, D \subseteq Nat, IsFiniteSet(D)
  PROVE  \E h : Removes(q, h, SUBSET D) /\ Remaining(q, D) = h[D]
<1>1. Remaining(q, D) = (CHOOSE h : Removes(q, h, SUBSET D))[D]
  BY DEF Remaining, MapThenFoldSet, Removes
<1>2. PICK g : Both(0, q, g, SUBSET D)
  BY BothExist
<1> DEFINE h == [s \in SUBSET D |-> g[s][2]]
<1>3. h = [s \in SUBSET D |-> IF s = {} THEN q ELSE RemoveAt(h[s \ {Min(s)}], Min(s))]
  <2>1. \A s \in SUBSET D : s \ {Min(s)} \in SUBSET D
    OBVIOUS
  <2>2. \A s \in SUBSET D : h[s] = IF s = {} THEN q ELSE RemoveAt(h[s \ {Min(s)}], Min(s))
    <3> TAKE s \in SUBSET D
    <3> DEFINE u == s \ {Min(s)}
    <3>1. h[u] = g[u][2] /\ h[s] = g[s][2]
      BY <2>1
    <3>2. g[s] = IF s = {} THEN <<0, q>>
                 ELSE <<Shift(g[u][1], Min(s)), RemoveAt(g[u][2], Min(s))>>
      BY <1>2 DEF Both
    <3> HIDE DEF h, u
    <3>3. g[s][2] = IF s = {} THEN q ELSE RemoveAt(g[u][2], Min(s))
      BY <3>2
    <3> QED BY <3>1, <3>3 DEF u
  <2> QED BY <2>2
<1> HIDE DEF h
<1>4. Removes(q, h, SUBSET D)
  BY <1>3 DEF Removes
<1> QED BY <1>1, <1>4

----------------------------------------------------------------------------
\* A position stays a position, or is gone; what is gone stays gone.
Cites == Positions \cup {Uncited, Gone}

LEMMA PositionsAre ==
  /\ Cardinality(Entries) \in Nat /\ Gone \in Nat /\ Gone \notin Positions
  /\ Positions \subseteq Nat /\ IsFiniteSet(Positions) /\ Uncited = 0
  /\ \A n \in Positions : 1 <= n /\ n < Gone
<1>1. Cardinality(Entries) \in Nat
  BY FS_CardinalityType, BriefAssumption DEF BriefAssumption
<1>2. IsFiniteSet(Positions)
  BY <1>1, FS_Interval DEF Positions
<1> QED BY <1>1, <1>2 DEF Gone, Positions, Uncited

LEMMA ShiftTyped ==
  ASSUME NEW n \in Cites, NEW r \in Positions
  PROVE  Shift(n, r) \in Cites /\ (n \in {Uncited, Gone} => Shift(n, r) = n)
<1>1. /\ Cardinality(Entries) \in Nat /\ Gone = Cardinality(Entries) + 1 /\ Uncited = 0
      /\ \A m \in Nat : m \in Positions <=> 1 <= m /\ m <= Cardinality(Entries)
  BY PositionsAre DEF Gone, Positions
<1>2. n \in Nat /\ r \in Nat /\ 1 <= r /\ r <= Cardinality(Entries)
  BY <1>1, PositionsAre DEF Cites
<1>3. n > r /\ n # Gone => n - 1 \in Positions
  BY <1>1, <1>2 DEF Cites
<1> QED BY <1>1, <1>2, <1>3 DEF Shift, Cites

LEMMA ShiftAllTyped ==
  ASSUME NEW n \in Cites, NEW D, D \subseteq Positions
  PROVE  ShiftAll(n, D) \in Cites /\ (n \in {Uncited, Gone} => ShiftAll(n, D) = n)
<1>0. D \subseteq Nat /\ IsFiniteSet(D)
  BY PositionsAre, FS_Subset
<1>1. PICK g : Renumbers(n, g, SUBSET D) /\ ShiftAll(n, D) = g[D]
  BY <1>0, ShiftAllIs
<1> DEFINE Kept(s) == g[s] \in Cites /\ (n \in {Uncited, Gone} => g[s] = n)
           Bad == {s \in SUBSET D : ~Kept(s)}
<1>2. SUFFICES ASSUME Bad # {} PROVE FALSE
  BY <1>1
<1>3. PICK s \in Bad : \A u \in Bad : ~(u \subseteq s /\ u # s)
  <2>0. IsFiniteSet(D)
    BY <1>0
  <2>1. Bad \subseteq SUBSET D
    OBVIOUS
  <2> HIDE DEF Bad
  <2> QED BY <1>2, <2>0, <2>1, LeastSubset
<1>4. s \in SUBSET D /\ ~Kept(s)
  OBVIOUS
<1>5. g[s] = IF s = {} THEN n ELSE Shift(g[s \ {Min(s)}], Min(s))
  BY <1>1, <1>4 DEF Renumbers
<1>6. CASE s = {}
  BY <1>4, <1>5, <1>6
<1>7. CASE s # {}
  <2> DEFINE u == s \ {Min(s)}
  <2>1. Min(s) \in s /\ Min(s) \in Positions
    BY <1>0, <1>4, <1>7, LowestIs
  <2>2. Kept(u)
    BY <1>3, <1>4, <2>1
  <2>3. g[s] = Shift(g[u], Min(s))
    BY <1>5, <1>7
  <2> HIDE DEF u
  <2> QED BY <1>4, <2>1, <2>2, <2>3, ShiftTyped
<1> QED BY <1>6, <1>7

\* Removing entries below a position leaves that position as it is.
LEMMA ShiftAllAbove ==
  ASSUME NEW n \in Nat, NEW D, D \subseteq Positions, \A r \in D : ~(r <= n)
  PROVE  ShiftAll(n, D) = n
<1>0. D \subseteq Nat /\ IsFiniteSet(D)
  BY PositionsAre, FS_Subset
<1>1. PICK g : Renumbers(n, g, SUBSET D) /\ ShiftAll(n, D) = g[D]
  BY <1>0, ShiftAllIs
<1> DEFINE Bad == {s \in SUBSET D : g[s] # n}
<1>2. SUFFICES ASSUME Bad # {} PROVE FALSE
  BY <1>1
<1>3. PICK s \in Bad : \A u \in Bad : ~(u \subseteq s /\ u # s)
  <2>0. IsFiniteSet(D)
    BY <1>0
  <2>1. Bad \subseteq SUBSET D
    OBVIOUS
  <2> HIDE DEF Bad
  <2> QED BY <1>2, <2>0, <2>1, LeastSubset
<1>4. s \in SUBSET D /\ g[s] # n
  OBVIOUS
<1>5. g[s] = IF s = {} THEN n ELSE Shift(g[s \ {Min(s)}], Min(s))
  BY <1>1, <1>4 DEF Renumbers
<1>6. s # {}
  BY <1>4, <1>5
<1>7. Min(s) \in s /\ Min(s) \in Nat /\ ~(Min(s) <= n)
  BY <1>0, <1>4, <1>6, LowestIs
<1>8. g[s \ {Min(s)}] = n
  BY <1>3, <1>4, <1>7
<1>9. g[s] = Shift(n, Min(s))
  BY <1>5, <1>6, <1>8
<1>10. Shift(n, Min(s)) = n
  BY <1>7 DEF Shift
<1> QED BY <1>4, <1>9, <1>10

----------------------------------------------------------------------------
\* An entry is taken out of a list: what sat below moves up.
LEMMA Joined ==
  ASSUME NEW S, NEW a \in Seq(S), NEW b \in Seq(S)
  PROVE  /\ a \o b \in Seq(S) /\ Len(a \o b) = Len(a) + Len(b)
         /\ \A k \in 1..(Len(a) + Len(b)) :
              (a \o b)[k] = IF k <= Len(a) THEN a[k] ELSE b[k - Len(a)]
<1>1. a \o b \in Seq(S)
  OBVIOUS
<1>2. Len(a \o b) = Len(a) + Len(b)
  OBVIOUS
<1>3. \A k \in 1..(Len(a) + Len(b)) :
        (a \o b)[k] = IF k <= Len(a) THEN a[k] ELSE b[k - Len(a)]
  OBVIOUS
<1> QED BY <1>1, <1>2, <1>3

LEMMA RemoveAtIs ==
  ASSUME NEW S, NEW q \in Seq(S), NEW r \in 1..Len(q)
  PROVE  /\ RemoveAt(q, r) \in Seq(S) /\ Len(RemoveAt(q, r)) = Len(q) - 1
         /\ \A k \in 1..Len(q) : k < r => RemoveAt(q, r)[k] = q[k]
         /\ \A k \in 1..Len(q) : k > r => RemoveAt(q, r)[k - 1] = q[k]
<1> DEFINE a == SubSeq(q, 1, r - 1)
           b == SubSeq(q, r + 1, Len(q))
<1>1. a \in Seq(S) /\ Len(a) = r - 1 /\ \A k \in 1..(r - 1) : a[k] = q[k]
  OBVIOUS
<1>2. b \in Seq(S) /\ Len(b) = Len(q) - r /\ \A k \in 1..(Len(q) - r) : b[k] = q[r + k]
  OBVIOUS
<1> HIDE DEF a, b
<1>3. /\ a \o b \in Seq(S) /\ Len(a \o b) = Len(q) - 1
      /\ \A k \in 1..(Len(q) - 1) : (a \o b)[k] = IF k <= r - 1 THEN a[k] ELSE b[k - (r - 1)]
  <2>0. a \in Seq(S) /\ b \in Seq(S)
    BY <1>1, <1>2
  <2>1. /\ a \o b \in Seq(S) /\ Len(a \o b) = Len(a) + Len(b)
        /\ \A k \in 1..(Len(a) + Len(b)) :
             (a \o b)[k] = IF k <= Len(a) THEN a[k] ELSE b[k - Len(a)]
    BY <2>0, Joined
  <2>2. Len(a) + Len(b) = Len(q) - 1
    BY <1>1, <1>2
  <2> QED BY <1>1, <2>1, <2>2
<1>4. RemoveAt(q, r) = a \o b
  BY DEF RemoveAt, a, b
<1>5. \A k \in 1..Len(q) : k < r => (a \o b)[k] = q[k]
  BY <1>1, <1>3
<1>6. \A k \in 1..Len(q) : k > r => (a \o b)[k - 1] = q[k]
  <2> TAKE k \in 1..Len(q)
  <2> HAVE k > r
  <2>1. k - 1 \in 1..(Len(q) - 1) /\ ~(k - 1 <= r - 1) /\ k - r \in 1..(Len(q) - r)
        /\ (k - 1) - (r - 1) = k - r /\ r + (k - r) = k
    OBVIOUS
  <2>2. (a \o b)[k - 1] = b[k - r]
    BY <1>3, <2>1
  <2> QED BY <1>2, <2>1, <2>2
<1> QED BY <1>3, <1>4, <1>5, <1>6

LEMMA RemoveAtInjective ==
  ASSUME NEW S, NEW q \in Seq(S), NEW r \in 1..Len(q),
         \A i, j \in 1..Len(q) : q[i] = q[j] => i = j
  PROVE  \A i, j \in 1..(Len(q) - 1) : RemoveAt(q, r)[i] = RemoveAt(q, r)[j] => i = j
<1> DEFINE t == RemoveAt(q, r)
           from(k) == IF k < r THEN k ELSE k + 1
<1>0. /\ \A m \in 1..Len(q) : m < r => t[m] = q[m]
      /\ \A m \in 1..Len(q) : m > r => t[m - 1] = q[m]
  BY RemoveAtIs
<1> HIDE DEF t
<1>1. \A k \in 1..(Len(q) - 1) : from(k) \in 1..Len(q) /\ t[k] = q[from(k)]
  <2> TAKE k \in 1..(Len(q) - 1)
  <2>1. CASE k < r
    BY <1>0, <2>1
  <2>2. CASE ~(k < r)
    <3>1. k + 1 \in 1..Len(q) /\ k + 1 > r /\ (k + 1) - 1 = k
      BY <2>2
    <3>2. t[k] = q[k + 1]
      BY <1>0, <3>1
    <3> QED BY <2>2, <3>1, <3>2
  <2> QED BY <2>1, <2>2
<1>2. \A i, j \in 1..(Len(q) - 1) : from(i) = from(j) => i = j
  OBVIOUS
<1> HIDE DEF from
<1>3. \A i, j \in 1..(Len(q) - 1) : t[i] = t[j] => i = j
  BY <1>1, <1>2
<1> QED BY <1>3 DEF t

----------------------------------------------------------------------------
\* The removal of s from q, as far as it got: what it has left, and where g
\* takes the position n.
Removed(q, S, s, rest) ==
  /\ rest \in Seq(S) /\ Len(rest) <= Len(q)
  /\ \A i, j \in 1..Len(rest) : rest[i] = rest[j] => i = j
  \* Above every removed position nothing has moved.
  /\ \A k \in 1..Len(q) : (\A r \in s : k < r) => k <= Len(rest) /\ rest[k] = q[k]
Follows(q, s, rest, n, at) ==
  /\ n \in s => at = Gone
  /\ n \notin s => at \in 1..Len(rest) /\ rest[at] = q[n]
  /\ (\A r \in s : n < r) => at = n
  /\ n \notin s => \A l \in 1..Len(q) : (\A r \in s : l < r) /\ l < n => l < at

\* One more position, below those removed so far.
LEMMA OneMoreRemoved ==
  ASSUME NEW S, NEW q \in Seq(S), NEW s, NEW x \in 1..Len(q), \A r \in s : x < r,
         s \subseteq Nat, NEW rest, Removed(q, S, s, rest)
  PROVE  /\ x \in 1..Len(rest) /\ Len(RemoveAt(rest, x)) = Len(rest) - 1
         /\ Removed(q, S, s \cup {x}, RemoveAt(rest, x))
<1> DEFINE t == RemoveAt(rest, x)
<1>1. rest \in Seq(S) /\ Len(rest) <= Len(q)
      /\ \A i, j \in 1..Len(rest) : rest[i] = rest[j] => i = j
  BY DEF Removed
<1>2. \A k \in 1..Len(q) : (\A r \in s : k < r) => k <= Len(rest) /\ rest[k] = q[k]
  BY DEF Removed
<1>3. x \in 1..Len(rest)
  <2>1. x <= Len(rest)
    BY DEF Removed
  <2> QED BY <1>1, <2>1
<1>4. /\ t \in Seq(S) /\ Len(t) = Len(rest) - 1
      /\ \A k \in 1..Len(rest) : k < x => t[k] = rest[k]
  BY <1>1, <1>3, RemoveAtIs
<1>5. \A i, j \in 1..(Len(rest) - 1) : t[i] = t[j] => i = j
  BY <1>1, <1>3, RemoveAtInjective
<1> HIDE DEF t
<1>6. \A k \in 1..Len(q) : (\A r \in s \cup {x} : k < r) => k <= Len(t) /\ t[k] = q[k]
  <2> TAKE k \in 1..Len(q)
  <2> HAVE \A r \in s \cup {x} : k < r
  <2>1. k < x /\ k <= Len(rest) /\ rest[k] = q[k]
    BY <1>2
  <2>2. k \in 1..Len(rest) /\ t[k] = rest[k]
    BY <1>1, <1>4, <2>1
  <2>3. Len(t) = Len(rest) - 1 /\ Len(rest) \in Nat /\ x \in 1..Len(rest) /\ k \in Nat
    BY <1>1, <1>3, <1>4
  <2>4. k <= Len(t)
    BY ONLY <2>1, <2>3
  <2> QED BY ONLY <2>1, <2>2, <2>4
<1>7. Removed(q, S, s \cup {x}, t)
  <2>0. Len(t) = Len(rest) - 1 /\ Len(rest) \in Nat /\ Len(q) \in Nat /\ Len(rest) <= Len(q)
    BY <1>1, <1>4
  <2>1. Len(t) <= Len(q) /\ \A i, j \in 1..Len(t) : t[i] = t[j] => i = j
    BY ONLY <1>5, <2>0
  <2> QED BY <1>4, <1>6, <2>1 DEF Removed
<1> QED BY <1>3, <1>4, <1>7 DEF t

LEMMA OneMoreFollows ==
  ASSUME NEW S, NEW q \in Seq(S), Len(q) < Gone, NEW s, NEW x \in 1..Len(q), \A r \in s : x < r,
         s \subseteq Nat, NEW rest, Removed(q, S, s, rest),
         NEW n \in 1..Len(q), NEW at, Follows(q, s, rest, n, at)
  PROVE  Follows(q, s \cup {x}, RemoveAt(rest, x), n, Shift(at, x))
<1>0. x \in 1..Len(rest) /\ Len(RemoveAt(rest, x)) = Len(rest) - 1
  <2>1. rest \in Seq(S) /\ x <= Len(rest)
    BY DEF Removed
  <2>2. x \in 1..Len(rest)
    BY <2>1
  <2> QED BY <2>1, <2>2, RemoveAtIs
<1> DEFINE t == RemoveAt(rest, x)
           to == Shift(at, x)
<1>1. /\ rest \in Seq(S) /\ Len(rest) \in Nat /\ Len(rest) <= Len(q) /\ x \in 1..Len(rest)
      /\ Len(t) = Len(rest) - 1 /\ Gone \in Nat
  <2>1. x \in 1..Len(rest) /\ Len(t) = Len(rest) - 1
    BY <1>0
  <2> HIDE DEF t
  <2>2. rest \in Seq(S) /\ Len(rest) <= Len(q)
    BY DEF Removed
  <2> QED BY <2>1, <2>2, PositionsAre
<1>2. /\ \A k \in 1..Len(rest) : k < x => t[k] = rest[k]
      /\ \A k \in 1..Len(rest) : k > x => t[k - 1] = rest[k]
  BY <1>1, RemoveAtIs
<1>3. x \notin s
  OBVIOUS
<1> HIDE DEF t
<1>4. CASE n \in s
  <2>1. at = Gone /\ x < Gone /\ x < n
    BY <1>1, <1>4 DEF Follows
  <2>2. to = Gone
    BY <1>1, <2>1 DEF Shift
  <2> HIDE DEF to
  <2> QED BY <1>4, <2>1, <2>2 DEF Follows, t, to
<1>5. CASE n = x
  <2>1. at = n
    BY <1>5 DEF Follows
  <2>2. to = Gone
    BY <1>5, <2>1 DEF Shift
  <2> HIDE DEF to
  <2> QED BY <1>5, <2>2 DEF Follows, t, to
<1>6. CASE n \notin s /\ n < x
  <2>1. \A r \in s : n < r
    <3> TAKE r \in s
    <3>1. n < x /\ x < r /\ r \in Nat
      BY <1>6
    <3> QED BY <3>1
  <2>2. at = n /\ at \in 1..Len(rest) /\ rest[at] = q[n]
    BY <1>6, <2>1 DEF Follows
  <2>3. to = n
    BY <1>6, <2>2 DEF Shift
  <2>4. to \in 1..Len(t) /\ t[to] = q[n]
    BY <1>1, <1>2, <1>6, <2>2, <2>3
  <2> HIDE DEF to
  <2>5. n \notin s \cup {x}
    BY <1>6
  <2>6. \A l \in 1..Len(q) : l < n => l < to
    BY <2>3
  <2> QED BY <2>3, <2>4, <2>5, <2>6 DEF Follows, t, to
<1>7. CASE n \notin s /\ n > x
  <2>1. at \in 1..Len(rest) /\ rest[at] = q[n]
        /\ \A l \in 1..Len(q) : (\A r \in s : l < r) /\ l < n => l < at
    BY <1>7 DEF Follows
  <2>2. x < at
    BY <1>7, <2>1
  <2>3. at # Gone /\ at # x /\ to = at - 1
    BY <1>1, <2>1, <2>2 DEF Shift
  <2>4. to \in 1..Len(t) /\ t[to] = q[n]
    BY <1>1, <1>2, <2>1, <2>2, <2>3
  <2>5. x <= to
    BY <2>1, <2>2, <2>3
  <2> HIDE DEF to
  <2>6. \A l \in 1..Len(q) : (\A r \in s \cup {x} : l < r) /\ l < n => l < to
    <3> TAKE l \in 1..Len(q)
    <3> HAVE (\A r \in s \cup {x} : l < r) /\ l < n
    <3>1. l < x
      OBVIOUS
    <3> QED BY <2>4, <2>5, <3>1
  <2>7. ~(\A r \in s \cup {x} : n < r)
    BY <1>7
  <2>8. n \notin s \cup {x}
    BY <1>7
  <2> QED BY <2>4, <2>6, <2>7, <2>8 DEF Follows, t, to
<1>8. n = x \/ n < x \/ n > x
  <2>1. n \in Nat /\ x \in Nat
    OBVIOUS
  <2> QED BY <2>1
<1> QED BY <1>4, <1>5, <1>6, <1>7, <1>8

LEMMA LeastAmong ==
  ASSUME NEW S, IsFiniteSet(S)
  PROVE  \A B : B \subseteq SUBSET S /\ B # {} =>
           \E s \in B : \A u \in B : ~(u \subseteq s /\ u # s)
BY LeastSubset

\* Removing entries highest position first: a position that is kept follows
\* its entry to where it is now, and a position that is removed is gone.
LEMMA RenumberingFollows ==
  ASSUME NEW q \in Seq(Entries), \A i, j \in 1..Len(q) : q[i] = q[j] => i = j,
         Len(q) < Gone, NEW D, D \subseteq 1..Len(q)
  PROVE  /\ Remaining(q, D) \in Seq(Entries) /\ Len(Remaining(q, D)) <= Len(q)
         /\ \A i, j \in 1..Len(Remaining(q, D)) :
              Remaining(q, D)[i] = Remaining(q, D)[j] => i = j
         /\ \A n \in D : ShiftAll(n, D) = Gone
         /\ \A n \in (1..Len(q)) \ D : /\ ShiftAll(n, D) \in 1..Len(Remaining(q, D))
                                       /\ Remaining(q, D)[ShiftAll(n, D)] = q[n]
<1>0. D \subseteq Nat /\ IsFiniteSet(D)
  <2>1. 1 \in Int /\ Len(q) \in Int
    OBVIOUS
  <2>2. IsFiniteSet(1..Len(q))
    BY <2>1, FS_Interval
  <2>3. IsFiniteSet(D)
    BY <2>2, FS_Subset
  <2>4. D \subseteq Nat
    OBVIOUS
  <2> QED BY <2>3, <2>4
<1>8. \A B : B \subseteq SUBSET D /\ B # {} =>
        \E s \in B : \A u \in B : ~(u \subseteq s /\ u # s)
  <2>1. IsFiniteSet(D)
    BY <1>0
  <2> QED BY ONLY <2>1, LeastAmong
<1>1. PICK h : Removes(q, h, SUBSET D) /\ Remaining(q, D) = h[D]
  BY <1>0, RemainingIs
<1>2. ASSUME NEW n \in 1..Len(q)
      PROVE  Removed(q, Entries, D, h[D]) /\ Follows(q, D, h[D], n, ShiftAll(n, D))
  <2>1. PICK g : Renumbers(n, g, SUBSET D) /\ ShiftAll(n, D) = g[D]
    BY <1>0, ShiftAllIs
  <2> DEFINE Fine(s) == Removed(q, Entries, s, h[s]) /\ Follows(q, s, h[s], n, g[s])
             Bad == {s \in SUBSET D : ~Fine(s)}
  <2>2. SUFFICES ASSUME Bad # {} PROVE FALSE
    BY <2>1
  <2>3. PICK s \in Bad : \A u \in Bad : ~(u \subseteq s /\ u # s)
    <3>1. Bad \subseteq SUBSET D
      OBVIOUS
    <3> HIDE DEF Bad
    <3> QED BY ONLY <2>2, <3>1, <1>8
  <2>4. s \in SUBSET D /\ ~Fine(s)
    OBVIOUS
  <2>5. /\ g[s] = IF s = {} THEN n ELSE Shift(g[s \ {Min(s)}], Min(s))
        /\ h[s] = IF s = {} THEN q ELSE RemoveAt(h[s \ {Min(s)}], Min(s))
    BY <1>1, <2>1, <2>4 DEF Renumbers, Removes
  <2>6. CASE s = {}
    <3>1. g[s] = n /\ h[s] = q
      BY <2>5, <2>6
    <3>2. Removed(q, Entries, {}, q) /\ Follows(q, {}, q, n, n)
      BY DEF Removed, Follows
    <3> QED BY <2>4, <2>6, <3>1, <3>2
  <2>7. CASE s # {}
    <3> DEFINE x == Min(s)
               u == s \ {x}
    <3>1. x \in s /\ \A r \in s : x <= r
      BY <1>0, <2>4, <2>7, LowestIs
    <3>2. x \in 1..Len(q) /\ u \subseteq Nat /\ s = u \cup {x}
      BY <1>0, <2>4, <3>1
    <3>3. \A r \in u : x < r
      <4> TAKE r \in u
      <4>1. x <= r /\ x # r /\ r \in Nat /\ x \in Nat
        BY <3>1, <3>2
      <4> QED BY <4>1
    <3>4. Fine(u)
      BY <2>3, <2>4, <3>1
    <3>5. g[s] = Shift(g[u], x) /\ h[s] = RemoveAt(h[u], x)
      BY <2>5, <2>7
    <3> HIDE DEF x, u
    <3>6. Removed(q, Entries, u \cup {x}, RemoveAt(h[u], x))
      BY <3>2, <3>3, <3>4, OneMoreRemoved
    <3>7. Follows(q, u \cup {x}, RemoveAt(h[u], x), n, Shift(g[u], x))
      BY <3>2, <3>3, <3>4, OneMoreFollows
    <3> QED BY <2>4, <3>2, <3>5, <3>6, <3>7
  <2> QED BY <2>6, <2>7
<1>3. Removed(q, Entries, D, h[D])
  <2>1. CASE q = <<>>
    <3>1. D = {}
      BY <2>1
    <3>2. h[D] = q
      BY <1>1, <3>1 DEF Removes
    <3> QED BY <3>2, <2>1 DEF Removed
  <2>2. CASE q # <<>>
    <3>1. 1 \in 1..Len(q)
      BY <2>2
    <3> QED BY <1>2, <3>1
  <2> QED BY <2>1, <2>2
<1>4. \A n \in D : ShiftAll(n, D) = Gone
  BY <1>2 DEF Follows
<1>5. \A n \in (1..Len(q)) \ D : ShiftAll(n, D) \in 1..Len(h[D]) /\ h[D][ShiftAll(n, D)] = q[n]
  BY <1>2 DEF Follows
<1> QED BY <1>1, <1>3, <1>4, <1>5 DEF Removed

----------------------------------------------------------------------------
\* The section is a list of distinct entries, so it never outgrows them.
LEMMA SectionFits ==
  ASSUME NEW q \in Seq(Entries), \A i, j \in 1..Len(q) : q[i] = q[j] => i = j
  PROVE  /\ DOMAIN q = 1..Len(q) /\ Len(q) \in Nat /\ Len(q) < Gone
         /\ 1..Len(q) \subseteq Positions
<1>1. Cardinality(Entries) \in Nat /\ IsFiniteSet(Entries)
  BY PositionsAre, BriefAssumption DEF BriefAssumption
<1>2. IsFiniteSet(1..Len(q)) /\ Cardinality(1..Len(q)) = Len(q)
  <2>1. 1 \in Int /\ Len(q) \in Int /\ Len(q) >= 0
    OBVIOUS
  <2>2. IsFiniteSet(1..Len(q))
    BY <2>1, FS_Interval
  <2>3. Cardinality(1..Len(q)) = IF 1 > Len(q) THEN 0 ELSE Len(q) - 1 + 1
    BY <2>1, FS_Interval
  <2> QED BY <2>1, <2>2, <2>3
<1>3. q \in [1..Len(q) -> Entries]
  OBVIOUS
<1>4. ~(Cardinality(Entries) < Cardinality(1..Len(q)))
  BY <1>1, <1>2, <1>3, FS_PigeonHole
<1> QED BY <1>1, <1>2, <1>4 DEF Gone, Positions

\* The state of the brief, in parts: the section, the notes, the proposals.
SectionOK == /\ needs \in Seq(Entries)
             /\ \A i, j \in 1..Len(needs) : needs[i] = needs[j] => i = j
NotesOK == cite \in [Unknowns -> Cites] /\ about \in [Unknowns -> Entries]
AsksOK == /\ asks \in Seq(Ask) /\ Len(asks) <= MaxAsks
          /\ moved \subseteq 1..MaxAsks /\ strays \subseteq 1..MaxAsks

\* The removal being written names positions of the section, and the
\* proposal it carries out, if any.
WriteOK ==
  /\ write \in [on : BOOLEAN, drop : SUBSET Positions, todo : SUBSET Unknowns, ask : 0..MaxAsks]
  /\ write.on => /\ write.drop \subseteq 1..Len(needs)
                 /\ write.ask # 0 => /\ write.ask \in 1..Len(asks)
                                     /\ write.drop = {asks[write.ask].at}

\* Phases own disjoint positions of the section, each holding an entry the
\* phase claimed: also while notes are being rewritten.
PhasesOK ==
  /\ owned \in [Phases -> SUBSET Positions] /\ claimed \in [Phases -> SUBSET Entries]
  /\ \A p \in Phases : \A n \in owned[p] : n \in 1..Len(needs) /\ needs[n] \in claimed[p]
  /\ \A p, r \in Phases : p # r => owned[p] \cap owned[r] = {}

BriefInv == SectionOK /\ NotesOK /\ AsksOK /\ WriteOK /\ PhasesOK

LEMMA BriefInvStart == Init => BriefInv
<1> SUFFICES ASSUME Init PROVE BriefInv
  OBVIOUS
<1>1. SectionOK
  <2>1. Start \in Seq(Entries) /\ \A i, j \in DOMAIN Start : Start[i] = Start[j] => i = j
    BY BriefAssumption DEF BriefAssumption, IsInjective
  <2> QED BY <2>1 DEF Init, SectionOK
<1>2. (CHOOSE e \in Entries : TRUE) \in Entries
  BY BriefAssumption DEF BriefAssumption
<1>3. NotesOK
  BY <1>2 DEF Init, NotesOK, Cites
<1>4. AsksOK
  BY BriefAssumption DEF Init, AsksOK, BriefAssumption
<1>5. WriteOK
  BY BriefAssumption DEF Init, WriteOK, Idle, BriefAssumption
<1>6. PhasesOK
  BY DEF Init, PhasesOK
<1> QED BY <1>1, <1>3, <1>4, <1>5, <1>6 DEF BriefInv

\* Deciding a proposal changes nothing but states.
LEMMA DecidedIs ==
  ASSUME asks \in Seq(Ask), NEW i \in 1..Len(asks), NEW v \in {"accepted", "rejected"}
  PROVE  /\ Decided(i, v) \in Seq(Ask) /\ Len(Decided(i, v)) = Len(asks)
         /\ \A j \in 1..Len(asks) :
              /\ Decided(i, v)[j].at = asks[j].at
              /\ Decided(i, v)[j].state = "open" =>
                   Decided(i, v)[j] = asks[j] /\ ~SameAsk(i, j)
<1>1. \A j \in 1..Len(asks) : asks[j] \in Ask
  OBVIOUS
<1>2. \A a \in Ask : [a EXCEPT !.state = v] \in Ask /\ [a EXCEPT !.state = v].at = a.at
                     /\ [a EXCEPT !.state = v].state = v
  BY DEF Ask
<1>3. DOMAIN asks = 1..Len(asks) /\ Len(asks) \in Nat
  OBVIOUS
<1> DEFINE d == Decided(i, v)
<1>4. d = [j \in 1..Len(asks) |-> IF Open(j) /\ SameAsk(i, j)
                                  THEN [asks[j] EXCEPT !.state = v] ELSE asks[j]]
  BY <1>3 DEF Decided
<1> HIDE DEF d
<1>5. \A j \in 1..Len(asks) : d[j] \in Ask /\ d[j].at = asks[j].at
  BY <1>1, <1>2, <1>4
<1>6. d \in Seq(Ask) /\ Len(d) = Len(asks)
  BY <1>3, <1>4, <1>5
<1>7. \A j \in 1..Len(asks) : d[j].state = "open" => d[j] = asks[j] /\ ~SameAsk(i, j)
  <2> TAKE j \in 1..Len(asks)
  <2>1. CASE Open(j) /\ SameAsk(i, j)
    <3>1. d[j].state = v
      BY <1>1, <1>2, <1>4, <2>1
    <3> QED BY <3>1
  <2>2. CASE ~(Open(j) /\ SameAsk(i, j))
    <3>1. d[j] = asks[j]
      BY <1>4, <2>2
    <3> QED BY <2>2, <3>1 DEF Open
  <2> QED BY <2>1, <2>2
<1> QED BY <1>5, <1>6, <1>7 DEF d

\* Every ask is one of the asks that may be queued.
LEMMA AsksCounted ==
  ASSUME AsksOK
  PROVE  /\ asks \in Seq(Ask) /\ DOMAIN asks = 1..Len(asks)
         /\ 1..Len(asks) \subseteq 1..MaxAsks /\ 0 \notin 1..Len(asks)
         /\ \A i \in 1..Len(asks) : asks[i] \in Ask
BY BriefAssumption DEF AsksOK, BriefAssumption

----------------------------------------------------------------------------
\* Each operation keeps the state of the brief.
LEMMA ProposeKeeps ==
  ASSUME BriefInv, NEW kind \in {"edit", "remove"}, NEW n \in Positions, NEW text \in Texts,
         Propose(kind, n, text)
  PROVE  BriefInv'
<1> DEFINE a == [state |-> "open", kind |-> kind, at |-> n, text |-> text, meant |-> needs[n]]
<1>1. /\ asks' = Append(asks, a) /\ Len(asks) < MaxAsks /\ n \in 1..Len(needs) /\ ~write.on
      /\ UNCHANGED <<needs, owned, cite, write, about, claimed, moved, strays>>
  BY SectionFits DEF Propose, BriefInv, SectionOK
<1>2. a \in Ask
  BY <1>1 DEF BriefInv, SectionOK, Ask
<1> HIDE DEF a
<1>3. asks' \in Seq(Ask) /\ Len(asks') = Len(asks) + 1 /\ Len(asks) \in Nat
  BY <1>1, <1>2 DEF BriefInv, AsksOK
<1>4. AsksOK'
  BY <1>1, <1>3, BriefAssumption DEF BriefInv, AsksOK, BriefAssumption
<1>5. WriteOK'
  BY <1>1 DEF BriefInv, WriteOK
<1> QED BY <1>1, <1>4, <1>5 DEF BriefInv, SectionOK, NotesOK, PhasesOK

LEMMA AcceptEditKeeps ==
  ASSUME BriefInv, NEW i \in DOMAIN asks, AcceptEdit(i)
  PROVE  BriefInv'
<1>1. /\ i \in 1..Len(asks) /\ asks[i].at \in 1..Len(needs) /\ ~write.on
      /\ strays' \subseteq strays \cup {i} /\ asks' = Decided(i, "accepted")
      /\ UNCHANGED <<needs, owned, cite, write, about, claimed, moved>>
  BY SectionFits DEF AcceptEdit, BriefInv, SectionOK, AsksOK
<1>2. AsksOK'
  BY <1>1, DecidedIs, AsksCounted DEF BriefInv, AsksOK
<1>3. WriteOK'
  BY <1>1 DEF BriefInv, WriteOK
<1> QED BY <1>1, <1>2, <1>3 DEF BriefInv, SectionOK, NotesOK, PhasesOK

LEMMA AcceptRemoveKeeps ==
  ASSUME BriefInv, NEW i \in DOMAIN asks, AcceptRemove(i)
  PROVE  BriefInv'
<1>1. /\ i \in 1..Len(asks) /\ asks[i].at \in 1..Len(needs)
      /\ write' = [on |-> TRUE, drop |-> {asks[i].at}, ask |-> i,
                   todo |-> {u \in Unknowns : cite[u] # Uncited}]
      /\ UNCHANGED <<needs, owned, cite, asks, about, claimed, moved, strays>>
  BY SectionFits DEF AcceptRemove, BriefInv, SectionOK, AsksOK
<1>2. asks[i].at \in Positions /\ i \in 0..MaxAsks
  <2>1. 1..Len(needs) \subseteq Positions
    BY SectionFits DEF BriefInv, SectionOK
  <2>2. asks \in Seq(Ask) /\ Len(asks) <= MaxAsks /\ MaxAsks \in Nat
    BY BriefAssumption DEF BriefInv, AsksOK, BriefAssumption
  <2>3. i \in 0..MaxAsks
    BY <1>1, <2>2
  <2> QED BY <1>1, <2>1, <2>3
<1>3. WriteOK'
  BY <1>1, <1>2 DEF WriteOK
<1> QED BY <1>1, <1>3 DEF BriefInv, SectionOK, NotesOK, AsksOK, PhasesOK

LEMMA DropEntriesKeeps ==
  ASSUME BriefInv, NEW D \in SUBSET Positions, DropEntries(D)
  PROVE  BriefInv'
<1>1. /\ D \subseteq 1..Len(needs)
      /\ write' = [on |-> TRUE, drop |-> D, ask |-> 0,
                   todo |-> {u \in Unknowns : cite[u] # Uncited}]
      /\ UNCHANGED <<needs, owned, cite, asks, about, claimed, moved, strays>>
  BY SectionFits DEF DropEntries, BriefInv, SectionOK
<1>2. WriteOK'
  BY <1>1, BriefAssumption DEF WriteOK, BriefAssumption
<1> QED BY <1>1, <1>2 DEF BriefInv, SectionOK, NotesOK, AsksOK, PhasesOK

LEMMA RewriteNoteKeeps ==
  ASSUME BriefInv, NEW u \in Unknowns, RewriteNote(u)
  PROVE  BriefInv'
<1>1. /\ write.on /\ cite' = [cite EXCEPT ![u] = ShiftAll(@, write.drop)]
      /\ write' = [write EXCEPT !.todo = @ \ {u}]
      /\ UNCHANGED <<needs, owned, asks, about, claimed, moved, strays>>
  BY DEF RewriteNote
<1>2. ShiftAll(cite[u], write.drop) \in Cites
  <2>1. cite[u] \in Cites /\ write.drop \subseteq Positions
    BY DEF BriefInv, NotesOK, WriteOK
  <2> QED BY <2>1, ShiftAllTyped
<1>3. NotesOK'
  BY <1>1, <1>2 DEF BriefInv, NotesOK
<1>4. /\ write' \in [on : BOOLEAN, drop : SUBSET Positions,
                     todo : SUBSET Unknowns, ask : 0..MaxAsks]
      /\ write'.drop = write.drop /\ write'.ask = write.ask /\ write'.on = write.on
  BY <1>1 DEF BriefInv, WriteOK
<1>5. WriteOK'
  BY <1>1, <1>4 DEF BriefInv, WriteOK
<1> QED BY <1>1, <1>3, <1>5 DEF BriefInv, SectionOK, AsksOK, PhasesOK

LEMMA SaveRemovalKeeps ==
  ASSUME BriefInv, SaveRemoval
  PROVE  BriefInv'
<1> DEFINE D == write.drop
           rest == Remaining(needs, D)
<1>1. /\ write.on /\ needs' = rest /\ write' = Idle /\ UNCHANGED <<cite, about, claimed>>
      /\ owned' = [p \in Phases |-> {ShiftAll(n, D) : n \in owned[p] \ D}]
  BY DEF SaveRemoval
<1>2. D \subseteq 1..Len(needs) /\ needs \in Seq(Entries) /\ Len(needs) < Gone
      /\ \A i, j \in 1..Len(needs) : needs[i] = needs[j] => i = j
  BY <1>1, SectionFits DEF BriefInv, WriteOK, SectionOK
<1>3. /\ rest \in Seq(Entries)
      /\ \A i, j \in 1..Len(rest) : rest[i] = rest[j] => i = j
      /\ \A n \in (1..Len(needs)) \ D : /\ ShiftAll(n, D) \in 1..Len(rest)
                                        /\ rest[ShiftAll(n, D)] = needs[n]
  BY <1>2, RenumberingFollows
<1>4. 1..Len(rest) \subseteq Positions
  BY <1>3, SectionFits
<1>5. NotesOK'
  BY <1>1 DEF BriefInv, NotesOK
<1>6. AsksOK'
  <2>0. moved' \subseteq 1..MaxAsks
    <3>1. moved' = moved \cup Displaced /\ Displaced \subseteq DOMAIN asks
      BY DEF SaveRemoval, Displaced
    <3>2. moved \subseteq 1..MaxAsks /\ DOMAIN asks \subseteq 1..MaxAsks
      BY AsksCounted DEF BriefInv, AsksOK
    <3> QED BY <3>1, <3>2
  <2>1. CASE write.ask = 0
    BY <2>0, <2>1 DEF SaveRemoval, BriefInv, AsksOK
  <2>2. CASE write.ask # 0
    <3>1. write.ask \in 1..Len(asks)
      BY <1>1, <2>2 DEF BriefInv, WriteOK
    <3>2. asks' = Decided(write.ask, "accepted") /\ strays' \subseteq strays \cup {write.ask}
      BY <2>2 DEF SaveRemoval
    <3> QED BY <2>0, <3>1, <3>2, DecidedIs, AsksCounted DEF BriefInv, AsksOK
  <2> QED BY <2>1, <2>2
<1>7. WriteOK'
  BY <1>1, BriefAssumption DEF WriteOK, Idle, BriefAssumption
<1> HIDE DEF rest, D
<1>8. SectionOK'
  BY <1>1, <1>3 DEF SectionOK
<1>9. PhasesOK'
  <2>1. \A p \in Phases : \A n \in owned[p] : n \in 1..Len(needs) /\ needs[n] \in claimed[p]
    BY DEF BriefInv, PhasesOK
  <2>2. ASSUME NEW p \in Phases, NEW m \in owned'[p]
        PROVE  \E n \in owned[p] : n \in (1..Len(needs)) \ D /\ m = ShiftAll(n, D)
                                   /\ m \in 1..Len(rest) /\ rest[m] = needs[n]
    <3>1. PICK n \in owned[p] \ D : m = ShiftAll(n, D)
      BY <1>1, <2>2
    <3> QED BY <1>3, <2>1, <3>1
  <2>3. owned' \in [Phases -> SUBSET Positions]
    <3>1. \A p \in Phases : owned'[p] \subseteq Positions
      BY <1>4, <2>2
    <3>2. owned' = [p \in Phases |-> owned'[p]]
      BY <1>1
    <3> QED BY <3>1, <3>2
  <2>4. \A p \in Phases : \A m \in owned'[p] : m \in 1..Len(rest) /\ rest[m] \in claimed[p]
    BY <2>1, <2>2
  <2>5. ASSUME NEW p \in Phases, NEW r \in Phases, p # r PROVE owned'[p] \cap owned'[r] = {}
    <3> SUFFICES ASSUME NEW m \in owned'[p], m \in owned'[r] PROVE FALSE
      OBVIOUS
    <3>1. PICK n \in owned[p] : n \in 1..Len(needs) /\ rest[m] = needs[n]
      BY <2>2
    <3>2. PICK k \in owned[r] : k \in 1..Len(needs) /\ rest[m] = needs[k]
      BY <2>2
    <3>3. n = k
      BY <1>2, <3>1, <3>2
    <3> QED BY <2>5, <3>3 DEF BriefInv, PhasesOK
  <2> QED BY <1>1, <2>3, <2>4, <2>5 DEF BriefInv, PhasesOK
<1> QED BY <1>5, <1>6, <1>7, <1>8, <1>9 DEF BriefInv

LEMMA AddEntryKeeps ==
  ASSUME BriefInv, NEW e \in Entries, AddEntry(e)
  PROVE  BriefInv'
<1>1. /\ ~write.on /\ needs' = Append(needs, e) /\ e \notin ToSet(needs)
      /\ UNCHANGED <<owned, cite, asks, write, about, claimed, moved, strays>>
  BY DEF AddEntry, New
<1>2. needs \in Seq(Entries) /\ \A i, j \in 1..Len(needs) : needs[i] = needs[j] => i = j
  BY DEF BriefInv, SectionOK
<1>3. \A i \in 1..Len(needs) : needs[i] # e
  BY <1>1, <1>2 DEF ToSet
<1>4. needs' \in Seq(Entries) /\ Len(needs') = Len(needs) + 1 /\ needs'[Len(needs) + 1] = e
      /\ \A i \in 1..Len(needs) : needs'[i] = needs[i]
  BY <1>1, <1>2
<1>5. SectionOK'
  <2>1. ASSUME NEW i \in 1..Len(needs'), NEW j \in 1..Len(needs'), needs'[i] = needs'[j]
        PROVE  i = j
    <3>1. Len(needs) \in Nat
      BY <1>2
    <3>2. (i \in 1..Len(needs) \/ i = Len(needs) + 1) /\ (j \in 1..Len(needs) \/ j = Len(needs) + 1)
      BY <1>4, <3>1
    <3> QED BY <1>2, <1>3, <1>4, <2>1, <3>2
  <2> QED BY <1>4, <2>1 DEF SectionOK
<1>6. \A i \in 1..Len(needs) : i \in 1..Len(needs')
  BY <1>2, <1>4
<1>7. PhasesOK'
  BY <1>1, <1>4, <1>6 DEF BriefInv, PhasesOK
<1>8. WriteOK'
  BY <1>1 DEF BriefInv, WriteOK
<1> QED BY <1>1, <1>5, <1>7, <1>8 DEF BriefInv, NotesOK, AsksOK

LEMMA AddPhaseKeeps ==
  ASSUME BriefInv, NEW p \in Phases, NEW S \in SUBSET Positions, AddPhase(p, S)
  PROVE  BriefInv'
<1>1. /\ S \subseteq 1..Len(needs) /\ S \cap Taken = {} /\ ~write.on
      /\ owned' = [owned EXCEPT ![p] = S]
      /\ claimed' = [claimed EXCEPT ![p] = {needs[n] : n \in S}]
      /\ UNCHANGED <<needs, cite, asks, write, about, moved, strays>>
  BY SectionFits DEF AddPhase, BriefInv, SectionOK
<1>2. /\ owned \in [Phases -> SUBSET Positions] /\ claimed \in [Phases -> SUBSET Entries]
      /\ \A r \in Phases : \A n \in owned[r] : n \in 1..Len(needs) /\ needs[n] \in claimed[r]
      /\ \A r, s \in Phases : r # s => owned[r] \cap owned[s] = {}
  BY DEF BriefInv, PhasesOK
<1>3. {needs[n] : n \in S} \subseteq Entries
  BY <1>1 DEF BriefInv, SectionOK
<1>4. owned' \in [Phases -> SUBSET Positions] /\ claimed' \in [Phases -> SUBSET Entries]
  BY <1>1, <1>2, <1>3
<1>5. \A r \in Phases : \A n \in owned'[r] : n \in 1..Len(needs) /\ needs[n] \in claimed'[r]
  BY <1>1, <1>2
<1>6. \A r \in Phases : owned[r] \cap S = {}
  BY <1>1 DEF Taken
<1>7. \A r, s \in Phases : r # s => owned'[r] \cap owned'[s] = {}
  BY <1>1, <1>2, <1>6
<1>8. PhasesOK'
  BY <1>1, <1>4, <1>5, <1>7 DEF PhasesOK
<1>9. WriteOK'
  BY <1>1 DEF BriefInv, WriteOK
<1> QED BY <1>1, <1>8, <1>9 DEF BriefInv, SectionOK, NotesOK, AsksOK

LEMMA CiteKeeps ==
  ASSUME BriefInv, NEW u \in Unknowns, NEW n \in Positions, Cite(u, n)
  PROVE  BriefInv'
<1>1. /\ n \in 1..Len(needs) /\ ~write.on /\ cite' = [cite EXCEPT ![u] = n]
      /\ about' = [about EXCEPT ![u] = needs[n]]
      /\ UNCHANGED <<needs, owned, asks, write, claimed, moved, strays>>
  BY SectionFits DEF Cite, BriefInv, SectionOK
<1>2. needs[n] \in Entries /\ n \in Cites
  BY <1>1 DEF BriefInv, SectionOK, Cites
<1>3. NotesOK'
  BY <1>1, <1>2 DEF BriefInv, NotesOK
<1>4. WriteOK'
  BY <1>1 DEF BriefInv, WriteOK
<1> QED BY <1>1, <1>3, <1>4 DEF BriefInv, SectionOK, AsksOK, PhasesOK

LEMMA RejectKeeps ==
  ASSUME BriefInv, NEW i \in DOMAIN asks, Reject(i)
  PROVE  BriefInv'
<1>1. /\ i \in 1..Len(asks) /\ ~write.on /\ asks' = Decided(i, "rejected")
      /\ UNCHANGED <<needs, owned, cite, write, about, claimed, moved, strays>>
  BY DEF Reject, BriefInv, AsksOK
<1>2. AsksOK'
  BY <1>1, DecidedIs DEF BriefInv, AsksOK
<1>3. WriteOK'
  BY <1>1 DEF BriefInv, WriteOK
<1> QED BY <1>1, <1>2, <1>3 DEF BriefInv, SectionOK, NotesOK, PhasesOK

\* A refused "brief set" and a crash only forget the removal.
LEMMA ForgottenKeeps ==
  ASSUME BriefInv, write' = Idle, UNCHANGED <<needs, owned, cite, asks, about, claimed, moved, strays>>
  PROVE  BriefInv'
<1>1. WriteOK'
  BY BriefAssumption DEF WriteOK, Idle, BriefAssumption
<1> QED BY <1>1 DEF BriefInv, SectionOK, NotesOK, AsksOK, PhasesOK

LEMMA BriefInvKept == BriefInv /\ [Next]_bvars => BriefInv'
<1> SUFFICES ASSUME BriefInv, [Next]_bvars PROVE BriefInv'
  OBVIOUS
<1>1. ASSUME NEW n \in Positions, NEW text \in Texts,
             Propose("edit", n, text) \/ Propose("remove", n, text)
      PROVE  BriefInv'
  BY <1>1, ProposeKeeps
<1>2. ASSUME NEW i \in DOMAIN asks, AcceptEdit(i) PROVE BriefInv'
  BY <1>2, AcceptEditKeeps
<1>3. ASSUME NEW i \in DOMAIN asks, AcceptRemove(i) PROVE BriefInv'
  BY <1>3, AcceptRemoveKeeps
<1>4. ASSUME NEW i \in DOMAIN asks, Reject(i) PROVE BriefInv'
  BY <1>4, RejectKeeps
<1>5. ASSUME NEW D \in SUBSET Positions, DropEntries(D) PROVE BriefInv'
  BY <1>5, DropEntriesKeeps
<1>6. ASSUME NEW u \in Unknowns, RewriteNote(u) PROVE BriefInv'
  BY <1>6, RewriteNoteKeeps
<1>7. ASSUME NEW u \in Unknowns, NEW n \in Positions, Cite(u, n) PROVE BriefInv'
  BY <1>7, CiteKeeps
<1>8. CASE SaveRemoval
  BY <1>8, SaveRemovalKeeps
<1>9. CASE RefuseBudget \/ Crash
  BY <1>9, ForgottenKeeps DEF RefuseBudget, Crash
<1>10. ASSUME NEW e \in Entries, AddEntry(e) PROVE BriefInv'
  BY <1>10, AddEntryKeeps
<1>11. ASSUME NEW p \in Phases, NEW S \in SUBSET Positions, AddPhase(p, S) PROVE BriefInv'
  BY <1>11, AddPhaseKeeps
<1>12. CASE UNCHANGED bvars
  BY <1>12 DEF bvars, BriefInv, SectionOK, NotesOK, AsksOK, WriteOK, PhasesOK
<1> QED BY <1>1, <1>2, <1>3, <1>4, <1>5, <1>6, <1>7, <1>8, <1>9, <1>10, <1>11, <1>12 DEF Next

LEMMA BriefInvHolds == Spec => []BriefInv
BY BriefInvStart, BriefInvKept, PTL DEF Spec

\* Only notes go adrift.
AdriftOK == adrift \subseteq Unknowns

LEMMA AdriftTyped == Spec => []AdriftOK
<1>1. Init => AdriftOK
  BY DEF Init, AdriftOK
<1>2. Rewritten \subseteq Unknowns
  BY DEF Rewritten
<1>3. AdriftOK /\ [Next]_bvars => AdriftOK'
  <2> SUFFICES ASSUME adrift \subseteq Unknowns, [Next]_bvars PROVE adrift' \subseteq Unknowns
    BY DEF AdriftOK
  <2>1. CASE RefuseBudget \/ Crash
    BY <1>2, <2>1 DEF RefuseBudget, Crash
  <2>2. CASE SaveRemoval \/ UNCHANGED bvars
    BY <2>2 DEF SaveRemoval, bvars
  <2>3. ASSUME NEW n \in Positions, NEW text \in Texts,
               Propose("edit", n, text) \/ Propose("remove", n, text)
        PROVE  adrift' \subseteq Unknowns
    BY <2>3 DEF Propose
  <2>4. ASSUME NEW i \in DOMAIN asks, AcceptEdit(i) \/ AcceptRemove(i) \/ Reject(i)
        PROVE  adrift' \subseteq Unknowns
    BY <2>4 DEF AcceptEdit, AcceptRemove, Reject
  <2>5. ASSUME NEW D \in SUBSET Positions, DropEntries(D) PROVE adrift' \subseteq Unknowns
    BY <2>5 DEF DropEntries
  <2>6. ASSUME NEW u \in Unknowns, RewriteNote(u) PROVE adrift' \subseteq Unknowns
    BY <2>6 DEF RewriteNote
  <2>7. ASSUME NEW u \in Unknowns, NEW n \in Positions, Cite(u, n) PROVE adrift' \subseteq Unknowns
    BY <2>7 DEF Cite
  <2>8. ASSUME NEW e \in Entries, AddEntry(e) PROVE adrift' \subseteq Unknowns
    BY <2>8 DEF AddEntry
  <2>9. ASSUME NEW p \in Phases, NEW D \in SUBSET Positions, AddPhase(p, D)
        PROVE  adrift' \subseteq Unknowns
    BY <2>9 DEF AddPhase
  <2> QED BY <2>1, <2>2, <2>3, <2>4, <2>5, <2>6, <2>7, <2>8, <2>9 DEF Next
<1> QED BY <1>1, <1>3, PTL DEF Spec

\* In every state the brief's records have the shape the code gives them: a
\* section never holds an entry twice, and no phase owns, no note cites and no
\* proposal names a position beyond every position there could be.
THEOREM TypeOKHolds == Spec => []TypeOK
<1>1. BriefInv /\ AdriftOK => TypeOK
  <2> SUFFICES ASSUME BriefInv, adrift \subseteq Unknowns PROVE TypeOK
    BY DEF AdriftOK
  <2>1. IsInjective(needs)
    BY SectionFits DEF BriefInv, SectionOK, IsInjective
  <2> QED BY <2>1 DEF BriefInv, SectionOK, NotesOK, AsksOK, WriteOK, PhasesOK, TypeOK, Cites
<1> QED BY <1>1, BriefInvHolds, AdriftTyped, PTL

\* Phases keep exactly the entries they claimed, whatever is removed, refused
\* or cut short, and no entry comes to have two phases (_renumber_after_removal
\* and add_phase).
THEOREM PhasesFollowHolds == Spec => []PhasesFollow
<1>1. BriefInv => PhasesFollow
  BY SectionFits DEF BriefInv, SectionOK, PhasesOK, PhasesFollow
<1> QED BY <1>1, BriefInvHolds, PTL

----------------------------------------------------------------------------
\* Where a note points, also between the rewriting of the notes and the saving
\* of the brief: a note that was rewritten already cites where its entry is
\* going to be, the others cite where it is.  What a refusal or a crash leaves
\* rewritten is adrift.
StillThere(u) == cite[u] \in 1..Len(needs) /\ needs[cite[u]] = about[u]
Renumbered(u) == \E n \in (1..Len(needs)) \ write.drop :
                    needs[n] = about[u] /\ cite[u] = ShiftAll(n, write.drop)
CitesInv ==
  \A u \in Unknowns \ adrift : cite[u] \in Positions =>
    /\ ~write.on => StillThere(u)
    /\ write.on /\ u \in write.todo => StillThere(u)
    /\ write.on /\ u \notin write.todo => Renumbered(u)

\* A removal is begun: the notes that cite anything are still to be rewritten.
LEMMA CitesBegin ==
  ASSUME CitesInv, ~write.on, write'.todo = {u \in Unknowns : cite[u] # Uncited}, write'.on,
         UNCHANGED <<needs, cite, about, adrift>>
  PROVE  CitesInv'
<1>1. Uncited \notin Positions
  BY PositionsAre DEF Positions
<1> QED BY <1>1 DEF CitesInv, StillThere

LEMMA CitesRewrite ==
  ASSUME BriefInv, CitesInv, NEW v \in Unknowns, RewriteNote(v)
  PROVE  CitesInv'
<1> DEFINE D == write.drop
<1>1. /\ write.on /\ v \in write.todo /\ cite' = [cite EXCEPT ![v] = ShiftAll(@, D)]
      /\ write' = [write EXCEPT !.todo = @ \ {v}]
      /\ UNCHANGED <<needs, about, adrift>>
  BY DEF RewriteNote
<1>2. write'.on /\ write'.drop = D /\ write'.todo = write.todo \ {v}
  BY <1>1 DEF BriefInv, WriteOK
<1>3. \A u \in Unknowns : cite'[u] = IF u = v THEN ShiftAll(cite[v], D) ELSE cite[u]
  BY <1>1 DEF BriefInv, NotesOK
<1>4. cite[v] \in Cites /\ D \subseteq Positions /\ D \subseteq 1..Len(needs)
  BY <1>1 DEF BriefInv, NotesOK, WriteOK
<1>5. needs \in Seq(Entries) /\ Len(needs) < Gone
      /\ \A i, j \in 1..Len(needs) : needs[i] = needs[j] => i = j
  BY SectionFits DEF BriefInv, SectionOK
<1>6. Gone \notin Positions /\ Uncited \notin Positions
  BY PositionsAre DEF Positions
<1> HIDE DEF D
<1>7. ASSUME ShiftAll(cite[v], D) \in Positions, v \notin adrift
      PROVE  \E n \in (1..Len(needs)) \ D : needs[n] = about[v]
                                            /\ ShiftAll(cite[v], D) = ShiftAll(n, D)
  <2>1. cite[v] \notin {Uncited, Gone}
    BY <1>4, <1>6, <1>7, ShiftAllTyped
  <2>2. StillThere(v)
    BY <1>1, <1>4, <1>7, <2>1 DEF CitesInv, Cites
  <2>3. D \subseteq 1..Len(needs)
    BY <1>4
  <2>4. \A n \in D : ShiftAll(n, D) = Gone
    BY ONLY <1>5, <2>3, RenumberingFollows
  <2>5. cite[v] \notin D
    BY <1>6, <1>7, <2>4
  <2> QED BY <2>2, <2>5 DEF StillThere
<1>8. ASSUME NEW u \in Unknowns \ adrift, cite'[u] \in Positions, u \in write'.todo
      PROVE  StillThere(u)'
  <2>1. u # v /\ u \in write.todo /\ cite'[u] = cite[u]
    BY <1>2, <1>3, <1>8
  <2> QED BY <1>1, <1>8, <2>1 DEF CitesInv, StillThere
<1>9. ASSUME NEW u \in Unknowns \ adrift, cite'[u] \in Positions, u \notin write'.todo
      PROVE  Renumbered(u)'
  <2>1. CASE u = v
    BY <1>1, <1>2, <1>3, <1>7, <1>9, <2>1 DEF Renumbered
  <2>2. CASE u # v
    <3>1. u \notin write.todo /\ cite'[u] = cite[u]
      BY <1>2, <1>3, <1>9, <2>2
    <3>2. Renumbered(u)
      BY <1>1, <1>9, <3>1 DEF CitesInv
    <3> QED BY <1>1, <1>2, <3>1, <3>2 DEF Renumbered, D
  <2> QED BY <2>1, <2>2
<1> QED BY <1>1, <1>2, <1>8, <1>9 DEF CitesInv

LEMMA CitesSave ==
  ASSUME BriefInv, CitesInv, SaveRemoval
  PROVE  CitesInv'
<1> DEFINE D == write.drop
           rest == Remaining(needs, D)
<1>1. /\ write.on /\ write.todo = {} /\ needs' = rest /\ write' = Idle
      /\ UNCHANGED <<cite, about, adrift>>
  BY DEF SaveRemoval
<1>2. D \subseteq 1..Len(needs) /\ needs \in Seq(Entries) /\ Len(needs) < Gone
      /\ \A i, j \in 1..Len(needs) : needs[i] = needs[j] => i = j
  BY <1>1, SectionFits DEF BriefInv, WriteOK, SectionOK
<1>3. \A n \in (1..Len(needs)) \ D : /\ ShiftAll(n, D) \in 1..Len(rest)
                                     /\ rest[ShiftAll(n, D)] = needs[n]
  BY <1>2, RenumberingFollows
<1>4. ~write'.on
  BY <1>1 DEF Idle
<1> HIDE DEF rest
<1>5. ASSUME NEW u \in Unknowns \ adrift, cite'[u] \in Positions
      PROVE  StillThere(u)'
  <2>1. Renumbered(u)
    BY <1>1, <1>5 DEF CitesInv
  <2>2. PICK n \in (1..Len(needs)) \ D : needs[n] = about[u] /\ cite[u] = ShiftAll(n, D)
    BY <2>1 DEF Renumbered
  <2> HIDE DEF D
  <2>3. cite[u] \in 1..Len(rest) /\ rest[cite[u]] = about[u]
    BY <1>3, <2>2
  <2> QED BY <1>1, <2>3 DEF StillThere
<1> QED BY <1>1, <1>4, <1>5 DEF CitesInv

LEMMA CitesAdd ==
  ASSUME BriefInv, CitesInv, NEW e \in Entries, AddEntry(e)
  PROVE  CitesInv'
<1>1. ~write.on /\ needs' = Append(needs, e) /\ UNCHANGED <<cite, about, write, adrift>>
  BY DEF AddEntry
<1>2. \A i \in 1..Len(needs) : i \in 1..Len(needs') /\ needs'[i] = needs[i]
  BY <1>1 DEF BriefInv, SectionOK
<1> QED BY <1>1, <1>2 DEF CitesInv, StillThere

LEMMA CitesCite ==
  ASSUME BriefInv, CitesInv, NEW v \in Unknowns, NEW m \in Positions, Cite(v, m)
  PROVE  CitesInv'
<1>1. /\ ~write.on /\ m \in 1..Len(needs) /\ cite' = [cite EXCEPT ![v] = m]
      /\ about' = [about EXCEPT ![v] = needs[m]] /\ UNCHANGED <<needs, write, adrift>>
  BY SectionFits DEF Cite, BriefInv, SectionOK
<1>2. cite \in [Unknowns -> Cites] /\ about \in [Unknowns -> Entries]
  BY DEF BriefInv, NotesOK
<1> QED BY <1>1, <1>2 DEF CitesInv, StillThere

\* A removal that is not saved leaves adrift what it had rewritten.
LEMMA CitesForgotten ==
  ASSUME CitesInv, RefuseBudget \/ Crash
  PROVE  CitesInv'
<1>1. /\ write.on /\ ~write'.on /\ adrift' = adrift \cup Rewritten
      /\ UNCHANGED <<needs, cite, about>>
  BY DEF RefuseBudget, Crash, Idle
<1>2. Uncited \notin Positions
  BY PositionsAre DEF Positions
<1>3. ASSUME NEW u \in Unknowns \ adrift', cite[u] \in Positions
      PROVE  StillThere(u)
  <2>1. u \notin adrift /\ u \in write.todo
    BY <1>1, <1>2, <1>3 DEF Rewritten
  <2> QED BY <1>1, <1>3, <2>1 DEF CitesInv
<1> QED BY <1>1, <1>3 DEF CitesInv, StillThere

LEMMA CitesKept == BriefInv /\ CitesInv /\ [Next]_bvars => CitesInv'
<1> SUFFICES ASSUME BriefInv, CitesInv, [Next]_bvars PROVE CitesInv'
  OBVIOUS
<1>0. ASSUME UNCHANGED <<needs, cite, write, about, adrift>> PROVE CitesInv'
  BY <1>0 DEF CitesInv, StillThere, Renumbered
<1>1. ASSUME NEW n \in Positions, NEW text \in Texts,
             Propose("edit", n, text) \/ Propose("remove", n, text)
      PROVE  CitesInv'
  BY <1>0, <1>1 DEF Propose
<1>2. ASSUME NEW i \in DOMAIN asks, AcceptEdit(i) \/ Reject(i) PROVE CitesInv'
  BY <1>0, <1>2 DEF AcceptEdit, Reject
<1>3. ASSUME NEW i \in DOMAIN asks, AcceptRemove(i) PROVE CitesInv'
  BY <1>3, CitesBegin DEF AcceptRemove
<1>4. ASSUME NEW D \in SUBSET Positions, DropEntries(D) PROVE CitesInv'
  BY <1>4, CitesBegin DEF DropEntries
<1>5. ASSUME NEW u \in Unknowns, RewriteNote(u) PROVE CitesInv'
  BY <1>5, CitesRewrite
<1>6. ASSUME NEW u \in Unknowns, NEW n \in Positions, Cite(u, n) PROVE CitesInv'
  BY <1>6, CitesCite
<1>7. CASE SaveRemoval
  BY <1>7, CitesSave
<1>8. ASSUME NEW e \in Entries, AddEntry(e) PROVE CitesInv'
  BY <1>8, CitesAdd
<1>9. ASSUME NEW p \in Phases, NEW S \in SUBSET Positions, AddPhase(p, S) PROVE CitesInv'
  BY <1>0, <1>9 DEF AddPhase
<1>10. CASE UNCHANGED bvars
  BY <1>0, <1>10 DEF bvars
<1>11. CASE RefuseBudget \/ Crash
  BY <1>11, CitesForgotten
<1> QED BY <1>1, <1>2, <1>3, <1>4, <1>5, <1>6, <1>7, <1>8, <1>9, <1>10, <1>11 DEF Next

\* A note never comes to cite another entry than the one it was written about,
\* however many entries are removed at once and whatever is proposed, added or
\* claimed in between, unless it was rewritten for a removal that a refused
\* budget or a crash kept from being saved (_renumber_after_removal,
\* set_brief_fields).
THEOREM CitesFollowHolds == Spec => []CitesFollow
<1>1. Init => CitesInv
  BY PositionsAre DEF Init, CitesInv, Positions
<1>2. BriefInv /\ CitesInv /\ [Next]_bvars => CitesInv'
  BY CitesKept
<1>3. BriefInv /\ CitesInv => CitesFollow
  <2> SUFFICES ASSUME BriefInv, CitesInv, ~write.on, NEW u \in Unknowns \ adrift
               PROVE  CitesOwn(u)
    BY DEF CitesFollow
  <2> SUFFICES ASSUME cite[u] \in Positions
               PROVE  cite[u] \in DOMAIN needs /\ needs[cite[u]] = about[u]
    BY DEF CitesOwn
  <2>1. StillThere(u)
    BY DEF CitesInv
  <2>2. DOMAIN needs = 1..Len(needs)
    BY SectionFits DEF BriefInv, SectionOK
  <2> QED BY <2>1, <2>2 DEF StillThere
<1> QED BY <1>1, <1>2, <1>3, BriefInvHolds, PTL DEF Spec

----------------------------------------------------------------------------
\* An open ask that no other removal moved names the entry it was made for.
\* While a removal is written that somebody asked for, its ask is still open.
Named(i) == asks[i].at \in 1..Len(needs) /\ needs[asks[i].at] = asks[i].meant
MeantInv ==
  /\ strays \subseteq moved
  /\ \A i \in 1..Len(asks) : Open(i) => i \in moved \/ Named(i)
  /\ write.on /\ write.ask # 0 => Open(write.ask) /\ asks[write.ask].kind = "remove"

\* Carrying out an ask adds it to the strays only if it was moved.
LEMMA MeantHit ==
  ASSUME MeantInv, NEW i \in 1..Len(asks), Open(i)
  PROVE  {j \in {i} : Astray(j)} \subseteq moved
BY DEF MeantInv, Named, Astray

\* An ask that is open after a decision is one of those that were open before
\* and asks for something else.
LEMMA MeantDecide ==
  ASSUME AsksOK, NEW i \in 1..Len(asks), NEW v \in {"accepted", "rejected"},
         asks' = Decided(i, v)
  PROVE  /\ Len(asks') = Len(asks)
         /\ \A j \in 1..Len(asks) :
              Open(j)' => Open(j) /\ asks'[j] = asks[j] /\ ~SameAsk(i, j)
<1>1. /\ Len(asks') = Len(asks)
      /\ \A j \in 1..Len(asks) :
           asks'[j].state = "open" => asks'[j] = asks[j] /\ ~SameAsk(i, j)
  BY DecidedIs DEF AsksOK
<1> QED BY <1>1 DEF Open

\* The decisions that leave the section alone.
LEMMA MeantVerdict ==
  ASSUME BriefInv, MeantInv, NEW i \in 1..Len(asks), NEW v \in {"accepted", "rejected"},
         asks' = Decided(i, v), ~write'.on, UNCHANGED <<needs, moved>>, strays' \subseteq moved
  PROVE  MeantInv'
<1>1. /\ Len(asks') = Len(asks)
      /\ \A j \in 1..Len(asks) : Open(j)' => Open(j) /\ asks'[j] = asks[j]
  BY MeantDecide DEF BriefInv
<1>2. \A j \in 1..Len(asks) : Open(j)' => j \in moved \/ Named(j)
  BY <1>1 DEF MeantInv
<1>3. \A j \in 1..Len(asks) : Open(j)' /\ Named(j) => Named(j)'
  BY <1>1 DEF Named
<1> QED BY <1>1, <1>2, <1>3 DEF MeantInv

LEMMA MeantSave ==
  ASSUME BriefInv, MeantInv, SaveRemoval
  PROVE  MeantInv'
<1> DEFINE D == write.drop
           rest == Remaining(needs, D)
<1>1. /\ write.on /\ needs' = rest /\ write' = Idle /\ moved' = moved \cup Displaced
      /\ ~write'.on
  BY DEF SaveRemoval, Idle
<1>2. D \subseteq 1..Len(needs) /\ needs \in Seq(Entries) /\ Len(needs) < Gone
      /\ \A i, j \in 1..Len(needs) : needs[i] = needs[j] => i = j
  BY <1>1, SectionFits DEF BriefInv, WriteOK, SectionOK
<1>3. \A n \in (1..Len(needs)) \ D : /\ ShiftAll(n, D) \in 1..Len(rest)
                                     /\ rest[ShiftAll(n, D)] = needs[n]
  BY <1>2, RenumberingFollows
<1>4. D \subseteq Positions
  BY DEF BriefInv, WriteOK
<1> HIDE DEF rest
<1>5. ASSUME NEW n \in 1..Len(needs), \A r \in D : ~(r <= n)
      PROVE  n \in 1..Len(rest) /\ rest[n] = needs[n]
  <2>1. n \notin D
    <3>1. n <= n
      OBVIOUS
    <3> QED BY <1>5, <3>1
  <2>2. n \in Nat
    OBVIOUS
  <2> HIDE DEF D
  <2>3. ShiftAll(n, D) = n
    BY <1>4, <1>5, <2>2, ShiftAllAbove
  <2> QED BY <1>3, <2>1, <2>3
<1>6. /\ Len(asks') = Len(asks) /\ strays' \subseteq moved
      /\ \A j \in 1..Len(asks) :
           Open(j)' => /\ Open(j) /\ asks'[j] = asks[j]
                       /\ ~(write.ask # 0 /\ asks[j].kind = "remove" /\ {asks[j].at} = D)
  <2>1. CASE write.ask = 0
    BY <2>1 DEF SaveRemoval, MeantInv, Open
  <2>2. CASE write.ask # 0
    <3> DEFINE i == write.ask
    <3>1. i \in 1..Len(asks) /\ D = {asks[i].at} /\ Open(i) /\ asks[i].kind = "remove"
      BY <1>1, <2>2 DEF BriefInv, WriteOK, MeantInv
    <3>2. asks' = Decided(i, "accepted") /\ strays' = strays \cup {j \in {i} : Astray(j)}
      BY <2>2 DEF SaveRemoval
    <3>3. strays' \subseteq moved
      BY <3>1, <3>2, MeantHit DEF MeantInv
    <3>4. /\ Len(asks') = Len(asks)
          /\ \A j \in 1..Len(asks) :
               Open(j)' => Open(j) /\ asks'[j] = asks[j] /\ ~SameAsk(i, j)
      BY <3>1, <3>2, MeantDecide DEF BriefInv
    <3>5. \A j \in 1..Len(asks) : asks[j].kind = "remove" /\ {asks[j].at} = D => SameAsk(i, j)
      BY <3>1 DEF SameAsk
    <3> QED BY <3>3, <3>4, <3>5
  <2> QED BY <2>1, <2>2
<1>7. ASSUME NEW j \in 1..Len(asks), Open(j)', j \notin moved'
      PROVE  Named(j)'
  <2>1. j \notin moved /\ j \notin Displaced /\ Open(j) /\ asks'[j] = asks[j]
        /\ ~(write.ask # 0 /\ asks[j].kind = "remove" /\ {asks[j].at} = D)
    BY <1>1, <1>6, <1>7
  <2>2. Named(j)
    BY <2>1 DEF MeantInv
  <2>3. j \in DOMAIN asks
    BY AsksCounted DEF BriefInv
  <2>4. \A r \in D : ~(r <= asks[j].at)
    BY <2>1, <2>3 DEF Displaced
  <2> QED BY <1>1, <1>5, <2>1, <2>2, <2>4 DEF Named
<1> HIDE DEF D
<1>8. strays' \subseteq moved'
  BY <1>1, <1>6
<1> QED BY <1>1, <1>6, <1>7, <1>8 DEF MeantInv

LEMMA MeantKept == BriefInv /\ MeantInv /\ [Next]_bvars => MeantInv'
<1> SUFFICES ASSUME BriefInv, MeantInv, [Next]_bvars PROVE MeantInv'
  OBVIOUS
<1>0. ASSUME UNCHANGED <<needs, asks, moved, strays>>, ~write'.on PROVE MeantInv'
  BY <1>0 DEF MeantInv, Open, Named
<1>a. /\ asks \in Seq(Ask) /\ DOMAIN asks = 1..Len(asks) /\ DOMAIN needs = 1..Len(needs)
      /\ 0 \notin 1..Len(asks)
  BY SectionFits, AsksCounted DEF BriefInv, SectionOK
<1>1. ASSUME NEW n \in Positions, NEW text \in Texts, NEW kind \in {"edit", "remove"},
             Propose(kind, n, text)
      PROVE  MeantInv'
  <2> DEFINE a == [state |-> "open", kind |-> kind, at |-> n, text |-> text,
                   meant |-> needs[n]]
  <2>1. /\ asks' = Append(asks, a)
        /\ n \in 1..Len(needs) /\ ~write.on /\ UNCHANGED <<needs, write, moved, strays>>
    BY <1>1, <1>a DEF Propose
  <2>2. a.at = n /\ a.meant = needs[n]
    OBVIOUS
  <2> HIDE DEF a
  <2>3. \A i \in 1..Len(asks') : asks'[i] = a \/ (i \in 1..Len(asks) /\ asks'[i] = asks[i])
    BY <1>a, <2>1
  <2>4. \A i \in 1..Len(asks') : Open(i)' => i \in moved' \/ Named(i)'
    <3> TAKE i \in 1..Len(asks')
    <3>1. CASE asks'[i] = a
      BY <2>1, <2>2, <3>1 DEF Named
    <3>2. CASE i \in 1..Len(asks) /\ asks'[i] = asks[i]
      BY <2>1, <3>2 DEF MeantInv, Open, Named
    <3> QED BY <2>3, <3>1, <3>2
  <2> QED BY <2>1, <2>4 DEF MeantInv
<1>2. ASSUME NEW i \in DOMAIN asks, AcceptEdit(i) PROVE MeantInv'
  <2>1. /\ i \in 1..Len(asks) /\ Open(i) /\ asks' = Decided(i, "accepted") /\ ~write'.on
        /\ strays' = strays \cup {j \in {i} : Astray(j)} /\ UNCHANGED <<needs, moved>>
    BY <1>2, <1>a DEF AcceptEdit
  <2>2. strays' \subseteq moved
    BY <2>1, MeantHit DEF MeantInv
  <2> QED BY <2>1, <2>2, MeantVerdict
<1>3. ASSUME NEW i \in DOMAIN asks, AcceptRemove(i) PROVE MeantInv'
  <2>1. /\ i \in 1..Len(asks) /\ Open(i) /\ UNCHANGED <<needs, asks, moved, strays>>
        /\ write'.on /\ write'.ask = i /\ asks[i].kind = "remove"
    BY <1>3, <1>a DEF AcceptRemove
  <2> QED BY <2>1 DEF MeantInv, Open, Named
<1>4. ASSUME NEW i \in DOMAIN asks, Reject(i) PROVE MeantInv'
  <2>1. /\ i \in 1..Len(asks) /\ asks' = Decided(i, "rejected") /\ ~write'.on
        /\ UNCHANGED <<needs, moved, strays>>
    BY <1>4, <1>a DEF Reject
  <2>2. strays' \subseteq moved
    BY <2>1 DEF MeantInv
  <2> QED BY <2>1, <2>2, MeantVerdict
<1>5. ASSUME NEW D \in SUBSET Positions, DropEntries(D) PROVE MeantInv'
  <2>1. UNCHANGED <<needs, asks, moved, strays>> /\ write'.ask = 0
    BY <1>5 DEF DropEntries
  <2> QED BY <2>1 DEF MeantInv, Open, Named
<1>6. ASSUME NEW u \in Unknowns, RewriteNote(u) PROVE MeantInv'
  <2>1. /\ write'.on = write.on /\ write'.ask = write.ask
        /\ UNCHANGED <<needs, asks, moved, strays>>
    BY <1>6 DEF RewriteNote, BriefInv, WriteOK
  <2> QED BY <2>1 DEF MeantInv, Open, Named
<1>7. ASSUME NEW u \in Unknowns, NEW n \in Positions, Cite(u, n) PROVE MeantInv'
  BY <1>0, <1>7 DEF Cite
<1>8. CASE SaveRemoval
  BY <1>8, MeantSave
<1>9. CASE RefuseBudget \/ Crash
  BY <1>0, <1>9 DEF RefuseBudget, Crash, Idle
<1>10. ASSUME NEW e \in Entries, AddEntry(e) PROVE MeantInv'
  <2>1. ~write.on /\ needs' = Append(needs, e) /\ UNCHANGED <<asks, write, moved, strays>>
    BY <1>10 DEF AddEntry
  <2>2. \A n \in 1..Len(needs) : n \in 1..Len(needs') /\ needs'[n] = needs[n]
    BY <2>1 DEF BriefInv, SectionOK
  <2> QED BY <2>1, <2>2 DEF MeantInv, Open, Named
<1>11. ASSUME NEW p \in Phases, NEW S \in SUBSET Positions, AddPhase(p, S) PROVE MeantInv'
  BY <1>0, <1>11 DEF AddPhase
<1>12. CASE UNCHANGED bvars
  BY <1>12 DEF bvars, MeantInv, Open, Named
<1> QED BY <1>1, <1>2, <1>3, <1>4, <1>5, <1>6, <1>7, <1>8, <1>9, <1>10, <1>11, <1>12 DEF Next

\* Whatever is proposed at once, queued again, dropped, refused or cut short: an
\* accepted edit or removal lands on the entry it was made for, unless a removal
\* it did not ask for moved entries while it stood open (accept_proposal,
\* _fold).
THEOREM StraysWereMovedHolds == Spec => []StraysWereMoved
<1>1. Init => MeantInv
  BY DEF Init, MeantInv, Idle
<1>2. BriefInv /\ MeantInv /\ [Next]_bvars => MeantInv'
  BY MeantKept
<1>3. MeantInv => StraysWereMoved
  BY DEF MeantInv, StraysWereMoved
<1> QED BY <1>1, <1>2, <1>3, BriefInvHolds, PTL DEF Spec
=============================================================================
