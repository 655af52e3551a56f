--------------------------- MODULE SessionProofs ---------------------------
(***************************************************************************)
(* What a session keeps for any number of turns, calls and faults: what the *)
(* worker was told of its calls is what its restored tree shows, and the    *)
(* host gets what HostSession promises it.                                  *)
(***************************************************************************)
EXTENDS Session, TLAPS

Outcomes == {"ok", "error"}
Batches == [ids : Seq(Calls), files : SUBSET Calls, claims : BOOLEAN]
Tolds == SUBSET (Calls \X Outcomes)
SType ==
  [phase : {"worker", "tools", "handoff", "review", "complete"},
   pending : {"worker", "handoff", "review", "none", "tool"},
   turns : Nat,
   batch : Batches, results : Nat, told : Tolds, tree : Tree, final : BOOLEAN, heard : SUBSET Notes,
   filled : BOOLEAN, rollover : BOOLEAN, reflect : {"no", "on", "spent"},
   rejected : [Purposes -> Nat], blocked : BOOLEAN, suspended : BOOLEAN,
   looks : Nat, lastReview : Nat, spent : Nat]

\* A call is told one outcome, and the tree shows it.
Shows(told, tree) ==
  \A c \in Calls : /\ ~(<<c, "ok">> \in told /\ <<c, "error">> \in told)
                   /\ ~Bind => tree[c] = IF <<c, "ok">> \in told THEN 1 ELSE 0

\* The calls of a turn still to be told are new ones, each there once.
Fresh(ids, results, told) ==
  /\ \A i, j \in 1..Len(ids) : ids[i] = ids[j] => i = j
  /\ \A i \in 1..Len(ids), o \in Outcomes : results < i => <<ids[i], o>> \notin told

\* Every call so far came in a response that was accepted.
Past(ids, told, a) ==
  /\ \A i \in 1..Len(ids) : ids[i][1] <= a
  /\ \A c \in Calls, o \in Outcomes : <<c, o>> \in told => c[1] <= a

\* Where the pending call and the calls of the turn belong.
Placed(t) ==
  /\ t.phase # "tools" => t.batch.ids = <<>> /\ t.results = 0
  /\ t.phase = "tools" => t.results < Len(t.batch.ids)
  /\ t.pending = "tool" => t.phase = "tools"
  /\ t.pending \in {"worker", "handoff", "review"} => t.phase = t.pending
  /\ t.pending # "none" => t.phase # "complete"
  /\ t.turns <= MaxTurns
  /\ t.phase = "tools" \/ t.pending = "worker" => t.turns < MaxTurns

Good(t, a) ==
  /\ t \in SType /\ Placed(t)
  /\ Shows(t.told, t.tree) /\ Fresh(t.batch.ids, t.results, t.told)
  /\ Past(t.batch.ids, t.told, a)

SessionInv ==
  /\ proc \in {"down", "ready", "calling"} /\ asked \in 0..MaxAsked
  /\ Good(s, asked) /\ Good(saved, asked)
  /\ proc = "calling" => s = saved
  /\ proc = "calling" /\ s.pending = "worker" => asked < MaxAsked
  /\ ~Bind => s.tree \in snaps /\ saved.tree \in snaps
  /\ s.turns = saved.turns /\ s.heard = saved.heard
  /\ s.phase = "complete" <=> saved.phase = "complete"

----------------------------------------------------------------------------
\* A step that tells nothing and ends no turn.
Kin(t, u) ==
  /\ u \in SType /\ Placed(u)
  /\ u.told = t.told /\ u.tree = t.tree /\ u.batch.ids = t.batch.ids /\ u.results = t.results

LEMMA KinGood ==
  ASSUME NEW a, NEW t, NEW u, Good(t, a), Kin(t, u)
  PROVE  Good(u, a)
  BY DEF Good, Kin

LEMMA LaterGood ==
  ASSUME NEW a \in Nat, NEW t, Good(t, a)
  PROVE  Good(t, a + 1)
<1>1. \A i \in 1..Len(t.batch.ids) : t.batch.ids[i] \in Calls
  BY DEF Good, SType, Batches
<1>2. \A c \in Calls : c[1] \in Nat
  BY SessionAssumption DEF SessionAssumption, Calls
<1> QED BY <1>1, <1>2 DEF Good, Past

\* FinishTurn, on a state whose calls are all told.
LEMMA FinishIs ==
  ASSUME NEW t \in SType
  PROVE  LET u == FinishTurn(t)
         IN  /\ u \in SType /\ u.turns = t.turns + 1 /\ u.batch.ids = <<>> /\ u.results = 0
             /\ u.told = t.told /\ u.tree = t.tree /\ u.heard = t.heard
             /\ u.pending = t.pending /\ u.phase \in {"worker", "review", "complete"}
<1> DEFINE claimed == t.final \/ t.batch.claims
           final == claimed /\ t.reflect = "no"
           review == Reviewer /\ ~t.suspended /\ (Due(t.turns + 1, t.lastReview) \/ final)
           reflect == IF claimed /\ t.reflect = "on" THEN "spent" ELSE t.reflect
           phase == IF review THEN "review" ELSE IF final THEN "complete" ELSE "worker"
           turns == t.turns + 1
<1>1. /\ final \in BOOLEAN /\ reflect \in {"no", "on", "spent"}
      /\ phase \in {"worker", "review", "complete"} /\ turns \in Nat
  BY DEF SType
<1>2. NoBatch \in Batches
  BY DEF NoBatch, Batches
<1>3. NoBatch.ids = <<>>
  BY DEF NoBatch
<1>4. FinishTurn(t) = [t EXCEPT !.turns = turns, !.final = final, !.batch = NoBatch,
                                !.results = 0, !.reflect = reflect, !.phase = phase]
  BY DEF FinishTurn
<1> HIDE DEF final, reflect, phase, turns
<1> DEFINE v == [t EXCEPT !.turns = turns, !.final = final, !.batch = NoBatch, !.results = 0,
                           !.reflect = reflect, !.phase = phase]
<1>5. v \in SType
  BY <1>1, <1>2 DEF SType
<1>6. /\ v.turns = turns /\ v.batch = NoBatch /\ v.results = 0 /\ v.phase = phase
      /\ v.told = t.told /\ v.tree = t.tree /\ v.heard = t.heard /\ v.pending = t.pending
  BY DEF SType
<1> HIDE DEF v
<1>7. FinishTurn(t) = v
  BY <1>4 DEF v
<1> QED BY <1>1, <1>3, <1>5, <1>6, <1>7 DEF turns

\* A result is told of the call whose turn it is.
LEMMA TellGood ==
  ASSUME NEW a \in Nat, NEW t, t \in SType, Placed(t), t.phase = "tools",
         Fresh(t.batch.ids, t.results, t.told), Past(t.batch.ids, t.told, a),
         NEW o \in Outcomes, NEW again \in BOOLEAN,
         Shows(t.told \cup {<<t.batch.ids[t.results + 1], o>>}, t.tree)
  PROVE  LET u == Told(t, o, again)
             ends == t.results + 1 = Len(t.batch.ids)
         IN  /\ Good(u, a) /\ u.tree = t.tree /\ u.heard = t.heard /\ u.pending = "none"
             /\ ends => u.turns = t.turns + 1
             /\ ~ends => u.turns = t.turns /\ u.phase = "tools"
<1> DEFINE ids == t.batch.ids
           n == t.results + 1
           told == t.told \cup {<<ids[n], o>>}
           rollover == t.rollover \/ again
           v == [t EXCEPT !.told = told, !.results = n, !.pending = "none", !.rollover = rollover]
<1>1. /\ ids \in Seq(Calls) /\ t.results \in Nat /\ n \in 1..Len(ids) /\ ids[n] \in Calls
      /\ t.turns \in Nat
  BY DEF SType, Batches, Placed
<1>2. told \in Tolds /\ rollover \in BOOLEAN /\ n \in Nat
  BY <1>1 DEF SType, Tolds
<1>3. Told(t, o, again) = IF v.results = Len(v.batch.ids) THEN FinishTurn(v) ELSE v
  BY DEF Told
<1>4. Shows(told, t.tree)
  OBVIOUS
<1>5. \A i \in 1..Len(ids), q \in Outcomes : n < i => <<ids[i], q>> \notin told
  <2> SUFFICES ASSUME NEW i \in 1..Len(ids), NEW q \in Outcomes, n < i
               PROVE  <<ids[i], q>> \notin told
    OBVIOUS
  <2>1. t.results < i /\ i # n
    BY <1>1
  <2>2. ids[i] # ids[n]
    BY <1>1, <2>1 DEF Fresh
  <2>3. <<ids[i], q>> \notin t.told
    BY <2>1 DEF Fresh
  <2> QED BY <2>2, <2>3
<1>6. Fresh(ids, n, told)
  BY <1>5 DEF Fresh
<1>7. Past(ids, told, a)
  <2> SUFFICES ASSUME NEW c \in Calls, NEW q \in Outcomes, <<c, q>> \in told PROVE c[1] <= a
    BY DEF Past
  <2> QED BY <1>1 DEF Past
<1> HIDE DEF told, rollover, n
<1>8. v \in SType
  BY <1>2 DEF SType
<1>9. /\ v.told = told /\ v.results = n /\ v.pending = "none" /\ v.batch = t.batch
      /\ v.phase = "tools" /\ v.turns = t.turns /\ v.tree = t.tree /\ v.heard = t.heard
  BY DEF SType
<1> HIDE DEF v
<1>10. CASE n = Len(ids)
  <2> DEFINE u == FinishTurn(v)
  <2>1. Told(t, o, again) = u
    BY <1>3, <1>9, <1>10
  <2>2. /\ u \in SType /\ u.turns = t.turns + 1 /\ u.batch.ids = <<>> /\ u.results = 0
        /\ u.told = told /\ u.tree = t.tree /\ u.heard = t.heard
        /\ u.pending = "none" /\ u.phase \in {"worker", "review", "complete"}
    BY <1>8, <1>9, FinishIs
  <2> HIDE DEF u
  <2>3. t.turns < MaxTurns
    BY DEF Placed
  <2>4. Placed(u)
    BY <1>1, <2>2, <2>3, SessionAssumption DEF SessionAssumption, Placed
  <2>5. Fresh(<<>>, 0, told) /\ Past(<<>>, told, a)
    BY <1>7 DEF Fresh, Past
  <2>6. Good(u, a)
    BY <1>4, <2>2, <2>4, <2>5 DEF Good
  <2> QED BY <1>10, <2>1, <2>2, <2>6 DEF n
<1>11. CASE n # Len(ids)
  <2>1. Told(t, o, again) = v
    BY <1>3, <1>9, <1>11
  <2>2. Placed(v)
    BY <1>1, <1>9, <1>11 DEF Placed
  <2>3. Good(v, a)
    BY <1>4, <1>6, <1>7, <1>8, <1>9, <2>2 DEF Good
  <2> QED BY <1>9, <1>11, <2>1, <2>3 DEF n
<1> QED BY <1>10, <1>11

\* The tree before and after a call acts on it.
LEMMA TouchShows ==
  ASSUME NEW tree \in Tree, NEW told, NEW c \in Calls, Shows(told, tree),
         \A o \in Outcomes : <<c, o>> \notin told
  PROVE  /\ Touch(tree, c) \in Tree
         /\ Shows(told \cup {<<c, "ok">>}, IF Bind THEN tree ELSE Touch(tree, c))
         /\ Shows(told \cup {<<c, "error">>}, tree)
<1>1. Touch(tree, c) \in Tree
  BY DEF Touch, Tree
<1>2. \A d \in Calls : Touch(tree, c)[d] = IF d = c THEN (IF tree[c] = 2 THEN 2 ELSE tree[c] + 1)
                                           ELSE tree[d]
  BY DEF Touch, Tree
<1>3. <<c, "ok">> \notin told /\ <<c, "error">> \notin told
  BY DEF Outcomes
<1>4. Shows(told \cup {<<c, "ok">>}, IF Bind THEN tree ELSE Touch(tree, c))
  <2> DEFINE tree2 == IF Bind THEN tree ELSE Touch(tree, c)
  <2> SUFFICES ASSUME NEW d \in Calls
               PROVE  LET now == told \cup {<<c, "ok">>}
                      IN  /\ ~(<<d, "ok">> \in now /\ <<d, "error">> \in now)
                          /\ ~Bind => tree2[d] = IF <<d, "ok">> \in now THEN 1 ELSE 0
    BY DEF Shows
  <2>1. <<d, "error">> \in told \cup {<<c, "ok">>} => <<d, "error">> \in told
    OBVIOUS
  <2>2. CASE d = c
    <3>1. ~Bind => tree[c] = 0
      BY <1>3 DEF Shows
    <3> QED BY <1>2, <1>3, <2>1, <2>2, <3>1
  <2>3. CASE d # c
    <3>1. ~Bind => tree2[d] = tree[d]
      BY <1>2, <2>3
    <3>2. <<d, "ok">> \in told \cup {<<c, "ok">>} <=> <<d, "ok">> \in told
      BY <2>3
    <3> HIDE DEF tree2
    <3> QED BY <2>1, <3>1, <3>2 DEF Shows
  <2> QED BY <2>2, <2>3
<1>5. Shows(told \cup {<<c, "error">>}, tree)
  BY <1>3 DEF Shows
<1> QED BY <1>1, <1>4, <1>5

----------------------------------------------------------------------------
\* What the host sees of a step, apart from its own words.
Works ==
  /\ s.phase # "complete" /\ s'.turns \in {s.turns, s.turns + 1} /\ s'.turns <= MaxTurns
  /\ s'.heard = s.heard
Rests ==
  /\ s.phase = "complete" /\ s'.phase = "complete"
  /\ s'.turns = s.turns /\ s'.heard = s.heard
Serves(t, u) ==
  /\ u.turns = t.turns /\ u.heard = t.heard
  /\ t.phase = "complete" <=> u.phase = "complete"

\* A step that tells nothing: committed, or deferred.
LEMMA QuietInv ==
  ASSUME SessionInv, Kin(s, s'), UNCHANGED <<asked, snaps>>,
         proc' \in {"down", "ready", "calling"},
         saved' = s' \/ (saved' = saved /\ Serves(s, s')),
         proc' = "calling" => saved' = s' /\ (s'.pending = "worker" => asked < MaxAsked)
  PROVE  SessionInv'
<1>1. Good(s', asked)
  BY KinGood DEF SessionInv
<1>2. Good(saved', asked)
  BY <1>1 DEF SessionInv
<1>3. ~Bind => s'.tree \in snaps /\ saved'.tree \in snaps
  BY DEF SessionInv, Kin
<1>4. s'.turns = saved'.turns /\ s'.heard = saved'.heard
      /\ (s'.phase = "complete" <=> saved'.phase = "complete")
  BY DEF SessionInv, Serves
<1> QED BY <1>1, <1>2, <1>3, <1>4 DEF SessionInv

\* The steps of a session that is not complete, at the worker's boundary and
\* at the others'.
LEMMA SIs ==
  ASSUME SessionInv
  PROVE  /\ s \in SType /\ Placed(s) /\ saved \in SType /\ asked \in Nat
         /\ s.turns \in Nat /\ s.turns <= MaxTurns
  BY SessionAssumption DEF SessionAssumption, SessionInv, Good, SType, Placed

LEMMA ToHandoffKeeps == ASSUME SessionInv, ToHandoff PROVE SessionInv' /\ Works
<1>1. s \in SType /\ Placed(s)
  BY SIs
<1>2. PICK rollover \in BOOLEAN, reflect \in {"no", "on", "spent"} :
         s' = [s EXCEPT !.phase = "handoff", !.rollover = rollover, !.reflect = reflect]
  BY <1>1 DEF ToHandoff, Defer, SType
<1>3. /\ s' \in SType /\ s'.phase = "handoff" /\ s'.pending = s.pending /\ s'.turns = s.turns
      /\ s'.batch = s.batch /\ s'.results = s.results /\ s'.told = s.told /\ s'.tree = s.tree
      /\ s'.heard = s.heard
  BY <1>1, <1>2 DEF SType
<1>4. s.phase = "worker" /\ s.pending = "none" /\ proc = "ready" /\ saved' = saved
      /\ UNCHANGED <<proc, asked, snaps>>
  BY DEF ToHandoff, At, Defer
<1>5. Kin(s, s')
  BY <1>1, <1>3, <1>4 DEF Kin, Placed
<1>6. Serves(s, s')
  BY <1>3, <1>4 DEF Serves
<1>7. SessionInv'
  BY <1>4, <1>5, <1>6, QuietInv
<1>8. Works
  BY <1>3, <1>4, SIs DEF Works
<1> QED BY <1>7, <1>8

LEMMA AskWorkerKeeps == ASSUME SessionInv, AskWorker PROVE SessionInv' /\ Works
<1>1. s \in SType /\ Placed(s)
  BY SIs
<1>2. PICK reflect \in {"no", "on", "spent"} :
         s' = [s EXCEPT !.pending = "worker", !.reflect = reflect]
  BY <1>1 DEF AskWorker, Commit, SType
<1>3. /\ s' \in SType /\ s'.phase = s.phase /\ s'.pending = "worker" /\ s'.turns = s.turns
      /\ s'.batch = s.batch /\ s'.results = s.results /\ s'.told = s.told /\ s'.tree = s.tree
      /\ s'.heard = s.heard
  BY <1>1, <1>2 DEF SType
<1>4. s.phase = "worker" /\ s.pending = "none" /\ saved' = s' /\ proc' = "calling"
      /\ asked < MaxAsked /\ s.turns < MaxTurns /\ UNCHANGED <<asked, snaps>>
  BY DEF AskWorker, At, Commit
<1>5. Kin(s, s')
  BY <1>1, <1>3, <1>4 DEF Kin, Placed
<1>6. SessionInv'
  BY <1>4, <1>5, QuietInv
<1>7. Works
  BY <1>3, <1>4, SIs DEF Works
<1> QED BY <1>6, <1>7

LEMMA AskOtherKeeps == ASSUME SessionInv, AskOther PROVE SessionInv' /\ Works
<1>1. s \in SType /\ Placed(s)
  BY SIs
<1>2. PICK p \in {"handoff", "review"} : At(p) /\ Commit([s EXCEPT !.pending = p])
  BY DEF AskOther
<1>3. /\ s' \in SType /\ s'.phase = s.phase /\ s'.pending = p /\ s'.turns = s.turns
      /\ s'.batch = s.batch /\ s'.results = s.results /\ s'.told = s.told /\ s'.tree = s.tree
      /\ s'.heard = s.heard
  BY <1>1, <1>2 DEF SType, Commit
<1>4. s.phase = p /\ s.pending = "none" /\ saved' = s' /\ proc' = "calling"
      /\ UNCHANGED <<asked, snaps>>
  BY <1>2 DEF AskOther, At, Commit
<1>5. Kin(s, s')
  BY <1>1, <1>3, <1>4 DEF Kin, Placed
<1>6. SessionInv'
  BY <1>3, <1>4, <1>5, QuietInv
<1>7. Works
  BY <1>3, <1>4, SIs DEF Works
<1> QED BY <1>6, <1>7

LEMMA RejectKeeps == ASSUME SessionInv, Reject PROVE SessionInv' /\ Works
<1>1. s \in SType /\ Placed(s)
  BY SIs
<1>2. s.pending \in Purposes /\ s.rejected[s.pending] + 1 \in Nat
  BY <1>1 DEF Reject, SType
<1>3. PICK n \in Nat, rollover \in BOOLEAN, looks \in Nat, blocked \in BOOLEAN :
         s' = [s EXCEPT !.pending = "none", !.rejected[s.pending] = n, !.rollover = rollover,
                        !.looks = looks, !.blocked = blocked]
  <2>1. Look(s.looks) \in Nat
    BY <1>1 DEF Look, SType
  <2> DEFINE m == s.rejected[s.pending] + 1
             l == IF s.pending = "review" THEN Look(s.looks) ELSE s.looks
             r == s.rollover \/ (s.pending = "worker" /\ m \in 2..Retries /\ s.filled)
             b == m > Retries
  <2>2. s' = [s EXCEPT !.pending = "none", !.rejected[s.pending] = m, !.rollover = r,
                       !.looks = l, !.blocked = b]
    BY DEF Reject, Commit
  <2>3. m \in Nat /\ l \in Nat /\ r \in BOOLEAN /\ b \in BOOLEAN
    BY <1>1, <1>2, <2>1 DEF SType
  <2> HIDE DEF m, l, r, b
  <2> QED BY <2>2, <2>3
<1>4. /\ s' \in SType /\ s'.phase = s.phase /\ s'.pending = "none" /\ s'.turns = s.turns
      /\ s'.batch = s.batch /\ s'.results = s.results /\ s'.told = s.told /\ s'.tree = s.tree
      /\ s'.heard = s.heard
  BY <1>1, <1>2, <1>3 DEF SType
<1>5. s.phase # "complete" /\ saved' = s' /\ proc' = "ready" /\ UNCHANGED <<asked, snaps>>
  BY <1>1, <1>2 DEF Reject, Answered, Commit, Placed, Purposes
<1>6. Kin(s, s')
  BY <1>1, <1>4 DEF Kin, Placed
<1>7. SessionInv'
  BY <1>5, <1>6, QuietInv
<1>8. Works
  BY <1>4, <1>5, SIs DEF Works
<1> QED BY <1>7, <1>8

LEMMA HandedOffKeeps == ASSUME SessionInv, HandedOff PROVE SessionInv' /\ Works
<1>1. s \in SType /\ Placed(s)
  BY SIs
<1> DEFINE rejected == [s.rejected EXCEPT !["worker"] = 0, !["handoff"] = 0]
<1>2. s' = [s EXCEPT !.phase = "worker", !.pending = "none", !.filled = FALSE,
                     !.rejected = rejected]
  BY DEF HandedOff, Defer
<1>3. rejected \in [Purposes -> Nat]
  BY <1>1 DEF SType, Purposes
<1> HIDE DEF rejected
<1>4. /\ s' \in SType /\ s'.phase = "worker" /\ s'.pending = "none" /\ s'.turns = s.turns
      /\ s'.batch = s.batch /\ s'.results = s.results /\ s'.told = s.told /\ s'.tree = s.tree
      /\ s'.heard = s.heard
  BY <1>1, <1>2, <1>3 DEF SType
<1>5. /\ s.phase = "handoff" /\ saved' = saved /\ proc' = "ready" /\ UNCHANGED <<asked, snaps>>
  BY <1>1 DEF HandedOff, Answered, Defer, Placed
<1>6. Kin(s, s')
  BY <1>1, <1>4, <1>5 DEF Kin, Placed
<1>7. Serves(s, s')
  BY <1>4, <1>5 DEF Serves
<1>8. SessionInv'
  BY <1>5, <1>6, <1>7, QuietInv
<1>9. Works
  BY <1>4, <1>5, SIs DEF Works
<1> QED BY <1>8, <1>9

\* The decision on a claim, and on the way.
LEMMA DecidedIs ==
  ASSUME NEW t \in SType, NEW replaced \in BOOLEAN
  PROVE  LET u == Decided(t, replaced)
         IN  /\ u \in SType /\ u.phase \in {"worker", "complete"} /\ u.pending = "none"
             /\ u.turns = t.turns /\ u.batch = t.batch /\ u.results = t.results
             /\ u.told = t.told /\ u.tree = t.tree /\ u.heard = t.heard
<1> DEFINE rejected == [t.rejected EXCEPT !["review"] = 0]
           phase == IF t.final /\ ~replaced THEN "complete" ELSE "worker"
           final == t.final /\ ~replaced
           spent == IF t.final /\ replaced THEN t.spent + 1 ELSE t.spent
           v == [t EXCEPT !.pending = "none", !.looks = 0, !.lastReview = t.turns,
                          !.rejected = rejected, !.phase = phase, !.final = final, !.spent = spent]
<1>1. /\ rejected \in [Purposes -> Nat] /\ phase \in {"worker", "complete"}
      /\ final \in BOOLEAN /\ spent \in Nat /\ t.turns \in Nat
  BY DEF SType, Purposes
<1>2. Decided(t, replaced) = v
  BY DEF Decided, SType
<1> HIDE DEF rejected, phase, final, spent
<1>3. v \in SType
  BY <1>1 DEF SType
<1>4. /\ v.phase = phase /\ v.pending = "none"
      /\ v.turns = t.turns /\ v.batch = t.batch /\ v.results = t.results
      /\ v.told = t.told /\ v.tree = t.tree /\ v.heard = t.heard
  BY DEF SType
<1> HIDE DEF v
<1> QED BY <1>1, <1>2, <1>3, <1>4

LEMMA DecideKeeps == ASSUME SessionInv, Decide PROVE SessionInv' /\ Works
<1>1. s \in SType /\ Placed(s)
  BY SIs
<1>2. s.phase = "review" /\ saved' = s' /\ proc' = "ready" /\ UNCHANGED <<asked, snaps>>
  BY <1>1 DEF Decide, Answered, Commit, Placed
<1>3. /\ s' \in SType /\ s'.phase # "tools" /\ s'.pending = "none" /\ s'.turns = s.turns
      /\ s'.batch = s.batch /\ s'.results = s.results /\ s'.told = s.told /\ s'.tree = s.tree
      /\ s'.heard = s.heard
  <2>1. CASE \E replaced \in BOOLEAN : s' = Decided(s, replaced)
    BY <1>1, <2>1, DecidedIs
  <2>2. CASE s' = [s EXCEPT !.pending = "none", !.looks = Look(@), !.rejected["review"] = 0]
    <3> DEFINE rejected == [s.rejected EXCEPT !["review"] = 0]
               looks == Look(s.looks)
    <3>1. rejected \in [Purposes -> Nat] /\ looks \in Nat
      BY <1>1 DEF SType, Purposes, Look
    <3>2. s' = [s EXCEPT !.pending = "none", !.looks = looks, !.rejected = rejected]
      BY <2>2, <1>1 DEF SType
    <3> HIDE DEF rejected, looks
    <3> QED BY <1>1, <1>2, <3>1, <3>2 DEF SType
  <2>3. \/ \E replaced \in BOOLEAN : s' = Decided(s, replaced)
        \/ s' = [s EXCEPT !.pending = "none", !.looks = Look(@), !.rejected["review"] = 0]
    <3>1. (\E replace \in BOOLEAN : s' = Decided(s, replace /\ (s.final => s.spent < Corrections)))
            => \E replaced \in BOOLEAN : s' = Decided(s, replaced)
      OBVIOUS
    <3> QED BY <3>1 DEF Decide, Commit
  <2> QED BY <2>1, <2>2, <2>3
<1>4. Kin(s, s')
  BY <1>1, <1>2, <1>3 DEF Kin, Placed
<1>5. SessionInv'
  BY <1>2, <1>4, QuietInv
<1>6. Works
  BY <1>2, <1>3, SIs DEF Works
<1> QED BY <1>5, <1>6

\* What the host does between the steps, and a boundary left behind.
LEMMA SetReviewsKeeps == ASSUME SessionInv, SetReviews PROVE SessionInv' /\ Rests
<1>1. s \in SType /\ Placed(s)
  BY SIs
<1>2. s' = [s EXCEPT !.suspended = ~s.suspended] /\ s.phase = "complete" /\ saved' = s'
      /\ proc' = "ready" /\ UNCHANGED <<asked, snaps>>
  BY DEF SetReviews, Commit
<1>3. /\ s' \in SType /\ s'.phase = "complete" /\ s'.pending = s.pending /\ s'.turns = s.turns
      /\ s'.batch = s.batch /\ s'.results = s.results /\ s'.told = s.told /\ s'.tree = s.tree
      /\ s'.heard = s.heard
  <2>1. (~s.suspended) \in BOOLEAN
    OBVIOUS
  <2> QED BY <1>1, <1>2, <2>1 DEF SType
<1>4. Kin(s, s')
  BY <1>1, <1>2, <1>3 DEF Kin, Placed
<1>5. SessionInv'
  BY <1>2, <1>4, QuietInv
<1> QED BY <1>2, <1>3, <1>5 DEF Rests

LEMMA ResetBlockKeeps == ASSUME SessionInv, ResetBlock PROVE SessionInv' /\ (Works \/ Rests)
<1>1. s \in SType /\ Placed(s)
  BY SIs
<1> DEFINE rejected == [p \in Purposes |-> 0]
           rollover == s.rollover \/ s.filled
<1>2. s' = [s EXCEPT !.blocked = FALSE, !.rejected = rejected, !.rollover = rollover]
      /\ saved' = s' /\ proc' = "ready" /\ UNCHANGED <<asked, snaps>>
  BY DEF ResetBlock, Commit
<1>3. rejected \in [Purposes -> Nat] /\ rollover \in BOOLEAN
  BY <1>1 DEF SType
<1> HIDE DEF rejected, rollover
<1>4. /\ s' \in SType /\ s'.phase = s.phase /\ s'.pending = s.pending /\ s'.turns = s.turns
      /\ s'.batch = s.batch /\ s'.results = s.results /\ s'.told = s.told /\ s'.tree = s.tree
      /\ s'.heard = s.heard
  BY <1>1, <1>2, <1>3 DEF SType
<1>5. Kin(s, s')
  BY <1>1, <1>4 DEF Kin, Placed
<1>6. SessionInv'
  BY <1>2, <1>5, QuietInv
<1> QED BY <1>4, <1>6, SIs DEF Works, Rests

LEMMA PauseKeeps == ASSUME SessionInv, Pause PROVE SessionInv' /\ Works
<1>1. s' = s /\ saved' = s /\ proc' = "ready" /\ s.phase = "worker" /\ UNCHANGED <<asked, snaps>>
  BY DEF Pause, Commit, At
<1>2. Kin(s, s')
  BY <1>1, SIs DEF Kin
<1>3. SessionInv'
  BY <1>1, <1>2, QuietInv
<1> QED BY <1>1, <1>3, SIs DEF Works

LEMMA SayKeeps ==
  ASSUME SessionInv, NEW n \in Notes, Say(n)
  PROVE  /\ SessionInv' /\ s.phase \in {"complete", "worker"} /\ s.pending = "none"
         /\ s'.phase = "worker" /\ s'.pending = "none" /\ s'.turns = s.turns
         /\ n \notin s.heard /\ s'.heard = s.heard \cup {n}
<1>1. s \in SType /\ Placed(s)
  BY SIs
<1>2. /\ s' = [s EXCEPT !.heard = s.heard \cup {n}, !.phase = "worker", !.final = FALSE,
                        !.filled = TRUE]
      /\ s.phase \in {"complete", "worker"} /\ s.pending = "none" /\ n \notin s.heard
      /\ saved' = s' /\ proc' = "ready" /\ UNCHANGED <<asked, snaps>>
  BY DEF Say, Commit
<1>3. /\ s' \in SType /\ s'.phase = "worker" /\ s'.pending = "none" /\ s'.turns = s.turns
      /\ s'.batch = s.batch /\ s'.results = s.results /\ s'.told = s.told /\ s'.tree = s.tree
      /\ s'.heard = s.heard \cup {n}
  BY <1>1, <1>2 DEF SType
<1>4. Kin(s, s')
  BY <1>1, <1>2, <1>3 DEF Kin, Placed
<1>5. SessionInv'
  BY <1>2, <1>4, QuietInv
<1> QED BY <1>2, <1>3, <1>5

----------------------------------------------------------------------------
\* The calls of a response that was just accepted.
LEMMA NewCalls ==
  ASSUME NEW a \in Nat, a < MaxAsked, NEW n \in 0..MaxCalls, NEW files \in SUBSET (1..n),
         NEW told \in Tolds, NEW claims \in BOOLEAN,
         Past(<<>>, told, a)
  PROVE  LET b == [ids |-> [i \in 1..n |-> <<a + 1, i>>],
                   files |-> {<<a + 1, i>> : i \in files}, claims |-> claims]
         IN  /\ b \in Batches /\ Len(b.ids) = n
             /\ Fresh(b.ids, 0, told) /\ Past(b.ids, told, a + 1)
<1> DEFINE ids == [i \in 1..n |-> <<a + 1, i>>]
<1>1. n \in Nat /\ a + 1 \in 1..MaxAsked /\ \A i \in 1..n : i \in 1..MaxCalls
  BY SessionAssumption DEF SessionAssumption
<1>2. \A i \in 1..n : <<a + 1, i>> \in Calls
  BY <1>1 DEF Calls
<1>3. ids \in Seq(Calls) /\ Len(ids) = n
  BY <1>1, <1>2
<1>4. {<<a + 1, i>> : i \in files} \in SUBSET Calls
  BY <1>2
<1>5. \A c \in Calls, o \in Outcomes : <<c, o>> \in told => c[1] <= a
  BY DEF Past
<1>6. \A c \in Calls : c[1] \in Nat
  BY <1>1, SessionAssumption DEF SessionAssumption, Calls
<1>7. Fresh(ids, 0, told)
  <2>1. \A i, j \in 1..n : ids[i] = ids[j] => i = j
    OBVIOUS
  <2>2. \A i \in 1..n, o \in Outcomes : <<ids[i], o>> \notin told
    <3> SUFFICES ASSUME NEW i \in 1..n, NEW o \in Outcomes, <<ids[i], o>> \in told
                 PROVE  FALSE
      OBVIOUS
    <3>1. ids[i] \in Calls /\ ids[i][1] = a + 1
      BY <1>2
    <3> QED BY <1>5, <3>1
  <2> QED BY <1>3, <2>1, <2>2 DEF Fresh
<1>8. Past(ids, told, a + 1)
  <2>1. \A i \in 1..n : ids[i][1] <= a + 1
    BY <1>1
  <2>2. \A c \in Calls, o \in Outcomes : <<c, o>> \in told => c[1] <= a + 1
    BY <1>5, <1>6
  <2> QED BY <1>3, <2>1, <2>2 DEF Past
<1> QED BY <1>3, <1>4, <1>7, <1>8 DEF Batches

LEMMA AcceptKeeps == ASSUME SessionInv, Accept PROVE SessionInv' /\ Works
<1>1. /\ s \in SType /\ Placed(s) /\ asked \in Nat /\ saved = s /\ asked < MaxAsked
      /\ s.phase = "worker" /\ s.batch.ids = <<>> /\ s.turns < MaxTurns
      /\ Shows(s.told, s.tree) /\ Past(<<>>, s.told, asked)
  BY SIs DEF SessionInv, Accept, Answered, Placed, Good
<1> DEFINE accepts(n, files, claims) ==
             LET id(i) == <<asked + 1, i>>
                 t == [s EXCEPT !.pending = "none", !.filled = TRUE, !.rejected["worker"] = 0,
                         !.final = n = 0,
                         !.batch = [ids |-> [i \in 1..n |-> id(i)],
                                    files |-> {id(i) : i \in files},
                                    claims |-> n # 0 /\ claims]]
             IN  /\ Go(IF n = 0 THEN FinishTurn(t) ELSE [t EXCEPT !.phase = "tools"], n = 0)
                 /\ snaps' = IF n = 0 THEN Kept(snaps, t.tree) ELSE snaps
<1>0. PICK n \in 0..MaxCalls :
         \E files \in SUBSET (1..n), claims \in BOOLEAN : accepts(n, files, claims)
  BY DEF Accept
<1>2. PICK files \in SUBSET (1..n), claims \in BOOLEAN : accepts(n, files, claims)
  BY <1>0
<1> DEFINE b == [ids |-> [i \in 1..n |-> <<asked + 1, i>>],
                 files |-> {<<asked + 1, i>> : i \in files}, claims |-> (n # 0 /\ claims)]
           rejected == [s.rejected EXCEPT !["worker"] = 0]
           final == n = 0
           t == [s EXCEPT !.pending = "none", !.filled = TRUE, !.rejected = rejected,
                          !.final = final, !.batch = b]
<1>3. /\ b \in Batches /\ Len(b.ids) = n
      /\ Fresh(b.ids, 0, s.told) /\ Past(b.ids, s.told, asked + 1)
  <2>1. s.told \in Tolds /\ (n # 0 /\ claims) \in BOOLEAN
    BY <1>1 DEF SType
  <2> QED BY <1>1, <2>1, NewCalls
<1>4. rejected \in [Purposes -> Nat] /\ final \in BOOLEAN
  BY <1>1 DEF SType, Purposes
<1>5. /\ Go(IF n = 0 THEN FinishTurn(t) ELSE [t EXCEPT !.phase = "tools"], n = 0)
      /\ snaps' = IF n = 0 THEN Kept(snaps, t.tree) ELSE snaps
  BY <1>1, <1>2 DEF SType
<1> HIDE DEF b, rejected, final
<1>6. t \in SType
  BY <1>1, <1>3, <1>4 DEF SType
<1>7. /\ t.phase = "worker" /\ t.pending = "none" /\ t.turns = s.turns /\ t.batch = b
      /\ t.results = s.results /\ t.told = s.told /\ t.tree = s.tree /\ t.heard = s.heard
  BY <1>1 DEF SType
<1> HIDE DEF t
<1>8. asked' = asked + 1 /\ proc' = "ready" /\ asked' \in 0..MaxAsked /\ s.turns \in Nat
  BY <1>1, SessionAssumption DEF SessionAssumption, Accept, Answered, SType
<1>9. CASE n = 0
  <2> DEFINE u == FinishTurn(t)
  <2>1. /\ u \in SType /\ u.turns = s.turns + 1 /\ u.batch.ids = <<>> /\ u.results = 0
        /\ u.told = s.told /\ u.tree = s.tree /\ u.heard = s.heard
        /\ u.pending = "none" /\ u.phase \in {"worker", "review", "complete"}
    BY <1>6, <1>7, FinishIs
  <2>2. s' = u /\ saved' = u /\ snaps' = snaps \cap {s.tree, saved.tree}
    BY <1>5, <1>7, <1>9 DEF Go, Commit, Kept
  <2> HIDE DEF u
  <2>3. Placed(u)
    BY <1>1, <1>8, <2>1, SessionAssumption DEF SessionAssumption, Placed
  <2>4. Fresh(<<>>, 0, s.told) /\ Past(<<>>, s.told, asked + 1)
    BY <1>3 DEF Fresh, Past
  <2>5. Good(u, asked + 1)
    BY <1>1, <2>1, <2>3, <2>4 DEF Good
  <2>6. SessionInv'
    BY <1>8, <2>1, <2>2, <2>5 DEF SessionInv
  <2>7. Works
    BY <1>1, <1>8, <2>1, <2>2, SessionAssumption DEF SessionAssumption, Works
  <2> QED BY <2>6, <2>7
<1>10. CASE n # 0
  <2> DEFINE u == [t EXCEPT !.phase = "tools"]
  <2>1. s' = u /\ saved' = saved /\ snaps' = snaps
    BY <1>5, <1>10 DEF Go, Defer
  <2>2. /\ u \in SType /\ u.phase = "tools" /\ u.pending = "none" /\ u.turns = s.turns
        /\ u.batch = b /\ u.results = s.results /\ u.told = s.told /\ u.tree = s.tree
        /\ u.heard = s.heard
    BY <1>6, <1>7 DEF SType
  <2> HIDE DEF u
  <2>3. s.results = 0
    BY <1>1 DEF Placed
  <2>4. Placed(u)
    BY <1>1, <1>3, <1>10, <2>2, <2>3 DEF Placed
  <2>5. Good(u, asked + 1)
    BY <1>1, <1>3, <2>2, <2>3, <2>4 DEF Good
  <2>6. Good(saved, asked + 1)
    BY <1>1, LaterGood DEF SessionInv
  <2>7. SessionInv'
    BY <1>1, <1>8, <2>1, <2>2, <2>5, <2>6 DEF SessionInv
  <2>8. Works
    BY <1>1, <1>8, <2>1, <2>2, SessionAssumption DEF SessionAssumption, Works
  <2> QED BY <2>7, <2>8
<1> QED BY <1>9, <1>10

LEMMA ShellStartKeeps == ASSUME SessionInv, ShellStart PROVE SessionInv' /\ Works
<1>1. s \in SType /\ Placed(s)
  BY SIs
<1>2. /\ s' = [s EXCEPT !.pending = "tool"] /\ saved' = s' /\ proc' = "calling"
      /\ s.phase = "tools" /\ s.pending = "none" /\ UNCHANGED <<asked, snaps>>
  BY DEF ShellStart, At, Commit
<1>3. /\ s' \in SType /\ s'.phase = s.phase /\ s'.pending = "tool" /\ s'.turns = s.turns
      /\ s'.batch = s.batch /\ s'.results = s.results /\ s'.told = s.told /\ s'.tree = s.tree
      /\ s'.heard = s.heard
  BY <1>1, <1>2 DEF SType
<1>4. Kin(s, s')
  BY <1>1, <1>2, <1>3 DEF Kin, Placed
<1>5. SessionInv'
  BY <1>2, <1>3, <1>4, QuietInv
<1>6. Works
  BY <1>2, <1>3, SIs DEF Works
<1> QED BY <1>5, <1>6

\* A call of the turn, at the tools, before and after it acts.
LEMMA ActedIs ==
  ASSUME SessionInv, s.phase = "tools"
  PROVE  /\ Acted(s) \in SType /\ Placed(Acted(s)) /\ Acted(s).phase = "tools"
         /\ Acted(s).batch = s.batch /\ Acted(s).results = s.results
         /\ Acted(s).told = s.told /\ Acted(s).turns = s.turns /\ Acted(s).heard = s.heard
         /\ Shows(s.told \cup {<<NextCall, "ok">>}, Acted(s).tree)
         /\ Shows(s.told \cup {<<NextCall, "error">>}, s.tree)
<1>1. /\ s \in SType /\ Placed(s) /\ Shows(s.told, s.tree) /\ s.tree \in Tree
      /\ Fresh(s.batch.ids, s.results, s.told)
  BY SIs DEF SessionInv, Good, SType
<1>2. s.batch.ids \in Seq(Calls) /\ s.results \in Nat /\ s.results < Len(s.batch.ids)
  BY <1>1 DEF SType, Batches, Placed
<1>3. s.results + 1 \in 1..Len(s.batch.ids) /\ s.results < s.results + 1
  BY <1>2
<1>4. NextCall \in Calls
  BY <1>2, <1>3 DEF NextCall
<1>5. \A o \in Outcomes : <<NextCall, o>> \notin s.told
  BY <1>1, <1>3 DEF Fresh, NextCall
<1>6. /\ Touch(s.tree, NextCall) \in Tree
      /\ Shows(s.told \cup {<<NextCall, "ok">>},
               IF Bind THEN s.tree ELSE Touch(s.tree, NextCall))
      /\ Shows(s.told \cup {<<NextCall, "error">>}, s.tree)
  BY <1>1, <1>4, <1>5, TouchShows
<1>7. CASE Bind
  <2>1. Acted(s) = s
    BY <1>7 DEF Acted
  <2> QED BY <1>1, <1>6, <1>7, <2>1
<1>8. CASE ~Bind
  <2> DEFINE v == [s EXCEPT !.tree = Touch(s.tree, NextCall)]
  <2>1. Acted(s) = v
    BY <1>8 DEF Acted
  <2>2. /\ v \in SType /\ v.phase = s.phase /\ v.pending = s.pending /\ v.batch = s.batch
        /\ v.results = s.results /\ v.told = s.told /\ v.turns = s.turns /\ v.heard = s.heard
        /\ v.tree = Touch(s.tree, NextCall)
    BY <1>1, <1>6 DEF SType
  <2> HIDE DEF v
  <2>3. Placed(v)
    BY <1>1, <2>2 DEF Placed
  <2> QED BY <1>6, <1>8, <2>1, <2>2, <2>3
<1> QED BY <1>7, <1>8

\* What the committed state and the coming one refer to is not pruned.
LEMMA PutKeepsTree ==
  ASSUME SessionInv, NEW t, t.tree \in Tree, Put(t), ~Bind
  PROVE  t.tree \in snaps' /\ saved.tree \in snaps'
  BY DEF Put, Kept, SessionInv

\* A call of the turn is told, and what it did is put on disk.
LEMMA ToolInv ==
  ASSUME SessionInv, s.phase = "tools", NEW o \in Outcomes, NEW again \in BOOLEAN,
         proc' = "ready", asked' = asked,
         Go(Told(IF o = "ok" THEN Acted(s) ELSE s, o, again), Ends),
         Put(IF o = "ok" THEN Acted(s) ELSE s)
  PROVE  SessionInv' /\ Works
<1> DEFINE t == IF o = "ok" THEN Acted(s) ELSE s
           u == Told(t, o, again)
<1>1. /\ t \in SType /\ Placed(t) /\ t.phase = "tools" /\ t.batch = s.batch
      /\ t.results = s.results /\ t.told = s.told /\ t.turns = s.turns /\ t.heard = s.heard
      /\ Shows(t.told \cup {<<NextCall, o>>}, t.tree)
  BY ActedIs, SIs DEF Outcomes
<1>2. /\ Fresh(t.batch.ids, t.results, t.told) /\ Past(t.batch.ids, t.told, asked)
      /\ asked \in Nat /\ NextCall = t.batch.ids[t.results + 1]
      /\ Ends <=> t.results + 1 = Len(t.batch.ids)
  BY <1>1, SIs DEF SessionInv, Good, NextCall, Ends
<1>3. Go(u, Ends) /\ Put(t)
  OBVIOUS
<1> HIDE DEF t
<1>4. /\ Good(u, asked) /\ u.tree = t.tree /\ u.heard = s.heard /\ u.pending = "none"
      /\ Ends => u.turns = s.turns + 1
      /\ ~Ends => u.turns = s.turns /\ u.phase = "tools"
  <2>1. Shows(t.told \cup {<<t.batch.ids[t.results + 1], o>>}, t.tree)
    BY <1>1, <1>2
  <2> DEFINE ends == t.results + 1 = Len(t.batch.ids)
  <2>2. /\ Good(u, asked) /\ u.tree = t.tree /\ u.heard = t.heard /\ u.pending = "none"
        /\ ends => u.turns = t.turns + 1
        /\ ~ends => u.turns = t.turns /\ u.phase = "tools"
    BY <1>1, <1>2, <2>1, TellGood
  <2>3. Ends <=> ends
    BY <1>2
  <2> HIDE DEF ends, u
  <2> QED BY <1>1, <2>2, <2>3
<1> HIDE DEF u
<1>5. s' = u /\ saved' = IF Ends THEN u ELSE saved
  BY <1>3 DEF Go, Commit, Defer
<1>6. ~Bind => t.tree \in snaps' /\ saved.tree \in snaps'
  BY <1>1, <1>3, PutKeepsTree DEF SType
<1>7. u \in SType /\ Placed(u)
  BY <1>4 DEF Good
<1>8. SessionInv'
  BY <1>4, <1>5, <1>6 DEF SessionInv
<1>9. Works
  BY <1>4, <1>5, <1>7, SIs DEF Works, Placed
<1> QED BY <1>8, <1>9

LEMMA FileToolKeeps == ASSUME SessionInv, FileTool PROVE SessionInv' /\ Works
<1>1. s.phase = "tools" /\ proc' = "ready" /\ asked' = asked
  BY DEF FileTool, At
<1>2. PICK again \in BOOLEAN :
         \/ Go(Told(Acted(s), "ok", again), Ends) /\ Put(Acted(s))
         \/ Go(Told(s, "error", again), Ends) /\ Put(s)
  BY DEF FileTool
<1>3. \E o \in Outcomes : /\ Go(Told(IF o = "ok" THEN Acted(s) ELSE s, o, again), Ends)
                          /\ Put(IF o = "ok" THEN Acted(s) ELSE s)
  <2>1. "ok" \in Outcomes /\ "error" \in Outcomes /\ "error" # "ok"
    BY DEF Outcomes
  <2> QED BY <1>2, <2>1
<1> QED BY <1>1, <1>3, ToolInv

LEMMA ShellEndKeeps == ASSUME SessionInv, ShellEnd PROVE SessionInv' /\ Works
<1>1. s.phase = "tools" /\ proc' = "ready" /\ asked' = asked
  BY SIs DEF ShellEnd, Answered, Placed
<1>2. PICK again \in BOOLEAN : Go(Told(Acted(s), "ok", again), Ends) /\ Put(Acted(s))
  BY DEF ShellEnd
<1>3. \E o \in Outcomes : /\ Go(Told(IF o = "ok" THEN Acted(s) ELSE s, o, again), Ends)
                          /\ Put(IF o = "ok" THEN Acted(s) ELSE s)
  BY <1>2 DEF Outcomes
<1> QED BY <1>1, <1>3, ToolInv

\* What was pending is told to have failed; of another call nothing is kept.
LEMMA DiscardKeeps == ASSUME SessionInv, Discard PROVE SessionInv' /\ Works
<1>1. s \in SType /\ Placed(s) /\ proc = "ready" /\ proc' = "ready" /\ asked' = asked
      /\ s.pending # "none" /\ s.phase # "complete"
  BY SIs DEF Discard, Placed
<1>2. CASE s.pending = "tool"
  <2> DEFINE u == Told(s, "error", FALSE)
             ends == s.results + 1 = Len(s.batch.ids)
  <2>1. s' = u /\ saved' = u /\ Put(s) /\ s.phase = "tools"
    BY <1>1, <1>2 DEF Discard, Commit, Placed
  <2>2. /\ Fresh(s.batch.ids, s.results, s.told) /\ Past(s.batch.ids, s.told, asked)
        /\ asked \in Nat /\ NextCall = s.batch.ids[s.results + 1]
    BY SIs DEF SessionInv, Good, NextCall
  <2>3. Shows(s.told \cup {<<s.batch.ids[s.results + 1], "error">>}, s.tree)
    BY <2>1, <2>2, ActedIs
  <2>4. "error" \in Outcomes /\ FALSE \in BOOLEAN
    BY DEF Outcomes
  <2>5. /\ Good(u, asked) /\ u.tree = s.tree /\ u.heard = s.heard /\ u.pending = "none"
        /\ ends => u.turns = s.turns + 1
        /\ ~ends => u.turns = s.turns /\ u.phase = "tools"
    BY <1>1, <2>1, <2>2, <2>3, <2>4, TellGood
  <2> HIDE DEF u, ends
  <2>6. ~Bind => s.tree \in snaps'
    BY <1>1, <2>1, PutKeepsTree DEF SType
  <2>7. SessionInv'
    BY <1>1, <2>1, <2>5, <2>6 DEF SessionInv
  <2>8. u \in SType /\ Placed(u)
    BY <2>5 DEF Good
  <2>9. Works
    BY <1>1, <2>1, <2>5, <2>8, SIs DEF Works, Placed
  <2> QED BY <2>7, <2>9
<1>3. CASE s.pending # "tool"
  <2>1. s' = [s EXCEPT !.pending = "none"] /\ saved' = s' /\ UNCHANGED snaps
    BY <1>3 DEF Discard, Commit
  <2>2. /\ s' \in SType /\ s'.phase = s.phase /\ s'.pending = "none" /\ s'.turns = s.turns
        /\ s'.batch = s.batch /\ s'.results = s.results /\ s'.told = s.told
        /\ s'.tree = s.tree /\ s'.heard = s.heard
    BY <1>1, <2>1 DEF SType
  <2>3. Kin(s, s')
    BY <1>1, <2>2 DEF Kin, Placed
  <2>4. SessionInv'
    BY <1>1, <2>1, <2>2, <2>3, QuietInv
  <2>5. Works
    BY <1>1, <2>2, SIs DEF Works
  <2> QED BY <2>4, <2>5
<1> QED BY <1>2, <1>3

\* A step back to the committed state, whatever a torn step did to the disk.
LEMMA BackKeeps ==
  ASSUME SessionInv, s' = saved, saved' = saved, asked' = asked,
         proc' \in {"down", "ready"}, Torn \/ UNCHANGED <<dir, snaps>>
  PROVE  SessionInv' /\ (Works \/ Rests)
<1>1. ~Bind => saved.tree \in snaps'
  <2>1. CASE UNCHANGED snaps
    BY <2>1 DEF SessionInv
  <2>2. CASE Put(Acted(s))
    BY <2>2 DEF SessionInv, Put, Kept
  <2> QED BY <2>1, <2>2 DEF Torn
<1>2. SessionInv'
  BY <1>1 DEF SessionInv
<1>3. s'.turns = s.turns /\ s'.heard = s.heard /\ (s.phase = "complete" <=> s'.phase = "complete")
  BY DEF SessionInv
<1> QED BY <1>2, <1>3, SIs DEF Works, Rests

LEMMA FaultsKeep ==
  ASSUME SessionInv, Fails \/ Kill \/ Open
  PROVE  SessionInv' /\ (Works \/ Rests)
  BY BackKeeps DEF Fails, Kill, Open

\* What every step is to the host: one of its words, work, or nothing.
Serving ==
  \/ Works \/ Rests \/ UNCHANGED s
  \/ \E n \in Notes : /\ s.phase \in {"complete", "worker"} /\ s.pending = "none"
                       /\ s'.phase = "worker" /\ s'.pending = "none" /\ s'.turns = s.turns
                       /\ n \notin s.heard /\ s'.heard = s.heard \cup {n}

LEMMA StepKeeps == ASSUME SessionInv, [Next]_svars PROVE SessionInv' /\ Serving
<1>1. CASE Turning
  <2>1. SessionInv' /\ Works
    BY <1>1, ToHandoffKeeps, AskWorkerKeeps, AskOtherKeeps, AcceptKeeps, HandedOffKeeps,
       FileToolKeeps, ShellStartKeeps, ShellEndKeeps, DecideKeeps DEF Turning
  <2> QED BY <2>1 DEF Serving
<1>2. CASE Discard \/ Reject \/ Pause
  BY <1>2, DiscardKeeps, RejectKeeps, PauseKeeps DEF Serving
<1>3. CASE Open \/ Fails \/ Kill
  BY <1>3, FaultsKeep DEF Serving
<1>4. CASE SetReviews \/ ResetBlock
  BY <1>4, SetReviewsKeeps, ResetBlockKeeps DEF Serving
<1>5. CASE \E n \in Notes : Say(n)
  BY <1>5, SayKeeps DEF Serving
<1>6. CASE UNCHANGED svars
  BY <1>6 DEF svars, SessionInv, Serving
<1> QED BY <1>1, <1>2, <1>3, <1>4, <1>5, <1>6 DEF Next, Recovering

LEMMA NewGood == Good(New, 0)
<1>1. Untouched \in Tree /\ \A c \in Calls : Untouched[c] = 0
  BY DEF Untouched, Tree
<1>2. NoBatch \in Batches /\ NoBatch.ids = <<>>
  BY DEF NoBatch, Batches
<1>3. New \in SType
  BY <1>1, <1>2 DEF New, SType, Tolds
<1>4. /\ New.phase = "worker" /\ New.pending = "none" /\ New.turns = 0 /\ New.batch = NoBatch
      /\ New.results = 0 /\ New.told = {} /\ New.tree = Untouched
  BY DEF New
<1>5. Placed(New)
  BY <1>2, <1>4, SessionAssumption DEF SessionAssumption, Placed
<1>6. Shows({}, Untouched) /\ Fresh(<<>>, 0, {}) /\ Past(<<>>, {}, 0)
  BY <1>1 DEF Shows, Fresh, Past
<1> QED BY <1>2, <1>3, <1>4, <1>5, <1>6 DEF Good

LEMMA InitKeeps == ASSUME Init PROVE SessionInv
<1>1. New.tree = Untouched /\ 0 \in 0..MaxAsked
  BY SessionAssumption DEF SessionAssumption, New
<1> QED BY <1>1, NewGood DEF Init, SessionInv

\* The session is where its phase says, in memory and on disk, whatever
\* fails and whenever it is killed.
THEOREM Sound == Spec => []SessionInv
<1>1. Init => SessionInv
  BY InitKeeps
<1>2. SessionInv /\ [Next]_svars => SessionInv'
  BY StepKeeps
<1> QED BY <1>1, <1>2, PTL DEF Spec

\* In snapshot mode a worker told that a call went through, or that it
\* failed, finds its tree so: in memory, and as a restart restores it.
THEOREM ToldIsTrueHolds ==
  ASSUME ~Bind
  PROVE  Spec => []ToldIsTrue
<1>1. SessionInv => ToldIsTrue
  BY DEF SessionInv, Good, Shows, ToldIsTrue, Effects
<1> QED BY <1>1, Sound, PTL

\* Pruning as turns end, and a turn torn while it prunes, never takes the
\* snapshot the committed state restores.
THEOREM SnapshotKeptHolds == Spec => []SnapshotKept
<1>1. SessionInv => SnapshotKept
  BY DEF SessionInv, SnapshotKept
<1> QED BY <1>1, Sound, PTL

\* The session implements what its host relies on: every step is a word of
\* the host, work of a session that is not complete, or invisible.
THEOREM ServesHostHolds == Spec => ServesHost
<1> DEFINE ears == [n \in Notes |-> IF n \in s.heard THEN 1 ELSE 0]
<1>1. Init => Host!HostInit
  BY DEF Init, New, View, Host!HostInit
<1>2. SessionInv /\ [Next]_svars => [Host!HostNext]_<<View, s.turns, ears>>
  <2> SUFFICES ASSUME SessionInv, [Next]_svars
               PROVE  Host!HostNext \/ UNCHANGED <<View, s.turns, ears>>
    OBVIOUS
  <2>1. Serving
    BY StepKeeps
  <2>2. CASE Works
    <3>1. View # "complete" /\ View' \in {"worker", "busy", "complete"}
      BY <2>2 DEF Works, View
    <3>2. ears' = ears
      BY <2>2 DEF Works
    <3>3. Host!Work
      BY <2>2, <3>1, <3>2 DEF Works, Host!Work, Host!Views
    <3> QED BY <3>3 DEF Host!HostNext
  <2>3. CASE Rests
    BY <2>3 DEF Rests, View
  <2>4. CASE UNCHANGED s
    BY <2>4 DEF View
  <2>5. CASE \E n \in Notes :
               /\ s.phase \in {"complete", "worker"} /\ s.pending = "none"
               /\ s'.phase = "worker" /\ s'.pending = "none" /\ s'.turns = s.turns
               /\ n \notin s.heard /\ s'.heard = s.heard \cup {n}
    <3>1. PICK n \in Notes :
               /\ s.phase \in {"complete", "worker"} /\ s.pending = "none"
               /\ s'.phase = "worker" /\ s'.pending = "none" /\ s'.turns = s.turns
               /\ n \notin s.heard /\ s'.heard = s.heard \cup {n}
      BY <2>5
    <3>2. View \in {"complete", "worker"} /\ View' = "worker"
      BY <3>1 DEF View
    <3>3. ears' = [ears EXCEPT ![n] = @ + 1]
      <4>1. ears[n] + 1 = 1
        BY <3>1
      <4>2. ears' = [m \in Notes |-> IF m \in s.heard \cup {n} THEN 1 ELSE 0]
        BY <3>1
      <4>3. \A m \in Notes : (IF m \in s.heard \cup {n} THEN 1 ELSE 0)
                              = IF m = n THEN ears[n] + 1 ELSE ears[m]
        BY <3>1, <4>1
      <4>4. [ears EXCEPT ![n] = ears[n] + 1]
              = [m \in Notes |-> IF m = n THEN ears[n] + 1 ELSE ears[m]]
        OBVIOUS
      <4> HIDE DEF ears
      <4> QED BY <4>2, <4>3, <4>4
    <3>4. Host!Hears(n)
      BY <3>1, <3>2, <3>3 DEF Host!Hears
    <3>5. Host!Continue(n) \/ Host!Interject(n)
      BY <3>2, <3>4 DEF Host!Continue, Host!Interject
    <3> QED BY <3>5 DEF Host!HostNext
  <2> QED BY <2>1, <2>2, <2>3, <2>4, <2>5 DEF Serving
<1> QED BY <1>1, <1>2, Sound, PTL DEF Spec, ServesHost, Host!HostSpec
----------------------------------------------------------------------------
\* The budgets of a session: how often an answer is rejected before it
\* blocks, how often a claim is corrected, how late a review can have been.
Within(t) ==
  /\ t.looks <= 2 /\ t.lastReview <= MaxTurns /\ t.spent <= Corrections
  /\ Len(t.batch.ids) <= MaxCalls
  /\ \A p \in Purposes : /\ t.rejected[p] <= Retries + 1
                         /\ ~t.blocked => t.rejected[p] <= Retries
  /\ t.pending # "none" => ~t.blocked

Budgets ==
  /\ Within(s) /\ Within(saved)
  /\ dir \in Tree /\ snaps \subseteq Tree /\ faults \in 0..MaxFaults

\* A step that spends nothing.
LEMMA SpendsNothing ==
  ASSUME NEW t, NEW u, Within(t), u.looks = t.looks, u.lastReview = t.lastReview,
         u.spent = t.spent, u.rejected = t.rejected, u.blocked = t.blocked,
         u.batch = t.batch \/ u.batch = NoBatch, u.pending # "none" => ~u.blocked
  PROVE  Within(u)
<1>1. Len(NoBatch.ids) <= MaxCalls
  BY SessionAssumption DEF SessionAssumption, NoBatch
<1> QED BY <1>1 DEF Within

LEMMA FinishWithin ==
  ASSUME NEW t \in SType, Within(t)
  PROVE  Within(FinishTurn(t))
<1> DEFINE claimed == t.final \/ t.batch.claims
           final == claimed /\ t.reflect = "no"
           review == Reviewer /\ ~t.suspended /\ (Due(t.turns + 1, t.lastReview) \/ final)
           reflect == IF claimed /\ t.reflect = "on" THEN "spent" ELSE t.reflect
           phase == IF review THEN "review" ELSE IF final THEN "complete" ELSE "worker"
           turns == t.turns + 1
           u == [t EXCEPT !.turns = turns, !.final = final, !.batch = NoBatch,
                          !.results = 0, !.reflect = reflect, !.phase = phase]
<1>1. FinishTurn(t) = u
  BY DEF FinishTurn
<1> HIDE DEF final, reflect, phase, turns
<1>2. /\ u.looks = t.looks /\ u.lastReview = t.lastReview /\ u.spent = t.spent
      /\ u.rejected = t.rejected /\ u.blocked = t.blocked /\ u.batch = NoBatch
      /\ u.pending = t.pending
  BY DEF SType
<1> HIDE DEF u
<1>3. u.pending # "none" => ~u.blocked
  BY <1>2 DEF Within
<1> QED BY <1>1, <1>2, <1>3, SpendsNothing

LEMMA ToldWithin ==
  ASSUME NEW t \in SType, Within(t), t.batch.ids[t.results + 1] \in Calls,
         NEW o \in Outcomes, NEW again \in BOOLEAN
  PROVE  Within(Told(t, o, again))
<1> DEFINE told == t.told \cup {<<t.batch.ids[t.results + 1], o>>}
           n == t.results + 1
           rollover == t.rollover \/ again
           u == [t EXCEPT !.told = told, !.results = n, !.pending = "none", !.rollover = rollover]
<1>1. told \in Tolds /\ rollover \in BOOLEAN /\ n \in Nat
  BY DEF SType, Tolds
<1>2. Told(t, o, again) \in {u, FinishTurn(u)}
  BY DEF Told
<1> HIDE DEF told, rollover, n
<1>3. u \in SType
  BY <1>1 DEF SType
<1>4. /\ u.looks = t.looks /\ u.lastReview = t.lastReview /\ u.spent = t.spent
      /\ u.rejected = t.rejected /\ u.blocked = t.blocked /\ u.batch = t.batch
      /\ u.pending = "none"
  BY DEF SType
<1> HIDE DEF u
<1>5. Within(u)
  BY <1>4, SpendsNothing
<1> QED BY <1>2, <1>3, <1>5, FinishWithin

\* The call that is next is one of the calls.
LEMMA NextIsCall ==
  ASSUME SessionInv, s.phase = "tools"
  PROVE  s.batch.ids[s.results + 1] \in Calls
<1>1. s.batch.ids \in Seq(Calls) /\ s.results \in Nat /\ s.results < Len(s.batch.ids)
  BY SIs DEF SType, Batches, Placed
<1> QED BY <1>1

\* A call told, with what it did to the tree.
LEMMA ToolWithin ==
  ASSUME SessionInv, Within(s), s.phase = "tools", NEW o \in Outcomes, NEW again \in BOOLEAN
  PROVE  Within(Told(s, o, again)) /\ Within(Told(Acted(s), o, again))
<1>1. s \in SType /\ Acted(s) \in SType /\ s.batch.ids[s.results + 1] \in Calls
      /\ Acted(s).batch = s.batch /\ Acted(s).results = s.results
  BY SIs, ActedIs, NextIsCall
<1>2. Within(Acted(s))
  <2> DEFINE u == [s EXCEPT !.tree = Touch(s.tree, NextCall)]
  <2>1. Acted(s) = IF Bind THEN s ELSE u
    BY DEF Acted
  <2>2. /\ u.looks = s.looks /\ u.lastReview = s.lastReview /\ u.spent = s.spent
        /\ u.rejected = s.rejected /\ u.blocked = s.blocked /\ u.batch = s.batch
        /\ u.pending = s.pending
    BY <1>1 DEF SType
  <2> HIDE DEF u
  <2>3. u.pending # "none" => ~u.blocked
    BY <2>2 DEF Within
  <2>4. Within(u)
    BY <2>2, <2>3, SpendsNothing
  <2> QED BY <2>1, <2>4
<1> QED BY <1>1, <1>2, ToldWithin

----------------------------------------------------------------------------
\* The steps that ask, and those of the host: nothing is spent.
LEMMA QuietWithin ==
  ASSUME SessionInv, Within(s),
         \/ ToHandoff \/ AskWorker \/ AskOther \/ ShellStart \/ SetReviews \/ Pause
         \/ \E n \in Notes : Say(n)
  PROVE  Within(s')
<1>1. s \in SType
  BY SIs
<1>2. /\ s'.looks = s.looks /\ s'.lastReview = s.lastReview /\ s'.spent = s.spent
      /\ s'.rejected = s.rejected /\ s'.blocked = s.blocked /\ s'.batch = s.batch
      /\ s'.pending # "none" => s'.pending = s.pending \/ ~s.blocked
  <2>1. CASE ToHandoff
    BY <1>1, <2>1 DEF ToHandoff, Defer, SType
  <2>2. CASE AskWorker
    <3>1. PICK reflect \in {"no", "on", "spent"} :
             s' = [s EXCEPT !.pending = "worker", !.reflect = reflect]
      BY <1>1, <2>2 DEF AskWorker, Commit, SType
    <3>2. ~s.blocked
      BY <2>2 DEF AskWorker, At
    <3> QED BY <1>1, <3>1, <3>2 DEF SType
  <2>3. CASE AskOther
    <3>1. PICK p \in {"handoff", "review"} : s' = [s EXCEPT !.pending = p] /\ ~s.blocked
      BY <2>3 DEF AskOther, Commit, At
    <3> QED BY <1>1, <3>1 DEF SType
  <2>4. CASE ShellStart
    BY <1>1, <2>4 DEF ShellStart, Commit, At, SType
  <2>5. CASE SetReviews
    BY <1>1, <2>5 DEF SetReviews, Commit, SType
  <2>6. CASE Pause
    BY <2>6 DEF Pause, Commit
  <2>7. CASE \E n \in Notes : Say(n)
    <3>1. PICK n \in Notes : s' = [s EXCEPT !.heard = s.heard \cup {n}, !.phase = "worker",
                                            !.final = FALSE, !.filled = TRUE]
                             /\ s.pending = "none"
      BY <2>7 DEF Say, Commit
    <3> QED BY <1>1, <3>1 DEF SType
  <2> QED BY <2>1, <2>2, <2>3, <2>4, <2>5, <2>6, <2>7
<1>3. s'.pending # "none" => ~s'.blocked
  BY <1>2 DEF Within
<1> QED BY <1>2, <1>3, SpendsNothing

\* An answer is accepted: the count of the worker's rejected ones starts over.
LEMMA AcceptWithin == ASSUME SessionInv, Within(s), Accept PROVE Within(s')
<1>1. /\ s \in SType /\ s.batch.ids = <<>> /\ ~s.blocked /\ asked \in Nat /\ asked < MaxAsked
      /\ Past(<<>>, s.told, asked)
  BY SIs DEF SessionInv, Accept, Answered, Placed, Good, Within
<1> DEFINE accepts(n, files, claims) ==
             LET id(i) == <<asked + 1, i>>
                 t == [s EXCEPT !.pending = "none", !.filled = TRUE, !.rejected["worker"] = 0,
                         !.final = n = 0,
                         !.batch = [ids |-> [i \in 1..n |-> id(i)],
                                    files |-> {id(i) : i \in files},
                                    claims |-> n # 0 /\ claims]]
             IN  Go(IF n = 0 THEN FinishTurn(t) ELSE [t EXCEPT !.phase = "tools"], n = 0)
<1>0. PICK n \in 0..MaxCalls :
         \E files \in SUBSET (1..n), claims \in BOOLEAN : accepts(n, files, claims)
  BY DEF Accept
<1>2. PICK files \in SUBSET (1..n), claims \in BOOLEAN : accepts(n, files, claims)
  BY <1>0
<1> DEFINE b == [ids |-> [i \in 1..n |-> <<asked + 1, i>>],
                 files |-> {<<asked + 1, i>> : i \in files}, claims |-> (n # 0 /\ claims)]
           rejected == [s.rejected EXCEPT !["worker"] = 0]
           final == n = 0
           t == [s EXCEPT !.pending = "none", !.filled = TRUE, !.rejected = rejected,
                          !.final = final, !.batch = b]
           u == [t EXCEPT !.phase = "tools"]
<1>3. b \in Batches /\ Len(b.ids) <= MaxCalls
  <2>1. s.told \in Tolds /\ (n # 0 /\ claims) \in BOOLEAN
    BY <1>1 DEF SType
  <2>2. n <= MaxCalls
    BY SessionAssumption DEF SessionAssumption
  <2>3. b \in Batches /\ Len(b.ids) = n
    BY <1>1, <2>1, NewCalls
  <2> QED BY <2>2, <2>3
<1>4. /\ rejected \in [Purposes -> Nat] /\ final \in BOOLEAN
      /\ \A p \in Purposes : rejected[p] = IF p = "worker" THEN 0 ELSE s.rejected[p]
  BY <1>1 DEF SType, Purposes
<1>5. s' \in {FinishTurn(t), u}
  BY <1>1, <1>2 DEF SType, Go, Commit, Defer
<1> HIDE DEF b, rejected, final
<1>6. t \in SType
  BY <1>1, <1>3, <1>4 DEF SType
<1>7. /\ t.looks = s.looks /\ t.lastReview = s.lastReview /\ t.spent = s.spent
      /\ t.rejected = rejected /\ t.blocked = s.blocked /\ t.batch = b /\ t.pending = "none"
  BY <1>1 DEF SType
<1> HIDE DEF t
<1>8. Within(t)
  BY <1>1, <1>3, <1>4, <1>7, SessionAssumption DEF SessionAssumption, Within
<1>9. Within(u)
  <2>1. /\ u.looks = t.looks /\ u.lastReview = t.lastReview /\ u.spent = t.spent
        /\ u.rejected = t.rejected /\ u.blocked = t.blocked /\ u.batch = t.batch
        /\ u.pending = "none"
    BY <1>6, <1>7 DEF SType
  <2> HIDE DEF u
  <2> QED BY <1>8, <2>1, SpendsNothing
<1> HIDE DEF u
<1> QED BY <1>5, <1>6, <1>8, <1>9, FinishWithin

\* An answer is rejected: the one past the retries blocks the session.
LEMMA RejectWithin == ASSUME SessionInv, Within(s), Reject PROVE Within(s')
<1>1. s \in SType /\ s.pending \in Purposes /\ ~s.blocked
  BY SIs DEF Reject, Within, Purposes
<1> DEFINE n == s.rejected[s.pending] + 1
           looks == IF s.pending = "review" THEN Look(s.looks) ELSE s.looks
           rollover == s.rollover \/ (s.pending = "worker" /\ n \in 2..Retries /\ s.filled)
           blocked == n > Retries
           rejected == [s.rejected EXCEPT ![s.pending] = n]
<1>2. s' = [s EXCEPT !.pending = "none", !.rejected = rejected, !.rollover = rollover,
                     !.looks = looks, !.blocked = blocked]
  BY <1>1 DEF Reject, Commit, SType
<1>3. /\ n \in Nat /\ n <= Retries + 1 /\ looks \in Nat /\ looks <= 2
      /\ rollover \in BOOLEAN /\ blocked \in BOOLEAN
      /\ rejected \in [Purposes -> Nat]
  BY <1>1, SessionAssumption DEF SessionAssumption, SType, Within, Look
<1>4. \A p \in Purposes : rejected[p] = IF p = s.pending THEN n ELSE s.rejected[p]
  BY <1>1 DEF SType
<1>5. \A p \in Purposes : rejected[p] <= Retries + 1 /\ (~blocked => rejected[p] <= Retries)
  BY <1>1, <1>3, <1>4, SessionAssumption DEF SessionAssumption, Within, SType
<1> HIDE DEF n, looks, rollover, blocked, rejected
<1>6. /\ s'.looks = looks /\ s'.lastReview = s.lastReview /\ s'.spent = s.spent
      /\ s'.rejected = rejected /\ s'.blocked = blocked /\ s'.batch = s.batch
      /\ s'.pending = "none"
  BY <1>1, <1>2 DEF SType
<1> QED BY <1>3, <1>5, <1>6 DEF Within

\* A count starts over.
LEMMA ResetsWithin ==
  ASSUME SessionInv, Within(s), HandedOff \/ ResetBlock
  PROVE  Within(s')
<1>1. s \in SType /\ Retries \in Nat
  BY SIs, SessionAssumption DEF SessionAssumption
<1>2. \A p \in Purposes : s.rejected[p] \in Nat
  BY <1>1 DEF SType
<1>3. CASE HandedOff
  <2> DEFINE rejected == [s.rejected EXCEPT !["worker"] = 0, !["handoff"] = 0]
  <2>1. s' = [s EXCEPT !.phase = "worker", !.pending = "none", !.filled = FALSE,
                       !.rejected = rejected]
    BY <1>3 DEF HandedOff, Defer
  <2>2. \A p \in Purposes : rejected[p] = 0 \/ rejected[p] = s.rejected[p]
    BY <1>1 DEF SType, Purposes
  <2> HIDE DEF rejected
  <2>3. /\ s'.looks = s.looks /\ s'.lastReview = s.lastReview /\ s'.spent = s.spent
        /\ s'.rejected = rejected /\ s'.blocked = s.blocked /\ s'.batch = s.batch
        /\ s'.pending = "none"
    BY <1>1, <2>1 DEF SType
  <2> QED BY <1>1, <2>2, <2>3 DEF Within
<1>4. CASE ResetBlock
  <2> DEFINE rejected == [p \in Purposes |-> 0]
             rollover == s.rollover \/ s.filled
  <2>1. s' = [s EXCEPT !.blocked = FALSE, !.rejected = rejected, !.rollover = rollover]
    BY <1>4 DEF ResetBlock, Commit
  <2>2. \A p \in Purposes : rejected[p] = 0
    OBVIOUS
  <2> HIDE DEF rejected, rollover
  <2>3. /\ s'.looks = s.looks /\ s'.lastReview = s.lastReview /\ s'.spent = s.spent
        /\ s'.rejected = rejected /\ s'.blocked = FALSE /\ s'.batch = s.batch
    BY <1>1, <2>1 DEF SType
  <2> QED BY <1>1, <2>2, <2>3 DEF Within
<1> QED BY <1>3, <1>4

\* The reviewer decides: a correction of a claim is one of its budget.
LEMMA DecideWithin == ASSUME SessionInv, Within(s), Decide PROVE Within(s')
<1>0. Retries \in Nat /\ Corrections \in Nat
  BY SessionAssumption DEF SessionAssumption
<1>1. s \in SType /\ s.turns \in Nat /\ s.turns <= MaxTurns /\ s.spent \in Nat
  BY SIs DEF SType
<1> DEFINE rejected == [s.rejected EXCEPT !["review"] = 0]
<1>2. /\ rejected \in [Purposes -> Nat]
      /\ \A p \in Purposes : rejected[p] = 0 \/ rejected[p] = s.rejected[p]
  BY <1>1 DEF SType, Purposes
<1>3. ASSUME NEW replaced \in BOOLEAN, s.final /\ replaced => s.spent < Corrections,
             s' = Decided(s, replaced)
      PROVE  Within(s')
  <2> DEFINE phase == IF s.final /\ ~replaced THEN "complete" ELSE "worker"
             final == s.final /\ ~replaced
             spent == IF s.final /\ replaced THEN s.spent + 1 ELSE s.spent
  <2>1. s' = [s EXCEPT !.pending = "none", !.looks = 0, !.lastReview = s.turns,
                       !.rejected = rejected, !.phase = phase, !.final = final, !.spent = spent]
    BY <1>1, <1>3 DEF Decided, SType
  <2>2. spent <= Corrections
    BY <1>0, <1>1, <1>3 DEF Within
  <2> HIDE DEF phase, final, spent, rejected
  <2>3. /\ s'.looks = 0 /\ s'.lastReview = s.turns /\ s'.spent = spent
        /\ s'.rejected = rejected /\ s'.blocked = s.blocked /\ s'.batch = s.batch
        /\ s'.pending = "none"
    BY <1>1, <2>1 DEF SType
  <2> QED BY <1>0, <1>1, <1>2, <2>2, <2>3 DEF Within
<1>4. ASSUME s' = [s EXCEPT !.pending = "none", !.looks = Look(@), !.rejected["review"] = 0]
      PROVE  Within(s')
  <2> DEFINE looks == Look(s.looks)
  <2>1. looks <= 2
    BY <1>1 DEF SType, Within, Look
  <2>2. s' = [s EXCEPT !.pending = "none", !.looks = looks, !.rejected = rejected]
    BY <1>1, <1>4 DEF SType
  <2> HIDE DEF looks, rejected
  <2>3. /\ s'.looks = looks /\ s'.lastReview = s.lastReview /\ s'.spent = s.spent
        /\ s'.rejected = rejected /\ s'.blocked = s.blocked /\ s'.batch = s.batch
        /\ s'.pending = "none"
    BY <1>1, <2>2 DEF SType
  <2> QED BY <1>0, <1>2, <2>1, <2>3 DEF Within
<1>5. CASE \E replace \in BOOLEAN :
              s' = Decided(s, replace /\ (s.final => s.spent < Corrections))
  <2>1. PICK replace \in BOOLEAN : s' = Decided(s, replace /\ (s.final => s.spent < Corrections))
    BY <1>5
  <2> DEFINE replaced == replace /\ (s.final => s.spent < Corrections)
  <2>2. replaced \in BOOLEAN /\ (s.final /\ replaced => s.spent < Corrections)
    OBVIOUS
  <2>3. s' = Decided(s, replaced)
    BY <2>1
  <2> HIDE DEF replaced
  <2> QED BY <1>3, <2>2, <2>3
<1>6. CASE s' = Decided(s, FALSE)
  BY <1>3, <1>6
<1> QED BY <1>4, <1>5, <1>6 DEF Decide, Commit

\* Nothing is spent that a budget does not hold.
LEMMA StepWithin ==
  ASSUME SessionInv, Within(s), Within(saved), [Next]_svars
  PROVE  Within(s') /\ Within(saved')
<1>1. CASE FileTool \/ ShellEnd
  <2>1. s.phase = "tools"
    BY <1>1, SIs DEF FileTool, At, ShellEnd, Answered, Placed
  <2>2. \E again \in BOOLEAN : s' \in {Told(Acted(s), "ok", again), Told(s, "error", again)}
    BY <1>1 DEF FileTool, ShellEnd, Go, Commit, Defer
  <2>3. saved' \in {saved, s'}
    BY <1>1 DEF FileTool, ShellEnd, Go, Commit, Defer
  <2> QED BY <2>1, <2>2, <2>3, ToolWithin DEF Outcomes
<1>2. CASE Discard
  <2>1. CASE s.pending = "tool"
    <3>1. s.phase = "tools" /\ s' = Told(s, "error", FALSE) /\ saved' = s'
      BY <1>2, <2>1, SIs DEF Discard, Commit, Placed
    <3> QED BY <3>1, ToolWithin DEF Outcomes
  <2>2. CASE s.pending # "tool"
    <3>1. s' = [s EXCEPT !.pending = "none"] /\ saved' = s' /\ s \in SType
      BY <1>2, <2>2, SIs DEF Discard, Commit
    <3>2. /\ s'.looks = s.looks /\ s'.lastReview = s.lastReview /\ s'.spent = s.spent
          /\ s'.rejected = s.rejected /\ s'.blocked = s.blocked /\ s'.batch = s.batch
          /\ s'.pending = "none"
      BY <3>1 DEF SType
    <3> QED BY <3>1, <3>2, SpendsNothing
  <2> QED BY <2>1, <2>2
<1>3. CASE Fails \/ Kill \/ Open \/ UNCHANGED svars
  BY <1>3 DEF Fails, Kill, Open, svars
<1>4. CASE \/ ToHandoff \/ AskWorker \/ AskOther \/ ShellStart \/ SetReviews \/ Pause
           \/ \E n \in Notes : Say(n)
  <2>1. saved' \in {saved, s'}
    BY <1>4 DEF ToHandoff, AskWorker, AskOther, ShellStart, SetReviews, Pause, Say, Commit, Defer
  <2> QED BY <1>4, <2>1, QuietWithin
<1>5. CASE Accept \/ Reject \/ HandedOff \/ ResetBlock \/ Decide
  <2>1. saved' \in {saved, s'}
    BY <1>5 DEF Accept, Reject, HandedOff, ResetBlock, Decide, Go, Commit, Defer
  <2> QED BY <1>5, <2>1, AcceptWithin, RejectWithin, ResetsWithin, DecideWithin
<1> QED BY <1>1, <1>2, <1>3, <1>4, <1>5 DEF Next, Turning, Recovering

----------------------------------------------------------------------------
\* What is on disk is always a tree.
LEMMA DiskTyped ==
  ASSUME SessionInv, dir \in Tree, snaps \subseteq Tree, [Next]_svars
  PROVE  dir' \in Tree /\ snaps' \subseteq Tree
<1>1. \A tree \in Tree : \A c : Touch(tree, c) \in Tree
  <2> SUFFICES ASSUME NEW tree \in Tree, NEW c PROVE Touch(tree, c) \in Tree
    OBVIOUS
  <2> DEFINE n == IF tree[c] = 2 THEN 2 ELSE tree[c] + 1
             v == [tree EXCEPT ![c] = n]
  <2>1. c \in Calls => n \in 0..2
    BY DEF Tree
  <2>2. tree \in [Calls -> 0..2]
    BY DEF Tree
  <2> HIDE DEF n
  <2>3. v \in [Calls -> 0..2]
    BY <2>1, <2>2
  <2> QED BY <2>3 DEF Touch, Tree, n
<1>2. s \in SType /\ s.tree \in Tree /\ Acted(s).tree \in Tree
  <2>1. s \in SType /\ s.tree \in Tree
    BY SIs DEF SType
  <2>2. [s EXCEPT !.tree = Touch(s.tree, NextCall)].tree = Touch(s.tree, NextCall)
    BY <2>1 DEF SType
  <2> QED BY <1>1, <2>1, <2>2 DEF Acted
<1>3. ActsOn => dir' \in Tree
  BY <1>1 DEF ActsOn
<1>4. Put(s) \/ Put(Acted(s)) => snaps' \subseteq Tree
  BY <1>2 DEF Put, Kept
<1>5. CASE FileTool \/ ShellEnd \/ Discard
  BY <1>3, <1>4, <1>5 DEF FileTool, ShellEnd, Discard
<1>6. CASE Fails \/ Kill
  BY <1>3, <1>4, <1>6 DEF Fails, Kill, Torn
<1>7. CASE Accept
  BY <1>7 DEF Accept, Kept
<1>8. CASE \/ ToHandoff \/ AskWorker \/ AskOther \/ HandedOff \/ ShellStart \/ Decide \/ Open
           \/ Reject \/ SetReviews \/ ResetBlock \/ Pause \/ UNCHANGED svars
           \/ \E n \in Notes : Say(n)
  BY <1>8 DEF ToHandoff, AskWorker, AskOther, HandedOff, ShellStart, Decide, Open, Reject,
     SetReviews, ResetBlock, Pause, svars, Say
<1> QED BY <1>5, <1>6, <1>7, <1>8 DEF Next, Turning, Recovering

LEMMA FaultsCounted ==
  ASSUME faults \in 0..MaxFaults, [Next]_svars
  PROVE  faults' \in 0..MaxFaults
<1>1. CASE Fails \/ Kill
  BY <1>1, SessionAssumption DEF SessionAssumption, Fails, Kill, Fault
<1>2. CASE ~(Fails \/ Kill)
  <2>1. UNCHANGED faults
    BY <1>2 DEF Next, Turning, Recovering, ToHandoff, AskWorker, AskOther, Accept, HandedOff,
       FileTool, ShellStart, ShellEnd, Decide, Discard, Open, Reject, SetReviews, ResetBlock,
       Pause, Say, svars
  <2> QED BY <2>1
<1> QED BY <1>1, <1>2

LEMMA InitWithin == ASSUME Init PROVE Budgets
<1>0. /\ MaxTurns \in Nat /\ MaxCalls \in Nat /\ Corrections \in Nat /\ Retries \in Nat
      /\ MaxFaults \in Nat
  BY SessionAssumption DEF SessionAssumption
<1>1. Untouched \in Tree
  BY DEF Untouched, Tree
<1>2. /\ New.looks = 0 /\ New.lastReview = 0 /\ New.spent = 0 /\ New.batch.ids = <<>>
      /\ New.rejected = [p \in Purposes |-> 0] /\ ~New.blocked /\ New.pending = "none"
  BY DEF New, NoBatch
<1>3. Within(New)
  BY <1>0, <1>2 DEF Within
<1> QED BY <1>0, <1>1, <1>3 DEF Init, Budgets

\* The bounded state of the runs, from the two invariants.
LEMMA StateIs ==
  ASSUME NEW t, t \in SType, Placed(t), Within(t)
  PROVE  t \in State
<1>0. /\ MaxTurns \in Nat /\ MaxCalls \in Nat /\ Corrections \in Nat /\ Retries \in Nat
  BY SessionAssumption DEF SessionAssumption
<1>1. t.batch \in Batches /\ t.batch.ids \in Seq(Calls) /\ Len(t.batch.ids) \in 0..MaxCalls
  BY <1>0 DEF SType, Batches, Within
<1>2. t.batch.ids \in UNION {[1..n -> Calls] : n \in 0..MaxCalls}
  BY <1>1
<1>3. t.batch \in Batch
  BY <1>1, <1>2 DEF Batches, Batch
<1>4. /\ t.turns \in 0..MaxTurns /\ t.looks \in 0..2 /\ t.lastReview \in 0..MaxTurns
      /\ t.spent \in 0..Corrections
  BY <1>0 DEF SType, Placed, Within
<1>5. t.results \in 0..MaxCalls
  <2>1. t.results \in Nat /\ (t.results = 0 \/ t.results < Len(t.batch.ids))
    BY DEF SType, Placed
  <2> QED BY <1>0, <1>1, <2>1
<1>6. t.rejected \in [Purposes -> 0..(Retries + 1)]
  <2>1. t.rejected \in [Purposes -> Nat] /\ \A p \in Purposes : t.rejected[p] <= Retries + 1
    BY DEF SType, Within
  <2>2. \A p \in Purposes : t.rejected[p] \in 0..(Retries + 1)
    BY <1>0, <2>1
  <2> QED BY <2>1, <2>2
<1>7. /\ t.pending \in Purposes \cup {"none", "tool"} /\ t.told \in SUBSET (Calls \X {"ok", "error"})
  BY DEF SType, Purposes, Tolds, Outcomes
<1> QED BY <1>3, <1>4, <1>5, <1>6, <1>7 DEF SType, State

\* The session stays within its budgets: an answer is rejected at most once
\* past the retries before the session is blocked, a claim is corrected no
\* more than it may be, and no turn is counted past the last, however often
\* it is killed, restored, unblocked and talked to.
THEOREM SessionTypeOKHolds == Spec => []SessionTypeOK
<1>1. Init => Budgets
  BY InitWithin
<1>2. SessionInv /\ Budgets /\ [Next]_svars => Budgets'
  BY StepWithin, DiskTyped, FaultsCounted DEF Budgets
<1>3. SessionInv /\ Budgets => SessionTypeOK
  BY StateIs DEF SessionInv, Good, Budgets, SessionTypeOK
<1> QED BY <1>1, <1>2, <1>3, Sound, PTL DEF Spec
=============================================================================
