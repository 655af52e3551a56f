--------------------------- MODULE TerraMapProofs ---------------------------
(***************************************************************************)
(* What the maps of a project keep for any set of knowns, runs and values,  *)
(* and any number of edits, adoptions and kills.                            *)
(***************************************************************************)
EXTENDS TerraMap, FiniteSetTheorems, TLAPS

Records == [Maps -> [Ids -> Known]]
AdoptSteps == {"void", "copy", "save", "resolve", "stamp"}

\* A directory is of a run that was made, and so is what a record cites.
Made == {r \in Runs : run[r] # None}
Evidence ==
  /\ \A m \in Maps, r \in Runs : disk[m][r] # "none" => r \in Made
  /\ \A m \in Maps, k \in Ids : known[m][k].runs \subseteq Made
  /\ \A m \in Maps, k \in Ids : \A r \in known[m][k].runs : Of[r] = k /\ known[m][k].in

\* An adoption under way.
AdoptionHolds(c) ==
  /\ known["task"][c.id].in
  /\ \A r \in c.live : r \in Made /\ Of[r] = c.id
  /\ c.at = "save" => \A r \in c.live : disk["brief"][r] # "none"
  /\ c.at \in {"resolve", "stamp"} => known["brief"][c.id].in
UnlinkHolds ==
  cmd.at = "unlink" /\ cmd.back # Idle =>
    /\ cmd.map = "brief" /\ Of[cmd.run] = cmd.back.id
    /\ cmd.back.at = "void" /\ AdoptionHolds(cmd.back)

MapInv ==
  /\ MapTypeOK /\ Evidence
  /\ cmd.at = "graduate" => known[cmd.map][cmd.id].in
  /\ cmd.at \in AdoptSteps => AdoptionHolds(cmd)
  /\ UnlinkHolds
  /\ ResolvedHasKnown /\ EvidenceTravels

----------------------------------------------------------------------------
\* What saving the records `new` of K in the map m leaves.
Puts(m, K, new) == \E later \in SUBSET K :
  /\ "apart" \in Rules => later = K
  /\ known' = [n \in Maps |-> [j \in Ids |->
       Dated(m, later, j, IF n = m /\ j \in K THEN new[j] ELSE known[n][j])]]
Before(m, K, new, n, j) == IF n = m /\ j \in K THEN new[j] ELSE known[n][j]

LEMMA DatedIs ==
  ASSUME NEW rec \in Known, NEW m \in Maps, NEW K, NEW j
  PROVE  /\ Dated(m, K, j, rec) \in Known
         /\ Dated(m, K, j, rec).in = rec.in /\ Dated(m, K, j, rec).runs = rec.runs
         /\ Dated(m, K, j, rec).reads = rec.reads /\ Dated(m, K, j, rec).wired = rec.wired
         /\ Dated(m, K, j, rec).sum = rec.sum
  BY DEF Dated, Known

LEMMA DatedMoved ==
  ASSUME NEW rec \in Known, NEW m \in Maps, NEW K, NEW j
  PROVE  /\ rec.wired /\ On[j] \in K => Dated(m, K, j, rec).moved = rec.moved \cup {m}
         /\ ~(rec.wired /\ On[j] \in K) => Dated(m, K, j, rec).moved = rec.moved
  BY DEF Dated, Known

LEMMA PutsIs ==
  ASSUME known \in Records, NEW m \in Maps, NEW K \in SUBSET Ids, NEW new \in [K -> Known],
         Puts(m, K, new), NEW n \in Maps, NEW j \in Ids
  PROVE  LET b == Before(m, K, new, n, j)
         IN  /\ b \in Known /\ (Rules = AllRules => known'[n][j] = Dated(m, K, j, b))
             /\ known'[n][j] \in Known
             /\ known'[n][j].in = b.in /\ known'[n][j].runs = b.runs
             /\ known'[n][j].reads = b.reads /\ known'[n][j].wired = b.wired
             /\ known'[n][j].sum = b.sum
<1> DEFINE b == Before(m, K, new, n, j)
<1>1. b \in Known
  BY DEF Before, Records
<1>2. PICK later \in SUBSET K :
         /\ "apart" \in Rules => later = K
         /\ known' = [o \in Maps |-> [i \in Ids |->
              Dated(m, later, i, IF o = m /\ i \in K THEN new[i] ELSE known[o][i])]]
  BY DEF Puts
<1>3. known'[n][j] = Dated(m, later, j, b)
  BY <1>2 DEF Before
<1>4. Rules = AllRules => later = K
  BY <1>2 DEF AllRules
<1> HIDE DEF b
<1> QED BY <1>1, <1>3, <1>4, DatedIs DEF b

LEMMA PutsTyped ==
  ASSUME known \in Records, NEW m \in Maps, NEW K \in SUBSET Ids, NEW new \in [K -> Known],
         Puts(m, K, new)
  PROVE  known' \in Records
<1>1. PICK later \in SUBSET K :
         known' = [n \in Maps |-> [j \in Ids |-> Dated(m, later, j, Before(m, K, new, n, j))]]
  BY DEF Puts, Before
<1>2. \A n \in Maps, j \in Ids : Dated(m, later, j, Before(m, K, new, n, j)) \in Known
  <2>1. \A n \in Maps, j \in Ids : Before(m, K, new, n, j) \in Known
    BY DEF Before, Records
  <2> QED BY <2>1, DatedIs
<1> QED BY <1>1, <1>2 DEF Records

LEMMA ReadsTyped ==
  ASSUME MapTypeOK, Evidence, NEW m \in Maps, NEW rec \in Known
  PROVE  ReadsOf(disk, m, rec) \in SUBSET Values
<1>1. \A r \in Counts(disk, m, rec.runs) : r \in Runs /\ run[r] # None
  BY DEF Counts, Evidence, Made, Known
<1>2. \A r \in Runs : run[r] # None => run[r].val \in SUBSET Values
  BY DEF MapTypeOK, RunRecord
<1> QED BY <1>1, <1>2 DEF ReadsOf

LEMMA OwnerIs ==
  ASSUME NEW m \in Maps, NEW k \in Ids
  PROVE  Owner(m, k) \in Maps
  BY DEF Owner, Maps

LEMMA TruthTyped ==
  ASSUME MapTypeOK, NEW m \in Maps, NEW k \in Ids
  PROVE  Truth(m, k) \in SUBSET Values
<1>1. CASE On[k] = File
  BY <1>1 DEF Truth, MapTypeOK
<1>2. CASE On[k] # File
  <2>1. On[k] \in Ids
    BY <1>2, MapAssumption DEF MapAssumption
  <2>2. Seen(m, On[k]) \in Known
    BY <2>1, OwnerIs DEF Seen, MapTypeOK
  <2> QED BY <1>2, <2>2 DEF Truth, Known
<1> QED BY <1>1, <1>2

LEMMA StampedIs ==
  ASSUME MapTypeOK, NEW m \in Maps, NEW k \in Ids, NEW rec \in Known
  PROVE  /\ Stamped(m, k, rec) \in Known
         /\ Stamped(m, k, rec).in = rec.in /\ Stamped(m, k, rec).runs = rec.runs
         /\ Stamped(m, k, rec).wired = rec.wired
         /\ rec.wired => /\ Stamped(m, k, rec).moved = {}
                         /\ On[k] = File => Stamped(m, k, rec).sum = content
  BY DEF Stamped, Known, MapTypeOK

----------------------------------------------------------------------------
\* The verbs that save, as puts.
LEMMA SavePuts ==
  ASSUME NEW d, NEW m \in Maps, NEW K \in SUBSET Ids, NEW rec, Save(d, m, K, rec)
  PROVE  Puts(m, K, [j \in K |-> [rec[j] EXCEPT !.reads = ReadsOf(d, m, rec[j])]])
<1> DEFINE saved(j) == [rec[j] EXCEPT !.reads = ReadsOf(d, m, rec[j])]
           new == [j \in K |-> saved(j)]
<1>1. PICK later \in SUBSET K :
         /\ "apart" \in Rules => later = K
         /\ known' = [n \in Maps |-> [j \in Ids |->
              Dated(m, later, j, IF n = m /\ j \in K THEN saved(j) ELSE known[n][j])]]
  BY DEF Save
<1>2. \A j \in K : new[j] = saved(j)
  OBVIOUS
<1> HIDE DEF saved, new
<1>3. known' = [n \in Maps |-> [j \in Ids |->
         Dated(m, later, j, IF n = m /\ j \in K THEN new[j] ELSE known[n][j])]]
  BY <1>1, <1>2
<1>4. Puts(m, K, new)
  BY <1>1, <1>3 DEF Puts
<1> QED BY <1>4 DEF new, saved

LEMMA GraduatePuts ==
  ASSUME MapInv, NEW m \in Maps, NEW k \in Ids, NEW R \in SUBSET Runs, Graduate(m, k, R)
  PROVE  \E new \in [{k} -> Known] :
           Puts(m, {k}, new) /\ new[k].in /\ new[k].runs = R /\ ~new[k].wired
<1> DEFINE rec == [Absent EXCEPT !.in = TRUE, !.runs = R]
           new == [j \in {k} |-> [rec EXCEPT !.reads = ReadsOf(disk, m, rec)]]
<1>1. rec \in Known /\ rec.in /\ rec.runs = R /\ ~rec.wired
  BY DEF Absent, Known
<1>2. ReadsOf(disk, m, rec) \in SUBSET Values
  BY <1>1, ReadsTyped DEF MapInv
<1> HIDE DEF rec
<1>3. [rec EXCEPT !.reads = ReadsOf(disk, m, rec)] \in Known
  BY <1>1, <1>2 DEF Known
<1>4. new \in [{k} -> Known]
  BY <1>3
<1>5. Puts(m, {k}, new)
  <2>1. Save(disk, m, {k}, [j \in {k} |-> rec])
    BY DEF Graduate, rec
  <2> QED BY <2>1, SavePuts
<1>6. new[k].in /\ new[k].runs = R /\ ~new[k].wired
  BY <1>1 DEF Known
<1> QED BY <1>4, <1>5, <1>6

LEMMA RewritePuts ==
  ASSUME MapInv, NEW m \in Maps, NEW k \in Ids, NEW rec \in Known, Rewrite(m, k, rec)
  PROVE  \E new \in [{k} -> Known] :
           /\ Puts(m, {k}, new)
           /\ new[k].in = rec.in /\ new[k].runs = rec.runs /\ new[k].wired = rec.wired
           /\ new[k].sum = rec.sum /\ new[k].moved = rec.moved
<1> DEFINE new == [j \in {k} |-> [rec EXCEPT !.reads = ReadsOf(disk, m, rec)]]
<1>1. ReadsOf(disk, m, rec) \in SUBSET Values
  BY ReadsTyped DEF MapInv
<1>2. [rec EXCEPT !.reads = ReadsOf(disk, m, rec)] \in Known
  BY <1>1 DEF Known
<1>3. new \in [{k} -> Known]
  BY <1>2
<1>4. Puts(m, {k}, new)
  BY SavePuts DEF Rewrite
<1>5. /\ new[k].in = rec.in /\ new[k].runs = rec.runs /\ new[k].wired = rec.wired
      /\ new[k].sum = rec.sum /\ new[k].moved = rec.moved
  BY DEF Known
<1> QED BY <1>3, <1>4, <1>5

LEMMA RecordIs ==
  ASSUME MapInv, NEW m \in Maps, NEW k \in Ids
  PROVE  /\ known[m][k] \in Known
         /\ \A R \in SUBSET Runs : [known[m][k] EXCEPT !.runs = R] \in Known
         /\ [known[m][k] EXCEPT !.wired = TRUE] \in Known
<1>1. known[m][k] \in Known
  BY DEF MapInv, MapTypeOK
<1> QED BY <1>1 DEF Known

\* A record whose stamp still stands is over runs that read what it rests on.
Fits(m, k, rec) ==
  rec.wired =>
    /\ On[k] = File => \A r \in rec.runs : run[r].val = {rec.sum}
    /\ On[k] # File /\ Owner(m, On[k]) \notin rec.moved =>
         \A r \in rec.runs : run[r].val = Seen(m, On[k]).reads
StampsHold == \A m \in Maps, k \in Ids : Fits(m, k, known[m][k])

\* Fresh stamps over runs that hold.
LEMMA StampFits ==
  ASSUME MapInv, NEW m \in Maps, NEW k \in Ids, NEW rec \in Known,
         \A r \in rec.runs : run[r].val = Truth(m, k)
  PROVE  Fits(m, k, Stamped(m, k, rec))
<1>1. CASE On[k] = File
  <2>1. Truth(m, k) = {content}
    BY <1>1 DEF Truth
  <2> QED BY <1>1, <2>1, StampedIs DEF Fits, MapInv
<1>2. CASE On[k] # File
  <2>1. Truth(m, k) = Seen(m, On[k]).reads
    BY <1>2 DEF Truth
  <2> QED BY <1>2, <2>1, StampedIs DEF Fits, MapInv
<1> QED BY <1>1, <1>2

\* What a verb on the record of k in the map m puts there.
VerbPuts(m, k, new) ==
  /\ Puts(m, {k}, new) /\ new[k].in
  /\ \A r \in new[k].runs : r \in known[m][k].runs \/ (disk[m][r] = "live" /\ Of[r] = k)
  /\ Rules = AllRules /\ StampsHold => Fits(m, k, new[k])

LEMMA RewriteFits ==
  ASSUME MapInv, NEW m \in Maps, NEW k \in Ids, NEW rec \in Known, Rewrite(m, k, rec),
         rec.in, Rules = AllRules /\ StampsHold => Fits(m, k, rec),
         \A r \in rec.runs : r \in known[m][k].runs \/ (disk[m][r] = "live" /\ Of[r] = k)
  PROVE  \E new \in [{k} -> Known] : VerbPuts(m, k, new)
<1>1. PICK new \in [{k} -> Known] :
           /\ Puts(m, {k}, new)
           /\ new[k].in = rec.in /\ new[k].runs = rec.runs /\ new[k].wired = rec.wired
           /\ new[k].sum = rec.sum /\ new[k].moved = rec.moved
  BY RewritePuts
<1>2. Rules = AllRules /\ StampsHold => Fits(m, k, new[k])
  BY <1>1 DEF Fits
<1> QED BY <1>1, <1>2 DEF VerbPuts

\* The verbs that write a known; the others take one away, or write its unknown.
Writes(m, k) ==
  \/ \E r \in Runs : Link(m, k, r) \/ Unlink(m, k, r)
  \/ \E R \in SUBSET Runs : Graduate(m, k, R)
  \/ Depend(m, k) \/ Touch(m, k)

LEMMA VerbsPut ==
  ASSUME MapInv, NEW m \in Maps, NEW k \in Ids, Writes(m, k)
  PROVE  \E new \in [{k} -> Known] : VerbPuts(m, k, new)
<1>0. known[m][k] \in Known
  BY RecordIs
<1>1. ASSUME NEW r \in Runs, Link(m, k, r)
      PROVE  \E new \in [{k} -> Known] : VerbPuts(m, k, new)
  <2> DEFINE base == [known[m][k] EXCEPT !.runs = known[m][k].runs \cup {r}]
  <2>1. base \in Known /\ base.in = known[m][k].in /\ base.runs = known[m][k].runs \cup {r}
    BY <1>0 DEF Known
  <2>2. Rewrite(m, k, Stamped(m, k, base))
    BY <1>1 DEF Link
  <2>3. known[m][k].in
    BY <2>2 DEF Rewrite
  <2>4. Rules = AllRules => \A q \in base.runs : run[q].val = Truth(m, k)
    BY <1>1, <2>1 DEF Link, Holds, AllRules
  <2>5. disk[m][r] = "live" /\ Of[r] = k
    BY <1>1 DEF Link
  <2> HIDE DEF base
  <2>6. /\ Stamped(m, k, base) \in Known
        /\ Stamped(m, k, base).in /\ Stamped(m, k, base).runs = known[m][k].runs \cup {r}
    BY <2>1, <2>3, StampedIs DEF MapInv
  <2>7. Rules = AllRules => Fits(m, k, Stamped(m, k, base))
    BY <2>1, <2>4, StampFits
  <2> QED BY <2>2, <2>5, <2>6, <2>7, RewriteFits
<1>2. ASSUME NEW r \in Runs, Unlink(m, k, r)
      PROVE  \E new \in [{k} -> Known] : VerbPuts(m, k, new)
  <2> DEFINE rec == [known[m][k] EXCEPT !.runs = known[m][k].runs \ {r}]
  <2>1. /\ rec \in Known /\ rec.in = known[m][k].in /\ rec.runs = known[m][k].runs \ {r}
        /\ rec.wired = known[m][k].wired /\ rec.sum = known[m][k].sum
        /\ rec.moved = known[m][k].moved
    BY <1>0 DEF Known
  <2>2. Rewrite(m, k, rec)
    BY <1>2 DEF Unlink
  <2>3. known[m][k].in
    BY <2>2 DEF Rewrite
  <2> HIDE DEF rec
  <2>4. StampsHold => Fits(m, k, rec)
    <3>1. StampsHold => Fits(m, k, known[m][k])
      BY DEF StampsHold
    <3>2. rec.runs \subseteq known[m][k].runs
      BY <2>1
    <3> QED BY <2>1, <3>1, <3>2 DEF Fits
  <2> QED BY <2>1, <2>2, <2>3, <2>4, RewriteFits
<1>3. ASSUME NEW R \in SUBSET Runs, Graduate(m, k, R)
      PROVE  \E new \in [{k} -> Known] : VerbPuts(m, k, new)
  <2>1. PICK new \in [{k} -> Known] :
           Puts(m, {k}, new) /\ new[k].in /\ new[k].runs = R /\ ~new[k].wired
    BY <1>3, GraduatePuts
  <2>2. \A r \in R : disk[m][r] = "live" /\ Of[r] = k
    BY <1>3 DEF Graduate
  <2> QED BY <2>1, <2>2 DEF VerbPuts, Fits
<1>4. ASSUME Depend(m, k)
      PROVE  \E new \in [{k} -> Known] : VerbPuts(m, k, new)
  <2> DEFINE base == [known[m][k] EXCEPT !.wired = TRUE]
  <2>1. base \in Known /\ base.in = known[m][k].in /\ base.runs = known[m][k].runs
    BY <1>0 DEF Known
  <2>2. Rewrite(m, k, Stamped(m, k, base))
    BY <1>4 DEF Depend
  <2>3. known[m][k].in
    BY <2>2 DEF Rewrite
  <2>4. Rules = AllRules => \A q \in base.runs : run[q].val = Truth(m, k)
    BY <1>4, <2>1 DEF Depend, Holds, AllRules
  <2> HIDE DEF base
  <2>5. /\ Stamped(m, k, base) \in Known
        /\ Stamped(m, k, base).in /\ Stamped(m, k, base).runs = known[m][k].runs
    BY <2>1, <2>3, StampedIs DEF MapInv
  <2>6. Rules = AllRules => Fits(m, k, Stamped(m, k, base))
    BY <2>1, <2>4, StampFits
  <2> QED BY <2>2, <2>5, <2>6, RewriteFits
<1>5. ASSUME Touch(m, k)
      PROVE  \E new \in [{k} -> Known] : VerbPuts(m, k, new)
  <2>1. Rewrite(m, k, known[m][k]) /\ known[m][k].in
    BY <1>5 DEF Touch, Rewrite
  <2> QED BY <1>0, <2>1, RewriteFits DEF StampsHold
<1> QED BY <1>1, <1>2, <1>3, <1>4, <1>5 DEF Writes

----------------------------------------------------------------------------
\* No run is unmade, no directory and no record is taken away.
Grows ==
  /\ \A r \in Runs : run[r] # None => run'[r] # None
  /\ \A m \in Maps, r \in Runs : disk[m][r] # "none" => disk'[m][r] # "none"
  /\ \A m \in Maps, k \in Ids : known[m][k].in => known'[m][k].in

LEMMA AdoptionKept ==
  ASSUME NEW c \in Adoption, AdoptionHolds(c), Grows
  PROVE  /\ known'["task"][c.id].in
         /\ \A r \in c.live : r \in Runs /\ run'[r] # None /\ Of[r] = c.id
         /\ c.at = "save" => \A r \in c.live : disk'["brief"][r] # "none"
         /\ c.at \in {"resolve", "stamp"} => known'["brief"][c.id].in
  BY DEF AdoptionHolds, Grows, Adoption, Made, Maps

LEMMA PutKeeps ==
  ASSUME MapInv, NEW m \in Maps, NEW K \in SUBSET Ids, NEW new \in [K -> Known],
         Puts(m, K, new), UNCHANGED <<run, disk>>,
         \A j \in K : new[j].in,
         \A j \in K : \A r \in new[j].runs :
           r \in Made /\ Of[r] = j /\ (m = "brief" => disk["brief"][r] # "none")
  PROVE  /\ known' \in Records /\ Evidence' /\ EvidenceTravels' /\ Grows
         /\ \A j \in K : known'[m][j].in
<1>1. known \in Records
  BY DEF MapInv, MapTypeOK, Records
<1>2. known' \in Records
  BY <1>1, PutsTyped
<1>3. ASSUME NEW n \in Maps, NEW j \in Ids
      PROVE  IF n = m /\ j \in K
             THEN known'[n][j].in = new[j].in /\ known'[n][j].runs = new[j].runs
             ELSE known'[n][j].in = known[n][j].in /\ known'[n][j].runs = known[n][j].runs
  BY <1>1, PutsIs DEF Before
<1>4. Evidence'
  BY <1>3 DEF Evidence, Made, MapInv
<1>5. EvidenceTravels'
  BY <1>3 DEF EvidenceTravels, Maps, MapInv
<1>6. Grows
  BY <1>3 DEF Grows
<1>7. \A j \in K : known'[m][j].in
  BY <1>3
<1> QED BY <1>2, <1>4, <1>5, <1>6, <1>7

LEMMA UnlinkedPuts ==
  ASSUME MapInv, Unlinked
  PROVE  LET m == cmd.map
             K == {k \in Ids : cmd.run \in known[m][k].runs}
         IN  /\ m \in Maps /\ cmd.run \in Runs
             /\ \E new \in [K -> Known] :
                  /\ Puts(m, K, new)
                  /\ \A k \in K : /\ new[k].in = known[m][k].in
                                  /\ new[k].runs = known[m][k].runs \ {cmd.run}
                                  /\ new[k].wired = known[m][k].wired
                                  /\ new[k].sum = known[m][k].sum
                                  /\ new[k].moved = known[m][k].moved
<1> DEFINE m == cmd.map
           K == {k \in Ids : cmd.run \in known[m][k].runs}
           rec(k) == [known[m][k] EXCEPT !.runs = known[m][k].runs \ {cmd.run}]
           new == [k \in K |-> [rec(k) EXCEPT !.reads = ReadsOf(disk, m, rec(k))]]
<1>1. m \in Maps /\ cmd.run \in Runs
  BY DEF Unlinked, MapInv, MapTypeOK, Idle, Adoption
<1>2. ASSUME NEW k \in Ids
      PROVE  /\ rec(k) \in Known /\ rec(k).in = known[m][k].in
             /\ rec(k).runs = known[m][k].runs \ {cmd.run}
             /\ rec(k).wired = known[m][k].wired
             /\ rec(k).sum = known[m][k].sum
             /\ rec(k).moved = known[m][k].moved
  <2>1. known[m][k] \in Known
    BY <1>1, RecordIs
  <2> QED BY <2>1 DEF Known
<1>3. Puts(m, K, new)
  <2>1. Save(disk, m, K, [k \in K |-> rec(k)])
    BY DEF Unlinked
  <2>2. K \in SUBSET Ids
    OBVIOUS
  <2> HIDE DEF m, K, rec
  <2> QED BY <1>1, <2>1, <2>2, SavePuts DEF m
<1> HIDE DEF m, rec
<1>4. ASSUME NEW k \in Ids
      PROVE  LET put == [rec(k) EXCEPT !.reads = ReadsOf(disk, m, rec(k))]
             IN  /\ put \in Known /\ put.in = rec(k).in /\ put.runs = rec(k).runs
                 /\ put.wired = rec(k).wired /\ put.sum = rec(k).sum
                 /\ put.moved = rec(k).moved
  <2>1. ReadsOf(disk, m, rec(k)) \in SUBSET Values
    BY <1>1, <1>2, ReadsTyped DEF MapInv
  <2> QED BY <1>2, <2>1 DEF Known
<1>5. new \in [K -> Known]
  BY <1>4
<1>6. \A k \in K : /\ new[k].in = known[m][k].in
                   /\ new[k].runs = known[m][k].runs \ {cmd.run}
                   /\ new[k].wired = known[m][k].wired
                   /\ new[k].sum = known[m][k].sum
                   /\ new[k].moved = known[m][k].moved
  BY <1>2, <1>4
<1> QED BY <1>1, <1>3, <1>5, <1>6 DEF m

LEMMA AdoptSavePuts ==
  ASSUME MapInv, AdoptSave
  PROVE  /\ cmd \in Adoption
         /\ \E new \in [{cmd.id} -> Known] :
              /\ Puts("brief", {cmd.id}, new)
              /\ new[cmd.id].in /\ new[cmd.id].runs = cmd.live
              /\ new[cmd.id].wired =>
                   known["task"][cmd.id].wired /\ new[cmd.id].moved = {}
                   /\ (On[cmd.id] = File => new[cmd.id].sum = content)
<1> DEFINE k == cmd.id
           base == [known["task"][k] EXCEPT !.runs = cmd.live]
           rec == Stamped("brief", k, base)
           new == [j \in {k} |-> [rec EXCEPT !.reads = ReadsOf(disk, "brief", rec)]]
<1>1. cmd \in Adoption
  BY DEF AdoptSave, MapInv, MapTypeOK, Idle
<1>2. k \in Ids /\ cmd.live \in SUBSET Runs /\ known["task"][k].in
  BY <1>1 DEF Adoption, AdoptSave, MapInv, AdoptSteps, AdoptionHolds
<1>3. base \in Known /\ base.in /\ base.runs = cmd.live /\ base.wired = known["task"][k].wired
  <2>1. known["task"][k] \in Known
    BY <1>2, RecordIs DEF Maps
  <2> QED BY <1>2, <2>1 DEF Known
<1>4. Puts("brief", {k}, new)
  <2>1. Save(disk, "brief", {k}, [j \in {k} |-> rec])
    BY DEF AdoptSave
  <2> HIDE DEF k, rec
  <2> QED BY <1>2, <2>1, SavePuts DEF Maps
<1> HIDE DEF base, k
<1>5. /\ rec \in Known /\ rec.in /\ rec.runs = cmd.live
      /\ rec.wired => known["task"][k].wired /\ rec.moved = {}
                      /\ (On[k] = File => rec.sum = content)
  BY <1>2, <1>3, StampedIs DEF Maps, MapInv
<1> HIDE DEF rec
<1>6. ReadsOf(disk, "brief", rec) \in SUBSET Values
  BY <1>5, ReadsTyped DEF Maps, MapInv
<1>7. [rec EXCEPT !.reads = ReadsOf(disk, "brief", rec)] \in Known
  BY <1>5, <1>6 DEF Known
<1>8. new \in [{k} -> Known]
  BY <1>7
<1>9. /\ new[k].in /\ new[k].runs = cmd.live
      /\ new[k].wired => known["task"][k].wired /\ new[k].moved = {}
                         /\ (On[k] = File => new[k].sum = content)
  BY <1>5 DEF Known
<1> QED BY <1>1, <1>4, <1>8, <1>9 DEF k

LEMMA AdoptStampPuts ==
  ASSUME MapInv, AdoptStamp
  PROVE  /\ cmd \in Adoption
         /\ \E new \in [{cmd.id} -> Known] :
              /\ Puts("task", {cmd.id}, new)
              /\ new[cmd.id].in /\ new[cmd.id].runs = known["task"][cmd.id].runs
              /\ new[cmd.id].wired = known["task"][cmd.id].wired
              /\ new[cmd.id].sum = known["task"][cmd.id].sum
              /\ new[cmd.id].moved = known["task"][cmd.id].moved
<1> DEFINE k == cmd.id
           rec == known["task"][k]
           new == [j \in {k} |-> [rec EXCEPT !.reads = ReadsOf(disk, "task", rec)]]
<1>1. cmd \in Adoption
  BY DEF AdoptStamp, MapInv, MapTypeOK, Idle
<1>2. k \in Ids /\ rec.in
  BY <1>1 DEF Adoption, AdoptStamp, MapInv, AdoptSteps, AdoptionHolds
<1>3. rec \in Known
  BY <1>2, RecordIs DEF Maps
<1>4. Puts("task", {k}, new)
  <2>1. Save(disk, "task", {k}, [j \in {k} |-> rec])
    BY DEF AdoptStamp
  <2> HIDE DEF k, rec
  <2> QED BY <1>2, <2>1, SavePuts DEF Maps
<1>5. ReadsOf(disk, "task", rec) \in SUBSET Values
  BY <1>3, ReadsTyped DEF Maps, MapInv
<1>6. [rec EXCEPT !.reads = ReadsOf(disk, "task", rec)] \in Known
  BY <1>3, <1>5 DEF Known
<1>7. new \in [{k} -> Known]
  BY <1>6
<1>8. /\ new[k].in /\ new[k].runs = rec.runs /\ new[k].wired = rec.wired
      /\ new[k].sum = rec.sum /\ new[k].moved = rec.moved
  BY <1>2, <1>3 DEF Known
<1> QED BY <1>1, <1>4, <1>7, <1>8

----------------------------------------------------------------------------
\* What a command under way has come to.
CmdInv ==
  /\ cmd.at = "graduate" => known[cmd.map][cmd.id].in
  /\ cmd.at \in AdoptSteps => AdoptionHolds(cmd)
  /\ UnlinkHolds

LEMMA CmdIs ==
  ASSUME MapTypeOK
  PROVE  /\ cmd.at = "idle" <=> cmd = Idle
         /\ cmd.at \in AdoptSteps => cmd \in Adoption
         /\ cmd.at = "graduate" => cmd.map \in Maps /\ cmd.id \in Ids
         /\ cmd.at = "unlink" => /\ cmd.map \in Maps /\ cmd.run \in Runs
                                 /\ cmd.back = Idle \/ cmd.back \in Adoption
  BY DEF MapTypeOK, Idle, AdoptSteps, Adoption

LEMMA UsedTyped ==
  ASSUME MapTypeOK
  PROVE  LET U == [edits : 0..MaxEdits, adopts : 0..MaxAdopts,
                   upsets : 0..MaxUpsets]
         IN  /\ used.edits < MaxEdits => [used EXCEPT !.edits = @ + 1] \in U
             /\ used.adopts < MaxAdopts => [used EXCEPT !.adopts = @ + 1] \in U
             /\ used.upsets < MaxUpsets => [used EXCEPT !.upsets = @ + 1] \in U
  BY MapAssumption DEF MapAssumption, MapTypeOK

\* A step that leaves no command under way, and what was known as it was.
LEMMA IdleKeeps ==
  ASSUME MapInv, MapTypeOK', Grows, Evidence', EvidenceTravels', cmd' = Idle,
         UNCHANGED <<unknown, byHand>>
  PROVE  MapInv'
<1>1. ResolvedHasKnown'
  BY DEF MapInv, ResolvedHasKnown, Grows
<1> QED BY <1>1 DEF MapInv, Idle, AdoptSteps, UnlinkHolds

LEMMA EditKeeps == ASSUME MapInv, NEW v \in Values, Edit(v) PROVE MapInv'
<1>1. MapTypeOK'
  BY UsedTyped DEF Edit, MapInv, MapTypeOK
<1>2. Evidence' /\ EvidenceTravels' /\ Grows
  BY DEF Edit, MapInv, Evidence, Made, EvidenceTravels, Grows
<1>3. cmd' = Idle /\ UNCHANGED <<unknown, byHand>>
  BY DEF Edit, Ready
<1> QED BY <1>1, <1>2, <1>3, IdleKeeps

LEMMA ProbeKeeps ==
  ASSUME MapInv, NEW m \in Maps, NEW r \in Runs, NEW declares \in BOOLEAN,
         ProbeRun(m, r, declares)
  PROVE  MapInv'
<1>1. Of[r] \in Ids
  BY MapAssumption DEF MapAssumption
<1>2. Truth(m, Of[r]) \in SUBSET Values
  BY <1>1, TruthTyped DEF MapInv
<1>3. declares => Reading(m, On[Of[r]]) \in Snapshot
  <2> SUFFICES ASSUME declares PROVE Reading(m, On[Of[r]]) \in Snapshot
    OBVIOUS
  <2>1. On[Of[r]] # File /\ On[Of[r]] \in Ids
    BY <1>1, MapAssumption DEF MapAssumption, ProbeRun
  <2>2. Owner(m, On[Of[r]]) \in Maps
    BY <2>1, OwnerIs
  <2>3. Seen(m, On[Of[r]]).reads \in SUBSET Values
    BY <2>1, <2>2, RecordIs DEF Seen, Known
  <2> QED BY <2>2, <2>3 DEF Reading, Snapshot
<1> DEFINE row == [val |-> Truth(m, Of[r]),
                   from |-> IF declares THEN Reading(m, On[Of[r]]) ELSE None]
<1>4. row \in RunRecord
  BY <1>2, <1>3 DEF RunRecord
<1>5. run' = [run EXCEPT ![r] = row] /\ run[r] = None
  BY DEF ProbeRun
<1> HIDE DEF row
<1>6. run' \in [Runs -> RunRecord \cup {None}]
  BY <1>4, <1>5 DEF MapInv, MapTypeOK
<1>7. /\ disk' = [disk EXCEPT ![m][r] = "live"]
      /\ UNCHANGED <<content, known, unknown, cmd, byHand, used>> /\ cmd = Idle
  BY DEF ProbeRun, Ready
<1>8. disk' \in [Maps -> [Runs -> {"none", "partial", "live", "void"}]]
  BY <1>7 DEF MapInv, MapTypeOK
<1>9. MapTypeOK'
  BY <1>6, <1>7, <1>8 DEF MapInv, MapTypeOK
<1>10. row # None
  BY <1>4, NoneAssumption DEF NoneAssumption
<1>11. \A q \in Runs : run'[q] = IF q = r THEN row ELSE run[q]
  BY <1>5 DEF MapInv, MapTypeOK
<1>12. \A n \in Maps, q \in Runs :
         disk'[n][q] = IF n = m /\ q = r THEN "live" ELSE disk[n][q]
  BY <1>7 DEF MapInv, MapTypeOK
<1>13. Evidence' /\ EvidenceTravels' /\ Grows
  BY <1>7, <1>10, <1>11, <1>12 DEF MapInv, Evidence, Made, EvidenceTravels, Grows, Maps
<1> QED BY <1>7, <1>9, <1>13, IdleKeeps

LEMMA VoidKeeps ==
  ASSUME MapInv, NEW m \in Maps, NEW r \in Runs, Void(m, r) \/ Unvoid(m, r)
  PROVE  MapInv'
<1>1. /\ UNCHANGED <<content, run, known, unknown, byHand, used>> /\ cmd = Idle
      /\ disk[m][r] # "none"
  BY DEF Void, Unvoid, Ready
<1>2. PICK s \in {"void", "live"} : disk' = [disk EXCEPT ![m][r] = s]
  BY DEF Void, Unvoid, Marking
<1>3. cmd' = Idle \/ cmd' = [at |-> "unlink", map |-> m, run |-> r, back |-> Idle]
  BY <1>1 DEF Void, Unvoid, Marking
<1>4. MapTypeOK'
  BY <1>1, <1>2, <1>3 DEF MapInv, MapTypeOK
<1>5. \A n \in Maps, q \in Runs :
         disk'[n][q] = IF n = m /\ q = r THEN s ELSE disk[n][q]
  BY <1>2 DEF MapInv, MapTypeOK
<1>6. Evidence' /\ EvidenceTravels'
  BY <1>1, <1>5 DEF MapInv, Evidence, Made, EvidenceTravels, Maps
<1>7. ResolvedHasKnown'
  BY <1>1 DEF MapInv, ResolvedHasKnown
<1> QED BY <1>3, <1>4, <1>6, <1>7 DEF MapInv, Idle, AdoptSteps, UnlinkHolds

LEMMA RecordKeeps ==
  ASSUME MapInv, NEW m \in Maps, NEW k \in Ids, Writes(m, k)
  PROVE  MapInv'
<1>1. PICK new \in [{k} -> Known] : VerbPuts(m, k, new)
  BY VerbsPut
<1>2. UNCHANGED <<content, run, disk, unknown, byHand, used>>
  BY DEF Writes, Link, Unlink, Graduate, Depend, Touch, Rewrite
<1>3. \A r \in new[k].runs :
        (r \in Made /\ Of[r] = k /\ disk[m][r] # "none") \/ r \in known[m][k].runs
  BY <1>1 DEF VerbPuts, MapInv, Evidence, Known
<1>4. \A r \in new[k].runs : r \in Made /\ Of[r] = k /\ (m = "brief" => disk["brief"][r] # "none")
  BY <1>3 DEF MapInv, Evidence, EvidenceTravels
<1>5. known' \in Records /\ Evidence' /\ EvidenceTravels' /\ Grows /\ known'[m][k].in
  BY <1>1, <1>2, <1>4, PutKeeps DEF VerbPuts
<1>6. cmd' = Idle \/ cmd' = [at |-> "graduate", map |-> m, id |-> k]
  BY DEF Writes, Link, Unlink, Graduate, Depend, Touch, Rewrite, Ready
<1>7. MapTypeOK'
  BY <1>2, <1>5, <1>6 DEF MapInv, MapTypeOK, Records
<1>8. ResolvedHasKnown'
  BY <1>2, <1>5 DEF MapInv, ResolvedHasKnown, Grows
<1> QED BY <1>5, <1>6, <1>7, <1>8 DEF MapInv, Idle, AdoptSteps, UnlinkHolds

\* What is taken away by hand, and what is said by hand of an unknown.
LEMMA DeleteIs ==
  ASSUME MapInv, NEW m \in Maps, NEW k \in Ids, Delete(m, k)
  PROVE  /\ known' \in Records
         /\ \A n \in Maps, j \in Ids :
              IF n = m /\ j = k THEN ~known'[n][j].in /\ known'[n][j].runs = {}
              ELSE known'[n][j].in = known[n][j].in /\ known'[n][j].runs = known[n][j].runs
         /\ Rules = AllRules => \A n \in Maps, j \in Ids :
              ~(n = m /\ j = k) => known'[n][j] = known[n][j]
<1>1. PICK later \in SUBSET {k} :
         known' = [known EXCEPT ![m] = [j \in Ids |->
           IF j = k THEN Absent ELSE Dated("brief", later, j, known[m][j])]]
  BY DEF Delete
<1>2. known \in Records /\ Absent \in Known /\ ~Absent.in /\ Absent.runs = {}
  BY DEF MapInv, MapTypeOK, Records, Absent, Known
<1>3. \A n \in Maps, j \in Ids :
         known'[n][j] = IF n # m THEN known[n][j]
                        ELSE IF j = k THEN Absent ELSE Dated("brief", later, j, known[m][j])
  BY <1>1, <1>2 DEF Records
<1>4. ASSUME NEW j \in Ids
      PROVE  LET d == Dated("brief", later, j, known[m][j])
             IN  d \in Known /\ d.in = known[m][j].in /\ d.runs = known[m][j].runs
  <2>1. known[m][j] \in Known
    BY RecordIs
  <2> QED BY <2>1, DatedIs DEF Maps
<1>5. known' \in Records
  <2>1. [j \in Ids |-> IF j = k THEN Absent ELSE Dated("brief", later, j, known[m][j])]
          \in [Ids -> Known]
    BY <1>2, <1>4
  <2> QED BY <1>1, <1>2, <2>1 DEF Records
<1>6. ASSUME Rules = AllRules, NEW j \in Ids
      PROVE  Dated("brief", later, j, known[m][j]) = known[m][j]
  <2>1. On[j] = k => ~known[m][j].wired
    BY <1>6 DEF Delete, AllRules
  <2> QED BY <2>1 DEF Dated
<1> QED BY <1>2, <1>3, <1>4, <1>5, <1>6

LEMMA HandKeeps ==
  ASSUME MapInv, NEW m \in Maps, NEW k \in Ids, Delete(m, k) \/ SetStatus(m, k)
  PROVE  MapInv'
<1>1. /\ UNCHANGED <<content, run, disk, cmd>> /\ cmd = Idle
      /\ used' = [used EXCEPT !.upsets = @ + 1] /\ used.upsets < MaxUpsets
      /\ byHand' = byHand \cup {<<m, k>>}
  BY DEF Delete, SetStatus, OfHand, Ready
<1>2. byHand' \in SUBSET (Maps \X Ids) /\ <<m, k>> \in byHand'
  BY <1>1 DEF MapInv, MapTypeOK
<1>3. CASE Delete(m, k)
  <2>1. unknown' = unknown
    BY <1>3 DEF Delete
  <2>2. /\ known' \in Records
        /\ \A n \in Maps, j \in Ids :
             IF n = m /\ j = k THEN ~known'[n][j].in /\ known'[n][j].runs = {}
             ELSE known'[n][j].in = known[n][j].in /\ known'[n][j].runs = known[n][j].runs
    BY <1>3, DeleteIs
  <2>3. MapTypeOK'
    BY <1>1, <1>2, <2>1, <2>2, UsedTyped DEF MapInv, MapTypeOK, Records
  <2>4. Evidence' /\ EvidenceTravels'
    BY <1>1, <2>2 DEF MapInv, Evidence, Made, EvidenceTravels, Maps
  <2>5. ResolvedHasKnown'
    BY <1>1, <1>2, <2>1, <2>2 DEF MapInv, ResolvedHasKnown
  <2> QED BY <1>1, <2>3, <2>4, <2>5 DEF MapInv, Idle, AdoptSteps, UnlinkHolds
<1>4. CASE SetStatus(m, k)
  <2>1. known' = known
    BY <1>4 DEF SetStatus
  <2>2. PICK s \in {"open", "resolved"} : unknown' = [unknown EXCEPT ![m][k] = s]
    BY <1>4 DEF SetStatus
  <2>3. MapTypeOK'
    BY <1>1, <1>2, <2>1, <2>2, UsedTyped DEF MapInv, MapTypeOK
  <2>4. Evidence' /\ EvidenceTravels'
    BY <1>1, <2>1 DEF MapInv, Evidence, Made, EvidenceTravels
  <2>5. ResolvedHasKnown'
    BY <1>1, <1>2, <2>1, <2>2 DEF MapInv, MapTypeOK, ResolvedHasKnown
  <2> QED BY <1>1, <2>3, <2>4, <2>5 DEF MapInv, Idle, AdoptSteps, UnlinkHolds
<1> QED BY <1>3, <1>4

LEMMA ResolveKeeps == ASSUME MapInv, Resolve PROVE MapInv'
<1>1. cmd.map \in Maps /\ cmd.id \in Ids /\ known[cmd.map][cmd.id].in
  BY CmdIs DEF Resolve, MapInv
<1>2. MapTypeOK'
  BY <1>1 DEF Resolve, MapInv, MapTypeOK
<1>3. ResolvedHasKnown'
  BY <1>1 DEF Resolve, MapInv, MapTypeOK, ResolvedHasKnown
<1>4. Evidence' /\ EvidenceTravels'
  BY DEF Resolve, MapInv, Evidence, Made, EvidenceTravels
<1>5. cmd' = Idle
  BY DEF Resolve
<1> QED BY <1>2, <1>3, <1>4, <1>5 DEF MapInv, Idle, AdoptSteps, UnlinkHolds

LEMMA AdoptKeeps ==
  ASSUME MapInv, NEW k \in Ids, NEW update \in BOOLEAN, Adopt(k, update)
  PROVE  MapInv'
<1> DEFINE live == {r \in known["task"][k].runs : disk["task"][r] = "live"}
           c == [at |-> "void", id |-> k, live |-> live]
<1>1. known["task"][k] \in Known
  BY RecordIs DEF Maps
<1>2. live \in SUBSET Runs
  BY <1>1 DEF Known
<1>3. /\ UNCHANGED <<content, run, disk, known, unknown, byHand>> /\ cmd' = c
      /\ used' = [used EXCEPT !.adopts = @ + 1] /\ used.adopts < MaxAdopts
      /\ known["task"][k].in
  BY DEF Adopt
<1>4. c \in Adoption
  BY <1>2 DEF Adoption
<1>5. MapTypeOK'
  BY <1>3, <1>4, UsedTyped DEF MapInv, MapTypeOK
<1>6. AdoptionHolds(cmd)'
  BY <1>3 DEF MapInv, Evidence, Made, AdoptionHolds, Maps
<1>7. Evidence' /\ EvidenceTravels' /\ ResolvedHasKnown'
  BY <1>3 DEF MapInv, Evidence, Made, EvidenceTravels, ResolvedHasKnown
<1> QED BY <1>3, <1>5, <1>6, <1>7 DEF MapInv, UnlinkHolds

LEMMA AdoptVoidKeeps == ASSUME MapInv, AdoptVoid PROVE MapInv'
<1>1. cmd \in Adoption /\ cmd.at = "void" /\ AdoptionHolds(cmd)
  BY CmdIs DEF AdoptVoid, MapInv, AdoptSteps
<1>2. UNCHANGED <<content, run, known, unknown, byHand, used>>
  BY DEF AdoptVoid
<1>3. CASE disk' = disk /\ cmd' = [cmd EXCEPT !.at = "copy"]
  <2>1. cmd' \in Adoption /\ cmd'.at = "copy" /\ cmd'.id = cmd.id /\ cmd'.live = cmd.live
    BY <1>1, <1>3 DEF Adoption
  <2>2. MapTypeOK'
    BY <1>2, <1>3, <2>1 DEF MapInv, MapTypeOK
  <2>3. AdoptionHolds(cmd)'
    BY <1>1, <1>2, <1>3, <2>1 DEF AdoptionHolds, Made
  <2> QED BY <1>2, <1>3, <2>1, <2>2, <2>3 DEF MapInv, Evidence, Made, EvidenceTravels,
            ResolvedHasKnown, UnlinkHolds
<1>4. ASSUME NEW r \in Abandoned, Marking("brief", r, cmd) PROVE MapInv'
  <2>1. r \in Runs /\ Of[r] = cmd.id /\ disk["brief"][r] # "none"
    <3>1. r \in known["brief"][cmd.id].runs /\ disk["brief"][r] # "none"
      BY <1>4 DEF Abandoned
    <3>2. cmd.id \in Ids
      BY <1>1 DEF Adoption
    <3> QED BY <3>1, <3>2 DEF MapInv, Evidence, Made, Maps
  <2>2. /\ cmd' = [at |-> "unlink", map |-> "brief", run |-> r, back |-> cmd]
        /\ disk' = [disk EXCEPT !["brief"][r] = "void"]
    BY <1>4 DEF Marking
  <2>3. MapTypeOK'
    <3>1. cmd' \in [at : {"unlink"}, map : Maps, run : Runs, back : Adoption \cup {Idle}]
      BY <1>1, <2>1, <2>2 DEF Maps
    <3>2. disk' \in [Maps -> [Runs -> {"none", "partial", "live", "void"}]]
      BY <2>1, <2>2 DEF MapInv, MapTypeOK, Maps
    <3> QED BY <1>2, <3>1, <3>2 DEF MapInv, MapTypeOK
  <2>4. \A n \in Maps, q \in Runs :
           disk'[n][q] = IF n = "brief" /\ q = r THEN "void" ELSE disk[n][q]
    BY <2>1, <2>2 DEF MapInv, MapTypeOK
  <2>5. Evidence' /\ EvidenceTravels' /\ ResolvedHasKnown'
    BY <1>2, <2>1, <2>4 DEF MapInv, Evidence, Made, EvidenceTravels, ResolvedHasKnown, Maps
  <2>6. Grows
    BY <1>2, <2>4 DEF Grows
  <2>7. UnlinkHolds'
    BY <1>1, <2>1, <2>2, <2>6, AdoptionKept DEF UnlinkHolds, AdoptionHolds, Made
  <2> QED BY <2>2, <2>3, <2>5, <2>7 DEF MapInv, AdoptSteps
<1> QED BY <1>3, <1>4 DEF AdoptVoid, Step

LEMMA AdoptCopyKeeps == ASSUME MapInv, AdoptCopy PROVE MapInv'
<1>1. cmd \in Adoption /\ AdoptionHolds(cmd)
  BY CmdIs DEF AdoptCopy, MapInv, AdoptSteps
<1>2. UNCHANGED <<content, run, known, unknown, byHand, used>> /\ cmd' = [cmd EXCEPT !.at = "save"]
  BY DEF AdoptCopy, Step
<1>3. cmd' \in Adoption /\ cmd'.at = "save" /\ cmd'.id = cmd.id /\ cmd'.live = cmd.live
  BY <1>1, <1>2 DEF Adoption
<1> DEFINE D == [r \in Runs |-> IF r \in cmd.live /\ disk["brief"][r] = "none"
                                THEN "live" ELSE disk["brief"][r]]
<1>4. disk' = [disk EXCEPT !["brief"] = D]
  BY DEF AdoptCopy
<1>5. D \in [Runs -> {"none", "partial", "live", "void"}]
  BY DEF MapInv, MapTypeOK, Maps
<1>6. /\ disk' \in [Maps -> [Runs -> {"none", "partial", "live", "void"}]]
      /\ disk'["task"] = disk["task"]
      /\ \A r \in Runs : disk'["brief"][r] = IF r \in cmd.live /\ disk["brief"][r] = "none"
                                            THEN "live" ELSE disk["brief"][r]
  BY <1>4, <1>5 DEF MapInv, MapTypeOK, Maps
<1>7. MapTypeOK'
  BY <1>2, <1>3, <1>6 DEF MapInv, MapTypeOK
<1>8. \A r \in cmd.live : r \in Made /\ r \in Runs
  BY <1>1 DEF AdoptionHolds, Made
<1>9. Evidence' /\ EvidenceTravels' /\ ResolvedHasKnown'
  <2>1. Evidence'
    BY <1>2, <1>6, <1>8 DEF MapInv, Evidence, Made, Maps
  <2>2. EvidenceTravels'
    BY <1>2, <1>6 DEF MapInv, Evidence, Made, EvidenceTravels, Maps
  <2> QED BY <1>2, <2>1, <2>2 DEF MapInv, ResolvedHasKnown
<1>10. AdoptionHolds(cmd)'
  BY <1>1, <1>2, <1>3, <1>6 DEF AdoptionHolds, Made
<1> QED BY <1>3, <1>7, <1>9, <1>10 DEF MapInv, UnlinkHolds

LEMMA AdoptSaveKeeps == ASSUME MapInv, AdoptSave PROVE MapInv'
<1>1. cmd \in Adoption /\ AdoptionHolds(cmd) /\ cmd.at = "save"
  BY CmdIs DEF AdoptSave, MapInv, AdoptSteps
<1>2. UNCHANGED <<content, run, disk, unknown, byHand, used>> /\ cmd' = [cmd EXCEPT !.at = "resolve"]
  BY DEF AdoptSave, Step
<1>3. cmd' \in Adoption /\ cmd'.at = "resolve" /\ cmd'.id = cmd.id /\ cmd'.live = cmd.live
  BY <1>1, <1>2 DEF Adoption
<1>4. PICK new \in [{cmd.id} -> Known] :
         Puts("brief", {cmd.id}, new) /\ new[cmd.id].in /\ new[cmd.id].runs = cmd.live
  BY AdoptSavePuts
<1>5. known' \in Records /\ Evidence' /\ EvidenceTravels' /\ Grows /\ known'["brief"][cmd.id].in
  <2>1. cmd.id \in Ids /\ "brief" \in Maps
    BY <1>1 DEF Adoption, Maps
  <2>2. \A r \in new[cmd.id].runs : r \in Made /\ Of[r] = cmd.id /\ disk["brief"][r] # "none"
    BY <1>1, <1>4 DEF AdoptionHolds
  <2> QED BY <1>2, <1>4, <2>1, <2>2, PutKeeps
<1>6. MapTypeOK'
  BY <1>2, <1>3, <1>5 DEF MapInv, MapTypeOK, Records
<1>7. AdoptionHolds(cmd)'
  BY <1>1, <1>2, <1>3, <1>5 DEF AdoptionHolds, Made, Grows, Adoption, Maps
<1>8. ResolvedHasKnown'
  BY <1>2, <1>5 DEF MapInv, ResolvedHasKnown, Grows
<1> QED BY <1>3, <1>5, <1>6, <1>7, <1>8 DEF MapInv, UnlinkHolds

LEMMA AdoptResolveKeeps == ASSUME MapInv, AdoptResolve PROVE MapInv'
<1>1. cmd \in Adoption /\ AdoptionHolds(cmd) /\ cmd.at = "resolve"
  BY CmdIs DEF AdoptResolve, MapInv, AdoptSteps
<1>2. UNCHANGED <<content, run, disk, known, used>> /\ cmd' = [cmd EXCEPT !.at = "stamp"]
  BY DEF AdoptResolve, Step
<1>3. cmd' \in Adoption /\ cmd'.at = "stamp" /\ cmd'.id = cmd.id /\ cmd'.live = cmd.live
  BY <1>1, <1>2 DEF Adoption
<1>4. cmd.id \in Ids /\ known["brief"][cmd.id].in
  BY <1>1 DEF Adoption, AdoptionHolds
<1>5. /\ unknown' = [unknown EXCEPT !["brief"][cmd.id] = "resolved"]
      /\ byHand' = byHand \ {<<"brief", cmd.id>>}
  BY DEF AdoptResolve
<1>6. MapTypeOK'
  <2>1. unknown' \in [Maps -> [Ids -> {"open", "resolved"}]]
    BY <1>4, <1>5 DEF MapInv, MapTypeOK, Maps
  <2> QED BY <1>2, <1>3, <1>5, <2>1 DEF MapInv, MapTypeOK
<1>7. ResolvedHasKnown'
  BY <1>2, <1>4, <1>5 DEF MapInv, MapTypeOK, ResolvedHasKnown
<1>8. AdoptionHolds(cmd)'
  BY <1>1, <1>2, <1>3 DEF AdoptionHolds, Made
<1> QED BY <1>2, <1>3, <1>6, <1>7, <1>8 DEF MapInv, UnlinkHolds, Evidence, Made, EvidenceTravels

LEMMA AdoptStampKeeps == ASSUME MapInv, AdoptStamp PROVE MapInv'
<1>1. cmd \in Adoption /\ AdoptionHolds(cmd)
  BY CmdIs DEF AdoptStamp, MapInv, AdoptSteps
<1>2. UNCHANGED <<content, run, disk, unknown, byHand, used>> /\ cmd' = Idle
  BY DEF AdoptStamp
<1>3. PICK new \in [{cmd.id} -> Known] :
         /\ Puts("task", {cmd.id}, new) /\ new[cmd.id].in
         /\ new[cmd.id].runs = known["task"][cmd.id].runs
  BY AdoptStampPuts
<1>4. known' \in Records /\ Evidence' /\ EvidenceTravels' /\ Grows
  <2>1. cmd.id \in Ids /\ "task" \in Maps /\ "task" # "brief"
    BY <1>1 DEF Adoption, Maps
  <2>2. \A r \in new[cmd.id].runs : r \in Made /\ Of[r] = cmd.id
    BY <1>3, <2>1 DEF MapInv, Evidence
  <2> QED BY <1>2, <1>3, <2>1, <2>2, PutKeeps
<1>5. MapTypeOK'
  BY <1>2, <1>4 DEF MapInv, MapTypeOK, Records
<1> QED BY <1>2, <1>4, <1>5, IdleKeeps

LEMMA UnlinkedKeeps == ASSUME MapInv, Unlinked PROVE MapInv'
<1> DEFINE m == cmd.map
           K == {k \in Ids : cmd.run \in known[m][k].runs}
<1>1. /\ m \in Maps /\ cmd.run \in Runs
      /\ \E new \in [K -> Known] :
           Puts(m, K, new) /\ \A k \in K : /\ new[k].in = known[m][k].in
                                           /\ new[k].runs = known[m][k].runs \ {cmd.run}
  BY UnlinkedPuts
<1>2. UNCHANGED <<content, run, disk, unknown, byHand, used>> /\ cmd' = cmd.back /\ cmd.at = "unlink"
  BY DEF Unlinked
<1>3. PICK new \in [K -> Known] :
         Puts(m, K, new) /\ \A k \in K : /\ new[k].in = known[m][k].in
                                         /\ new[k].runs = known[m][k].runs \ {cmd.run}
  BY <1>1
<1>4. \A k \in K : new[k].in
  <2>1. \A k \in K : known[m][k].in
    BY <1>1 DEF MapInv, Evidence
  <2> QED BY <1>3, <2>1
<1>5. \A k \in K : \A r \in new[k].runs :
         r \in Made /\ Of[r] = k /\ (m = "brief" => disk["brief"][r] # "none")
  <2>1. \A k \in K : k \in Ids /\ new[k].runs \subseteq known[m][k].runs
    BY <1>3
  <2> QED BY <1>1, <2>1 DEF MapInv, Evidence, EvidenceTravels
<1>6. known' \in Records /\ Evidence' /\ EvidenceTravels' /\ Grows
  <2>1. K \in SUBSET Ids
    OBVIOUS
  <2> HIDE DEF K, m
  <2> QED BY <1>1, <1>2, <1>3, <1>4, <1>5, <2>1, PutKeeps
<1>7. CASE cmd.back = Idle
  <2>1. MapTypeOK'
    BY <1>2, <1>6, <1>7 DEF MapInv, MapTypeOK, Records
  <2> QED BY <1>2, <1>6, <1>7, <2>1, IdleKeeps
<1>8. CASE cmd.back # Idle
  <2>1. /\ cmd.back \in Adoption /\ cmd.back.at = "void" /\ AdoptionHolds(cmd.back)
    BY <1>2, <1>8, CmdIs DEF MapInv, UnlinkHolds
  <2>2. MapTypeOK'
    BY <1>2, <1>6, <2>1 DEF MapInv, MapTypeOK, Records
  <2>3. AdoptionHolds(cmd)'
    BY <1>2, <1>6, <2>1, AdoptionKept DEF AdoptionHolds, Made
  <2>4. ResolvedHasKnown'
    BY <1>2, <1>6 DEF MapInv, ResolvedHasKnown, Grows
  <2> QED BY <1>2, <1>6, <2>1, <2>2, <2>3, <2>4 DEF MapInv, UnlinkHolds
<1> QED BY <1>7, <1>8

LEMMA KillKeeps == ASSUME MapInv, Kill PROVE MapInv'
<1>1. /\ UNCHANGED <<content, run, known, unknown, byHand>> /\ cmd' = Idle
      /\ used' = [used EXCEPT !.upsets = @ + 1] /\ used.upsets < MaxUpsets
  BY DEF Kill
<1>2. CASE disk' = disk
  <2>1. MapTypeOK'
    BY <1>1, <1>2, UsedTyped DEF MapInv, MapTypeOK
  <2>2. Evidence' /\ EvidenceTravels' /\ Grows
    BY <1>1, <1>2 DEF MapInv, Evidence, Made, EvidenceTravels, Grows
  <2> QED BY <1>1, <2>1, <2>2, IdleKeeps
<1>3. CASE disk' # disk
  <2>1. cmd.at = "copy"
    BY <1>3 DEF Kill
  <2>2. cmd \in Adoption /\ AdoptionHolds(cmd)
    BY <2>1, CmdIs DEF MapInv, AdoptSteps
  <2>3. PICK copied \in SUBSET Missing, half \in {{}} \cup {{r} : r \in Missing} :
           disk' = [disk EXCEPT !["brief"] = [r \in Runs |->
                      IF r \in half THEN "partial" ELSE IF r \in copied THEN "live"
                      ELSE disk["brief"][r]]]
    BY <1>3 DEF Kill
  <2> DEFINE D == [r \in Runs |-> IF r \in half THEN "partial" ELSE IF r \in copied THEN "live"
                                  ELSE disk["brief"][r]]
             new == half \cup copied
  <2>4. new \subseteq Made
    BY <2>2, <2>3 DEF AdoptionHolds, Made, Missing
  <2>a. disk' = [disk EXCEPT !["brief"] = D]
    BY <2>3
  <2>b. D \in [Runs -> {"none", "partial", "live", "void"}]
    BY DEF MapInv, MapTypeOK, Maps
  <2>5. \A n \in Maps, q \in Runs :
           \/ disk'[n][q] = disk[n][q]
           \/ q \in new /\ disk'[n][q] \in {"partial", "live"}
    BY <2>a DEF MapInv, MapTypeOK
  <2>6. disk' \in [Maps -> [Runs -> {"none", "partial", "live", "void"}]]
    BY <2>a, <2>b DEF MapInv, MapTypeOK, Maps
  <2> HIDE DEF D, new
  <2>7. MapTypeOK'
    BY <1>1, <2>6, UsedTyped DEF MapInv, MapTypeOK
  <2>8. Evidence' /\ EvidenceTravels' /\ Grows
    BY <1>1, <2>4, <2>5 DEF MapInv, Evidence, Made, EvidenceTravels, Grows, Maps
  <2> QED BY <1>1, <2>7, <2>8, IdleKeeps
<1> QED BY <1>2, <1>3

LEMMA StutterKeeps == ASSUME MapInv, UNCHANGED mvars PROVE MapInv'
  BY DEF mvars, MapInv, MapTypeOK, Evidence, Made, AdoptionHolds, UnlinkHolds,
         ResolvedHasKnown, EvidenceTravels

LEMMA MapInvHolds == Spec => []MapInv
<1>1. Init => MapInv
  <2> SUFFICES ASSUME Init PROVE MapInv
    OBVIOUS
  <2>1. Absent \in Known /\ Absent.runs = {}
    BY DEF Absent, Known
  <2>2. known = [m \in Maps |-> [k \in Ids |-> Absent]] /\ cmd = Idle
    BY DEF Init
  <2>3. MapTypeOK
    BY <2>1, MapAssumption DEF MapAssumption, Init, MapTypeOK
  <2>4. Evidence /\ EvidenceTravels
    BY <2>1, <2>2 DEF Init, Evidence, EvidenceTravels, Maps
  <2> QED BY <2>2, <2>3, <2>4 DEF Init, MapInv, Idle, AdoptSteps, UnlinkHolds, ResolvedHasKnown
<1>2. MapInv /\ [Next]_mvars => MapInv'
  <2> SUFFICES ASSUME MapInv, [Next]_mvars PROVE MapInv'
    OBVIOUS
  <2>1. Hands \subseteq Maps
    BY MapAssumption DEF MapAssumption, Maps
  <2>2. \A m \in Maps, k \in Ids :
           OnRecord(m, k) <=> Writes(m, k) \/ Delete(m, k) \/ SetStatus(m, k)
    BY DEF OnRecord, Writes
  <2> QED BY <2>1, <2>2, EditKeeps, ProbeKeeps, VoidKeeps, RecordKeeps, HandKeeps, ResolveKeeps, AdoptKeeps,
             AdoptVoidKeeps, AdoptCopyKeeps, AdoptSaveKeeps, AdoptResolveKeeps,
             AdoptStampKeeps, UnlinkedKeeps, KillKeeps, StutterKeeps
          DEF Next, OnRun, Adopting
<1> QED BY <1>1, <1>2, PTL DEF Spec

\* Every map keeps its kinds, whatever the bounds.
THEOREM MapTyped == Spec => []MapTypeOK
  BY MapInvHolds, PTL DEF MapInv

\* A resolved unknown has its known, wherever a kill fell between the writes,
\* unless the user's own hand resolved it or deleted the known.
THEOREM ResolvedHasKnownHolds == Spec => []ResolvedHasKnown
  BY MapInvHolds, PTL DEF MapInv

\* What the brief's map cites was copied there, wherever a kill fell.
THEOREM EvidenceTravelsHolds == Spec => []EvidenceTravels
  BY MapInvHolds, PTL DEF MapInv

----------------------------------------------------------------------------
\* The child's runs read what the parent's copy will rest on, until it is saved.
AdoptionFits(c) ==
  c.at \in {"void", "copy", "save"} /\ known["task"][c.id].wired =>
    /\ On[c.id] = File => \A r \in c.live : run[r].val = {content}
    /\ On[c.id] # File =>
         \A r \in c.live : run[r].val = known["brief"][On[c.id]].reads
FreshInv ==
  /\ StampsHold
  /\ cmd.at \in AdoptSteps => AdoptionFits(cmd)
  /\ cmd.at = "unlink" /\ cmd.back # Idle => AdoptionFits(cmd.back)

\* A save leaves every stamp true: what depends on the saved is dated.
LEMMA PutFits ==
  ASSUME MapInv, StampsHold, Rules = AllRules, NEW m \in Maps, NEW K \in SUBSET Ids, NEW new \in [K -> Known],
         Puts(m, K, new), UNCHANGED run, \A j \in K : new[j].in /\ Fits(m, j, new[j])
  PROVE  StampsHold'
<1> SUFFICES ASSUME NEW n \in Maps, NEW j \in Ids, known'[n][j].wired
             PROVE  /\ On[j] = File => \A r \in known'[n][j].runs :
                                         run[r].val = {known'[n][j].sum}
                    /\ On[j] # File /\ Owner(n, On[j])' \notin known'[n][j].moved =>
                         \A r \in known'[n][j].runs : run[r].val = Seen(n, On[j])'.reads
  BY DEF StampsHold, Fits
<1>0. known \in Records
  BY DEF MapInv, MapTypeOK, Records
<1> DEFINE b == Before(m, K, new, n, j)
<1>1. b \in Known /\ known'[n][j] = Dated(m, K, j, b) /\ b.wired
      /\ known'[n][j].runs = b.runs /\ known'[n][j].sum = b.sum
  BY <1>0, PutsIs
<1>2. Fits(n, j, b)
  BY DEF Before, StampsHold
<1> HIDE DEF b
<1>3. CASE On[j] = File
  BY <1>1, <1>2, <1>3 DEF Fits
<1>4. CASE On[j] # File /\ On[j] \notin K
  <2>1. On[j] \in Ids
    BY <1>4, MapAssumption DEF MapAssumption
  <2>2. \A o \in Maps : /\ known'[o][On[j]].in = known[o][On[j]].in
                        /\ known'[o][On[j]].reads = known[o][On[j]].reads
    <3> SUFFICES ASSUME NEW o \in Maps
                 PROVE  /\ known'[o][On[j]].in = known[o][On[j]].in
                        /\ known'[o][On[j]].reads = known[o][On[j]].reads
      OBVIOUS
    <3>1. Before(m, K, new, o, On[j]) = known[o][On[j]]
      BY <1>4 DEF Before
    <3> QED BY <1>0, <2>1, <3>1, PutsIs
  <2>3. Owner(n, On[j])' = Owner(n, On[j])
    BY <2>2 DEF Owner
  <2>4. Seen(n, On[j])'.reads = Seen(n, On[j]).reads
    <3>1. Owner(n, On[j]) \in Maps
      BY <2>1, OwnerIs
    <3> QED BY <2>2, <2>3, <3>1 DEF Seen
  <2>5. known'[n][j].moved = b.moved
    BY <1>1, <1>4, DatedMoved
  <2> QED BY <1>1, <1>2, <1>4, <2>3, <2>4, <2>5 DEF Fits
<1>5. CASE On[j] # File /\ On[j] \in K
  <2>1. known'[n][j].moved = b.moved \cup {m}
    BY <1>1, <1>5, DatedMoved
  <2> SUFFICES ASSUME Owner(n, On[j])' \notin b.moved, Owner(n, On[j])' # m
               PROVE  \A r \in b.runs : run[r].val = Seen(n, On[j])'.reads
    BY <1>1, <1>5, <2>1
  <2>2. known'[m][On[j]].in
    <3>1. Before(m, K, new, m, On[j]) = new[On[j]]
      BY <1>5 DEF Before
    <3> QED BY <1>0, <1>5, <3>1, PutsIs
  <2>3. \A o \in Maps \ {m} : /\ known'[o][On[j]].in = known[o][On[j]].in
                              /\ known'[o][On[j]].reads = known[o][On[j]].reads
    <3> SUFFICES ASSUME NEW o \in Maps \ {m}
                 PROVE  /\ known'[o][On[j]].in = known[o][On[j]].in
                        /\ known'[o][On[j]].reads = known[o][On[j]].reads
      OBVIOUS
    <3>1. Before(m, K, new, o, On[j]) = known[o][On[j]]
      BY DEF Before
    <3> QED BY <1>0, <1>5, <3>1, PutsIs
  <2>4. n # m
    BY <2>2 DEF Owner
  <2>5. Owner(n, On[j])' = Owner(n, On[j]) /\ Owner(n, On[j]) # m
    BY <2>3, <2>4 DEF Owner
  <2>6. Seen(n, On[j])'.reads = Seen(n, On[j]).reads
    <3>1. Owner(n, On[j]) \in Maps \ {m}
      BY <1>5, <2>5, OwnerIs
    <3> QED BY <2>3, <2>5, <3>1 DEF Seen
  <2> QED BY <1>1, <1>2, <1>5, <2>5, <2>6 DEF Fits
<1> QED BY <1>3, <1>4, <1>5

\* What a step that saves nothing leaves of the stamps.
LEMMA UnsavedFits ==
  ASSUME MapInv, StampsHold, known' = known,
         \A r \in Runs : run[r] # None => run'[r] = run[r]
  PROVE  StampsHold'
<1> SUFFICES ASSUME NEW n \in Maps, NEW j \in Ids
             PROVE  Fits(n, j, known[n][j])'
  BY DEF StampsHold
<1>1. Fits(n, j, known[n][j])
  BY DEF StampsHold
<1>2. \A r \in known[n][j].runs : run'[r] = run[r]
  BY DEF MapInv, Evidence, Made
<1> QED BY <1>1, <1>2 DEF Fits, Owner, Seen

LEMMA IdleFresh ==
  ASSUME StampsHold', cmd' = Idle
  PROVE  FreshInv'
  BY DEF FreshInv, Idle, AdoptSteps

LEMMA AdoptFresh ==
  ASSUME MapInv, FreshInv, Rules = AllRules, NEW k \in Ids, NEW update \in BOOLEAN,
         Adopt(k, update)
  PROVE  FreshInv'
<1> DEFINE live == {r \in known["task"][k].runs : disk["task"][r] = "live"}
<1>1. /\ UNCHANGED <<content, run, disk, known, unknown, byHand>>
      /\ cmd' = [at |-> "void", id |-> k, live |-> live]
      /\ known["task"][k].in /\ ~Stale("task", k) /\ InOrder(k)
  BY DEF Adopt, Adoptable
<1>2. StampsHold'
  BY <1>1, UnsavedFits DEF FreshInv
<1>3. "task" \in Maps /\ Fits("task", k, known["task"][k])
  BY DEF FreshInv, StampsHold, Maps
<1>4. Seen("task", k) = known["task"][k]
  BY <1>1 DEF Seen, Owner
<1>5. ASSUME known["task"][k].wired, On[k] = File
      PROVE  \A r \in live : run[r].val = {content}
  BY <1>1, <1>3, <1>4, <1>5 DEF Fits, Stale, Direct
<1>6. ASSUME known["task"][k].wired, On[k] # File
      PROVE  \A r \in live : run[r].val = known["brief"][On[k]].reads
  <2>1. Owner("task", On[k]) \notin known["task"][k].moved
    BY <1>1, <1>4, <1>6 DEF Stale, Direct, MovedSince
  <2>2. known["brief"][On[k]].reads = Seen("task", On[k]).reads
    BY <1>1, <1>6 DEF InOrder, AllRules, Truth
  <2> QED BY <1>3, <1>6, <2>1, <2>2 DEF Fits
<1>7. AdoptionFits(cmd)'
  BY <1>1, <1>5, <1>6 DEF AdoptionFits
<1> QED BY <1>1, <1>2, <1>7 DEF FreshInv

LEMMA AdoptVoidFresh ==
  ASSUME MapInv, FreshInv, AdoptVoid \/ AdoptCopy \/ AdoptResolve
  PROVE  FreshInv'
<1>1. cmd \in Adoption /\ AdoptionFits(cmd) /\ cmd.at \in AdoptSteps
  BY CmdIs DEF AdoptVoid, AdoptCopy, AdoptResolve, FreshInv, MapInv, AdoptSteps
<1>2. UNCHANGED <<content, run, known>>
  BY DEF AdoptVoid, AdoptCopy, AdoptResolve
<1>3. StampsHold'
  BY <1>2, UnsavedFits DEF FreshInv
<1>4. CASE \E l \in AdoptSteps : cmd' = [cmd EXCEPT !.at = l] /\ cmd.at # "resolve"
  <2>1. cmd.at \in {"void", "copy"} \/ cmd.at \in {"save", "stamp"}
    BY <1>1, <1>4 DEF AdoptSteps
  <2>2. cmd'.id = cmd.id /\ cmd'.live = cmd.live /\ cmd'.at \in AdoptSteps
    BY <1>1, <1>4 DEF Adoption
  <2>3. cmd.at \in {"void", "copy"}
    BY <1>4 DEF AdoptVoid, AdoptCopy, AdoptResolve
  <2>4. AdoptionFits(cmd)'
    BY <1>1, <1>2, <2>2, <2>3 DEF AdoptionFits
  <2> QED BY <1>3, <2>2, <2>4 DEF FreshInv, AdoptSteps
<1>5. CASE AdoptResolve
  <2>1. cmd' = [cmd EXCEPT !.at = "stamp"]
    BY <1>5 DEF AdoptResolve, Step
  <2>2. cmd'.at = "stamp"
    BY <1>1, <2>1 DEF Adoption
  <2> QED BY <1>3, <2>2 DEF FreshInv, AdoptionFits
<1>6. CASE \E r \in Abandoned : Marking("brief", r, cmd)
  <2>1. cmd'.at = "unlink" /\ cmd'.back = cmd
    BY <1>6 DEF Marking
  <2>2. AdoptionFits(cmd.back)'
    BY <1>1, <1>2, <2>1 DEF AdoptionFits
  <2> QED BY <1>3, <2>1, <2>2 DEF FreshInv, AdoptSteps
<1>7. \/ AdoptResolve
      \/ \E r \in Abandoned : Marking("brief", r, cmd)
      \/ \E l \in AdoptSteps : cmd' = [cmd EXCEPT !.at = l] /\ cmd.at # "resolve"
  BY DEF AdoptVoid, AdoptCopy, Step, AdoptSteps
<1> QED BY <1>4, <1>5, <1>6, <1>7

LEMMA AdoptSaveFresh ==
  ASSUME MapInv, FreshInv, Rules = AllRules, AdoptSave
  PROVE  FreshInv'
<1>1. cmd \in Adoption /\ AdoptionFits(cmd) /\ cmd.at = "save"
  BY CmdIs DEF AdoptSave, FreshInv, MapInv, AdoptSteps
<1>2. UNCHANGED <<content, run>> /\ cmd' = [cmd EXCEPT !.at = "resolve"]
  BY DEF AdoptSave, Step
<1>3. cmd.id \in Ids /\ "brief" \in Maps
  BY <1>1 DEF Adoption, Maps
<1>4. PICK new \in [{cmd.id} -> Known] :
         /\ Puts("brief", {cmd.id}, new)
         /\ new[cmd.id].in /\ new[cmd.id].runs = cmd.live
         /\ new[cmd.id].wired =>
              known["task"][cmd.id].wired /\ new[cmd.id].moved = {}
              /\ (On[cmd.id] = File => new[cmd.id].sum = content)
  BY AdoptSavePuts
<1>5. Fits("brief", cmd.id, new[cmd.id])
  <2>1. \A k \in Ids : Seen("brief", k) = known["brief"][k]
    BY DEF Seen, Owner
  <2>2. On[cmd.id] # File => On[cmd.id] \in Ids
    BY <1>3, MapAssumption DEF MapAssumption
  <2> QED BY <1>1, <1>4, <2>1, <2>2 DEF AdoptionFits, Fits
<1>6. StampsHold'
  BY <1>2, <1>3, <1>4, <1>5, PutFits DEF FreshInv
<1>7. cmd'.at = "resolve"
  BY <1>1, <1>2 DEF Adoption
<1> QED BY <1>6, <1>7 DEF FreshInv, AdoptionFits

LEMMA AdoptStampFresh ==
  ASSUME MapInv, FreshInv, Rules = AllRules, AdoptStamp
  PROVE  FreshInv'
<1>1. cmd \in Adoption
  BY CmdIs DEF AdoptStamp, MapInv, AdoptSteps
<1>2. UNCHANGED <<content, run>> /\ cmd' = Idle
  BY DEF AdoptStamp
<1>3. cmd.id \in Ids /\ "task" \in Maps
  BY <1>1 DEF Adoption, Maps
<1>4. PICK new \in [{cmd.id} -> Known] :
         /\ Puts("task", {cmd.id}, new)
         /\ new[cmd.id].in /\ new[cmd.id].runs = known["task"][cmd.id].runs
         /\ new[cmd.id].wired = known["task"][cmd.id].wired
         /\ new[cmd.id].sum = known["task"][cmd.id].sum
         /\ new[cmd.id].moved = known["task"][cmd.id].moved
  BY AdoptStampPuts
<1>5. Fits("task", cmd.id, new[cmd.id])
  <2>1. Fits("task", cmd.id, known["task"][cmd.id])
    BY <1>3 DEF FreshInv, StampsHold
  <2> QED BY <1>4, <2>1 DEF Fits
<1>6. StampsHold'
  BY <1>2, <1>3, <1>4, <1>5, PutFits DEF FreshInv
<1> QED BY <1>2, <1>6, IdleFresh

\* Unlinking a voided run from the parent's copy leaves what that copy rests on
\* alone: a run is linked to the one known it is of.
LEMMA UnlinkedFresh ==
  ASSUME MapInv, FreshInv, Rules = AllRules, Unlinked
  PROVE  FreshInv'
<1> DEFINE m == cmd.map
           K == {k \in Ids : cmd.run \in known[m][k].runs}
<1>1. /\ m \in Maps /\ cmd.run \in Runs
      /\ \E new \in [K -> Known] :
           /\ Puts(m, K, new)
           /\ \A k \in K : /\ new[k].in = known[m][k].in
                           /\ new[k].runs = known[m][k].runs \ {cmd.run}
                           /\ new[k].wired = known[m][k].wired
                           /\ new[k].sum = known[m][k].sum
                           /\ new[k].moved = known[m][k].moved
  BY UnlinkedPuts
<1>2. UNCHANGED <<content, run>> /\ cmd' = cmd.back /\ cmd.at = "unlink"
  BY DEF Unlinked
<1>3. PICK new \in [K -> Known] :
           /\ Puts(m, K, new)
           /\ \A k \in K : /\ new[k].in = known[m][k].in
                           /\ new[k].runs = known[m][k].runs \ {cmd.run}
                           /\ new[k].wired = known[m][k].wired
                           /\ new[k].sum = known[m][k].sum
                           /\ new[k].moved = known[m][k].moved
  BY <1>1
<1>4. \A k \in K : new[k].in /\ Fits(m, k, new[k])
  <2> SUFFICES ASSUME NEW k \in K PROVE new[k].in /\ Fits(m, k, new[k])
    OBVIOUS
  <2>1. Fits(m, k, known[m][k]) /\ known[m][k].in
    BY <1>1 DEF FreshInv, StampsHold, MapInv, Evidence
  <2>2. /\ new[k].in = known[m][k].in /\ new[k].runs \subseteq known[m][k].runs
        /\ new[k].wired = known[m][k].wired /\ new[k].sum = known[m][k].sum
        /\ new[k].moved = known[m][k].moved
    BY <1>3
  <2> QED BY <2>1, <2>2 DEF Fits
<1>5. \A k \in K : Of[cmd.run] = k
  BY <1>1 DEF MapInv, Evidence
<1>6. K \in SUBSET Ids
  OBVIOUS
<1>7. known \in Records
  BY DEF MapInv, MapTypeOK, Records
<1> HIDE DEF m, K
<1>8. StampsHold'
  BY <1>1, <1>2, <1>3, <1>4, <1>6, PutFits DEF FreshInv
<1>9. CASE cmd.back = Idle
  BY <1>2, <1>8, <1>9, IdleFresh
<1>10. CASE cmd.back # Idle
  <2>1. /\ cmd.back \in Adoption /\ cmd.back.at = "void" /\ AdoptionFits(cmd.back)
        /\ m = "brief" /\ Of[cmd.run] = cmd.back.id
    BY <1>2, <1>10, CmdIs DEF FreshInv, MapInv, UnlinkHolds, m
  <2>2. cmd.back.id \in Ids /\ "task" \in Maps /\ "brief" \in Maps /\ "task" # "brief"
    BY <2>1 DEF Adoption, Maps
  <2>3. known'["task"][cmd.back.id].wired = known["task"][cmd.back.id].wired
    <3>1. Before(m, K, new, "task", cmd.back.id) = known["task"][cmd.back.id]
      BY <2>1, <2>2 DEF Before
    <3> QED BY <1>1, <1>3, <1>6, <1>7, <2>2, <3>1, PutsIs
  <2>4. ASSUME On[cmd.back.id] # File
        PROVE  known'["brief"][On[cmd.back.id]].reads = known["brief"][On[cmd.back.id]].reads
    <3>1. On[cmd.back.id] \in Ids /\ On[cmd.back.id] # cmd.back.id
      BY <2>2, <2>4, MapAssumption DEF MapAssumption
    <3>2. On[cmd.back.id] \notin K
      BY <1>5, <2>1, <3>1
    <3>3. Before(m, K, new, "brief", On[cmd.back.id]) = known["brief"][On[cmd.back.id]]
      BY <3>2 DEF Before
    <3> QED BY <1>1, <1>3, <1>6, <1>7, <2>2, <3>1, <3>3, PutsIs
  <2>5. AdoptionFits(cmd)'
    BY <1>2, <2>1, <2>3, <2>4 DEF AdoptionFits
  <2> QED BY <1>2, <1>8, <2>1, <2>5 DEF FreshInv
<1> QED BY <1>9, <1>10

\* What nothing rests on is taken away: every stamp that is left still holds.
LEMMA HandFresh ==
  ASSUME MapInv, FreshInv, Rules = AllRules, NEW m \in Maps, NEW k \in Ids,
         Delete(m, k) \/ SetStatus(m, k)
  PROVE  FreshInv'
<1>1. UNCHANGED <<run, content>> /\ cmd' = Idle
  BY DEF Delete, SetStatus, OfHand, Ready
<1>2. CASE SetStatus(m, k)
  <2>1. known' = known
    BY <1>2 DEF SetStatus
  <2> QED BY <1>1, <2>1, UnsavedFits, IdleFresh DEF FreshInv
<1>3. CASE Delete(m, k)
  <2>1. \A n \in Maps, j \in Ids : ~(n = m /\ j = k) => known'[n][j] = known[n][j]
    BY <1>3, DeleteIs
  <2>2. \A n \in Maps, j \in Ids : On[j] = k => ~known[n][j].wired
    BY <1>3 DEF Delete, AllRules
  <2>3. ASSUME NEW n \in Maps, NEW j \in Ids PROVE Fits(n, j, known[n][j])'
    <3>1. CASE n = m /\ j = k
      <4>1. known'[n][j] = Absent
        <5>1. PICK later \in SUBSET {k} :
                 known' = [known EXCEPT ![m] = [i \in Ids |->
                   IF i = k THEN Absent ELSE Dated("brief", later, i, known[m][i])]]
          BY <1>3 DEF Delete
        <5>2. known \in Records
          BY DEF MapInv, MapTypeOK, Records
        <5> QED BY <3>1, <5>1, <5>2 DEF Records
      <4> QED BY <4>1 DEF Fits, Absent
    <3>2. CASE ~(n = m /\ j = k)
      <4>1. known'[n][j] = known[n][j] /\ Fits(n, j, known[n][j])
        BY <2>1, <3>2 DEF FreshInv, StampsHold
      <4>2. CASE ~known[n][j].wired
        BY <4>1, <4>2 DEF Fits
      <4>3. CASE On[j] = File
        BY <1>1, <4>1, <4>3 DEF Fits
      <4>4. CASE known[n][j].wired /\ On[j] # File
        <5>1. On[j] \in Ids /\ On[j] # k
          BY <2>2, <4>4, MapAssumption DEF MapAssumption
        <5>2. \A o \in Maps : known'[o][On[j]] = known[o][On[j]]
          BY <2>1, <5>1
        <5>3. Owner(n, On[j])' = Owner(n, On[j])
          BY <5>2 DEF Owner
        <5>4. Seen(n, On[j])' = Seen(n, On[j])
          BY <5>1, <5>2, <5>3, OwnerIs DEF Seen
        <5> QED BY <1>1, <4>1, <5>3, <5>4 DEF Fits
      <4> QED BY <4>2, <4>3, <4>4
    <3> QED BY <3>1, <3>2
  <2>4. StampsHold'
    BY <2>3 DEF StampsHold
  <2> QED BY <1>1, <2>4, IdleFresh
<1> QED BY <1>2, <1>3

LEMMA NextFresh ==
  ASSUME MapInv, FreshInv, Rules = AllRules, [Next]_mvars
  PROVE  FreshInv'
<1>0. Hands \subseteq Maps
  BY MapAssumption DEF MapAssumption, Maps
<1>1. ASSUME NEW v \in Values, Edit(v) PROVE FreshInv'
  <2>1. UNCHANGED <<run, known>> /\ cmd' = Idle
    BY <1>1 DEF Edit, Ready
  <2> QED BY <2>1, UnsavedFits, IdleFresh DEF FreshInv
<1>2. ASSUME NEW m \in Hands, NEW r \in Runs, OnRun(m, r) PROVE FreshInv'
  <2>1. known' = known
    BY <1>2 DEF OnRun, ProbeRun, Void, Unvoid
  <2>2. \A q \in Runs : run[q] # None => run'[q] = run[q]
    BY <1>2 DEF OnRun, ProbeRun, Void, Unvoid, MapInv, MapTypeOK
  <2>3. StampsHold'
    BY <2>1, <2>2, UnsavedFits DEF FreshInv
  <2>4. cmd' = Idle \/ (cmd'.at = "unlink" /\ cmd'.back = Idle)
    BY <1>2 DEF OnRun, ProbeRun, Void, Unvoid, Marking, Ready
  <2> QED BY <2>3, <2>4, IdleFresh DEF FreshInv, AdoptSteps
<1>3. ASSUME NEW m \in Hands, NEW k \in Ids, Writes(m, k) PROVE FreshInv'
  <2>1. PICK new \in [{k} -> Known] : VerbPuts(m, k, new)
    BY <1>0, <1>3, VerbsPut
  <2>2. run' = run /\ (cmd' = Idle \/ cmd'.at = "graduate")
    <3>1. run' = run
      BY <1>3 DEF Writes, Link, Unlink, Graduate, Depend, Touch, Rewrite
    <3>2. cmd' = Idle \/ cmd' = [at |-> "graduate", map |-> m, id |-> k]
      BY <1>3 DEF Writes, Link, Unlink, Graduate, Depend, Touch, Rewrite, Ready
    <3> QED BY <3>1, <3>2
  <2>3. StampsHold'
    BY <1>0, <2>1, <2>2, PutFits DEF VerbPuts, FreshInv
  <2> QED BY <2>2, <2>3, IdleFresh DEF FreshInv, AdoptSteps
<1>4. ASSUME Resolve \/ Kill PROVE FreshInv'
  <2>1. UNCHANGED <<run, known>> /\ cmd' = Idle
    BY <1>4 DEF Resolve, Kill
  <2> QED BY <2>1, UnsavedFits, IdleFresh DEF FreshInv
<1>5. CASE UNCHANGED mvars
  BY <1>5 DEF mvars, FreshInv, StampsHold, Fits, Owner, Seen, AdoptionFits
<1>6. \A m \in Maps, k \in Ids :
         OnRecord(m, k) <=> Writes(m, k) \/ Delete(m, k) \/ SetStatus(m, k)
  BY DEF OnRecord, Writes
<1> QED BY <1>0, <1>1, <1>2, <1>3, <1>4, <1>5, <1>6, HandFresh, AdoptFresh, AdoptVoidFresh,
           AdoptSaveFresh, AdoptStampFresh, UnlinkedFresh
        DEF Next, Adopting

LEMMA OnlyOne ==
  ASSUME NEW S, Cardinality(S) = 1 PROVE S # {}
  BY FS_EmptySet

\* The gate is green only over true readings, for any knowns, runs and kills,
\* where stamps are taken over runs that still hold, a known is adopted after
\* what it depends on, what others depend on is not deleted, and a record is
\* saved at most once a second.
THEOREM FreshIsTrueHolds ==
  ASSUME Rules = AllRules
  PROVE  Spec => []FreshIsTrue
<1>1. Init => FreshInv
  <2> SUFFICES ASSUME Init PROVE FreshInv
    OBVIOUS
  <2>1. \A m \in Maps, k \in Ids : ~known[m][k].wired
    BY DEF Init, Absent
  <2> QED BY <2>1 DEF Init, FreshInv, StampsHold, Fits, Idle, AdoptSteps
<1>2. MapInv /\ FreshInv /\ [Next]_mvars => FreshInv'
  BY NextFresh
<1>3. MapInv /\ FreshInv => FreshIsTrue
  <2> SUFFICES ASSUME MapInv, FreshInv, NEW here \in Maps, NEW m \in Maps, NEW k \in Ids,
                      Gate(here, m), known[m][k].in, known[m][k].wired
               PROVE  Reads(m, k) = Truth(m, k)
    BY DEF FreshIsTrue
  <2>1. ~Stale(m, k) /\ Cardinality(Reads(m, k)) = 1
    BY DEF Gate, Clean
  <2>2. Fits(m, k, known[m][k]) /\ Seen(m, k) = known[m][k]
    BY DEF FreshInv, StampsHold, Seen, Owner
  <2>3. \A r \in known[m][k].runs : run[r].val = Truth(m, k)
    BY <2>1, <2>2 DEF Stale, Direct, MovedSince, Fits, Truth
  <2>4. Reads(m, k) # {}
    BY <2>1, OnlyOne
  <2> DEFINE C == Counts(disk, m, known[m][k].runs)
  <2>5. C \subseteq known[m][k].runs /\ Reads(m, k) = UNION {run[r].val : r \in C}
    BY DEF Counts, Reads, ReadsOf
  <2> HIDE DEF C
  <2>6. C # {}
    BY <2>4, <2>5
  <2>7. {run[r].val : r \in C} = {Truth(m, k)}
    BY <2>3, <2>5, <2>6
  <2>8. UNION {Truth(m, k)} = Truth(m, k)
    OBVIOUS
  <2> QED BY <2>5, <2>7, <2>8
<1> QED BY <1>1, <1>2, <1>3, MapInvHolds, PTL DEF Spec
=============================================================================
