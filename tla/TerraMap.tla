------------------------------ MODULE TerraMap ------------------------------
(***************************************************************************)
(* The map of a project (engine/terra/src/terra: knowns.py, probe_run.py,   *)
(* run_inputs.py, staleness.py, gate.py): a task's session map and its      *)
(* parent, the brief's.  A known is what live runs of a probe read, either  *)
(* from a project file or from another known; it may depend on that source  *)
(* (then it goes stale when the source moves), and it is adopted from the   *)
(* task's map to the brief's.  The gate is green when nothing is owed.      *)
(*                                                                         *)
(* A run stands for as many equal runs as the ladder takes to reach `med`,  *)
(* so a known may claim it while one of its runs counts (land promotes      *)
(* before it adopts).  A number over runs that disagree is a set of values. *)
(* Dates are only compared, a source's updated_at with the as_of of a stamp *)
(* taken from it: a stamp keeps the maps whose record of the source was     *)
(* saved since, with another date: dates are whole seconds, and a save in   *)
(* the second of the last one leaves the date as it was.  One command runs  *)
(* at a time; a kill may end it between two of its writes.                  *)
(***************************************************************************)
EXTENDS Naturals, FiniteSets

CONSTANTS Ids, File,
          On,          \* what a known's probe reads and its dependency names
          Runs, Values,
          Of,          \* the probe a run is of
          None,        \* no snapshot; no stamp
          Hands,       \* the maps verbs are used on, beside adoption
          Rules,       \* what callers keep, a subset of AllRules
          MaxEdits, MaxAdopts,
          MaxUpsets    \* bound on kills and on what is done by hand, together

AllRules == {"honest",     \* stamps are taken while every run still holds
             "in_order",   \* a known is adopted after what it depends on
             "kept",       \* what others depend on is not deleted
             "apart"}      \* a record is saved once a second at most

ASSUME MapAssumption ==
  /\ On \in [Ids -> Ids \cup {File}] /\ File \notin Ids
  /\ \A k \in Ids : On[k] # File => On[On[k]] = File
  /\ Of \in [Runs -> Ids] /\ Hands \subseteq {"task", "brief"}
  /\ None \notin Values /\ Rules \subseteq AllRules
  /\ MaxEdits \in Nat /\ MaxAdopts \in Nat /\ MaxUpsets \in Nat

Maps == {"task", "brief"}

VARIABLES content,  \* what the file reads now
          run,      \* run -> None or its value and the input it declared
          disk,     \* map -> run -> its directory there
          known,    \* map -> id -> the record
          unknown,  \* map -> id -> open or resolved
          cmd,      \* the command under way, or Idle
          byHand,   \* what the user did by hand to an unknown or its known,
                    \* since a known last resolved it (a history variable)
          used      \* edits, adoptions and upsets so far

mvars == <<content, run, disk, known, unknown, cmd, byHand, used>>

Idle == [at |-> "idle"]
Absent == [in |-> FALSE, runs |-> {}, reads |-> {}, wired |-> FALSE,
           sum |-> None, moved |-> {}]

Known == [in : BOOLEAN, runs : SUBSET Runs, reads : SUBSET Values,
          wired : BOOLEAN,               \* it declares its dependency:
          sum : Values \cup {None},      \* stamped with the file's sum, or
          moved : SUBSET Maps]           \* where the source was saved since
Snapshot == [map : Maps, val : SUBSET Values]
RunRecord == [val : SUBSET Values, from : Snapshot \cup {None}]
ASSUME NoneAssumption == None \notin RunRecord
Adoption == [at : {"void", "copy", "save", "resolve", "stamp"},
             id : Ids, live : SUBSET Runs]

MapTypeOK ==
  /\ content \in Values
  /\ run \in [Runs -> RunRecord \cup {None}]
  /\ disk \in [Maps -> [Runs -> {"none", "partial", "live", "void"}]]
  /\ known \in [Maps -> [Ids -> Known]]
  /\ unknown \in [Maps -> [Ids -> {"open", "resolved"}]]
  /\ \/ cmd = Idle
     \/ cmd \in [at : {"graduate"}, map : Maps, id : Ids]
     \/ cmd \in Adoption
     \/ cmd \in [at : {"unlink"}, map : Maps, run : Runs, back : Adoption \cup {Idle}]
  /\ byHand \in SUBSET (Maps \X Ids)
  /\ used \in [edits : 0..MaxEdits, adopts : 0..MaxAdopts, upsets : 0..MaxUpsets]

Init ==
  /\ content \in Values
  /\ run = [r \in Runs |-> None]
  /\ disk = [m \in Maps |-> [r \in Runs |-> "none"]]
  /\ known = [m \in Maps |-> [k \in Ids |-> Absent]]
  /\ unknown = [m \in Maps |-> [k \in Ids |-> "open"]]
  /\ cmd = Idle
  /\ byHand = {}
  /\ used = [edits |-> 0, adopts |-> 0, upsets |-> 0]

----------------------------------------------------------------------------
\* The parent chain of the task's map, child first (map_chain): its own
\* record shadows the brief's.
Owner(m, k) == IF known[m][k].in THEN m ELSE "brief"
Seen(m, k) == known[Owner(m, k)][k]

\* compute_staleness: what moved since the stamp, then what rests on it.
MovedSince(m, k) == Owner(m, On[k]) \in Seen(m, k).moved
Direct(m, k) ==
  /\ Seen(m, k).wired
  /\ IF On[k] = File THEN Seen(m, k).sum # content
     ELSE ~Seen(m, On[k]).in \/ MovedSince(m, k)
Stale(m, k) == \/ Direct(m, k)
               \/ Seen(m, k).wired /\ On[k] # File /\ Direct(m, On[k])

\* read_known: a reading fit to be used, judged on the map that owns it, as
\* its record was saved.  What is read from here has no declared input.
Readable(m, k) ==
  LET o == Owner(m, k)
  IN  /\ known[o][k].in
      /\ known[o][k].runs # {} /\ known[o][k].reads # {}
      /\ ~Stale(o, k)

\* resolve_map_bindings: what a probe that declares its input reads and notes.
Reading(m, k) == [map |-> Owner(m, k), val |-> Seen(m, k).reads]

\* What the probe of k would read now.
Truth(m, k) == IF On[k] = File THEN {content} ELSE Seen(m, On[k]).reads

\* run_input_state: the declared input is gone or no longer as noted.
Moved(m, r) ==
  /\ run[r].from # None
  /\ ~( /\ Readable(m, On[Of[r]])
        /\ run[r].from = Reading(m, On[Of[r]]) )

\* recompute_typed_node: the runs that count, on the directories d.
Counts(d, m, R) == {r \in R : d[m][r] = "live" /\ ~Moved(m, r)}
ReadsOf(d, m, rec) == UNION {run[r].val : r \in Counts(d, m, rec.runs)}
Reads(m, k) == ReadsOf(disk, m, known[m][k])

\* find_run_dir, and record_input_state, which the gate asks on the map the
\* command runs on, not on the map it scans.
Found(here, r) == IF disk[here][r] # "none" THEN disk[here][r] ELSE disk["brief"][r]
EvidenceMoved(here, m, k) ==
  \E r \in known[m][k].runs : Found(here, r) = "live" /\ Moved(here, r)

\* _collect_map_violations
Clean(here, m, k) ==
  /\ known[m][k].runs # {} /\ Cardinality(Reads(m, k)) = 1
  /\ ~Stale(m, k) /\ ~EvidenceMoved(here, m, k)
Gate(here, m) ==
  /\ \A k \in Ids : unknown[m][k] # "open"
  /\ \A k \in Ids : known[m][k].in => Clean(here, m, k)

----------------------------------------------------------------------------
\* save_known: the reading is taken anew, on the directories d, and the
\* record dated: what depends on it has seen it move, if the date did.
Dated(m, K, j, rec) ==
  IF rec.wired /\ On[j] \in K THEN [rec EXCEPT !.moved = @ \cup {m}] ELSE rec

Save(d, m, K, rec) == \E later \in SUBSET K :
  /\ "apart" \in Rules => later = K
  /\ known' = [n \in Maps |-> [j \in Ids |->
       Dated(m, later, j, IF n = m /\ j \in K
                          THEN [rec[j] EXCEPT !.reads = ReadsOf(d, m, rec[j])]
                          ELSE known[n][j])]]

\* stamp_deps, for a record that has dependencies.
StampedWithReading(m, k, rec) ==
  IF ~rec.wired THEN rec ELSE [rec EXCEPT !.sum = Truth(m, k), !.moved = {}]
Stamped(m, k, rec) ==
  IF ~rec.wired THEN rec
  ELSE [rec EXCEPT !.sum = IF On[k] = File THEN content ELSE None, !.moved = {}]

Holds(m, k, R) == "honest" \in Rules =>
                    \A r \in R : run[r].val = Truth(m, k)
Ready == cmd = Idle

----------------------------------------------------------------------------
\* The artifact is edited, between commands.
Edit(v) == /\ Ready /\ v # content /\ content' = v
           /\ used.edits < MaxEdits /\ used' = [used EXCEPT !.edits = @ + 1]
           /\ UNCHANGED <<run, disk, known, unknown, cmd, byHand>>

\* run_probe: refused when its declared input cannot be read.
ProbeRun(m, r, declares) ==
  LET k == Of[r]
  IN  /\ Ready /\ run[r] = None
      /\ declares => On[k] # File
      /\ On[k] # File => Readable(m, On[k])
      /\ run' = [run EXCEPT ![r] =
           [val |-> Truth(m, k), from |-> IF declares THEN Reading(m, On[k]) ELSE None]]
  /\ disk' = [disk EXCEPT ![m][r] = "live"]
  /\ UNCHANGED <<content, known, unknown, cmd, byHand, used>>

\* graduate_unknown with the live runs R: the known is created, ...
Graduate(m, k, R) ==
  /\ Ready /\ unknown[m][k] = "open" /\ ~known[m][k].in
  /\ R # {} /\ \A r \in R : disk[m][r] = "live" /\ Of[r] = k
  /\ Save(disk, m, {k}, [j \in {k} |-> [Absent EXCEPT !.in = TRUE, !.runs = R]])
  /\ cmd' = [at |-> "graduate", map |-> m, id |-> k]
  /\ UNCHANGED <<content, run, disk, unknown, byHand, used>>

\* ... and then the unknown resolved.
Resolve ==
  /\ cmd.at = "graduate"
  /\ unknown' = [unknown EXCEPT ![cmd.map][cmd.id] = "resolved"]
  /\ byHand' = byHand \ {<<cmd.map, cmd.id>>}
  /\ cmd' = Idle
  /\ UNCHANGED <<content, run, disk, known, used>>

\* The verbs that rewrite one record.
Rewrite(m, k, rec) ==
  /\ Ready /\ known[m][k].in
  /\ Save(disk, m, {k}, [j \in {k} |-> rec])
  /\ UNCHANGED <<content, run, disk, unknown, cmd, byHand, used>>

\* link_run_known: fresh evidence, fresh stamps.
Link(m, k, r) ==
  /\ disk[m][r] = "live" /\ Of[r] = k
  /\ r \notin known[m][k].runs
  /\ Holds(m, k, known[m][k].runs \cup {r})
  /\ Rewrite(m, k, Stamped(m, k, [known[m][k] EXCEPT !.runs = @ \cup {r}]))

\* unlink_run_known
UnlinkStamps(m, k, r) ==
  /\ r \in known[m][k].runs
  /\ Rewrite(m, k, Stamped(m, k, [known[m][k] EXCEPT !.runs = @ \ {r}]))
Unlink(m, k, r) ==
  /\ r \in known[m][k].runs
  /\ Rewrite(m, k, [known[m][k] EXCEPT !.runs = @ \ {r}])

\* add_dependency and reaffirm_known: declare, or stand by it, and stamp.
Depend(m, k) ==
  /\ On[k] # File => Seen(m, On[k]).in
  /\ Holds(m, k, known[m][k].runs)
  /\ Rewrite(m, k, Stamped(m, k, [known[m][k] EXCEPT !.wired = TRUE]))

\* set_tolerance, accept_spread, promote: saved, its reading taken anew.
Touch(m, k) == Rewrite(m, k, known[m][k])

\* What is done by hand to a known or to its unknown.
OfHand(m, k) ==
  /\ Ready /\ used.upsets < MaxUpsets /\ used' = [used EXCEPT !.upsets = @ + 1]
  /\ byHand' = byHand \cup {<<m, k>>}
  /\ UNCHANGED <<content, run, disk, cmd>>

\* delete_known: its unknown and its runs are left.  What was stamped from it
\* is compared from now on with the record behind it, which may be the later.
Delete(m, k) ==
  /\ known[m][k].in /\ OfHand(m, k)
  /\ "kept" \in Rules => \A n \in Maps, j \in Ids : On[j] = k => ~known[n][j].wired
  /\ \E later \in SUBSET {k} :
       known' = [known EXCEPT ![m] = [j \in Ids |->
         IF j = k THEN Absent ELSE Dated("brief", later, j, @[j])]]
  /\ UNCHANGED unknown

\* set_status: resolved in prose, or opened again.
SetStatus(m, k) ==
  /\ OfHand(m, k)
  /\ \E s \in {"open", "resolved"} : unknown' = [unknown EXCEPT ![m][k] = s]
  /\ UNCHANGED known

\* void_run: marked, and then unlinked from every known of this map.
Marking(m, r, back) ==
  /\ disk' = [disk EXCEPT ![m][r] = "void"]
  /\ cmd' = [at |-> "unlink", map |-> m, run |-> r, back |-> back]
Void(m, r) ==
  /\ Ready /\ disk[m][r] = "live"
  /\ Marking(m, r, Idle)
  /\ UNCHANGED <<content, run, known, unknown, byHand, used>>

Unlinked ==
  /\ cmd.at = "unlink"
  /\ LET on == {k \in Ids : cmd.run \in known[cmd.map][k].runs}
     IN  Save(disk, cmd.map, on,
              [k \in on |-> [known[cmd.map][k] EXCEPT !.runs = @ \ {cmd.run}]])
  /\ cmd' = cmd.back
  /\ UNCHANGED <<content, run, disk, unknown, byHand, used>>

\* unvoid_run: links nothing again.
Unvoid(m, r) ==
  /\ Ready /\ disk[m][r] = "void"
  /\ disk' = [disk EXCEPT ![m][r] = "live"]
  /\ UNCHANGED <<content, run, known, unknown, cmd, byHand, used>>

----------------------------------------------------------------------------
\* adopt_known, from the task's map to the brief's: _adoption_problems, the
\* dependency there, and a copy there only with --update.
Adoptable(k) == known["task"][k].reads # {} /\ ~Stale("task", k)
InOrder(k) == "in_order" \in Rules /\ On[k] # File =>
                known["brief"][On[k]].reads = Truth("task", k)
Adopt(k, update) ==
  /\ Ready /\ known["task"][k].in /\ known["task"][k].runs # {}
  /\ Adoptable(k) /\ InOrder(k)
  /\ known["task"][k].wired /\ On[k] # File => known["brief"][On[k]].in
  /\ known["brief"][k].in => update
  /\ used.adopts < MaxAdopts /\ used' = [used EXCEPT !.adopts = @ + 1]
  /\ cmd' = [at |-> "void", id |-> k,
             live |-> {r \in known["task"][k].runs : disk["task"][r] = "live"}]
  /\ UNCHANGED <<content, run, disk, known, unknown, byHand>>

Step(l) == cmd' = [cmd EXCEPT !.at = l]

\* The runs of the parent's copy that the child no longer stands on, one by
\* one; those with no directory there are passed over.
Abandoned == {r \in known["brief"][cmd.id].runs \ cmd.live :
                disk["brief"][r] \notin {"none", "partial"}}
AdoptVoid ==
  /\ cmd.at = "void"
  /\ \/ \E r \in Abandoned : Marking("brief", r, cmd)
     \/ Abandoned = {} /\ Step("copy") /\ UNCHANGED disk
  /\ UNCHANGED <<content, run, known, unknown, byHand, used>>

\* copytree, for the directories that are not there yet.
AdoptCopyOfNew ==
  /\ cmd.at = "copy"
  /\ disk' = [disk EXCEPT !["brief"] = [r \in Runs |->
                IF r \in cmd.live /\ @[r] = "none" /\ ~known["brief"][cmd.id].in
                THEN "live" ELSE @[r]]]
  /\ Step("save")
  /\ UNCHANGED <<content, run, known, unknown, byHand, used>>
AdoptCopyThenResolve ==
  /\ cmd.at = "copy"
  /\ disk' = [disk EXCEPT !["brief"] = [r \in Runs |->
                IF r \in cmd.live /\ @[r] = "none" THEN "live" ELSE @[r]]]
  /\ Step("resolve")
  /\ UNCHANGED <<content, run, known, unknown, byHand, used>>
AdoptCopy ==
  /\ cmd.at = "copy"
  /\ disk' = [disk EXCEPT !["brief"] = [r \in Runs |->
                IF r \in cmd.live /\ @[r] = "none" THEN "live" ELSE @[r]]]
  /\ Step("save")
  /\ UNCHANGED <<content, run, known, unknown, byHand, used>>

AdoptSave ==
  /\ cmd.at = "save"
  /\ Save(disk, "brief", {cmd.id}, [k \in {cmd.id} |->
          Stamped("brief", k, [known["task"][k] EXCEPT !.runs = cmd.live])])
  /\ Step("resolve")
  /\ UNCHANGED <<content, run, disk, unknown, byHand, used>>

AdoptResolve ==
  /\ cmd.at = "resolve"
  /\ unknown' = [unknown EXCEPT !["brief"][cmd.id] = "resolved"]
  /\ byHand' = byHand \ {<<"brief", cmd.id>>}
  /\ Step("stamp")
  /\ UNCHANGED <<content, run, disk, known, used>>

\* adopted_to on the child's record, which dates it again.
AdoptStamp ==
  /\ cmd.at = "stamp"
  /\ Save(disk, "task", {cmd.id}, [k \in {cmd.id} |-> known["task"][k]])
  /\ cmd' = Idle
  /\ UNCHANGED <<content, run, disk, unknown, byHand, used>>

\* A kill between two writes, or in the middle of copying the runs: some are
\* there, and one of them by half.
Missing == {r \in cmd.live : disk["brief"][r] = "none"}
Kill ==
  /\ cmd # Idle /\ cmd' = Idle
  /\ used.upsets < MaxUpsets /\ used' = [used EXCEPT !.upsets = @ + 1]
  /\ \/ UNCHANGED disk
     \/ /\ cmd.at = "copy"
        /\ \E copied \in SUBSET Missing, half \in {{}} \cup {{r} : r \in Missing} :
             disk' = [disk EXCEPT !["brief"] = [r \in Runs |->
                        IF r \in half THEN "partial" ELSE IF r \in copied THEN "live" ELSE @[r]]]
  /\ UNCHANGED <<content, run, known, unknown, byHand>>

OnRecord(m, k) ==
  \/ \E r \in Runs : Link(m, k, r) \/ Unlink(m, k, r)
  \/ \E R \in SUBSET Runs : Graduate(m, k, R)
  \/ Depend(m, k) \/ Touch(m, k) \/ Delete(m, k) \/ SetStatus(m, k)
OnRun(m, r) ==
  \/ \E declares \in BOOLEAN : ProbeRun(m, r, declares)
  \/ Void(m, r) \/ Unvoid(m, r)
Adopting == AdoptVoid \/ AdoptCopy \/ AdoptSave \/ AdoptResolve \/ AdoptStamp

Next ==
  \/ \E v \in Values : Edit(v)
  \/ \E m \in Hands : (\E k \in Ids : OnRecord(m, k)) \/ (\E r \in Runs : OnRun(m, r))
  \/ \E k \in Ids, update \in BOOLEAN : Adopt(k, update)
  \/ Resolve \/ Unlinked \/ Adopting \/ Kill

Spec == Init /\ [][Next]_mvars

----------------------------------------------------------------------------
\* The gate is green only over true readings: a known that says what it
\* depends on reads what its probe would read now.
FreshIsTrue ==
  \A here, m \in Maps : Gate(here, m) => \A k \in Ids :
    known[m][k].in /\ known[m][k].wired => Reads(m, k) = Truth(m, k)

\* An unknown that a command resolved has its known, wherever a kill fell: only
\* the user's own hand, on the status or the known, leaves it without.
ResolvedHasKnown ==
  \A m \in Maps, k \in Ids :
    unknown[m][k] = "resolved" => known[m][k].in \/ <<m, k>> \in byHand

\* What the brief's map cites was copied there, wherever a kill fell.
EvidenceTravels ==
  \A k \in Ids : \A r \in known["brief"][k].runs : disk["brief"][r] # "none"

\* Adopting bottom-up works: adopting what a known depends on leaves a known
\* that was fit to be adopted fit to be adopted.
BottomUpWorks ==
  [][ \A k \in Ids : AdoptStamp /\ cmd.id = On[k] /\ Adoptable(k) => Adoptable(k)' ]_mvars

\* Upsets apart, the parent's copy is left with the child's evidence.
ParentTakesEvidence ==
  cmd.at = "stamp" /\ used.upsets = 0 =>
    /\ known["brief"][cmd.id].runs = cmd.live
    /\ \A r \in cmd.live : disk["brief"][r] = "live"
=============================================================================
