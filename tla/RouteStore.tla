----------------------------- MODULE RouteStore -----------------------------
(***************************************************************************)
(* How terra stores the route: load_route and save_route                    *)
(* (engine/terra/src/terra/route.py) as the steps other processes can come  *)
(* between.  Each process is one command that edits the route once; the     *)
(* route is the set of edits it holds.                                      *)
(*                                                                         *)
(* save_route hashes the file again, compares it with the hash taken at     *)
(* load, writes a temporary file and renames it over the route.             *)
(***************************************************************************)
EXTENDS FiniteSets

CONSTANT Procs

VARIABLES file,    \* the edits in the file
          torn,    \* the file is truncated or half written
          pc, base,
          temp,    \* each process's temporary file: none, partial, whole
          raced    \* history: saves whose way from check to rename met another's

svars == <<file, torn, pc, base, temp, raced>>

TypeOK ==
  /\ file \subseteq Procs
  /\ torn \in BOOLEAN
  /\ pc \in [Procs -> {"start", "loaded", "checked", "writing", "staged",
                       "replaced", "saved", "refused", "failed", "killed"}]
  /\ base \in [Procs -> SUBSET Procs]
  /\ temp \in [Procs -> {"none", "partial", "whole"}]
  /\ raced \subseteq Procs

Init ==
  /\ file = {} /\ torn = FALSE
  /\ pc = [p \in Procs |-> "start"] /\ base = [p \in Procs |-> {}]
  /\ temp = [p \in Procs |-> "none"] /\ raced = {}

Goto(p, l) == pc' = [pc EXCEPT ![p] = l]

\* A save is past its check and has not yet replaced the file.
Saving(p) == pc[p] \in {"checked", "writing", "staged"}
Overtaken == {q \in Procs : Saving(q)}

----------------------------------------------------------------------------
\* load_route: reads the file and keeps its hash.  A torn file does not parse.
LoadOnce(p) ==
  /\ pc[p] = "start" /\ ~torn
  /\ base' = [base EXCEPT ![p] = IF @ = {} THEN file ELSE @]
  /\ Goto(p, "loaded")
  /\ UNCHANGED <<file, torn, temp, raced>>
Load(p) ==
  /\ pc[p] = "start" /\ ~torn
  /\ base' = [base EXCEPT ![p] = file]
  /\ Goto(p, "loaded")
  /\ UNCHANGED <<file, torn, temp, raced>>

\* save_route: the file must still hash to what was loaded.
UnchangedSinceAlways(p) == TRUE
UnchangedSinceAlone(p) == file = base[p] /\ \A q \in Procs : temp[q] = "none"
UnchangedSince(p) == file = base[p]

Check(p) ==
  /\ pc[p] = "loaded"
  /\ Goto(p, IF UnchangedSince(p) THEN "checked" ELSE "refused")
  /\ raced' = IF UnchangedSince(p) /\ Overtaken # {}
              THEN raced \cup {p} \cup Overtaken ELSE raced
  /\ UNCHANGED <<file, torn, base, temp>>

\* mkstemp, beside the route
Stage(p) ==
  /\ pc[p] = "checked"
  /\ temp' = [temp EXCEPT ![p] = "partial"]
  /\ Goto(p, "writing")
  /\ UNCHANGED <<file, torn, base, raced>>

\* write, flush, fsync, close
Flush(p) ==
  /\ pc[p] = "writing"
  /\ temp' = [temp EXCEPT ![p] = "whole"]
  /\ Goto(p, "staged")
  /\ UNCHANGED <<file, torn, base, raced>>

\* os.replace: the route becomes what was loaded, with this edit.
ReplaceEarly(p) ==
  /\ pc[p] \in {"writing", "staged"}
  /\ file' = base[p] \cup {p} /\ torn' = (temp[p] = "partial")
  /\ temp' = [temp EXCEPT ![p] = "none"]
  /\ Goto(p, "replaced")
  /\ UNCHANGED <<base, raced>>
Replace(p) ==
  /\ pc[p] = "staged"
  /\ file' = base[p] \cup {p} /\ torn' = (temp[p] = "partial")
  /\ temp' = [temp EXCEPT ![p] = "none"]
  /\ Goto(p, "replaced")
  /\ UNCHANGED <<base, raced>>

\* The command loads the route again and prints the task: it is acknowledged,
\* even if another save took the edit away meanwhile (a task that was just
\* added would be missed here, an edited one is printed as it is).
Report(p) ==
  /\ pc[p] = "replaced" /\ ~torn
  /\ Goto(p, "saved")
  /\ UNCHANGED <<file, torn, base, temp, raced>>

\* A refused command is brought again from its load.
Retry(p) ==
  /\ pc[p] = "refused"
  /\ Goto(p, "start")
  /\ UNCHANGED <<file, torn, base, temp, raced>>

\* Writing or renaming raises: the temporary file is unlinked.
FailKeeping(p) ==
  /\ pc[p] \in {"writing", "staged"}
  /\ Goto(p, "failed")
  /\ UNCHANGED <<file, torn, base, temp, raced>>
Fail(p) ==
  /\ pc[p] \in {"writing", "staged"}
  /\ temp' = [temp EXCEPT ![p] = "none"]
  /\ Goto(p, "failed")
  /\ UNCHANGED <<file, torn, base, raced>>

\* The process is killed; a temporary file stays behind.
Kill(p) ==
  /\ pc[p] \in {"start", "loaded", "checked", "writing", "staged", "replaced"}
  /\ Goto(p, "killed")
  /\ UNCHANGED <<file, torn, base, temp, raced>>

Work(p) == \/ Load(p) \/ Check(p) \/ Stage(p) \/ Flush(p) \/ Replace(p)
           \/ Report(p) \/ Retry(p)

Next == \E p \in Procs : Work(p) \/ Fail(p) \/ Kill(p)

\* A command that was started runs on, and a refused one is brought again.
Fairness == \A p \in Procs : WF_svars(Work(p))

Spec == Init /\ [][Next]_svars
FairSpec == Spec /\ Fairness

----------------------------------------------------------------------------
\* "Readers see only whole files", whatever is killed or fails
\* (route.py:497).
WholeFile == ~torn

\* A temporary file outlives its command only if that was killed.
TempsCleared ==
  \A p \in Procs : temp[p] # "none" => pc[p] \in {"writing", "staged", "killed"}

\* An acknowledged edit is gone only if its save was between check and rename
\* together with another: a save that begins after it, or was refused and
\* brought again, carries it on, whatever else fails or is killed
\* (route.py:480-506).
LostOnlyInRace ==
  \A p \in Procs : pc[p] = "saved" /\ p \notin file => p \in raced

\* What the comment promises: no acknowledged edit is ever silently gone, "turn
\* that SILENT lost update into a loud refusal" (route.py:418-419).
NoLostUpdate == \A p \in Procs : pc[p] = "saved" => p \in file

\* A command is refused only because another one's edit landed.
RefusedForAnother ==
  \A p \in Procs : pc[p] = "refused" => file \ base[p] # {}

\* Every command ends: refusals do not starve a caller that tries again.
AllEnd == \A p \in Procs : <>(pc[p] \in {"saved", "failed", "killed"})
=============================================================================
