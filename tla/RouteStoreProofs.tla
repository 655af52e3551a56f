-------------------------- MODULE RouteStoreProofs --------------------------
(***************************************************************************)
(* Theorems about RouteStore, for every set of processes.                   *)
(***************************************************************************)
EXTENDS RouteStore, TLAPS

----------------------------------------------------------------------------
\* What a process has beside the route follows from where it is.
TempFollowsPc ==
  /\ ~torn
  /\ \A p \in Procs : pc[p] = "staged" => temp[p] = "whole"
  /\ TempsCleared

LEMMA TempFollowsPcHolds == Spec => [](TypeOK /\ TempFollowsPc)
<1>1. Init => TypeOK /\ TempFollowsPc
  BY DEF Init, TypeOK, TempFollowsPc, TempsCleared
<1>2. TypeOK /\ TempFollowsPc /\ [Next]_svars => (TypeOK /\ TempFollowsPc)'
  <2> SUFFICES ASSUME TypeOK, TempFollowsPc, [Next]_svars
               PROVE (TypeOK /\ TempFollowsPc)'
    OBVIOUS
  <2> USE DEF TypeOK, TempFollowsPc, TempsCleared, Goto
  <2>1. ASSUME NEW p \in Procs, Load(p) \/ Report(p) \/ Retry(p) \/ Kill(p)
        PROVE (TypeOK /\ TempFollowsPc)'
    BY <2>1 DEF Load, Report, Retry, Kill
  <2>2. ASSUME NEW p \in Procs, Check(p)
        PROVE (TypeOK /\ TempFollowsPc)'
    <3>1. raced' \subseteq Procs
      BY <2>2 DEF Check, Overtaken
    <3> QED
      BY <2>2, <3>1 DEF Check
  <2>3. ASSUME NEW p \in Procs, Stage(p) \/ Flush(p)
        PROVE (TypeOK /\ TempFollowsPc)'
    BY <2>3 DEF Stage, Flush
  <2>4. ASSUME NEW p \in Procs, Replace(p)
        PROVE (TypeOK /\ TempFollowsPc)'
    BY <2>4 DEF Replace
  <2>5. ASSUME NEW p \in Procs, Fail(p)
        PROVE (TypeOK /\ TempFollowsPc)'
    BY <2>5 DEF Fail
  <2>6. CASE UNCHANGED svars
    BY <2>6 DEF svars
  <2> QED
    BY <2>1, <2>2, <2>3, <2>4, <2>5, <2>6 DEF Next, Work
<1> QED
  BY <1>1, <1>2, PTL DEF Spec

\* Readers see only whole files, whatever is killed or fails and however the
\* saves overlap: the rename publishes a file that was flushed and closed.
THEOREM WholeFileHolds == Spec => []WholeFile
  BY TempFollowsPcHolds, PTL DEF TempFollowsPc, WholeFile

\* Only a killed save leaves its temporary file behind.
THEOREM TempsClearedHolds == Spec => []TempsCleared
  BY TempFollowsPcHolds, PTL DEF TempFollowsPc

----------------------------------------------------------------------------
\* A save that met no other one knows the file as it is.  Once it has renamed,
\* its edit is in the file and in everything that is about to replace it.
RaceInv ==
  /\ \A p, q \in Procs : Saving(p) /\ Saving(q) /\ p # q => p \in raced
  /\ \A p \in Procs : Saving(p) /\ p \notin raced => base[p] = file
  /\ \A p \in Procs : pc[p] \in {"replaced", "saved"} /\ p \notin raced =>
       p \in file /\ \A q \in Procs : Saving(q) => p \in base[q]

\* An acknowledged edit is lost only in a race between check and rename, for
\* any number of commands and any kills, failures and retries.  RaceInv is
\* inductive where the property alone is not: it says what the saves under way
\* are going to write.
THEOREM LostOnlyInRaceHolds == Spec => []LostOnlyInRace
<1>1. Init => RaceInv
  BY DEF Init, RaceInv, Saving
<1>2. TypeOK /\ RaceInv /\ [Next]_svars => RaceInv'
  <2> SUFFICES ASSUME TypeOK, RaceInv, [Next]_svars PROVE RaceInv'
    OBVIOUS
  <2> USE DEF TypeOK, RaceInv, Saving, Goto
  <2>1. ASSUME NEW p \in Procs, Load(p) PROVE RaceInv'
    BY <2>1 DEF Load
  <2>2. ASSUME NEW p \in Procs, Check(p) PROVE RaceInv'
    <3>1. CASE ~UnchangedSince(p)
      BY <2>2, <3>1 DEF Check
    <3>2. CASE UnchangedSince(p)
      <4>1. /\ base[p] = file /\ file' = file /\ base' = base
            /\ pc' = [pc EXCEPT ![p] = "checked"] /\ pc[p] = "loaded"
        BY <2>2, <3>2 DEF Check, UnchangedSince
      <4>2. /\ raced \subseteq raced'
            /\ \A q \in Procs : Saving(q) => q \in raced' /\ p \in raced'
        BY <2>2, <3>2 DEF Check, Overtaken
      <4> QED BY <4>1, <4>2
    <3> QED BY <3>1, <3>2
  <2>3. ASSUME NEW p \in Procs, Stage(p) \/ Flush(p) PROVE RaceInv'
    BY <2>3 DEF Stage, Flush
  <2>4. ASSUME NEW p \in Procs, Replace(p) PROVE RaceInv'
    BY <2>4 DEF Replace
  <2>5. ASSUME NEW p \in Procs, Report(p) \/ Retry(p) PROVE RaceInv'
    BY <2>5 DEF Report, Retry
  <2>6. ASSUME NEW p \in Procs, Fail(p) \/ Kill(p) PROVE RaceInv'
    BY <2>6 DEF Fail, Kill
  <2>7. CASE UNCHANGED svars
    BY <2>7 DEF svars
  <2> QED
    BY <2>1, <2>2, <2>3, <2>4, <2>5, <2>6, <2>7 DEF Next, Work
<1>3. RaceInv => LostOnlyInRace
  BY DEF RaceInv, LostOnlyInRace
<1> QED
  BY <1>1, <1>2, <1>3, TempFollowsPcHolds, PTL DEF Spec

----------------------------------------------------------------------------
\* Every edit that anyone has read was renamed into place first, and a route
\* that is not the one a waiting command loaded holds an edit it did not load:
\* the command that replaced the file last had not done so before the load.
ReadFromFile ==
  /\ \A q \in file : pc[q] \in {"replaced", "saved", "killed"}
  /\ \A p \in Procs : \A q \in base[p] : pc[q] \in {"replaced", "saved", "killed"}
  /\ \A p \in Procs : pc[p] = "loaded" => file = base[p] \/ file \ base[p] # {}
  /\ RefusedForAnother

\* A command is refused only for an edit it has not seen, however the saves
\* overlap: an edit lost to another save never passes for a change, since the
\* save that took it away put its own in.
THEOREM RefusedForAnotherHolds == Spec => []RefusedForAnother
<1>1. Init => ReadFromFile
  BY DEF Init, ReadFromFile, RefusedForAnother
<1>2. TypeOK /\ ReadFromFile /\ [Next]_svars => ReadFromFile'
  <2> SUFFICES ASSUME TypeOK, ReadFromFile, [Next]_svars PROVE ReadFromFile'
    OBVIOUS
  <2> USE DEF TypeOK, ReadFromFile, RefusedForAnother, Goto
  <2>1. ASSUME NEW p \in Procs, Load(p) PROVE ReadFromFile'
    BY <2>1 DEF Load
  <2>2. ASSUME NEW p \in Procs, Check(p) PROVE ReadFromFile'
    BY <2>2 DEF Check, UnchangedSince
  <2>3. ASSUME NEW p \in Procs, Stage(p) \/ Flush(p) \/ Fail(p)
        PROVE ReadFromFile'
    BY <2>3 DEF Stage, Flush, Fail
  <2>4. ASSUME NEW p \in Procs, Replace(p) PROVE ReadFromFile'
    <3>1. /\ p \in file' /\ file' = base[p] \cup {p} /\ base' = base
          /\ pc' = [pc EXCEPT ![p] = "replaced"] /\ pc[p] = "staged"
      BY <2>4 DEF Replace
    <3>2. \A q \in Procs : p \notin base[q]
      BY <3>1
    <3>3. \A q \in Procs : file' \ base'[q] # {}
      BY <3>1, <3>2
    <3> QED BY <3>1, <3>3
  <2>5. ASSUME NEW p \in Procs, Report(p) \/ Retry(p) \/ Kill(p)
        PROVE ReadFromFile'
    BY <2>5 DEF Report, Retry, Kill
  <2>6. CASE UNCHANGED svars
    BY <2>6 DEF svars
  <2> QED
    BY <2>1, <2>2, <2>3, <2>4, <2>5, <2>6 DEF Next, Work
<1>3. ReadFromFile => RefusedForAnother
  BY DEF ReadFromFile
<1> QED
  BY <1>1, <1>2, <1>3, TempFollowsPcHolds, PTL DEF Spec
=============================================================================
