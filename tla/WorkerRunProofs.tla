-------------------------- MODULE WorkerRunProofs --------------------------
(***************************************************************************)
(* What a work order's run keeps for any estimate, cap, number of rounds,   *)
(* notes, reopenings and faults.                                            *)
(***************************************************************************)
EXTENDS WorkerRun, TLAPS

Reports == {"none", "complete", "blocked", "stopped", "incomplete"}
HostType ==
  [at : Steps, note : 1..3, stage : {"round", "reflect", "library"}, until : Nat,
   status : {"none", "paused", "stopped", "complete"}, overruns : Nat, last : Nat,
   stalled : Nat, green : BOOLEAN, gaveUp : BOOLEAN, library : Nat, stuck : Nat]

WTyped ==
  /\ view \in Views /\ turns \in Nat /\ heard \in [Words -> Nat]
  /\ copy \in Copies /\ wrote \in Copies /\ staged \in BOOLEAN
  /\ file \in [NoteFiles -> {"none", "here", "delivered"}]
  /\ reflected \in BOOLEAN /\ suspended \in BOOLEAN
  /\ host \in HostType /\ report \in Reports
  /\ used \in [notes : Nat, reopens : Nat, faults : Nat]

LEMMA MostIsNat == ASSUME NEW a \in Nat, NEW b \in Nat PROVE Most(a, b) \in Nat
  BY DEF Most

LEMMA NewRunTyped == NewRun \in HostType
<1>1. NoRound \in Nat
  BY RunAssumption DEF RunAssumption, NoRound
<1> QED BY <1>1 DEF NewRun, HostType, Steps

LEMMA ToldTyped == ASSUME WTyped PROVE Told \in HostType
<1>1. turns \div Estimate \in Nat
  BY RunAssumption DEF RunAssumption, WTyped
<1>2. CASE host.note = 3
  BY <1>1, <1>2 DEF Told, WTyped, HostType, Steps
<1>3. CASE host.note # 3
  <2>1. host.note + 1 \in 1..3
    BY <1>3 DEF WTyped, HostType
  <2>2. "tell" \in Steps
    BY DEF Steps
  <2> QED BY <1>3, <2>1, <2>2 DEF Told, WTyped, HostType
<1> QED BY <1>2, <1>3

LEMMA SpeakTyped ==
  ASSUME WTyped, NEW w, Continue(w) \/ Interject(w)
  PROVE  view' \in Views /\ turns' \in Nat /\ heard' \in [Words -> Nat]
<1>1. Hears(w)
  BY DEF Continue, Interject
<1>2. CASE w \in Words
  BY <1>1, <1>2 DEF WTyped, Hears, Views
<1>3. CASE w \notin Words
  BY <1>1, <1>3 DEF WTyped, Hears, Views
<1> QED BY <1>2, <1>3

LEMMA WorkTyped ==
  ASSUME WTyped, Work
  PROVE  view' \in Views /\ turns' \in Nat /\ heard' \in [Words -> Nat] /\ turns <= turns'
  BY DEF WTyped, Work, Views

\* What happens to the project beside the judging.
LEMMA ProjectTyped ==
  ASSUME WTyped, InPlace \/ Stages(TRUE) \/ Stages(FALSE) \/ UNCHANGED Project
  PROVE  wrote' \in Copies /\ staged' \in BOOLEAN
<1> USE RunAssumption DEF RunAssumption
<1>1. ASSUME Changed \/ Stamped PROVE wrote' \in Copies
  <2>1. PICK n \in 0..MaxReadings : wrote' = [wrote EXCEPT !.readings = n]
    BY <1>1 DEF Changed, Stamped, WTyped, Copies
  <2> QED BY <2>1 DEF WTyped, Copies
<1>2. Changed \/ Stamped \/ wrote' = wrote
  BY DEF InPlace, Stages, Project
<1>3. staged' \in {staged, TRUE}
  BY DEF InPlace, Stages, Project
<1> QED BY <1>1, <1>2, <1>3 DEF WTyped

LEMMA HarvestStages == ASSUME Harvest PROVE Stages(TRUE) \/ Stages(FALSE)
<1>1. PICK clash \in BOOLEAN : Stages(clash)
  BY DEF Harvest
<1> QED BY <1>1

LEMMA NextTyped == WTyped /\ [WNext]_wvars => WTyped'
<1> SUFFICES ASSUME WTyped, [WNext]_wvars PROVE WTyped'
  OBVIOUS
<1> USE RunAssumption DEF RunAssumption
<1> USE DEF At, To, Same, session, Project
<1>1. ASSUME Tell PROVE WTyped'
  <2>1. host' \in HostType
    BY <1>1, ToldTyped DEF Tell, WTyped, HostType, Steps
  <2>2. view' \in Views /\ turns' \in Nat /\ heard' \in [Words -> Nat]
    BY <1>1, SpeakTyped DEF Tell, WTyped
  <2> QED BY <1>1, <2>1, <2>2 DEF Tell, WTyped
<1>2. ASSUME FileNote PROVE WTyped'
  <2>1. host' \in HostType
    BY <1>2, ToldTyped DEF FileNote, WTyped, HostType, Steps
  <2> QED BY <1>2, <2>1 DEF FileNote, WTyped, NoteFiles
<1>3. ASSUME Round PROVE WTyped'
  <2>1. Least(Cap, Most(turns + 1, Estimate * (host.overruns + 1))) \in Nat
    <3>1. Estimate * (host.overruns + 1) \in Nat
      BY DEF WTyped, HostType
    <3> QED BY <3>1 DEF WTyped, Least, Most
  <2> QED BY <1>3, <2>1 DEF Round, Burst, WTyped, HostType, Steps
<1>4. ASSUME Turning PROVE WTyped'
  BY <1>4, WorkTyped, ProjectTyped DEF Turning, WTyped
<1>5. ASSUME Outage PROVE WTyped'
  <2>1. turns' \in Nat
    BY <1>5, WorkTyped DEF Outage
  <2>2. Most(host.until, turns' + 1) \in Nat
    <3>1. host.until \in Nat
      BY DEF WTyped, HostType
    <3>2. \A n \in Nat : n + 1 \in Nat
      OBVIOUS
    <3>3. turns' + 1 \in Nat
      BY <2>1, <3>2, Zenon
    <3> QED BY <3>1, <3>3, MostIsNat
  <2>3. host' \in HostType
    <3>1. PICK at \in {"running", "oversized"} :
            host' = [host EXCEPT !.until = Most(host.until, turns' + 1), !.at = at]
      BY <1>5 DEF Outage, AskedAgain
    <3> QED BY <2>2, <3>1 DEF WTyped, HostType, Steps
  <2> QED BY <1>5, <2>3, WorkTyped, ProjectTyped DEF Outage, WTyped
<1>6. ASSUME TakeNudge PROVE WTyped'
  BY <1>6 DEF TakeNudge, WTyped, HostType, Steps, NoteFiles
<1>7. ASSUME SayNudge PROVE WTyped'
  BY <1>7, SpeakTyped DEF SayNudge, WTyped, HostType, Steps
<1>8. ASSUME Return PROVE WTyped'
  BY <1>8 DEF Return, Returns, WTyped, HostType, Steps
<1>9. ASSUME Stop PROVE WTyped'
  <2>1. host' \in HostType
    BY <1>9 DEF Stop, Returns, WTyped, HostType, Steps
  <2> QED BY <1>9, <2>1 DEF Stop, Returns, WTyped
<1>10. ASSUME Judge PROVE WTyped'
  <2>1. Problems \in Nat /\ Stalled \in Nat /\ NoRound \in Nat
    BY DEF Problems, Stalled, NoRound, WTyped, Copies, HostType
  <2> DEFINE Ended == [host EXCEPT !.stalled = Stalled, !.last = Problems,
                              !.green = Problems = 0, !.at = IF Problems = 0 THEN "green" ELSE "red"]
             Paused == [host EXCEPT !.overruns = @ + 1, !.last = NoRound,
                               !.at = IF turns >= Cap THEN "report" ELSE "effort"]
  <2>2. Ended \in HostType
    BY <2>1 DEF WTyped, HostType, Steps
  <2>3. Paused \in HostType
    <3> DEFINE Next(l) == [host EXCEPT !.overruns = @ + 1, !.last = NoRound, !.at = l]
    <3>1. host.overruns + 1 \in Nat
      BY DEF WTyped, HostType
    <3>2. \A n, m \in Nat, l \in {"report", "effort"} :
            [host EXCEPT !.overruns = n, !.last = m, !.at = l] \in HostType
      BY DEF WTyped, HostType, Steps
    <3>3. Next("report") \in HostType /\ Next("effort") \in HostType
      BY <2>1, <3>1, <3>2, Zenon
    <3> QED BY <3>3, Zenon
  <2>4. [host EXCEPT !.at = "report", !.gaveUp = TRUE] \in HostType
    BY DEF WTyped, HostType, Steps
  <2>5. [host EXCEPT !.at = "report"] \in HostType
    BY DEF WTyped, HostType, Steps
  <2>6. host' \in HostType
    <3>1. \/ host' = Ended \/ host' = Paused
          \/ host' = [host EXCEPT !.at = "report", !.gaveUp = TRUE]
          \/ host' = [host EXCEPT !.at = "report"]
      BY <1>10, Zenon DEF Judge
    <3> QED BY <3>1, <2>2, <2>3, <2>4, <2>5
  <2> QED BY <1>10, <2>6 DEF Judge, WTyped
<1>11. ASSUME Effort PROVE WTyped'
  BY <1>11, SpeakTyped DEF Effort, WTyped, HostType, Steps
<1>12. ASSUME Red PROVE WTyped'
  BY <1>12, SpeakTyped DEF Red, WTyped, HostType, Steps
<1>13. ASSUME Green PROVE WTyped'
  BY <1>13 DEF Green, WTyped, HostType, Steps
<1>14. ASSUME Reflect PROVE WTyped'
  <2>1. Most(turns + 1, Cap) \in Nat
    BY DEF WTyped, Most
  <2> QED BY <1>14, <2>1, SpeakTyped DEF Reflect, Burst, WTyped, HostType, Steps
<1>15. ASSUME Harvest PROVE WTyped'
  <2>1. host' \in HostType
    <3>1. PICK owed \in 0..MaxLibrary, stuck \in {host.stuck + 1, 0}, at \in {"library", "report"} :
            host' = [host EXCEPT !.library = owed, !.stuck = stuck, !.at = at]
      BY <1>15 DEF Harvest
    <3>2. owed \in Nat /\ stuck \in Nat
      BY DEF WTyped, HostType
    <3> QED BY <3>1, <3>2 DEF WTyped, HostType, Steps
  <2>2. wrote' \in Copies /\ staged' \in BOOLEAN
    BY <1>15, HarvestStages, ProjectTyped
  <2> QED BY <1>15, <2>1, <2>2 DEF Harvest, WTyped
<1>16. ASSUME Library PROVE WTyped'
  BY <1>16, SpeakTyped DEF Library, Burst, WTyped, HostType, Steps
<1>17. ASSUME Report PROVE WTyped'
  BY <1>17 DEF Report, WTyped, HostType, Steps, Reports
<1>18. ASSUME Open PROVE WTyped'
  <2>1. host' = [NewRun EXCEPT !.at = "tell"]
    BY <1>18 DEF Open
  <2>2. host' \in HostType
    BY <2>1, NewRunTyped DEF HostType, Steps
  <2> QED BY <1>18, <2>2, WorkTyped DEF Open, WTyped, Reports
<1>19. ASSUME Kill PROVE WTyped'
  BY <1>19 DEF Kill, WTyped, HostType, Steps, Views
<1>20. ASSUME Nudge PROVE WTyped'
  BY <1>20 DEF Nudge, WTyped, NoteFiles
<1>21. ASSUME Reopen PROVE WTyped'
  BY <1>21 DEF Reopen, WTyped, NoteFiles
<1>22. CASE UNCHANGED wvars
  BY <1>22 DEF wvars, WTyped
<1>23. ASSUME Unmark PROVE WTyped'
  <2>1. host' \in HostType
    BY <1>23, ToldTyped DEF Unmark
  <2> QED BY <1>23, <2>1 DEF Unmark, WTyped
<1>24. ASSUME SayTooBig PROVE WTyped'
  BY <1>24, SpeakTyped DEF SayTooBig, WTyped, HostType, Steps
<1> QED BY <1>1, <1>2, <1>3, <1>4, <1>5, <1>6, <1>7, <1>8, <1>9, <1>10, <1>11, <1>12, <1>13,
           <1>14, <1>15, <1>16, <1>17, <1>18, <1>19, <1>20, <1>21, <1>22, <1>23, <1>24 DEF WNext, Hosting

\* Every variable keeps its kind, whatever the bounds.
THEOREM Typed == WorkerSpec => []WTyped
<1>1. WInit => WTyped
  <2> SUFFICES ASSUME WInit PROVE WTyped
    OBVIOUS
  <2>1. Unread \in Copies
    BY RunAssumption DEF RunAssumption, Unread, Copies
  <2>2. view \in Views /\ turns \in Nat /\ heard \in [Words -> Nat]
    BY DEF WInit, HostInit, Views
  <2>3. file \in [NoteFiles -> {"none", "here", "delivered"}]
    BY DEF WInit, NoteFiles
  <2> QED BY <2>1, <2>2, <2>3, NewRunTyped DEF WInit, WTyped, Reports
<1> QED BY <1>1, NextTyped, PTL DEF WorkerSpec

----------------------------------------------------------------------------
\* Where the host stands between a return of the session and its next word.
SaysFollow ==
  /\ host.at = "green" => view = "complete" /\ host.status = "complete"
  /\ host.at \in {"judge", "harvest"} /\ host.status = "complete" => view = "complete"
  /\ host.at = "judge" => host.status \in {"paused", "stopped", "complete"}
  /\ host.at = "judge" /\ host.status = "paused" => view = "worker"
SaysInv == SaysAreTaken /\ SaysFollow

\* From green on nothing is judged, and the project changes in bind mode and
\* by a merge that is staged.
AfterGreen ==
  \/ host.at \in {"green", "reflect", "harvest", "library", "report", "down"}
  \/ host.at \in {"running", "nudged", "oversized"} /\ host.stage # "round"
GreenInv ==
  /\ GreenKept
  /\ host.green => AfterGreen /\ (Bind \/ staged \/ wrote = Clean)
  /\ host.at # "down" => report = "none"

\* Every asking is paid for: by the first green, or by a reopening.
One(p) == IF p THEN 1 ELSE 0
ReflectInv ==
  /\ heard["reflect"] + One(host.at = "reflect") + One(~reflected) + One(file["reopen"] = "here")
       + One(host.at = "unmark") <= 1 + used.reopens
  /\ host.at = "file" => file[Notes[host.note]] = "here"

\* The boundary owed next, while a round runs.
Owed == Estimate * (host.overruns + 1)
OnTimeInv ==
  host.at \in {"running", "nudged", "oversized"} /\ host.stage = "round" =>
    host.until <= Most(turns + 1, Owed)

----------------------------------------------------------------------------
\* What a word and a step of the session do to what the host sees.
LEMMA SpeakSees ==
  ASSUME NEW w, Continue(w) \/ Interject(w)
  PROVE  view' = "worker" /\ turns' = turns
  BY DEF Continue, Interject, Hears

\* The host only speaks where the session takes a word, whatever notes, kills,
\* outages and reopenings there are.
THEOREM SaysAreTakenHolds == WorkerSpec => []SaysAreTaken
<1>1. WInit => SaysInv
  BY DEF WInit, HostInit, NewRun, SaysInv, SaysAreTaken, SaysFollow
<1>2. WTyped /\ SaysInv /\ [WNext]_wvars => SaysInv'
  <2> SUFFICES ASSUME WTyped, SaysInv, [WNext]_wvars PROVE SaysInv'
    OBVIOUS
  <2> USE DEF At, To, Same, session, Project, SaysInv, SaysAreTaken, SaysFollow
  <2>0. host = [host EXCEPT !.at = host.at] /\ host \in HostType
    BY DEF WTyped, HostType
  <2> USE <2>0 DEF HostType
  <2>1. CASE Tell
    <3>1. host'.at \in {"tell", "round", "file"}
      BY <2>1 DEF Tell, Told
    <3> QED BY <3>1
  <2>2. CASE FileNote
    <3>1. host'.at \in {"tell", "round", "unmark"}
      BY <2>2 DEF FileNote, Told
    <3> QED BY <3>1
  <2>3. CASE Round
    <3>1. host'.at \in {"report", "running"}
      BY <2>3 DEF Round, Burst
    <3> QED BY <3>1
  <2>4. CASE Turning
    BY <2>4 DEF Turning
  <2>5. CASE Outage
    <3>1. \/ host'.at = "running"
          \/ host'.at = "oversized" /\ view' = "worker"
      BY <2>5 DEF Outage, AskedAgain
    <3> QED BY <3>1
  <2>6. CASE TakeNudge
    BY <2>6 DEF TakeNudge, Nudged
  <2>7. CASE SayNudge \/ SayTooBig
    BY <2>7 DEF SayNudge, SayTooBig
  <2>8. CASE Return
    BY <2>8 DEF Return, Returns, BurstOver
  <2>9. CASE Stop
    BY <2>9 DEF Stop, Returns
  <2>10. CASE Judge
    <3>1. host'.at \in {"report", "effort", "red", "green"} /\ host'.status = host.status
      BY <2>10 DEF Judge
    <3>2. host'.at = "effort" => host.status = "paused"
      BY <2>10 DEF Judge
    <3>3. host'.at \in {"red", "green"} => host.status = "complete"
      BY <2>10 DEF Judge
    <3> QED BY <2>10, <3>1, <3>2, <3>3 DEF Judge
  <2>11. CASE Effort
    BY <2>11 DEF Effort
  <2>12. CASE Red
    BY <2>12 DEF Red
  <2>13. CASE Green
    BY <2>13 DEF Green
  <2>14. CASE Reflect
    BY <2>14 DEF Reflect, Burst
  <2>15. CASE Harvest
    <3>1. host'.at \in {"library", "report"} /\ view' = view
      BY <2>15 DEF Harvest
    <3>2. host'.at = "library" => host.status = "complete"
      BY <2>15 DEF Harvest
    <3> QED BY <2>15, <3>1, <3>2 DEF Harvest
  <2>16. CASE Library
    BY <2>16 DEF Library, Burst
  <2>17. CASE Report
    BY <2>17 DEF Report
  <2>18. CASE Open
    BY <2>18 DEF Open, NewRun
  <2>19. CASE Kill
    BY <2>19 DEF Kill
  <2>20. CASE Nudge \/ Reopen
    BY <2>20 DEF Nudge, Reopen
  <2>21. CASE UNCHANGED wvars
    BY <2>21 DEF wvars
  <2>22. CASE Unmark
    <3>1. host'.at \in {"tell", "round"}
      BY <2>22 DEF Unmark, Told
    <3> QED BY <3>1
  <2> QED BY <2>1, <2>2, <2>3, <2>4, <2>5, <2>6, <2>7, <2>8, <2>9, <2>10, <2>11, <2>12, <2>13,
             <2>14, <2>15, <2>16, <2>17, <2>18, <2>19, <2>20, <2>21, <2>22 DEF WNext, Hosting
<1>3. SaysInv => SaysAreTaken
  BY DEF SaysInv
<1> QED BY <1>1, <1>2, <1>3, Typed, PTL DEF WorkerSpec

\* In snapshot mode a work order reported complete left the project as the gate
\* saw it green, unless the harvest staged a merge there.
THEOREM GreenKeptHolds == WorkerSpec => []GreenKept
<1>1. WInit => GreenInv
  BY DEF WInit, NewRun, GreenInv, GreenKept
<1>2. WTyped /\ GreenInv /\ [WNext]_wvars => GreenInv'
  <2> SUFFICES ASSUME WTyped, GreenInv, [WNext]_wvars PROVE GreenInv'
    OBVIOUS
  <2> USE DEF At, To, Same, session, Project, GreenInv, GreenKept, AfterGreen
  <2>0. host \in HostType
    BY DEF WTyped
  <2> USE <2>0 DEF HostType
  <2>1. CASE Tell
    <3>1. host'.at \in {"tell", "round", "file"} /\ host'.green = host.green /\ host.at = "tell"
      BY <2>1 DEF Tell, Told
    <3> QED BY <2>1, <3>1 DEF Tell
  <2>2. CASE FileNote
    <3>1. host'.at \in {"tell", "round", "unmark"} /\ host'.green = host.green
      BY <2>2 DEF FileNote, Told
    <3> QED BY <2>2, <3>1 DEF FileNote
  <2>3. CASE Round
    <3>1. host'.at \in {"report", "running"} /\ host'.green = host.green
      BY <2>3 DEF Round, Burst
    <3> QED BY <2>3, <3>1 DEF Round
  <2>4. CASE Turning
    BY <2>4 DEF Turning, InPlace
  <2>5. CASE Outage
    <3>1. /\ host.at = "running" /\ host'.at \in {"running", "oversized"} /\ host'.stage = host.stage
          /\ host'.green = host.green /\ report' = report /\ InPlace
      BY <2>5 DEF Outage, AskedAgain
    <3> QED BY <3>1 DEF InPlace
  <2>6. CASE TakeNudge
    BY <2>6 DEF TakeNudge
  <2>7. CASE SayNudge \/ SayTooBig
    BY <2>7 DEF SayNudge, SayTooBig
  <2>8. CASE Return
    BY <2>8 DEF Return, Returns
  <2>9. CASE Stop
    BY <2>9 DEF Stop, Returns
  <2>10. CASE Judge
    <3>1. host'.at # "down" /\ report' = "none" /\ wrote' = copy /\ ~host.green
      BY <2>10 DEF Judge
    <3>2. host'.green => ~copy.gaveUp /\ Problems = 0 /\ host'.at = "green"
      BY <2>10, <3>1 DEF Judge
    <3>3. ~copy.gaveUp /\ Problems = 0 => copy = Clean
      BY DEF WTyped, Copies, Problems, Clean
    <3> QED BY <3>1, <3>2, <3>3
  <2>11. CASE Effort
    BY <2>11 DEF Effort
  <2>12. CASE Red
    BY <2>12 DEF Red
  <2>13. CASE Green
    BY <2>13 DEF Green
  <2>14. CASE Reflect
    BY <2>14 DEF Reflect, Burst
  <2>15. CASE Harvest
    <3>1. /\ host'.at \in {"library", "report"} /\ host'.green = host.green
          /\ host.at = "harvest" /\ report' = report
      BY <2>15 DEF Harvest
    <3>2. wrote = Clean /\ ~staged' => wrote' = Clean
      <4>1. wrote.readings = 0 /\ Stamped => wrote' = [wrote EXCEPT !.readings = 0]
        BY DEF Stamped
      <4>2. ~staged' => Stamped \/ wrote' = wrote
        BY <2>15, HarvestStages DEF Stages
      <4> QED BY <4>1, <4>2 DEF Clean
    <3>3. staged => staged'
      BY <2>15, HarvestStages DEF Stages
    <3> QED BY <3>1, <3>2, <3>3
  <2>16. CASE Library
    BY <2>16 DEF Library, Burst
  <2>17. CASE Report
    <3>1. /\ host'.at = "down" /\ host'.green = host.green
          /\ wrote' = wrote /\ staged' = staged
      BY <2>17 DEF Report
    <3>2. report' = "complete" => host.green
      BY <2>17 DEF Report
    <3> QED BY <3>1, <3>2 DEF Clean
  <2>18. CASE Open
    BY <2>18 DEF Open, NewRun
  <2>19. CASE Kill
    BY <2>19 DEF Kill
  <2>20. CASE Nudge \/ Reopen
    BY <2>20 DEF Nudge, Reopen
  <2>21. CASE UNCHANGED wvars
    BY <2>21 DEF wvars
  <2>22. CASE Unmark
    <3>1. host'.at \in {"tell", "round"} /\ host'.green = host.green
      BY <2>22 DEF Unmark, Told
    <3> QED BY <2>22, <3>1 DEF Unmark
  <2> QED BY <2>1, <2>2, <2>3, <2>4, <2>5, <2>6, <2>7, <2>8, <2>9, <2>10, <2>11, <2>12, <2>13,
             <2>14, <2>15, <2>16, <2>17, <2>18, <2>19, <2>20, <2>21, <2>22 DEF WNext, Hosting
<1>3. GreenInv => GreenKept
  BY DEF GreenInv
<1> QED BY <1>1, <1>2, <1>3, Typed, PTL DEF WorkerSpec

----------------------------------------------------------------------------
LEMMA SpeakCounts ==
  ASSUME WTyped, "reflect" \in Words, NEW w, Continue(w) \/ Interject(w)
  PROVE  /\ heard["reflect"] \in Nat
         /\ heard'["reflect"] = heard["reflect"] + One(w = "reflect")
  BY DEF Continue, Interject, Hears, One, WTyped

LEMMA WorkHears == ASSUME Work PROVE heard' = heard
  BY DEF Work

\* The method is asked for once per green and reopening, for any number of
\* kills, outages and notes: an asking not yet made is owed by a mark, a note
\* or the first green.
THEOREM ReflectedOnceHolds ==
  ASSUME "reflect" \in Words
  PROVE  WorkerSpec => []ReflectedOnce
<1>1. WInit => ReflectInv
  BY DEF WInit, HostInit, NewRun, ReflectInv, One, NoteFiles
<1>2. WTyped /\ ReflectInv /\ [WNext]_wvars => ReflectInv'
  <2> SUFFICES ASSUME WTyped, ReflectInv, [WNext]_wvars PROVE ReflectInv'
    OBVIOUS
  <2> USE DEF At, To, Same, session, Project, ReflectInv, One
  <2>0. host \in HostType /\ heard["reflect"] \in Nat /\ used.reopens \in Nat /\ reflected \in BOOLEAN
    BY DEF WTyped
  <2> USE <2>0 DEF HostType
  <2>1. CASE Tell
    <3>1. host.at = "tell" /\ host'.at \in {"tell", "round", "file"}
      BY <2>1 DEF Tell, Told
    <3>2. host'.at = "file" => host'.note = host.note /\ file[Notes[host.note]] = "here"
      BY <2>1 DEF Tell, Told
    <3>3. heard'["reflect"] = heard["reflect"]
      <4>1. Notes[host.note] # "reflect"
        BY DEF Notes
      <4> QED BY <2>1, <4>1, SpeakCounts DEF Tell
    <3> QED BY <2>1, <3>1, <3>2, <3>3 DEF Tell
  <2>2. CASE FileNote
    <3>2. CASE Notes[host.note] = "reopen"
      BY <2>2, <3>2 DEF FileNote, WTyped, NoteFiles
    <3>3. CASE Notes[host.note] # "reopen"
      <4>1. host.at = "file" /\ host'.at \in {"tell", "round"}
        BY <2>2, <3>3 DEF FileNote, Told
      <4> QED BY <2>2, <3>3, <4>1 DEF FileNote, WTyped, NoteFiles
    <3> QED BY <3>2, <3>3
  <2>3. CASE Round
    <3>1. host.at = "round" /\ host'.at \in {"report", "running"}
      BY <2>3 DEF Round, Burst
    <3> QED BY <2>3, <3>1 DEF Round
  <2>4. CASE Turning
    BY <2>4, WorkHears DEF Turning
  <2>5. CASE Outage
    <3>1. /\ host.at = "running" /\ host'.at \in {"running", "oversized"} /\ heard' = heard
          /\ UNCHANGED <<file, reflected>> /\ used'.reopens = used.reopens
      BY <2>5, WorkHears DEF Outage, AskedAgain, WTyped
    <3> QED BY <3>1
  <2>6. CASE TakeNudge
    BY <2>6 DEF TakeNudge, WTyped, NoteFiles
  <2>7. CASE SayNudge \/ SayTooBig
    BY <2>7, SpeakCounts DEF SayNudge, SayTooBig
  <2>8. CASE Return
    BY <2>8 DEF Return, Returns
  <2>9. CASE Stop
    BY <2>9 DEF Stop, Returns
  <2>10. CASE Judge
    <3>1. host'.at \in {"report", "effort", "red", "green"}
      BY <2>10 DEF Judge
    <3> QED BY <2>10, <3>1 DEF Judge
  <2>11. CASE Effort
    BY <2>11, SpeakCounts DEF Effort
  <2>12. CASE Red
    BY <2>12, SpeakCounts DEF Red
  <2>13. CASE Green
    BY <2>13 DEF Green
  <2>14. CASE Reflect
    BY <2>14, SpeakCounts DEF Reflect, Burst
  <2>15. CASE Harvest
    <3>1. host.at = "harvest" /\ host'.at \in {"library", "report"}
      BY <2>15 DEF Harvest
    <3> QED BY <2>15, <3>1 DEF Harvest
  <2>16. CASE Library
    BY <2>16, SpeakCounts DEF Library, Burst
  <2>17. CASE Report
    BY <2>17 DEF Report
  <2>18. CASE Open
    BY <2>18, WorkHears DEF Open, NewRun
  <2>19. CASE Kill
    BY <2>19 DEF Kill
  <2>20. CASE Nudge
    BY <2>20 DEF Nudge, WTyped, NoteFiles, Notes
  <2>21. CASE Reopen
    BY <2>21 DEF Reopen, WTyped, NoteFiles
  <2>22. CASE UNCHANGED wvars
    BY <2>22 DEF wvars
  <2>23. CASE Unmark
    <3>1. host.at = "unmark" /\ host'.at \in {"tell", "round"}
      BY <2>23 DEF Unmark, Told
    <3> QED BY <2>23, <3>1 DEF Unmark
  <2> QED BY <2>1, <2>2, <2>3, <2>4, <2>5, <2>6, <2>7, <2>8, <2>9, <2>10, <2>11, <2>12, <2>13,
             <2>14, <2>15, <2>16, <2>17, <2>18, <2>19, <2>20, <2>21, <2>22, <2>23 DEF WNext, Hosting
<1>3. WTyped /\ ReflectInv => ReflectedOnce
  <2> SUFFICES ASSUME WTyped, ReflectInv PROVE ReflectedOnce
    OBVIOUS
  <2>1. heard["reflect"] \in Nat /\ used.reopens \in Nat
    BY DEF WTyped
  <2> QED BY <2>1 DEF ReflectInv, ReflectedOnce, One
<1> QED BY <1>1, <1>2, <1>3, Typed, PTL DEF WorkerSpec

----------------------------------------------------------------------------
LEMMA LeastBelow == ASSUME NEW a \in Nat, NEW b \in Nat PROVE Least(a, b) <= b
  BY DEF Least

LEMMA MostGrows ==
  ASSUME NEW m \in Nat, NEW n \in Nat, m <= n, NEW o \in Nat
  PROVE  Most(m + 1, o) <= Most(n + 1, o) /\ n + 1 <= Most(n + 1, o)
  BY DEF Most

LEMMA MostBounded ==
  ASSUME NEW a \in Nat, NEW b \in Nat, NEW c \in Nat, a <= c, b <= c
  PROVE  Most(a, b) <= c
  BY DEF Most

\* No burst passes the boundary owed next, for any estimate, cap and number of
\* outages: an outage asks again within the burst it fell into.
THEOREM EffortOnTimeHolds == WorkerSpec => []EffortOnTime
<1>1. WInit => OnTimeInv
  BY DEF WInit, NewRun, OnTimeInv
<1>2. WTyped /\ OnTimeInv /\ [WNext]_wvars => OnTimeInv'
  <2> SUFFICES ASSUME WTyped, OnTimeInv, [WNext]_wvars PROVE OnTimeInv'
    OBVIOUS
  <2> USE DEF At, To, Same, session, Project, OnTimeInv
  <2>0. host \in HostType /\ turns \in Nat /\ host.until \in Nat /\ Owed \in Nat
    <3>1. host.overruns + 1 \in Nat /\ Estimate \in Nat
      BY RunAssumption DEF RunAssumption, WTyped, HostType
    <3>2. \A m, n \in Nat : m * n \in Nat
      OBVIOUS
    <3>3. Owed \in Nat
      BY <3>1, <3>2, Zenon DEF Owed
    <3> QED BY <3>3 DEF WTyped, HostType
  <2> USE <2>0 DEF HostType
  <2> DEFINE InRound(h) == h.at \in {"running", "nudged", "oversized"} /\ h.stage = "round"
  <2>a. ASSUME InRound(host') => InRound(host), host'.until = host.until,
               host'.overruns = host.overruns, turns' \in Nat, turns <= turns'
        PROVE  OnTimeInv'
    <3>1. Owed' = Owed
      BY <2>a, Zenon DEF Owed
    <3>2. Most(turns + 1, Owed) <= Most(turns' + 1, Owed)
      BY <2>a, MostGrows
    <3>3. turns + 1 \in Nat /\ turns' + 1 \in Nat
      <4>1. \A n \in Nat : n + 1 \in Nat
        OBVIOUS
      <4> QED BY <2>0, <2>a, <4>1, Zenon
    <3>4. Most(turns + 1, Owed) \in Nat /\ Most(turns' + 1, Owed) \in Nat
      BY <2>0, <3>3, MostIsNat, Zenon
    <3> QED BY <2>a, <3>1, <3>2, <3>4
  <2>b. ASSUME ~InRound(host') PROVE OnTimeInv'
    BY <2>b
  <2>1. CASE Tell
    <3>1. host'.at \in {"tell", "round", "file"}
      BY <2>1 DEF Tell, Told
    <3> QED BY <2>b, <3>1
  <2>2. CASE FileNote
    <3>1. host'.at \in {"tell", "round", "unmark"}
      BY <2>2 DEF FileNote, Told
    <3> QED BY <2>b, <3>1
  <2>3. CASE Round
    <3>1. CASE host'.at = "report"
      BY <2>b, <3>1
    <3>2. CASE host'.at # "report"
      <4>1. host' = Burst("round", Least(Cap, Most(turns + 1, Owed))) /\ turns' = turns
        BY <2>3, <3>2 DEF Round, Owed
      <4>2. host'.until = Least(Cap, Most(turns + 1, Owed)) /\ host'.overruns = host.overruns
        BY <4>1 DEF Burst
      <4>3. Most(turns + 1, Owed) \in Nat
        <5>1. turns + 1 \in Nat
          OBVIOUS
        <5> QED BY <2>0, <5>1, MostIsNat, Zenon
      <4>4. host'.until <= Most(turns + 1, Owed)
        BY <4>2, <4>3, LeastBelow, RunAssumption DEF RunAssumption
      <4>5. Owed' = Owed
        BY <4>2, Zenon DEF Owed
      <4> QED BY <4>1, <4>4, <4>5
    <3> QED BY <3>1, <3>2
  <2>4. CASE Turning
    <3>1. host' = host /\ turns' \in Nat /\ turns <= turns'
      BY <2>4, WorkTyped DEF Turning
    <3> QED BY <2>a, <3>1
  <2>5. CASE Outage
    <3>1. turns' \in Nat /\ turns <= turns'
      BY <2>5, WorkTyped DEF Outage
    <3>2. /\ host.at = "running" /\ host'.at \in {"running", "oversized"}
          /\ host'.stage = host.stage /\ host'.overruns = host.overruns
          /\ host'.until = Most(host.until, turns' + 1)
      BY <2>5 DEF Outage, AskedAgain
    <3>3. Owed' = Owed
      BY <3>2, Zenon DEF Owed
    <3>4. CASE ~InRound(host)
      BY <2>b, <3>2, <3>4
    <3>5. CASE InRound(host)
      <4>1. host.until <= Most(turns + 1, Owed)
        BY <3>5
      <4>2. /\ Most(turns + 1, Owed) <= Most(turns' + 1, Owed)
            /\ turns' + 1 <= Most(turns' + 1, Owed)
        BY <3>1, MostGrows
      <4>3. turns + 1 \in Nat /\ turns' + 1 \in Nat
        <5>1. \A n \in Nat : n + 1 \in Nat
          OBVIOUS
        <5> QED BY <2>0, <3>1, <5>1, Zenon
      <4>4. Most(turns + 1, Owed) \in Nat /\ Most(turns' + 1, Owed) \in Nat
        BY <2>0, <4>3, MostIsNat, Zenon
      <4>5. host.until <= Most(turns' + 1, Owed)
        BY ONLY <2>0, <4>1, <4>2, <4>4
      <4>6. Most(host.until, turns' + 1) <= Most(turns' + 1, Owed)
        BY <2>0, <4>2, <4>3, <4>4, <4>5, MostBounded, Zenon
      <4> QED BY <3>2, <3>3, <4>6
    <3> QED BY <3>4, <3>5
  <2>6. CASE TakeNudge
    <3>1. turns' = turns /\ host' = [host EXCEPT !.at = "nudged"] /\ host.at = "running"
      BY <2>6 DEF TakeNudge
    <3> QED BY <2>a, <3>1
  <2>7. CASE SayNudge \/ SayTooBig
    <3>1. /\ turns' = turns /\ host' = [host EXCEPT !.at = "running"]
          /\ host.at \in {"nudged", "oversized"}
      BY <2>7, SpeakSees DEF SayNudge, SayTooBig
    <3> QED BY <2>a, <3>1
  <2>8. CASE Return \/ Stop
    <3>1. host'.at \in {"judge", "harvest"}
      BY <2>8 DEF Return, Stop, Returns
    <3> QED BY <2>b, <3>1
  <2>9. CASE Judge
    <3>1. host'.at \in {"report", "effort", "red", "green"}
      BY <2>9 DEF Judge
    <3> QED BY <2>b, <3>1
  <2>10. CASE Effort \/ Red
    <3>1. host'.at = "round"
      BY <2>10 DEF Effort, Red
    <3> QED BY <2>b, <3>1
  <2>11. CASE Green
    <3>1. host'.at \in {"harvest", "reflect"}
      BY <2>11 DEF Green
    <3> QED BY <2>b, <3>1
  <2>12. CASE Reflect \/ Library
    <3>1. host'.stage \in {"reflect", "library"}
      BY <2>12 DEF Reflect, Library, Burst
    <3> QED BY <2>b, <3>1
  <2>13. CASE Harvest
    <3>1. host'.at \in {"library", "report"}
      BY <2>13 DEF Harvest
    <3> QED BY <2>b, <3>1
  <2>14. CASE Report \/ Open \/ Kill
    <3>1. host'.at \in {"down", "tell"}
      BY <2>14 DEF Report, Open, Kill, NewRun
    <3> QED BY <2>b, <3>1
  <2>15. CASE Nudge \/ Reopen \/ UNCHANGED wvars
    <3>1. host' = host /\ turns' = turns
      BY <2>15 DEF Nudge, Reopen, wvars
    <3> QED BY <2>a, <3>1
  <2>16. CASE Unmark
    <3>1. host'.at \in {"tell", "round"}
      BY <2>16 DEF Unmark, Told
    <3> QED BY <2>b, <3>1
  <2> QED BY <2>1, <2>2, <2>3, <2>4, <2>5, <2>6, <2>7, <2>8, <2>9, <2>10, <2>11, <2>12, <2>13,
             <2>14, <2>15, <2>16 DEF WNext, Hosting
<1>3. OnTimeInv => EffortOnTime
  BY DEF OnTimeInv, EffortOnTime, At, Owed
<1> QED BY <1>1, <1>2, <1>3, Typed, PTL DEF WorkerSpec
----------------------------------------------------------------------------
\* A round under way: a burst to an effort boundary, or what it came to.
InRound == host.at \in {"running", "nudged", "oversized"} /\ host.stage = "round"

\* The rounds that fixed nothing, and the library's, stay within their limits:
\* the last of them ends the run.
RoundsInv ==
  /\ host.last <= NoRound /\ host.library <= MaxLibrary
  /\ host.stalled <= GateRounds
  /\ InRound \/ host.at = "judge" => host.stalled < GateRounds
  /\ host.stuck <= 2 /\ (host.stuck = 2 => host.at \in {"report", "down"})

LEMMA RoundsKept ==
  ASSUME WTyped, RoundsInv, [WNext]_wvars
  PROVE  RoundsInv'
<1> USE DEF At, To, Same, session, Project, RoundsInv, InRound
<1>0. /\ host \in HostType /\ copy \in Copies
      /\ MaxReadings \in Nat /\ MaxLibrary \in Nat /\ GateRounds \in Nat /\ GateRounds >= 1
  BY RunAssumption DEF RunAssumption, WTyped
<1> USE <1>0 DEF HostType
<1>1. CASE Tell
  <2>1. /\ host.at = "tell" /\ host'.at \in {"tell", "round", "file"}
        /\ host'.last = host.last /\ host'.library = host.library
        /\ host'.stalled = host.stalled /\ host'.stuck = host.stuck
    BY <1>1 DEF Tell, Told
  <2> QED BY <2>1
<1>2. CASE FileNote \/ Unmark
  <2>1. /\ host.at \in {"file", "unmark"} /\ host'.at \in {"tell", "round", "unmark"}
        /\ host'.last = host.last /\ host'.library = host.library
        /\ host'.stalled = host.stalled /\ host'.stuck = host.stuck
    BY <1>2 DEF FileNote, Unmark, Told
  <2> QED BY <2>1
<1>3. CASE Round
  <2>1. /\ host.at = "round" /\ host'.at \in {"running", "report"}
        /\ host'.at = "running" => host.stalled # GateRounds
        /\ host'.last = host.last /\ host'.library = host.library
        /\ host'.stalled = host.stalled /\ host'.stuck = host.stuck
    BY <1>3 DEF Round, Burst
  <2> QED BY <2>1
<1>4. CASE Turning \/ Nudge \/ Reopen \/ UNCHANGED wvars
  <2>1. /\ host'.at = host.at /\ host'.stage = host.stage
        /\ host'.last = host.last /\ host'.library = host.library
        /\ host'.stalled = host.stalled /\ host'.stuck = host.stuck
    BY <1>4 DEF Turning, Nudge, Reopen, wvars
  <2> QED BY <2>1
<1>5. CASE TakeNudge \/ SayNudge \/ SayTooBig
  <2>1. /\ host.at \in {"running", "nudged", "oversized"}
        /\ host'.at \in {"running", "nudged"}
        /\ host'.stage = host.stage
        /\ host'.last = host.last /\ host'.library = host.library
        /\ host'.stalled = host.stalled /\ host'.stuck = host.stuck
    BY <1>5 DEF TakeNudge, SayNudge, SayTooBig
  <2> QED BY <2>1
<1>6. CASE Return \/ Stop
  <2>1. /\ host.at = "running" /\ host'.at = IF host.stage = "round" THEN "judge" ELSE "harvest"
        /\ host'.last = host.last /\ host'.library = host.library
        /\ host'.stalled = host.stalled /\ host'.stuck = host.stuck
    BY <1>6 DEF Return, Stop, Returns
  <2> QED BY <2>1
<1>7. CASE Judge
  <2>1. Problems \in Nat /\ Problems <= NoRound /\ NoRound \in Nat
    BY DEF Problems, NoRound, Copies
  <2>2. Stalled \in {host.stalled + 1, 0}
    BY DEF Stalled
  <2>3. /\ host.at = "judge" /\ host'.at \in {"report", "effort", "green", "red"}
        /\ host'.last \in {host.last, NoRound, Problems} /\ host'.library = host.library
        /\ host'.stalled \in {host.stalled, Stalled} /\ host'.stuck = host.stuck
    BY <1>7 DEF Judge
  <2> QED BY <2>1, <2>2, <2>3
<1>8. CASE Effort \/ Red \/ Green \/ Report \/ Kill
  <2>1. /\ host'.at \in {"round", "harvest", "reflect", "down"}
        /\ host'.at # "down" => host.at \notin {"report", "down"}
        /\ host'.last = host.last /\ host'.library = host.library
        /\ host'.stalled = host.stalled /\ host'.stuck = host.stuck
    BY <1>8 DEF Effort, Red, Green, Report, Kill
  <2> QED BY <2>1
<1>9. CASE Reflect \/ Library
  <2>1. /\ host.at \in {"reflect", "library"} /\ host'.at = "running"
        /\ host'.stage \in {"reflect", "library"}
        /\ host'.last = host.last /\ host'.library = host.library
        /\ host'.stalled = host.stalled /\ host'.stuck = host.stuck
    BY <1>9 DEF Reflect, Library, Burst
  <2> QED BY <2>1
<1>10. CASE Harvest
  <2>1. PICK owed \in 0..MaxLibrary :
           LET again == host.stage = "library"
               stuck == IF again /\ owed >= host.library THEN host.stuck + 1 ELSE 0
           IN  host' = [host EXCEPT !.library = owed, !.stuck = stuck,
                          !.at = IF owed > 0 /\ stuck < 2 /\ host.status = "complete" /\ turns < Cap
                                 THEN "library" ELSE "report"]
    BY <1>10 DEF Harvest
  <2>2. /\ host.at = "harvest" /\ host'.library = owed /\ host'.last = host.last
        /\ host'.stalled = host.stalled /\ host'.stuck \in {host.stuck + 1, 0}
        /\ host'.at \in {"library", "report"} /\ (host'.at = "library" => host'.stuck < 2)
    BY <1>10, <2>1 DEF Harvest
  <2> QED BY <2>2
<1>11. CASE Open
  <2>1. /\ host'.at = "tell" /\ host'.last = NoRound /\ host'.library = 0
        /\ host'.stalled = 0 /\ host'.stuck = 0
    BY <1>11 DEF Open, NewRun
  <2> QED BY <2>1 DEF NoRound
<1>12. CASE Outage
  <2>1. /\ host.at = "running" /\ host'.at \in {"running", "oversized"}
        /\ host'.stage = host.stage
        /\ host'.last = host.last /\ host'.library = host.library
        /\ host'.stalled = host.stalled /\ host'.stuck = host.stuck
    BY <1>12 DEF Outage, AskedAgain
  <2> QED BY <2>1
<1> QED BY <1>1, <1>2, <1>3, <1>4, <1>5, <1>6, <1>7, <1>8, <1>9, <1>10, <1>11, <1>12
        DEF WNext, Hosting

\* A boundary is not passed before the turns that pay for it: the efforts said
\* so far are no more than the turns done.
TurnsInv ==
  /\ turns <= MaxTurns /\ host.until <= MaxTurns + 1
  /\ host.overruns <= turns
  /\ InRound => host.overruns < host.until
  /\ host.at = "judge" /\ host.status = "paused" => host.overruns < turns

LEMMA DivBelow ==
  ASSUME NEW a \in Nat, NEW b \in Nat, b >= 1
  PROVE  a \div b \in Nat /\ a \div b <= a
<1> DEFINE q == a \div b
           r == a % b
<1>1. q \in Nat /\ r \in Nat /\ a = b * q + r
  OBVIOUS
<1> HIDE DEF q, r
<1>2. PICK c \in Nat : b = c + 1
  <2>1. b - 1 \in Nat /\ b = (b - 1) + 1
    OBVIOUS
  <2> QED BY <2>1
<1>3. b * q = c * q + q /\ c * q \in Nat
  BY <1>1, <1>2
<1> QED BY <1>1, <1>3 DEF q

LEMMA TurnsKept ==
  ASSUME Cap <= MaxTurns + 1, WTyped, TurnsInv, [WNext]_wvars
  PROVE  TurnsInv'
<1> USE DEF At, To, Same, session, Project, TurnsInv, InRound
<1>0. /\ host \in HostType /\ turns \in Nat
      /\ MaxTurns \in Nat /\ Cap \in Nat /\ Estimate \in Nat /\ Estimate >= 1
  BY RunAssumption DEF RunAssumption, WTyped
<1> USE <1>0 DEF HostType
<1>a. ASSUME Work PROVE turns' \in Nat /\ turns <= turns' /\ turns' <= MaxTurns
  BY <1>a DEF Work
<1>b. turns \div Estimate <= turns
  BY DivBelow
<1>1. CASE Tell
  <2>1. /\ host'.at \in {"tell", "round", "file"}
        /\ host'.until = host.until /\ host'.overruns \in {host.overruns, turns \div Estimate}
    BY <1>1 DEF Tell, Told
  <2>2. turns' = turns
    BY <1>1, SpeakSees DEF Tell
  <2> QED BY <1>b, <2>1, <2>2
<1>2. CASE FileNote \/ Unmark
  <2>1. /\ host'.at \in {"tell", "round", "unmark"} /\ turns' = turns
        /\ host'.until = host.until /\ host'.overruns \in {host.overruns, turns \div Estimate}
    BY <1>2 DEF FileNote, Unmark, Told
  <2> QED BY <1>b, <2>1
<1>3. CASE Round
  <2>1. CASE host'.at = "report"
    <3>1. host'.until = host.until /\ host'.overruns = host.overruns /\ turns' = turns
      BY <1>3, <2>1 DEF Round, Burst
    <3> QED BY <2>1, <3>1
  <2>2. CASE host'.at # "report"
    <3> DEFINE boundary == Estimate * (host.overruns + 1)
               until == Least(Cap, Most(turns + 1, boundary))
    <3>1. boundary \in Nat
      <4>1. \A m, n \in Nat : m * n \in Nat
        OBVIOUS
      <4>2. host.overruns + 1 \in Nat
        OBVIOUS
      <4> QED BY <1>0, <4>1, <4>2, Zenon
    <3>2. host' = Burst("round", until) /\ turns < Cap /\ turns' = turns
      BY <1>3, <2>2 DEF Round
    <3> HIDE DEF boundary
    <3>3. until \in Nat /\ until <= Cap /\ turns < until
      BY <3>1, <3>2 DEF Least, Most
    <3> HIDE DEF until
    <3>4. /\ host'.at = "running" /\ host'.until = until /\ host'.overruns = host.overruns
      BY <3>2 DEF Burst
    <3> QED BY <3>2, <3>3, <3>4
  <2> QED BY <2>1, <2>2
<1>4. CASE Turning
  <2>1. host' = host /\ turns' \in Nat /\ turns <= turns' /\ turns' <= MaxTurns
        /\ host.at = "running"
    BY <1>4, <1>a DEF Turning
  <2> QED BY <2>1
<1>5. CASE Outage
  <2> DEFINE until == Most(host.until, turns' + 1)
  <2>1. turns' \in Nat /\ turns <= turns' /\ turns' <= MaxTurns
    BY <1>5, <1>a DEF Outage
  <2>2. until \in Nat /\ until >= host.until /\ until <= MaxTurns + 1
    <3>1. host.until \in Nat /\ host.until <= MaxTurns + 1 /\ MaxTurns \in Nat
      OBVIOUS
    <3>2. \A a, b, c \in Nat : b <= c => b + 1 <= c + 1 /\ b + 1 \in Nat /\ c + 1 \in Nat
      OBVIOUS
    <3>3. turns' + 1 <= MaxTurns + 1 /\ turns' + 1 \in Nat /\ MaxTurns + 1 \in Nat
      BY <2>1, <3>1, <3>2, Zenon
    <3>4. \A a, b \in Nat : Most(a, b) >= a
      BY DEF Most
    <3> QED BY <3>1, <3>3, <3>4, MostIsNat, MostBounded, Zenon DEF until
  <2>3. /\ host.at = "running" /\ host'.at \in {"running", "oversized"}
        /\ host'.stage = host.stage /\ host'.overruns = host.overruns
        /\ host'.until = until
    BY <1>5 DEF Outage, AskedAgain
  <2> HIDE DEF until
  <2> QED BY <2>1, <2>2, <2>3
<1>6. CASE TakeNudge \/ SayNudge \/ SayTooBig
  <2>1. /\ host.at \in {"running", "nudged", "oversized"}
        /\ host'.at \in {"running", "nudged"}
        /\ host'.stage = host.stage /\ host'.until = host.until /\ host'.overruns = host.overruns
    BY <1>6 DEF TakeNudge, SayNudge, SayTooBig
  <2>2. turns' = turns
    BY <1>6, SpeakSees DEF TakeNudge, SayNudge, SayTooBig
  <2> QED BY <2>1, <2>2
<1>7. CASE Return \/ Stop
  <2>1. /\ host.at = "running" /\ turns' = turns
        /\ host'.at = IF host.stage = "round" THEN "judge" ELSE "harvest"
        /\ host'.status = "paused" => turns >= host.until
        /\ host'.until = host.until /\ host'.overruns = host.overruns
    BY <1>7 DEF Return, Stop, Returns, BurstOver
  <2> QED BY <2>1
<1>8. CASE Judge
  <2>1. /\ host.at = "judge" /\ host'.at \in {"report", "effort", "green", "red"}
        /\ host'.until = host.until /\ turns' = turns
        /\ \/ host'.overruns = host.overruns
           \/ host'.overruns = host.overruns + 1 /\ host.status = "paused"
    <3>1. host.at = "judge" /\ turns' = turns
      BY <1>8 DEF Judge
    <3>2. CASE copy.gaveUp \/ host.status = "stopped"
      BY <1>8, <3>1, <3>2 DEF Judge
    <3>3. CASE ~copy.gaveUp /\ host.status = "paused"
      <4>1. host' = [host EXCEPT !.overruns = host.overruns + 1, !.last = NoRound,
                                 !.at = IF turns >= Cap THEN "report" ELSE "effort"]
        BY <1>8, <3>3 DEF Judge
      <4> QED BY <3>1, <3>3, <4>1
    <3>4. CASE ~copy.gaveUp /\ host.status \notin {"stopped", "paused"}
      BY <1>8, <3>1, <3>4 DEF Judge
    <3> QED BY <3>2, <3>3, <3>4
  <2> QED BY <2>1
<1>9. CASE Effort \/ Red \/ Green \/ Report \/ Kill \/ Harvest
  <2>1. /\ host'.at \in {"round", "harvest", "reflect", "down", "library", "report"}
        /\ host'.until = host.until /\ host'.overruns = host.overruns
    <3>1. CASE Harvest
      BY <3>1 DEF Harvest
    <3>2. CASE ~Harvest
      BY <1>9, <3>2 DEF Effort, Red, Green, Report, Kill
    <3> QED BY <3>1, <3>2
  <2>2. turns' = turns
    BY <1>9, SpeakSees DEF Effort, Red, Green, Report, Kill, Harvest
  <2> QED BY <2>1, <2>2
<1>10. CASE Reflect \/ Library
  <2>1. /\ host'.at = "running" /\ host'.stage \in {"reflect", "library"}
        /\ host'.until \in {Most(turns + 1, Cap), Cap} /\ host'.overruns = host.overruns
    BY <1>10 DEF Reflect, Library, Burst
  <2>2. turns' = turns
    BY <1>10, SpeakSees DEF Reflect, Library
  <2>3. Most(turns + 1, Cap) <= MaxTurns + 1
    BY DEF Most
  <2> QED BY <2>1, <2>2, <2>3
<1>11. CASE Open
  <2>1. host'.at = "tell" /\ host'.until = 0 /\ host'.overruns = 0
    BY <1>11 DEF Open, NewRun
  <2>2. turns' \in Nat /\ turns' <= MaxTurns
    BY <1>11, <1>a DEF Open
  <2> QED BY <2>1, <2>2
<1>12. CASE Nudge \/ Reopen \/ UNCHANGED wvars
  BY <1>12 DEF Nudge, Reopen, wvars
<1> QED BY <1>1, <1>2, <1>3, <1>4, <1>5, <1>6, <1>7, <1>8, <1>9, <1>10, <1>11, <1>12
        DEF WNext, Hosting

----------------------------------------------------------------------------
\* What pays for a note's being heard: that it was left, and a kill between
\* its being said and its being filed.
Paid(n) == (IF n = "nudge" THEN used.notes ELSE used.reopens) + used.faults
\* A note that will be said still: one that is left and not just said, and a
\* nudge that was filed first.
Waiting(n) == One(file[n] = "here" /\ ~(host.at = "file" /\ Notes[host.note] = n))
                + One(host.at = "nudged" /\ n = "nudge")
PaidInv == \A n \in NoteFiles \cap Words : heard[n] + Waiting(n) <= Paid(n)

LEMMA HearingCounts ==
  ASSUME WTyped, NEW n \in Words, NEW w, Continue(w) \/ Interject(w)
  PROVE  heard'[n] = heard[n] + One(w = n)
  BY DEF Continue, Interject, Hears, One, WTyped

LEMMA PaidKept ==
  ASSUME WTyped, PaidInv, [WNext]_wvars
  PROVE  PaidInv'
<1> SUFFICES ASSUME NEW n \in NoteFiles \cap Words PROVE (heard[n] + Waiting(n) <= Paid(n))'
  BY DEF PaidInv
<1> USE DEF At, To, Same, session, Project, Waiting, Paid, One
<1>0. /\ host \in HostType /\ heard[n] \in Nat /\ used.notes \in Nat /\ used.reopens \in Nat
      /\ used.faults \in Nat /\ heard[n] + Waiting(n) <= Paid(n)
      /\ file \in [NoteFiles -> {"none", "here", "delivered"}]
      /\ used \in [notes : Nat, reopens : Nat, faults : Nat]
      /\ n \in NoteFiles /\ n \in Words
  BY DEF WTyped, PaidInv
<1> USE <1>0 DEF HostType
<1>1. CASE Tell
  <2> DEFINE w == Notes[host.note]
  <2>1. host.at = "tell" /\ UNCHANGED <<file, used>>
    BY <1>1 DEF Tell
  <2>2. CASE host' = Told /\ UNCHANGED session
    <3>1. host'.at \in {"tell", "round"}
      BY <2>2 DEF Told
    <3> QED BY <2>1, <2>2, <3>1
  <2>3. CASE file[w] = "here" /\ To("file") /\ (Continue(w) \/ Interject(w) \/ UNCHANGED session)
    <3>1. host'.at = "file" /\ host'.note = host.note
      BY <2>3
    <3>2. heard'[n] = heard[n] + One(w = n) \/ heard'[n] = heard[n]
      BY <2>3, HearingCounts
    <3>3. CASE w = n
      BY <2>1, <2>3, <3>1, <3>2, <3>3
    <3>4. CASE w # n
      BY <2>1, <2>3, <3>1, <3>2, <3>4
    <3> QED BY <3>3, <3>4
  <2> QED BY <1>1, <2>2, <2>3 DEF Tell
<1>2. CASE FileNote
  <2>1. /\ host.at = "file" /\ host'.at \in {"tell", "round", "unmark"} /\ UNCHANGED <<heard, used>>
        /\ file'[n] = IF Notes[host.note] = n THEN "delivered" ELSE file[n]
    BY <1>2 DEF FileNote, Told
  <2> QED BY <2>1
<1>3. CASE Turning \/ Outage
  <2>1. /\ host'.at \in {"running", "oversized"} /\ host.at = "running"
        /\ heard' = heard /\ file' = file
    BY <1>3, WorkHears DEF Turning, Outage, AskedAgain
  <2>2. used' = used \/ used' = [used EXCEPT !.faults = used.faults + 1]
    BY <1>3 DEF Turning, Outage
  <2> QED BY <2>1, <2>2
<1>4. CASE TakeNudge
  <2>1. /\ host.at = "running" /\ host'.at = "nudged" /\ UNCHANGED <<heard, used>>
        /\ file["nudge"] = "here" /\ file'[n] = IF n = "nudge" THEN "delivered" ELSE file[n]
    BY <1>4 DEF TakeNudge, Nudged
  <2> QED BY <2>1
<1>5. CASE SayNudge
  <2>1. host.at = "nudged" /\ host'.at = "running" /\ UNCHANGED <<file, used>>
        /\ heard'[n] = heard[n] + One("nudge" = n)
    BY <1>5, HearingCounts DEF SayNudge
  <2> QED BY <2>1
<1>6. CASE Unmark \/ Round \/ Return \/ Judge \/ Green \/ Harvest \/ Report
  <2>1. UNCHANGED <<heard, file, used>> /\ host.at \notin {"file", "nudged"}
    BY <1>6 DEF Unmark, Round, Return, Returns, Judge, Green, Harvest, Report
  <2>2. host'.at \notin {"file", "nudged"}
    <3>1. CASE Unmark \/ Round \/ Return
      BY <3>1 DEF Unmark, Told, Round, Burst, Return, Returns
    <3>2. CASE Judge
      BY <3>2 DEF Judge
    <3>3. CASE Harvest
      BY <3>3 DEF Harvest
    <3>4. CASE Green \/ Report
      BY <3>4 DEF Green, Report
    <3> QED BY <1>6, <3>1, <3>2, <3>3, <3>4
  <2> QED BY <2>1, <2>2
<1>7. CASE Stop \/ Kill
  <2>1. /\ heard' = heard /\ file' = file /\ used' = [used EXCEPT !.faults = used.faults + 1]
        /\ host'.at \notin {"file", "nudged"}
    BY <1>7 DEF Stop, Returns, Kill
  <2> QED BY <2>1
<1>8. CASE SayTooBig \/ Effort \/ Red \/ Reflect \/ Library
  <2>1. /\ UNCHANGED <<file, used>> /\ host.at \notin {"file", "nudged"}
        /\ host'.at \in {"round", "running"}
    BY <1>8 DEF SayTooBig, Effort, Red, Reflect, Library, Burst
  <2>2. \E w \in {"oversized", "effort", "red", "reflect", "library"} : heard'[n] = heard[n] + One(w = n)
    BY <1>8, HearingCounts DEF SayTooBig, Effort, Red, Reflect, Library
  <2>3. n \notin {"oversized", "effort", "red", "reflect", "library"}
    BY DEF NoteFiles
  <2>4. heard'[n] = heard[n]
    BY <2>2, <2>3
  <2> QED BY <2>1, <2>4
<1>9. CASE Open
  <2>1. host.at = "down" /\ host'.at = "tell" /\ UNCHANGED <<file, used>> /\ heard' = heard
    BY <1>9, WorkHears DEF Open, NewRun
  <2> QED BY <2>1
<1>10. CASE Nudge
  <2>1. /\ UNCHANGED <<heard, host>> /\ used' = [used EXCEPT !.notes = used.notes + 1]
        /\ file["nudge"] # "here" /\ file'[n] = IF n = "nudge" THEN "here" ELSE file[n]
    BY <1>10 DEF Nudge
  <2> QED BY <2>1
<1>11. CASE Reopen
  <2>1. /\ UNCHANGED <<heard, host>> /\ used' = [used EXCEPT !.reopens = used.reopens + 1]
        /\ file'[n] = file[n] \/ n \in {"reopen", "release"}
    BY <1>11 DEF Reopen
  <2> QED BY <2>1
<1>12. CASE UNCHANGED wvars
  BY <1>12 DEF wvars
<1> QED BY <1>1, <1>2, <1>3, <1>4, <1>5, <1>6, <1>7, <1>8, <1>9, <1>10, <1>11, <1>12
        DEF WNext, Hosting

\* A note is heard once for every time it was left, and once more at most for
\* every time the run was killed: it is said before it is filed, so a kill may
\* have it said again, and nothing else does.
THEOREM NotesPaidHolds == WorkerSpec => []PaidInv
<1>1. WInit => PaidInv
  BY DEF WInit, HostInit, NewRun, PaidInv, Waiting, Paid, One
<1>2. WTyped /\ PaidInv /\ [WNext]_wvars => PaidInv'
  BY PaidKept
<1> QED BY <1>1, <1>2, Typed, PTL DEF WorkerSpec

----------------------------------------------------------------------------
UsedInv == used.notes <= MaxNotes /\ used.reopens <= MaxReopens /\ used.faults <= MaxFaults

LEMMA UsedKept ==
  ASSUME WTyped, UsedInv, [WNext]_wvars
  PROVE  UsedInv'
<1> USE RunAssumption DEF RunAssumption, UsedInv
<1>0. used \in [notes : Nat, reopens : Nat, faults : Nat]
  BY DEF WTyped
<1>1. CASE Outage \/ Stop \/ Kill
  <2>1. used.faults < MaxFaults /\ used' = [used EXCEPT !.faults = used.faults + 1]
    BY <1>1 DEF Outage, Stop, Kill
  <2> QED BY <1>0, <2>1
<1>2. CASE Nudge
  BY <1>0, <1>2 DEF Nudge
<1>3. CASE Reopen
  BY <1>0, <1>3 DEF Reopen
<1>4. CASE ~(Outage \/ Stop \/ Kill \/ Nudge \/ Reopen)
  <2>1. used' = used
    BY <1>4 DEF WNext, Hosting, Tell, FileNote, Unmark, Round, TakeNudge, SayNudge, SayTooBig, Return, Judge, Effort,
       Red, Green, Reflect, Harvest, Library, Report, Open, Turning, Same, wvars
  <2> QED BY <2>1
<1> QED BY <1>1, <1>2, <1>3, <1>4

\* The run keeps its type within the bounds of its configuration: the rounds
\* that fixed nothing, the rounds of the library, the efforts that were said,
\* the words that were heard.  The words counted are the notes and the asking
\* for the method, and the bounds leave the cap and the words their room.
THEOREM WorkerTypeOKHolds ==
  ASSUME Words \subseteq NoteFiles \cup {"reflect"}, Cap <= MaxTurns + 1,
         1 + MaxReopens <= MaxHeard, MaxReopens + MaxFaults <= MaxHeard,
         MaxNotes + MaxFaults <= MaxHeard
  PROVE  WorkerSpec => []WorkerTypeOK
<1>0. /\ MaxTurns \in Nat /\ MaxHeard \in Nat /\ MaxReadings \in Nat /\ MaxLibrary \in Nat
      /\ GateRounds \in Nat /\ MaxNotes \in Nat /\ MaxReopens \in Nat /\ MaxFaults \in Nat
  BY RunAssumption DEF RunAssumption
<1>1. WInit => RoundsInv /\ TurnsInv /\ UsedInv
  BY <1>0 DEF WInit, HostInit, NewRun, NoRound, InRound, RoundsInv, TurnsInv, UsedInv
<1>2. WTyped /\ RoundsInv /\ TurnsInv /\ UsedInv /\ [WNext]_wvars
        => RoundsInv' /\ TurnsInv' /\ UsedInv'
  BY RoundsKept, TurnsKept, UsedKept
<1>3. WorkerSpec => [](("reflect" \in Words) => ReflectedOnce)
  <2>1. CASE "reflect" \in Words
    <3>1. WorkerSpec => []ReflectedOnce
      BY <2>1, ReflectedOnceHolds
    <3> QED BY <3>1, PTL
  <2>2. CASE "reflect" \notin Words
    <3>1. ("reflect" \in Words) => ReflectedOnce
      BY <2>2
    <3> QED BY <3>1, PTL
  <2> QED BY <2>1, <2>2
<1>4. WTyped /\ RoundsInv /\ TurnsInv /\ UsedInv /\ PaidInv
        /\ (("reflect" \in Words) => ReflectedOnce) => WorkerTypeOK
  <2> SUFFICES ASSUME WTyped, RoundsInv, TurnsInv, UsedInv, PaidInv,
                      ("reflect" \in Words) => ReflectedOnce
               PROVE  WorkerTypeOK
    OBVIOUS
  <2>1. host \in Hosts
    BY <1>0 DEF WTyped, HostType, Hosts, NoRound, RoundsInv, TurnsInv
  <2>2. used \in [notes : 0..MaxNotes, reopens : 0..MaxReopens, faults : 0..MaxFaults]
    BY <1>0 DEF WTyped, UsedInv
  <2>3. heard \in [Words -> 0..MaxHeard]
    <3> SUFFICES ASSUME NEW w \in Words PROVE heard[w] \in 0..MaxHeard
      BY DEF WTyped
    <3>1. heard[w] \in Nat /\ used.notes \in Nat /\ used.reopens \in Nat /\ used.faults \in Nat
      BY DEF WTyped
    <3>2. CASE w = "reflect"
      BY <1>0, <3>1, <3>2 DEF ReflectedOnce, UsedInv
    <3>3. CASE w # "reflect"
      <4>1. w \in NoteFiles \cap Words
        BY <3>3
      <4>2. heard[w] + Waiting(w) <= Paid(w) /\ Waiting(w) \in Nat
        BY <4>1 DEF PaidInv, Waiting, One
      <4> QED BY <1>0, <3>1, <4>2 DEF Paid, UsedInv
    <3> QED BY <3>2, <3>3
  <2>4. turns \in 0..MaxTurns
    BY <1>0 DEF WTyped, TurnsInv
  <2> QED BY <2>1, <2>2, <2>3, <2>4 DEF WTyped, WorkerTypeOK, HostTypeOK, Reports
<1> QED BY <1>1, <1>2, <1>3, <1>4, Typed, NotesPaidHolds, PTL DEF WorkerSpec
=============================================================================
