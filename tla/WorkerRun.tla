----------------------------- MODULE WorkerRun -----------------------------
(***************************************************************************)
(* One work order's run (mizpah/worker.py, run_task and run_through_outages):*)
(* the host opens the session or resumes it, says what was left for the     *)
(* worker, runs it from effort boundary to effort boundary, judges it when  *)
(* it stops, asks a green one for its method and the library's repairs, and *)
(* reports.  The session is a HostSession.                                  *)
(*                                                                         *)
(* A gate's problems are counted: readings that are missing or do not hold  *)
(* (terra's gate and remeasure), and walks left unticked (open_checklists). *)
(* A note is a file beside the session: reopen.md and release.md from the   *)
(* controller, nudge.md from the person.                                    *)
(***************************************************************************)
EXTENDS HostSession

CONSTANTS Estimate, Cap, GateRounds,   \* turn_budget of the bucket, turn_cap, gate_rounds
          Bind,                        \* bind_mode: the project directory is the worker's own
          MaxReadings, MaxLibrary,
          MaxNotes, MaxReopens, MaxFaults

ASSUME RunAssumption ==
  /\ Estimate \in Nat \ {0} /\ Cap \in Nat \ {0} /\ GateRounds \in Nat \ {0}
  /\ Bind \in BOOLEAN
  /\ MaxReadings \in Nat /\ MaxLibrary \in Nat /\ MaxTurns \in Nat /\ MaxHeard \in Nat
  /\ MaxNotes \in Nat /\ MaxReopens \in Nat /\ MaxFaults \in Nat

VARIABLES copy,       \* the worker's copy: what its gate would say of it
          wrote,      \* the project, as last written back, and changed since
          staged,     \* history: a merge was staged in the project since it was judged
          file,       \* the notes
          reflected,  \* REFLECTED_MARK
          suspended,  \* the session's reviews
          host,       \* the run under way
          report,     \* result.json
          used        \* notes, reopenings and faults so far

session == <<view, turns, heard>>
wvars == <<view, turns, heard, copy, wrote, staged, file, reflected, suspended, host, report, used>>

Notes == <<"reopen", "release", "nudge">>
NoteFiles == {"reopen", "release", "nudge"}
Copies == [readings : 0..MaxReadings, ticks : 0..1, gaveUp : BOOLEAN]

Steps == {"down", "tell", "file", "unmark", "round", "running", "nudged", "oversized",
          "judge", "effort", "red", "green", "reflect", "harvest", "library", "report"}
\* What a round before that counted no problems is compared with.
NoRound == MaxReadings + 2
Hosts == [at : Steps, note : 1..3, stage : {"round", "reflect", "library"},
          until : 0..(MaxTurns + 1), status : {"none", "paused", "stopped", "complete"},
          overruns : 0..MaxTurns, last : 0..NoRound, stalled : 0..GateRounds,
          green : BOOLEAN, gaveUp : BOOLEAN,
          library : 0..MaxLibrary, stuck : 0..2]

NewRun == [at |-> "round", note |-> 1, stage |-> "round", until |-> 0, status |-> "none",
           overruns |-> 0, last |-> NoRound, stalled |-> 0, green |-> FALSE, gaveUp |-> FALSE,
           library |-> 0, stuck |-> 0]

WorkerTypeOK ==
  /\ HostTypeOK /\ copy \in Copies /\ wrote \in Copies
  /\ file \in [NoteFiles -> {"none", "here", "delivered"}]
  /\ staged \in BOOLEAN /\ reflected \in BOOLEAN /\ suspended \in BOOLEAN /\ host \in Hosts
  /\ report \in {"none", "complete", "blocked", "stopped", "incomplete"}
  /\ used \in [notes : 0..MaxNotes, reopens : 0..MaxReopens, faults : 0..MaxFaults]

Unread == [readings |-> MaxReadings, ticks |-> 0, gaveUp |-> FALSE]
WInit ==
  /\ HostInit /\ copy = Unread /\ wrote = Unread /\ staged = FALSE
  /\ file = [n \in NoteFiles |-> "none"] /\ reflected = FALSE /\ suspended = FALSE
  /\ host = NewRun /\ report = "none"
  /\ used = [notes |-> 0, reopens |-> 0, faults |-> 0]

----------------------------------------------------------------------------
Least(a, b) == IF a < b THEN a ELSE b
Most(a, b) == IF a < b THEN b ELSE a

At(step) == host.at = step
To(step) == host' = [host EXCEPT !.at = step]
Project == <<wrote, staged>>
Same == UNCHANGED <<copy, wrote, staged, file, reflected, suspended, report, used>>

\* _run_task on a root that holds a session: the last report is history, what
\* was pending is discarded, and the effort already spent is not said again.
Open ==
  /\ At("down") /\ report' = "none"
  /\ report = "complete" => file["reopen"] = "here"
  /\ report = "blocked" => file["release"] = "here"
  /\ \/ view = "busy" /\ Work
     \/ UNCHANGED session
  /\ host' = [NewRun EXCEPT !.at = "tell"]
  /\ UNCHANGED <<copy, Project, file, reflected, suspended, used>>

\* The notes, in their order: told where the session takes a word, and filed.
Told == IF host.note = 3 THEN [host EXCEPT !.at = "round", !.overruns = turns \div Estimate]
        ELSE [host EXCEPT !.at = "tell", !.note = @ + 1]
Tell ==
  /\ At("tell")
  /\ LET n == Notes[host.note]
     IN  \/ file[n] # "here" /\ host' = Told /\ UNCHANGED session
         \/ /\ file[n] = "here" /\ To("file")
            /\ \/ Continue(n)
               \/ Interject(n)
               \/ view = "busy" /\ UNCHANGED session
  /\ Same
FileNote ==
  /\ At("file")
  /\ file' = [file EXCEPT ![Notes[host.note]] = "delivered"]
  /\ IF Notes[host.note] = "reopen" THEN To("unmark") ELSE host' = Told
  /\ UNCHANGED <<session, copy, Project, reflected, suspended, report, used>>
\* A reopening is a round with a lesson of its own.
Unmark ==
  /\ At("unmark") /\ reflected' = FALSE /\ host' = Told
  /\ UNCHANGED <<session, copy, Project, file, suspended, report, used>>

----------------------------------------------------------------------------
\* The next burst, to the estimate's next multiple or the cap.
Burst(stage, until) == [host EXCEPT !.at = "running", !.stage = stage, !.until = until]
RoundUnstalled ==
  /\ At("round")
  /\ host' = IF turns >= Cap THEN [host EXCEPT !.at = "report"]
             ELSE Burst("round", Least(Cap, Most(turns + 1, Estimate * (host.overruns + 1))))
  /\ UNCHANGED session /\ Same
Round ==
  /\ At("round")
  /\ host' = IF host.stalled = GateRounds \/ turns >= Cap THEN [host EXCEPT !.at = "report"]
             ELSE Burst("round", Least(Cap, Most(turns + 1, Estimate * (host.overruns + 1))))
  /\ UNCHANGED session /\ Same

\* The readings' files in the project change under the readings.  In bind mode
\* the worker's calls act there; its state directories come with the write-back.
Changed == \E n \in 0..MaxReadings : wrote' = [wrote EXCEPT !.readings = n]
InPlace == (IF Bind THEN Changed ELSE UNCHANGED wrote) /\ UNCHANGED staged

\* session.run: a step of the session.
BurstOver == view = "complete" \/ (view = "worker" /\ turns >= host.until)
Nudged == file["nudge"] = "here" /\ view = "worker"
Turning ==
  /\ At("running") /\ ~BurstOver /\ ~Nudged
  /\ Work /\ turns' <= Most(turns, host.until)
  /\ IF turns' = turns THEN UNCHANGED copy ELSE copy' \in Copies
  /\ InPlace
  /\ UNCHANGED <<file, reflected, suspended, host, report, used>>

\* run_through_outages: a lost call is discarded and asked again, the rest of
\* the burst ahead of it; a paused worker whose reply was too big is told so.
AskedAgain == IF view' = "worker" THEN {"running", "oversized"} ELSE {"running"}
OutageFreshBurst ==
  /\ At("running") /\ view = "busy" /\ Work
  /\ used.faults < MaxFaults /\ used' = [used EXCEPT !.faults = @ + 1]
  /\ \E at \in AskedAgain : host' = [host EXCEPT !.until = turns' + Estimate, !.at = at]
  /\ IF turns' = turns THEN UNCHANGED copy ELSE copy' \in Copies
  /\ InPlace
  /\ UNCHANGED <<file, reflected, suspended, report>>
Outage ==
  /\ At("running") /\ view = "busy" /\ Work
  /\ used.faults < MaxFaults /\ used' = [used EXCEPT !.faults = @ + 1]
  /\ \E at \in AskedAgain : host' = [host EXCEPT !.until = Most(@, turns' + 1), !.at = at]
  /\ IF turns' = turns THEN UNCHANGED copy ELSE copy' \in Copies
  /\ InPlace
  /\ UNCHANGED <<file, reflected, suspended, report>>
SayTooBig == At("oversized") /\ Interject("oversized") /\ To("running") /\ Same

\* A nudge while it runs: filed, and then said.
TakeNudge ==
  /\ At("running") /\ Nudged /\ ~BurstOver /\ To("nudged")
  /\ file' = [file EXCEPT !["nudge"] = "delivered"]
  /\ UNCHANGED <<session, copy, Project, reflected, suspended, report, used>>
SayNudge == At("nudged") /\ Interject("nudge") /\ To("running") /\ Same

\* It returns complete or paused, or stopped by the operator's file.
Returns(status) ==
  /\ At("running")
  /\ host' = [host EXCEPT !.status = status,
                          !.at = IF host.stage = "round" THEN "judge" ELSE "harvest"]
  /\ UNCHANGED session
Return == BurstOver /\ Returns(IF view = "complete" THEN "complete" ELSE "paused") /\ Same
Stop ==
  /\ ~BurstOver /\ view = "worker" /\ Returns("stopped")
  /\ used.faults < MaxFaults /\ used' = [used EXCEPT !.faults = @ + 1]
  /\ UNCHANGED <<copy, Project, file, reflected, suspended, report>>

----------------------------------------------------------------------------
\* The worker's work is written back, and then what it came to is judged.
Problems == copy.readings + copy.ticks
StalledOnMore == IF Problems > host.last THEN host.stalled + 1 ELSE 0
Stalled == IF Problems >= host.last THEN host.stalled + 1 ELSE 0
Judge ==
  /\ At("judge") /\ wrote' = copy /\ staged' = FALSE
  /\ host' = IF copy.gaveUp THEN [host EXCEPT !.at = "report", !.gaveUp = TRUE]
             ELSE IF host.status = "stopped" THEN [host EXCEPT !.at = "report"]
             ELSE IF host.status = "paused"
             THEN [host EXCEPT !.overruns = @ + 1, !.last = NoRound,
                               !.at = IF turns >= Cap THEN "report" ELSE "effort"]
             ELSE [host EXCEPT !.stalled = Stalled, !.last = Problems, !.green = Problems = 0,
                               !.at = IF Problems = 0 THEN "green" ELSE "red"]
  /\ UNCHANGED <<session, copy, file, reflected, suspended, report, used>>

Effort == At("effort") /\ Interject("effort") /\ To("round") /\ Same

\* A red round: no reviewer when only walks are left unticked.
Red ==
  /\ At("red") /\ suspended' = (copy.readings = 0)
  /\ Continue("red") /\ To("round")
  /\ UNCHANGED <<copy, Project, file, reflected, report, used>>

\* Green: once in a while it is marked, and then said, that the method is owed.
GreenUnmarked ==
  /\ At("green") /\ suspended' = TRUE
  /\ To(IF reflected THEN "harvest" ELSE "reflect")
  /\ UNCHANGED <<session, copy, Project, file, reflected, report, used>>
Green ==
  /\ At("green") /\ suspended' = TRUE /\ reflected' = TRUE
  /\ To(IF reflected THEN "harvest" ELSE "reflect")
  /\ UNCHANGED <<session, copy, Project, file, report, used>>
Reflect ==
  /\ At("reflect") /\ Continue("reflect")
  /\ host' = Burst("reflect", Most(turns + 1, Cap)) /\ Same

\* harvest_widgets and harvest_playbook; the worker is asked back while each
\* second round fixes something.  A widget whose base moved is staged in the
\* project, its markers in the files both sides changed.  After the first
\* harvest what an artifact depends on is declared: stamped as it is by then.
Stamped == \E n \in 0..wrote.readings : wrote' = [wrote EXCEPT !.readings = n]
Stages(clash) ==
  IF clash THEN Changed /\ staged' = TRUE
  ELSE /\ UNCHANGED staged
       /\ IF host.stage = "library" THEN UNCHANGED wrote ELSE Stamped
HarvestAsksAnyone ==
  /\ At("harvest")
  /\ \E owed \in 0..MaxLibrary, clash \in BOOLEAN :
       /\ clash => owed > 0
       /\ Stages(clash)
       /\ host' = [host EXCEPT !.library = owed,
                     !.at = IF owed > 0 /\ turns < Cap THEN "library" ELSE "report"]
  /\ UNCHANGED <<session, copy, file, reflected, suspended, report, used>>
Harvest ==
  /\ At("harvest")
  /\ \E owed \in 0..MaxLibrary, clash \in BOOLEAN :
       LET again == host.stage = "library"
           stuck == IF again /\ owed >= host.library THEN host.stuck + 1 ELSE 0
       IN  /\ clash => owed > 0
           /\ Stages(clash)
           /\ host' = [host EXCEPT !.library = owed, !.stuck = stuck,
                         !.at = IF owed > 0 /\ stuck < 2 /\ host.status = "complete" /\ turns < Cap
                                THEN "library" ELSE "report"]
  /\ UNCHANGED <<session, copy, file, reflected, suspended, report, used>>
Library == At("library") /\ Continue("library") /\ host' = Burst("library", Cap) /\ Same

ReportWritesBack ==
  /\ At("report") /\ To("down") /\ wrote' = copy /\ UNCHANGED staged
  /\ report' = IF host.green THEN "complete" ELSE IF host.gaveUp THEN "blocked"
               ELSE IF host.status = "stopped" THEN "stopped" ELSE "incomplete"
  /\ UNCHANGED <<session, copy, file, reflected, suspended, used>>
Report ==
  /\ At("report") /\ To("down")
  /\ report' = IF host.green THEN "complete" ELSE IF host.gaveUp THEN "blocked"
               ELSE IF host.status = "stopped" THEN "stopped" ELSE "incomplete"
  /\ UNCHANGED <<session, copy, Project, file, reflected, suspended, used>>

----------------------------------------------------------------------------
\* The process dies between two steps; a call of the session may be torn.
Kill ==
  /\ ~At("down") /\ To("down")
  /\ used.faults < MaxFaults /\ used' = [used EXCEPT !.faults = @ + 1]
  /\ UNCHANGED <<turns, heard>>
  /\ view' \in IF view = "complete" THEN {view} ELSE {"worker", "busy"}
  /\ UNCHANGED <<copy, Project, file, reflected, suspended, report>>

\* The person and the controller leave a note.
Nudge ==
  /\ file["nudge"] # "here" /\ file' = [file EXCEPT !["nudge"] = "here"]
  /\ used.notes < MaxNotes /\ used' = [used EXCEPT !.notes = @ + 1]
  /\ UNCHANGED <<session, copy, Project, reflected, suspended, host, report>>
Reopen ==
  /\ At("down")
  /\ \/ report = "complete" /\ file' = [file EXCEPT !["reopen"] = "here"]
     \/ report = "blocked" /\ file' = [file EXCEPT !["release"] = "here"]
  /\ used.reopens < MaxReopens /\ used' = [used EXCEPT !.reopens = @ + 1]
  /\ UNCHANGED <<session, copy, Project, reflected, suspended, host, report>>

Hosting == Tell \/ FileNote \/ Unmark \/ Round \/ TakeNudge \/ SayNudge \/ SayTooBig \/ Return
             \/ Judge \/ Effort \/ Red \/ Green \/ Reflect \/ Harvest \/ Library \/ Report
WNext == Hosting \/ Open \/ Turning \/ Outage \/ Stop \/ Kill \/ Nudge \/ Reopen

\* The host goes on, a session that runs ends its turns and comes to a boundary.
WFairness ==
  /\ WF_wvars(Hosting)
  /\ WF_wvars(Turning /\ turns' > turns)
  /\ WF_wvars(Turning /\ view' # "busy")

WorkerSpec == WInit /\ [][WNext]_wvars /\ WFairness

----------------------------------------------------------------------------
\* The host only speaks where the session takes a word: to a finished one when
\* it asks for more, to a paused one when it puts a word in.
SaysAreTaken ==
  /\ host.at \in {"red", "reflect", "library"} => view = "complete"
  /\ host.at \in {"effort", "nudged", "oversized"} => view = "worker"

\* A work order reported complete left the project as its gate judged it green,
\* whatever the worker did in the rounds after.  It is not so in bind mode, nor
\* where the harvest staged a merge.
Clean == [readings |-> 0, ticks |-> 0, gaveUp |-> FALSE]
GreenStands == report = "complete" => wrote = Clean

\* What holds of it: in snapshot mode nothing but a merge that the harvest
\* stages comes between the verdict and the report, over any rounds after
\* green, outages and kills.
GreenKept == report = "complete" /\ ~Bind /\ ~staged => wrote = Clean

\* The method is asked for once per green and reopening, however often the run
\* is killed and resumed.
ReflectedOnce == heard["reflect"] <= 1 + used.reopens

\* No burst passes the effort boundary that is owed next, whatever outages and
\* resumptions came before.
EffortOnTime ==
  At("running") /\ host.stage = "round" =>
    host.until <= Most(turns + 1, Estimate * (host.overruns + 1))

\* A run comes to its report, or dies: its rounds are bounded.
RunEnds == ~At("down") ~> At("down")

\* A note that was filed as delivered was heard.
NoteHeard == \A n \in NoteFiles : file[n] = "delivered" => heard[n] > 0

\* The round of a work order that was reopened is reviewed: the suspension was
\* for what was left after green.
ReopenedIsReviewed ==
  [][FileNote /\ Notes[host.note] = "reopen" => ~suspended']_wvars
=============================================================================
