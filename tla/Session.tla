------------------------------ MODULE Session ------------------------------
(***************************************************************************)
(* A worker's session (harness FocusedSession, focused_agent_session.py): a *)
(* conversation with a model, the tool calls it makes on a workspace, the   *)
(* reviewer that looks over it, and the checkpoint a killed process resumes *)
(* from.  `s` is the state in memory and `saved` the committed one.  A save *)
(* is deferred inside a turn; it is committed before every model call and   *)
(* every shell command, at the end of a turn and on every word of the host. *)
(*                                                                         *)
(* A call is an id and the response it came in.  In snapshot mode the tree  *)
(* the calls act on is part of the state and goes back with it; in bind     *)
(* mode it is the project directory itself (`dir`), which does not.  A tree *)
(* is named by its content; `snaps` are those on disk, pruned as turns end. *)
(* A window is `filled` once it holds more than its base: whether it is at  *)
(* its threshold or its capacity is left to chance from then on.            *)
(* Left out: the context capacity block, and the reviewer with tools (the   *)
(* worker's reviewer is the plain one).                                     *)
(***************************************************************************)
EXTENDS Naturals, Sequences

CONSTANTS Bind,                 \* bind mode, or snapshots
          Reviewer,             \* a reviewer is bound
          Bootstrap, Interval,  \* its cadence, in turns
          Corrections,          \* maximum_completion_corrections
          Retries,              \* maximum_generation_retries
          Notes,                \* what the host may say
          MaxTurns, MaxCalls, MaxAsked, MaxFaults

ASSUME SessionAssumption ==
  /\ Bind \in BOOLEAN /\ Reviewer \in BOOLEAN
  /\ Bootstrap \in Nat /\ Interval \in Nat \ {0}
  /\ Corrections \in Nat /\ Retries \in Nat
  /\ MaxTurns \in Nat /\ MaxCalls \in Nat /\ MaxAsked \in Nat /\ MaxFaults \in Nat

VARIABLES proc,    \* no process, one at a boundary, one with a call under way
          s, saved,
          dir,     \* the bound directory: how often each call acted on it
          snaps,   \* the snapshots on disk
          asked,   \* responses accepted so far, ever
          faults   \* kills and failed operations so far

svars == <<proc, s, saved, dir, snaps, asked, faults>>

Calls == (1..MaxAsked) \X (1..MaxCalls)
Tree == [Calls -> 0..2]
Untouched == [c \in Calls |-> 0]

Purposes == {"worker", "handoff", "review"}

\* The calls of the turn under way, those that are file tools among them.
Batch == [ids : UNION {[1..n -> Calls] : n \in 0..MaxCalls}, files : SUBSET Calls,
          claims : BOOLEAN]
NoBatch == [ids |-> <<>>, files |-> {}, claims |-> FALSE]

State ==
  [phase : {"worker", "tools", "handoff", "review", "complete"},
   pending : Purposes \cup {"none", "tool"},
   turns : 0..MaxTurns,
   batch : Batch, results : 0..MaxCalls,
   told : SUBSET (Calls \X {"ok", "error"}),
   tree : Tree,
   final : BOOLEAN,                            \* proposed_final
   heard : SUBSET Notes,
   filled : BOOLEAN, rollover : BOOLEAN,       \* the window
   reflect : {"no", "on", "spent"},
   rejected : [Purposes -> 0..(Retries + 1)], blocked : BOOLEAN,
   suspended : BOOLEAN,                        \* reviews_suspended
   looks : 0..2,                               \* model_calls of the review, 2 or more
   lastReview : 0..MaxTurns, spent : 0..Corrections]

SessionTypeOK ==
  /\ proc \in {"down", "ready", "calling"} /\ s \in State /\ saved \in State
  /\ dir \in Tree /\ snaps \subseteq Tree /\ asked \in 0..MaxAsked /\ faults \in 0..MaxFaults

New ==
  [phase |-> "worker", pending |-> "none", turns |-> 0, batch |-> NoBatch, results |-> 0,
   told |-> {}, tree |-> Untouched, final |-> FALSE, heard |-> {}, filled |-> FALSE,
   rollover |-> FALSE, reflect |-> "no", rejected |-> [p \in Purposes |-> 0],
   blocked |-> FALSE, suspended |-> FALSE, looks |-> 0, lastReview |-> 0, spent |-> 0]

Init == /\ proc = "ready" /\ s = New /\ saved = New
        /\ dir = Untouched /\ snaps = {Untouched} /\ asked = 0 /\ faults = 0

----------------------------------------------------------------------------
\* _save: committed, or deferred to the next commit.
Commit(t) == s' = t /\ saved' = t
Defer(t) == s' = t /\ UNCHANGED saved
Go(t, commit) == IF commit THEN Commit(t) ELSE Defer(t)

\* A step starts at a resolved boundary.
At(phase) == proc = "ready" /\ s.phase = phase /\ s.pending = "none" /\ ~s.blocked

Look(n) == IF n = 2 THEN n ELSE n + 1
Answered == proc = "calling" /\ proc' = "ready"

Touch(tree, c) == [tree EXCEPT ![c] = IF @ = 2 THEN 2 ELSE @ + 1]

Due(turns, last) ==
  turns >= Bootstrap /\ last < turns /\ (turns - Bootstrap) % Interval = 0

\* _finish_turn: a claim inside a reflection only ends the reflection.
FinishTurn(t) ==
  LET claimed == t.final \/ t.batch.claims
      final == claimed /\ t.reflect = "no"
      review == Reviewer /\ ~t.suspended /\ (Due(t.turns + 1, t.lastReview) \/ final)
  IN  [t EXCEPT !.turns = @ + 1, !.final = final, !.batch = NoBatch, !.results = 0,
                !.reflect = IF claimed /\ @ = "on" THEN "spent" ELSE @,
                !.phase = IF review THEN "review" ELSE IF final THEN "complete" ELSE "worker"]

\* _finish_turn drops the snapshots neither the state nor the committed one
\* refers to, before the turn is committed.
KeptOnlyNew(put, tree) == put \cap {tree}
Kept(put, tree) == put \cap {tree, saved.tree}

\* A result is told; the turn ends with the last one.  A call repeated too
\* often asks for a new window.
Told(t, outcome, again) ==
  LET c == t.batch.ids[t.results + 1]
      u == [t EXCEPT !.told = @ \cup {<<c, outcome>>}, !.results = @ + 1, !.pending = "none",
                     !.rollover = @ \/ again]
  IN  IF u.results = Len(t.batch.ids) THEN FinishTurn(u) ELSE u

----------------------------------------------------------------------------
\* _worker: a requested rollover, a window that is full, a reflection that is
\* over; the window is handed off.  A full one asks for a reflection first,
\* where the policy has one; it runs on until its buffer is full too.
ToHandoff ==
  /\ At("worker") /\ (s.reflect = "spent" \/ s.filled)
  /\ Defer([s EXCEPT !.phase = "handoff",
                     !.rollover = @ /\ ~s.filled,
                     !.reflect = IF s.rollover /\ s.filled THEN @ ELSE "no"])
  /\ UNCHANGED <<proc, dir, snaps, asked, faults>>

\* _complete: the call is pending, and committed, before it is made.  A window
\* at its threshold first asks the worker to reflect.
AskWorker ==
  /\ At("worker") /\ s.turns < MaxTurns /\ asked < MaxAsked
  /\ ~(s.rollover /\ s.filled) /\ s.reflect # "spent"
  /\ \E reflect \in {s.reflect} \cup (IF s.filled /\ ~s.suspended THEN {"on"} ELSE {}) :
       Commit([s EXCEPT !.pending = "worker", !.reflect = reflect])
  /\ proc' = "calling"
  /\ UNCHANGED <<dir, snaps, asked, faults>>

AskOther ==
  /\ \E p \in {"handoff", "review"} : At(p) /\ Commit([s EXCEPT !.pending = p])
  /\ proc' = "calling"
  /\ UNCHANGED <<dir, snaps, asked, faults>>

\* _worker, the response: its calls wait for the tools, or it is the claim.
Accept ==
  /\ Answered /\ s.pending = "worker"
  /\ asked' = asked + 1
  /\ \E n \in 0..MaxCalls : \E files \in SUBSET (1..n), claims \in BOOLEAN :
       LET id(i) == <<asked + 1, i>>
           t == [s EXCEPT !.pending = "none", !.filled = TRUE, !.rejected["worker"] = 0,
                   !.final = n = 0,
                   !.batch = [ids |-> [i \in 1..n |-> id(i)],
                              files |-> {id(i) : i \in files}, claims |-> n # 0 /\ claims]]
       IN  /\ Go(IF n = 0 THEN FinishTurn(t) ELSE [t EXCEPT !.phase = "tools"], n = 0)
           /\ snaps' = IF n = 0 THEN Kept(snaps, t.tree) ELSE snaps
  /\ UNCHANGED <<dir, faults>>

\* _reject_generation: a response cancelled for its repetition, or empty.
Reject ==
  /\ Answered /\ s.pending \in Purposes
  /\ LET n == s.rejected[s.pending] + 1
     IN  Commit([s EXCEPT !.pending = "none", !.rejected[s.pending] = n,
                          !.rollover = @ \/ (s.pending = "worker" /\ n \in 2..Retries /\ s.filled),
                          !.looks = IF s.pending = "review" THEN Look(@) ELSE @,
                          !.blocked = n > Retries])
  /\ UNCHANGED <<dir, snaps, asked, faults>>

\* _handoff: the next window starts from what this one leaves.  The archive of
\* the old one, put beside the worker's files, touches none of them.
HandedOff ==
  /\ Answered /\ s.pending = "handoff"
  /\ Defer([s EXCEPT !.phase = "worker", !.pending = "none", !.filled = FALSE,
                     !.rejected = [@ EXCEPT !["worker"] = 0, !["handoff"] = 0]])
  /\ UNCHANGED <<dir, snaps, asked, faults>>

----------------------------------------------------------------------------
\* _tool.  A file tool acts at once, or is refused; its turn's end commits it.
NextCall == s.batch.ids[s.results + 1]
Ends == s.results + 1 = Len(s.batch.ids)
Acted(t) == IF Bind THEN t ELSE [t EXCEPT !.tree = Touch(@, NextCall)]
ActsOn == dir' = IF Bind THEN Touch(dir, NextCall) ELSE dir

Put(t) == LET put == snaps \cup {t.tree}
          IN  snaps' = IF Ends THEN Kept(put, t.tree) ELSE put

FileTool ==
  /\ At("tools") /\ NextCall \in s.batch.files
  /\ \E again \in BOOLEAN :
       \/ Go(Told(Acted(s), "ok", again), Ends) /\ Put(Acted(s)) /\ ActsOn
       \/ Go(Told(s, "error", again), Ends) /\ Put(s) /\ UNCHANGED dir
  /\ UNCHANGED <<proc, asked, faults>>

\* A shell command is pending, and committed, before it runs.
ShellStart ==
  /\ At("tools") /\ NextCall \notin s.batch.files
  /\ Commit([s EXCEPT !.pending = "tool"])
  /\ proc' = "calling"
  /\ UNCHANGED <<dir, snaps, asked, faults>>

ShellEndSavesTree ==
  /\ Answered /\ s.pending = "tool"
  /\ s' = Told(Acted(s), "ok", FALSE)
  /\ saved' = IF Ends THEN s' ELSE [saved EXCEPT !.tree = Acted(s).tree]
  /\ Put(Acted(s)) /\ ActsOn
  /\ UNCHANGED <<asked, faults>>
ShellEnd ==
  /\ Answered /\ s.pending = "tool"
  /\ \E again \in BOOLEAN : Go(Told(Acted(s), "ok", again), Ends)
  /\ Put(Acted(s)) /\ ActsOn
  /\ UNCHANGED <<asked, faults>>

----------------------------------------------------------------------------
\* _plain_review: the decision.  The second malformed one holds; a correction
\* of a claim past the budget is dropped, and the claim stands.
Decided(t, replaced) ==
  [t EXCEPT !.pending = "none", !.looks = 0, !.lastReview = t.turns,
            !.rejected["review"] = 0,
            !.phase = IF t.final /\ ~replaced THEN "complete" ELSE "worker",
            !.final = @ /\ ~replaced,
            !.spent = IF t.final /\ replaced THEN @ + 1 ELSE @]
DecideUnbudgeted ==
  /\ Answered /\ s.pending = "review"
  /\ \/ \E replace \in BOOLEAN :
          Commit(Decided(s, replace))
     \/ s.looks = 0 /\ Commit([s EXCEPT !.pending = "none", !.looks = Look(@),
                                         !.rejected["review"] = 0])
     \/ s.looks > 0 /\ Commit(Decided(s, FALSE))
  /\ UNCHANGED <<dir, snaps, asked, faults>>
Decide ==
  /\ Answered /\ s.pending = "review"
  /\ \/ \E replace \in BOOLEAN :
          Commit(Decided(s, replace /\ (s.final => s.spent < Corrections)))
     \/ s.looks = 0 /\ Commit([s EXCEPT !.pending = "none", !.looks = Look(@),
                                         !.rejected["review"] = 0])
     \/ s.looks > 0 /\ Commit(Decided(s, FALSE))
  /\ UNCHANGED <<dir, snaps, asked, faults>>

----------------------------------------------------------------------------
\* The host's words: continue_with a finished session, interject in a paused
\* one.
SayDeferred(n) ==
  /\ proc = "ready" /\ n \notin s.heard
  /\ s.pending = "none" /\ s.phase \in {"complete", "worker"}
  /\ Defer([s EXCEPT !.heard = @ \cup {n}, !.phase = "worker", !.final = FALSE, !.filled = TRUE])
  /\ UNCHANGED <<proc, dir, snaps, asked, faults>>
Say(n) ==
  /\ proc = "ready" /\ n \notin s.heard
  /\ s.pending = "none" /\ s.phase \in {"complete", "worker"}
  /\ Commit([s EXCEPT !.heard = @ \cup {n}, !.phase = "worker", !.final = FALSE, !.filled = TRUE])
  /\ UNCHANGED <<proc, dir, snaps, asked, faults>>

\* suspend_reviews and resume_reviews, between rounds.
SetReviews ==
  /\ proc = "ready" /\ s.phase = "complete"
  /\ Commit([s EXCEPT !.suspended = ~@])
  /\ UNCHANGED <<proc, dir, snaps, asked, faults>>

\* discard_pending: a torn command is answered, never run again.
Discard ==
  /\ proc = "ready" /\ s.pending # "none"
  /\ IF s.pending = "tool"
     THEN Commit(Told(s, "error", FALSE)) /\ Put(s)
     ELSE Commit([s EXCEPT !.pending = "none"]) /\ UNCHANGED snaps
  /\ UNCHANGED <<proc, dir, asked, faults>>

\* reset_generation_block
ResetBlock ==
  /\ proc = "ready" /\ s.blocked
  /\ Commit([s EXCEPT !.blocked = FALSE, !.rejected = [p \in Purposes |-> 0], !.rollover = @ \/ s.filled])
  /\ UNCHANGED <<proc, dir, snaps, asked, faults>>

\* run, leaving the session at a boundary: what was deferred is committed.
Pause ==
  /\ At("worker") /\ saved # s /\ Commit(s)
  /\ UNCHANGED <<proc, dir, snaps, asked, faults>>

----------------------------------------------------------------------------
\* A fault: an outage, an interrupted command, an answer nothing can be made
\* of, a kill.  The command may have run, a turn that was ending may have
\* pruned.  What was in memory is gone.
Fault == faults < MaxFaults /\ faults' = faults + 1
Torn == \/ UNCHANGED <<dir, snaps>>
        \/ proc = "calling" /\ s.pending = "tool" /\ ActsOn /\ Put(Acted(s))
        \/ At("tools") /\ NextCall \in s.batch.files /\ ActsOn /\ Put(Acted(s))

\* _step: an error restores the committed state, its pending call with it.
Fails ==
  /\ Fault /\ proc # "down" /\ Torn
  /\ s' = saved /\ proc' = "ready" /\ UNCHANGED <<saved, asked>>

Kill ==
  /\ Fault /\ proc # "down" /\ Torn
  /\ proc' = "down" /\ s' = saved
  /\ UNCHANGED <<saved, asked>>

\* open: from the committed state, and what it has pending is discarded by
\* whoever opens it.
Open ==
  /\ proc = "down" /\ proc' = "ready" /\ s' = saved
  /\ UNCHANGED <<saved, dir, snaps, asked, faults>>

Turning == ToHandoff \/ AskWorker \/ AskOther \/ Accept \/ HandedOff \/ FileTool
             \/ ShellStart \/ ShellEnd \/ Decide
Recovering == Discard \/ Open

Next ==
  \/ Turning \/ Recovering \/ Reject \/ SetReviews \/ ResetBlock \/ Pause
  \/ (\E n \in Notes : Say(n)) \/ Fails \/ Kill

Spec == Init /\ [][Next]_svars

----------------------------------------------------------------------------
Effects(t) == IF Bind THEN dir ELSE t.tree

\* No call acts twice on the tree the worker has.
NothingReplayed == \A c \in Calls : Effects(s)[c] < 2

\* What the worker was told of a call is what its tree shows.
ToldIsTrue ==
  \A t \in {s, saved} : \A c \in Calls :
    /\ <<c, "ok">> \in t.told => Effects(t)[c] = 1
    /\ <<c, "error">> \in t.told => Effects(t)[c] = 0

\* The committed state can be restored: its snapshot is on disk.
SnapshotKept == ~Bind => saved.tree \in snaps

\* A window that was never asked to reflect is not taken to be reflecting.
ReflectsWhereAsked == s.reflect # "no" => s.filled

\* What the host sees of it.
View == IF s.phase = "complete" THEN "complete"
        ELSE IF s.phase = "worker" /\ s.pending = "none" THEN "worker" ELSE "busy"

Host == INSTANCE HostSession WITH
          Words <- Notes, MaxHeard <- 1, view <- View, turns <- s.turns,
          heard <- [n \in Notes |-> IF n \in s.heard THEN 1 ELSE 0]

\* The session keeps what it promises its host, wherever a kill falls.
ServesHost == Host!HostSpec
=============================================================================
