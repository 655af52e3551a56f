---------------------------- MODULE HostSession ----------------------------
(***************************************************************************)
(* What a session promises the host that drives it (harness FocusedSession  *)
(* as mizpah's worker.py uses it): it works until it is complete, a turn at *)
(* a time and never a turn back; complete, it stays so until the host says  *)
(* something; a paused one takes a word too; what it heard, it heard.       *)
(***************************************************************************)
EXTENDS Naturals

CONSTANTS Words,      \* the host's words that are counted
          MaxTurns, MaxHeard

VARIABLES view,   \* paused at a worker boundary, busy, or complete
          turns,  \* completed_worker_turns
          heard   \* word -> how often it was heard

Views == {"worker", "busy", "complete"}

HostTypeOK == view \in Views /\ turns \in 0..MaxTurns /\ heard \in [Words -> 0..MaxHeard]

HostInit == view = "worker" /\ turns = 0 /\ heard = [w \in Words |-> 0]

\* run, a step of it; also an error, a kill or a discarded call.
Work == /\ view # "complete" /\ view' \in Views
        /\ turns' \in {turns, turns + 1} /\ turns' <= MaxTurns
        /\ UNCHANGED heard

Hears(w) == /\ view' = "worker" /\ UNCHANGED turns
            /\ IF w \in Words THEN heard' = [heard EXCEPT ![w] = @ + 1] ELSE UNCHANGED heard

\* continue_with and interject refuse a session that is not where they need it.
Continue(w) == view = "complete" /\ Hears(w)
Interject(w) == view = "worker" /\ Hears(w)

HostNext == Work \/ \E w \in Words : Continue(w) \/ Interject(w)

HostSpec == HostInit /\ [][HostNext]_<<view, turns, heard>>
=============================================================================
