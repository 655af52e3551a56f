------------------------------- MODULE Brief -------------------------------
(***************************************************************************)
(* Change control of the brief (engine/terra/src/terra/brief.py).  Entries  *)
(* of a section (needs, deliverables, non-goals; one section stands for     *)
(* each) are cited by position: phases own positions, the map's unknowns    *)
(* cite positions in their notes, and proposals edit or remove a position.  *)
(* Removing an entry therefore renumbers phases and notes, and the notes    *)
(* are files of their own, rewritten one by one before the brief is saved.  *)
(*                                                                         *)
(* Entries are identities, so that "the same entry" has a meaning when its  *)
(* position moves; about and claimed remember identities the files do not   *)
(* keep, moved, strays and adrift what became of the asks and notes.        *)
(***************************************************************************)
EXTENDS Naturals, FiniteSets, Sequences, SequencesExt

CONSTANTS Entries,    \* every entry the section may ever hold
          Phases, Unknowns,
          Texts,      \* new texts an edit may propose
          Start,      \* the section as the brief was signed
          MaxAsks,    \* bound: proposals ever queued
          MaxRefs,    \* bound: proposals, notes and phases that name positions
          Upsets      \* what may go wrong, a subset of AllUpsets

AllUpsets == {"refuse",    \* brief set is refused after renumbering
              "crash"}     \* the process ends between two file writes

ASSUME BriefAssumption ==
  /\ IsFiniteSet(Entries) /\ Entries # {}
  /\ Start \in Seq(Entries) /\ IsInjective(Start)
  /\ MaxAsks \in Nat /\ MaxRefs \in Nat /\ Upsets \subseteq AllUpsets

VARIABLES needs,    \* the section
          owned,    \* phase -> positions it owns
          cite,     \* unknown -> position its note cites; Uncited, Gone
          asks,     \* the proposals, in the order they were queued
          write,    \* the removal being written, or Idle
          about, claimed,  \* the entry a note, those a phase was about
          moved,    \* asks that stood open while another removal moved or
                    \* took the entry at their position
          strays,   \* asks that were carried out on another entry
          adrift    \* notes rewritten for a removal that was never saved

bvars == <<needs, owned, cite, asks, write, about, claimed, moved, strays, adrift>>

Uncited == 0
Gone == Cardinality(Entries) + 1      \* the citation reads "need:removed"
Positions == 1..Cardinality(Entries)
Idle == [on |-> FALSE, drop |-> {}, todo |-> {}, ask |-> 0]

Ask == [state : {"open", "accepted", "rejected"}, kind : {"edit", "remove"},
        at : Positions, text : Texts, meant : Entries]

TypeOK ==
  /\ needs \in Seq(Entries) /\ IsInjective(needs)
  /\ owned \in [Phases -> SUBSET Positions]
  /\ cite \in [Unknowns -> Positions \cup {Uncited, Gone}]
  /\ asks \in Seq(Ask)
  /\ write \in [on : BOOLEAN, drop : SUBSET Positions,
                todo : SUBSET Unknowns, ask : 0..MaxAsks]
  /\ about \in [Unknowns -> Entries] /\ claimed \in [Phases -> SUBSET Entries]
  /\ moved \subseteq 1..MaxAsks /\ strays \subseteq 1..MaxAsks
  /\ adrift \subseteq Unknowns

Init ==
  /\ needs = Start
  /\ owned = [p \in Phases |-> {}] /\ claimed = [p \in Phases |-> {}]
  /\ cite = [u \in Unknowns |-> Uncited]
  /\ about = [u \in Unknowns |-> CHOOSE e \in Entries : TRUE]
  /\ asks = <<>> /\ write = Idle
  /\ moved = {} /\ strays = {} /\ adrift = {}

Open(i) == asks[i].state = "open"

----------------------------------------------------------------------------
\* _renumber_after_removal for one removed position: what sat below moves up.
ShiftNeighbour(n, r) == IF n > r THEN n - 1 ELSE n
Shift(n, r) == IF n = r THEN Gone ELSE IF n > r /\ n # Gone THEN n - 1 ELSE n

\* Several removals are renumbered highest position first: last, the lowest.
LastIsHighest(D) == Max(D)
LastRemoved(D) == Min(D)
ShiftAll(n, D) == MapThenFoldSet(LAMBDA r, m : Shift(m, r), n, LAMBDA r : r, LastRemoved, D)
Remaining(seq, D) == MapThenFoldSet(LAMBDA r, rest : RemoveAt(rest, r), seq, LAMBDA r : r, Min, D)

\* same_ask: the same change at the same position, with the same text.
SameAskNone(i, j) == i = j
SameAsk(i, j) == /\ asks[i].kind = asks[j].kind /\ asks[i].at = asks[j].at
                 /\ asks[i].kind = "edit" => asks[i].text = asks[j].text

\* Deciding ask i decides every open ask that asks the same (_fold).
Decided(i, verdict) ==
  [j \in DOMAIN asks |->
     IF Open(j) /\ SameAsk(i, j) THEN [asks[j] EXCEPT !.state = verdict]
     ELSE asks[j]]

\* Carrying out ask i now hits another entry than the one it was made for.
Astray(i) == needs[asks[i].at] # asks[i].meant

\* The open asks whose entry the removal being written moves or takes, but for
\* those that ask for this very removal.
Displaced ==
  {i \in DOMAIN asks :
     /\ Open(i) /\ \E r \in write.drop : r <= asks[i].at
     /\ ~(write.ask # 0 /\ asks[i].kind = "remove" /\ {asks[i].at} = write.drop)}

\* The notes that were rewritten for the removal under way.
Rewritten == {u \in Unknowns \ write.todo : cite[u] # Uncited}

\* Bound on the model: what names positions.
Room == Len(asks) + Cardinality({p \in Phases : claimed[p] # {}})
          + Cardinality({u \in Unknowns : cite[u] # Uncited}) < MaxRefs

----------------------------------------------------------------------------
\* propose_change with --edit-* or --remove-*
Propose(kind, n, text) ==
  /\ ~write.on
  /\ Len(asks) < MaxAsks /\ Room
  /\ n \in DOMAIN needs
  /\ LET ask == [state |-> "open", kind |-> kind, at |-> n, text |-> text,
                 meant |-> needs[n]]
     IN  asks' = Append(asks, ask)
  /\ UNCHANGED <<needs, owned, cite, write, about, claimed, moved, strays, adrift>>

\* accept_proposal of an edit: the entry now at the position is rewritten.
AcceptEdit(i) ==
  /\ ~write.on /\ Open(i) /\ asks[i].kind = "edit"
  /\ asks[i].at \in DOMAIN needs
  /\ strays' = strays \cup {j \in {i} : Astray(j)}
  /\ asks' = Decided(i, "accepted")
  /\ UNCHANGED <<needs, owned, cite, write, about, claimed, moved, adrift>>

\* accept_proposal of a removal up to the renumbering of the notes.
AcceptRemove(i) ==
  /\ ~write.on /\ Open(i) /\ asks[i].kind = "remove"
  /\ asks[i].at \in DOMAIN needs
  /\ write' = [on |-> TRUE, drop |-> {asks[i].at}, ask |-> i,
               todo |-> {u \in Unknowns : cite[u] # Uncited}]
  /\ UNCHANGED <<needs, owned, cite, asks, about, claimed, moved, strays, adrift>>

\* set_brief_fields with a list that drops the positions D.
DropEntries(D) ==
  /\ ~write.on
  /\ D # {} /\ D \subseteq DOMAIN needs
  /\ write' = [on |-> TRUE, drop |-> D, ask |-> 0,
               todo |-> {u \in Unknowns : cite[u] # Uncited}]
  /\ UNCHANGED <<needs, owned, cite, asks, about, claimed, moved, strays, adrift>>

\* One unknown's file is rewritten.
RewriteNote(u) ==
  /\ write.on /\ u \in write.todo
  /\ cite' = [cite EXCEPT ![u] = ShiftAll(@, write.drop)]
  /\ write' = [write EXCEPT !.todo = @ \ {u}]
  /\ UNCHANGED <<needs, owned, asks, about, claimed, moved, strays, adrift>>

\* save_brief with the entries gone and the phases renumbered.
SaveRemoval ==
  /\ write.on /\ write.todo = {}
  /\ needs' = Remaining(needs, write.drop)
  /\ owned' = [p \in Phases |-> {ShiftAll(n, write.drop) :
                                   n \in owned[p] \ write.drop}]
  /\ IF write.ask = 0 THEN UNCHANGED <<asks, strays>>
     ELSE /\ asks' = Decided(write.ask, "accepted")
          /\ strays' = strays \cup {j \in {write.ask} : Astray(j)}
  /\ moved' = moved \cup Displaced
  /\ write' = Idle
  /\ UNCHANGED <<cite, about, claimed, adrift>>

\* brief set refuses a budget below the plan, after the notes were renumbered.
RefuseBudget ==
  /\ "refuse" \in Upsets
  /\ write.on /\ write.todo = {} /\ write.ask = 0
  /\ write' = Idle /\ adrift' = adrift \cup Rewritten
  /\ UNCHANGED <<needs, owned, cite, asks, about, claimed, moved, strays>>

Crash ==
  /\ "crash" \in Upsets /\ write.on
  /\ write' = Idle /\ adrift' = adrift \cup Rewritten
  /\ UNCHANGED <<needs, owned, cite, asks, about, claimed, moved, strays>>

\* reject_proposal
Reject(i) ==
  /\ ~write.on /\ Open(i)
  /\ asks' = Decided(i, "rejected")
  /\ UNCHANGED <<needs, owned, cite, write, about, claimed, moved, strays, adrift>>

\* brief set --need (no replacement): appended unless it is there.
NewAlways(e) == TRUE
New(e) == e \notin ToSet(needs)
AddEntry(e) ==
  /\ ~write.on
  /\ New(e)
  /\ needs' = Append(needs, e)
  /\ UNCHANGED <<owned, cite, asks, write, about, claimed, moved, strays, adrift>>

\* The positions another phase holds already (add_phase).
TakenNone == {}
Taken == UNION {owned[p] : p \in Phases}

\* add_phase: a phase claims entries that no other phase has.
AddPhase(p, S) ==
  /\ ~write.on
  /\ owned[p] = {} /\ claimed[p] = {} /\ Room
  /\ S # {} /\ S \subseteq DOMAIN needs
  /\ S \cap Taken = {}
  /\ owned' = [owned EXCEPT ![p] = S]
  /\ claimed' = [claimed EXCEPT ![p] = {needs[n] : n \in S}]
  /\ UNCHANGED <<needs, cite, asks, write, about, moved, strays, adrift>>

\* The controller mints an unknown whose note cites position n.
Cite(u, n) ==
  /\ ~write.on
  /\ cite[u] = Uncited /\ n \in DOMAIN needs /\ Room
  /\ cite' = [cite EXCEPT ![u] = n]
  /\ about' = [about EXCEPT ![u] = needs[n]]
  /\ UNCHANGED <<needs, owned, asks, write, claimed, moved, strays, adrift>>

Next ==
  \/ \E n \in Positions, text \in Texts :
        Propose("edit", n, text) \/ Propose("remove", n, text)
  \/ \E i \in DOMAIN asks : AcceptEdit(i) \/ AcceptRemove(i) \/ Reject(i)
  \/ \E D \in SUBSET Positions : DropEntries(D)
  \/ \E u \in Unknowns : RewriteNote(u) \/ \E n \in Positions : Cite(u, n)
  \/ SaveRemoval \/ RefuseBudget \/ Crash
  \/ \E e \in Entries : AddEntry(e)
  \/ \E p \in Phases, S \in SUBSET Positions : AddPhase(p, S)

Spec == Init /\ [][Next]_bvars

----------------------------------------------------------------------------
\* Between commands a note goes on citing the entry it was written about, or
\* reads "removed", unless it was rewritten for a removal that a refusal or a
\* crash kept from being saved.
CitesOwn(u) == cite[u] \in Positions =>
                cite[u] \in DOMAIN needs /\ needs[cite[u]] = about[u]
CitesFollow == ~write.on => \A u \in Unknowns \ adrift : CitesOwn(u)

\* "rather than silently pointing at its neighbour" (brief.py:680): every note.
EveryNoteFollows == ~write.on => \A u \in Unknowns : CitesOwn(u)

\* Phases keep the entries they claimed, and no entry has two phases.
PhasesFollow ==
  ~write.on =>
    /\ \A p \in Phases : \A n \in owned[p] :
         n \in DOMAIN needs /\ needs[n] \in claimed[p]
    /\ \A p, q \in Phases : p # q => owned[p] \cap owned[q] = {}

\* An accepted edit or removal lands on another entry only if a removal it did
\* not ask for moved entries while it stood open.  The same ask queued again and
\* again is carried out once ("an edit or removal by index would double",
\* brief.py:568), over any refusals and crashes.
StraysWereMoved == strays \subseteq moved

\* What keeping "the record honest" over a removal comes to for the asks that
\* are open (brief.py:678-681): they too go on naming the entry they were made
\* for.  accept_proposal and brief set leave their positions as they are.
AcceptHitsMeant == strays = {}
=============================================================================
