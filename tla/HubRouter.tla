------------------------------ MODULE HubRouter ------------------------------
(* The board pipeline router (images/common/bin/vs-hub-router.py): every     *)
(* tick one sweep validates HANDOFF comments, resumes owner-blocked beads on *)
(* GUIDANCE, parks or re-pings stale work, takes new work in and dispatches  *)
(* it under a WIP cap, waking the agents it dispatched to and reverting the  *)
(* dispatches whose wake-up failed.                                          *)
(*                                                                           *)
(* A sweep reads the board once and then works through it row by row; agents *)
(* and the owner comment between its steps, and a failed board command or a  *)
(* signal ends it anywhere (router.lock allows one sweep at a time).  Beads  *)
(* are numbered in dispatch order (priority, id).  Comments are kept as far  *)
(* as the router looks at them: the latest handoff of the stage's agent      *)
(* since the dispatch stamp and the first owner comment since the park stamp.*)
(* Both stamps are the time the sweep began, so what was said since then is  *)
(* kept too.  Time is counted in hours since the stamps, up to Silent + 1.   *)
EXTENDS Naturals, FiniteSets

CONSTANTS
    Beads,    \* 1..n, in dispatch order
    Agents,   \* stage agents
    Nobody,   \* no assignee, and no agent for a stage
    Roster,   \* VS_HUB_AGENTS: [Stages -> Agents \cup {Nobody}]
    Label,    \* [Beads -> Stages]: the role label a bead carries
    Modes,    \* wake-ups: "route", "none" (auto, no route) or "off"
    Wip,      \* VS_HUB_WIP
    Posts,    \* the handoff verbs agents post
    Grace, Reping, Silent  \* VS_HUB_GRACE_HOURS, .._REPING_.., .._SILENT_..

Stages == {"dev", "test", "review"}
Owner == "owner"
Actor == "primus"
None == "none"

StageVerbs ==
    [dev |-> {"dev-done", "blocked"},
     test |-> {"test-pass", "test-fail", "blocked"},
     review |-> {"review-accepted", "changes-requested", "blocked"}]

Verbs == UNION {StageVerbs[s] : s \in Stages}

(* HANDOFF_TARGET_STAGE; "blocked" has no target.                            *)
Target(verb) ==
    CASE verb = "dev-done" -> "test"
      [] verb = "test-pass" -> "review"
      [] verb \in {"test-fail", "changes-requested"} -> "dev"
      [] verb = "review-accepted" -> "merge"
      [] OTHER -> None

AgentFor(s) == IF s \in Stages THEN Roster[s] ELSE Nobody

ASSUME RosterAssumption ==
    /\ Beads \subseteq Nat /\ IsFiniteSet(Beads)
    /\ Roster \in [Stages -> Agents \cup {Nobody}]
    /\ Label \in [Beads -> Stages]
    /\ Modes \subseteq {"route", "none", "off"}
    /\ Wip \in Nat \ {0}
    /\ Posts \subseteq Verbs
    /\ {Grace, Reping, Silent} \subseteq Nat

VARIABLES
    bead,    \* the board: status, assignee and router-owned metadata
    pr,      \* beads with a PR link in the description or a comment
    hand,    \* latest HANDOFF of the assignee since the dispatch stamp
    said,    \* first owner comment since the park stamp
    heard,   \* handoffs and owner comments made since the running sweep began
    age,     \* hours since the dispatch stamp
    idle,    \* hours since the assignee's last sign of life
    sweep    \* the running sweep

vars == <<bead, pr, hand, said, heard, age, idle, sweep>>

Silence == [hand |-> None, said |-> None]
Asleep == [pc |-> "asleep"]
Hours == 0..(Silent + 1)

Row == [status : {"open", "in_progress", "blocked", "closed"},
        assignee : Agents \cup {Nobody, Owner, Actor},
        stage : Stages \cup {None, "merge"},
        dispatched : BOOLEAN, pending : BOOLEAN, from : Stages \cup {None}]

Init ==
    /\ bead = [b \in Beads |-> [status |-> "open", assignee |-> Nobody, stage |-> None,
                                dispatched |-> FALSE, pending |-> FALSE, from |-> None]]
    /\ pr = {}
    /\ hand = [b \in Beads |-> None]
    /\ said = [b \in Beads |-> None]
    /\ heard = [b \in Beads |-> Silence]
    /\ age = [b \in Beads |-> 0]
    /\ idle = [b \in Beads |-> 0]
    /\ sweep = Asleep
-------------------------------------------------------------------------------
(* Agents, the owner and time.                                               *)

(* The stage's agent posts a HANDOFF on a bead it knows of, or chatters (verb *)
(* None).  What others post, and what is posted while a bead waits for its   *)
(* next dispatch stamp, the router skips.                                    *)
AgentSays(b, verb) ==
    /\ bead[b].status # "closed"
    /\ bead[b].dispatched \/ (bead[b].pending /\ sweep.pc # "asleep")
    /\ hand' = [hand EXCEPT ![b] = IF verb = None \/ ~bead[b].dispatched THEN @ ELSE verb]
    /\ heard' = [heard EXCEPT ![b].hand =
                     IF verb = None \/ sweep.pc = "asleep" THEN @ ELSE verb]
    /\ idle' = [idle EXCEPT ![b] = 0]
    /\ UNCHANGED <<bead, pr, said, age, sweep>>

(* An owner account comments, with GUIDANCE: or without.                     *)
First(earlier, what) == IF earlier = None THEN what ELSE earlier

OwnerSays(b, what) ==
    /\ bead[b].status = "blocked" \/ (bead[b].dispatched /\ sweep.pc # "asleep")
    /\ said' = [said EXCEPT ![b] = IF bead[b].status = "blocked" THEN First(@, what) ELSE @]
    /\ heard' = [heard EXCEPT ![b].said = IF sweep.pc = "asleep" THEN @ ELSE First(@, what)]
    /\ UNCHANGED <<bead, pr, hand, age, idle, sweep>>

(* Somebody links a pull request; intake to test and review asks for one.    *)
LinkPr(b) ==
    /\ b \notin pr /\ bead[b].stage = None /\ Label[b] \in {"test", "review"}
    /\ pr' = pr \cup {b}
    /\ UNCHANGED <<bead, hand, said, heard, age, idle, sweep>>

(* The owner closes a bead: one that was handed over for merge, or any other.*)
OwnerCloses(b) ==
    /\ bead[b].status # "closed"
    /\ bead' = [bead EXCEPT ![b].status = "closed"]
    /\ UNCHANGED <<pr, hand, said, heard, age, idle, sweep>>

Working(b) == bead[b].status = "in_progress" /\ bead[b].dispatched

(* Sweeps take seconds and are minutes apart: hours pass between them.       *)
Hour ==
    LET Later(h) == IF h = Silent + 1 THEN h ELSE h + 1 IN
    /\ sweep.pc = "asleep"
    /\ \E b \in Beads : Working(b)
    /\ age' = [b \in Beads |-> IF Working(b) THEN Later(age[b]) ELSE age[b]]
    /\ idle' = [b \in Beads |-> IF Working(b) THEN Later(idle[b]) ELSE idle[b]]
    /\ UNCHANGED <<bead, pr, hand, said, heard, sweep>>
-------------------------------------------------------------------------------
(* The sweep.  rows is the list read at its start; left holds the beads the  *)
(* current pass has still to look at.                                        *)

(* The owner may restart the service with another configuration between      *)
(* two sweeps.                                                               *)
TickStart(mode) ==
    /\ sweep.pc = "asleep"
    /\ sweep' = [pc |-> "handoffs", mode |-> mode, left |-> Beads, rows |-> bead, acted |-> {},
                 reping |-> {}, stamped |-> {}, told |-> {}, todo |-> {}]
    /\ UNCHANGED <<bead, pr, hand, said, heard, age, idle>>

Turn(pc, b) == sweep.pc = pc /\ b \in sweep.left /\ \A c \in sweep.left : b <= c

Passed(b) == [sweep EXCEPT !.left = @ \ {b}]

Acted(b) == [sweep EXCEPT !.left = @ \ {b}, !.acted = @ \cup {b}]

(* rows whose stage agent is at work: the filter of the first and third pass.*)
AtWork(b) ==
    /\ sweep.rows[b].status = "in_progress"
    /\ sweep.rows[b].stage \in Stages
    /\ sweep.rows[b].dispatched

(* The dispatch stamp is removed: nothing counts from it any more.           *)
Unstamped(b) ==
    /\ hand' = [hand EXCEPT ![b] = None]
    /\ age' = [age EXCEPT ![b] = 0]
    /\ idle' = [idle EXCEPT ![b] = 0]

(* _park_owner *)
Parked(b) ==
    /\ bead' = [bead EXCEPT ![b] = [@ EXCEPT !.status = "blocked", !.assignee = Owner,
                                             !.from = sweep.rows[b].stage,
                                             !.dispatched = FALSE, !.pending = FALSE]]
    /\ said' = [said EXCEPT ![b] = heard[b].said]

(* _apply_handoff to the next stage, with or without an agent.               *)
MovedOn(b, verb) ==
    LET target == Target(verb) IN
    IF target = "merge"
    THEN /\ bead' = [bead EXCEPT ![b] = [@ EXCEPT !.status = "open", !.assignee = Owner,
                                                  !.stage = "merge", !.from = None,
                                                  !.dispatched = FALSE, !.pending = FALSE]]
         /\ UNCHANGED said
    ELSE IF AgentFor(target) = Nobody THEN Parked(b)
    ELSE /\ bead' = [bead EXCEPT ![b] = [@ EXCEPT !.status = "open",
                                                  !.assignee = AgentFor(target),
                                                  !.stage = target, !.from = None,
                                                  !.dispatched = FALSE, !.pending = TRUE]]
         /\ UNCHANGED said

(* Mutant: the verb is not validated against the stage.                      *)
HandoffRowUnchecked(b) ==
    /\ Turn("handoffs", b)
    /\ AtWork(b) /\ hand[b] # None
    /\ MovedOn(b, hand[b])
    /\ sweep' = Acted(b)
    /\ Unstamped(b)
    /\ UNCHANGED <<pr, heard>>

HandoffRow(b) ==
    /\ Turn("handoffs", b)
    /\ AtWork(b)
    /\ hand[b] # None
    /\ IF hand[b] \in StageVerbs[sweep.rows[b].stage]
       THEN MovedOn(b, hand[b])
       ELSE Parked(b)
    /\ sweep' = Acted(b)
    /\ Unstamped(b)
    /\ UNCHANGED <<pr, heard>>

HandoffSkip(b) ==
    /\ Turn("handoffs", b)
    /\ ~(AtWork(b) /\ hand[b] # None)
    /\ sweep' = Passed(b)
    /\ UNCHANGED <<bead, pr, hand, said, heard, age, idle>>

(* _pass_guidance looks at the first owner comment since the park only.      *)
Guided(b) == said[b] = "guidance"

(* Mutant: the dispatched filter of the other passes.                        *)
ResumableDispatched(b) ==
    /\ sweep.rows[b].status = "blocked" /\ sweep.rows[b].from \in Stages
    /\ sweep.rows[b].dispatched /\ Guided(b)
    /\ AgentFor(sweep.rows[b].from) # Nobody

Resumable(b) ==
    /\ sweep.rows[b].status = "blocked" /\ sweep.rows[b].from \in Stages
    /\ Guided(b)
    /\ AgentFor(sweep.rows[b].from) # Nobody

GuidanceRow(b) ==
    /\ Turn("guidance", b)
    /\ Resumable(b)
    /\ bead' = [bead EXCEPT ![b] = [@ EXCEPT !.status = "open", !.pending = TRUE,
                                             !.assignee = AgentFor(sweep.rows[b].from),
                                             !.from = None]]
    /\ said' = [said EXCEPT ![b] = None]
    /\ sweep' = Acted(b)
    /\ UNCHANGED <<pr, hand, heard, age, idle>>

GuidanceSkip(b) ==
    /\ Turn("guidance", b)
    /\ ~Resumable(b)
    /\ sweep' = Passed(b)
    /\ UNCHANGED <<bead, pr, hand, said, heard, age, idle>>

(* Mutant: any comment starts the grace window afresh, for ever.             *)
OverdueIdle(b) == idle[b] > Grace

Overdue(b) == age[b] > Silent \/ idle[b] > Grace

GraceRow(b) ==
    /\ Turn("grace", b)
    /\ AtWork(b) /\ b \notin sweep.acted
    /\ Overdue(b)
    /\ Parked(b)
    /\ sweep' = Acted(b)
    /\ Unstamped(b)
    /\ UNCHANGED <<pr, heard>>

GraceSkip(b) ==
    /\ Turn("grace", b)
    /\ ~(AtWork(b) /\ b \notin sweep.acted /\ Overdue(b))
    /\ sweep' = [Passed(b) EXCEPT !.reping =
          IF AtWork(b) /\ b \notin sweep.acted /\ sweep.mode = "route" /\ idle[b] > Reping
          THEN @ \cup {sweep.rows[b].assignee} ELSE @]
    /\ UNCHANGED <<bead, pr, hand, said, heard, age, idle>>

NextPass ==
    /\ sweep.pc \in {"handoffs", "guidance"} /\ sweep.left = {}
    /\ sweep' = [sweep EXCEPT !.pc = IF @ = "handoffs" THEN "guidance" ELSE "grace",
                              !.left = Beads]
    /\ UNCHANGED <<bead, pr, hand, said, heard, age, idle>>

(* _candidates: `bd ready` is read afresh.                                   *)
Candidate(b) ==
    /\ bead[b].status = "open" /\ bead[b].assignee = Nobody /\ bead[b].stage = None
    /\ AgentFor(Label[b]) # Nobody
    /\ Label[b] \in {"test", "review"} => b \in pr

(* _prioritized: beads pending when the sweep began, and the candidates.     *)
Pending(b) ==
    /\ sweep.rows[b].status = "open" /\ sweep.rows[b].pending
    /\ sweep.rows[b].stage \in Stages
    /\ AgentFor(sweep.rows[b].stage) # Nobody

Intake ==
    /\ sweep.pc = "grace" /\ sweep.left = {}
    /\ sweep.mode # "none"
    /\ sweep' = [sweep EXCEPT !.pc = "dispatch", !.left = {b \in Beads : Pending(b) \/ Candidate(b)}]
    /\ UNCHANGED <<bead, pr, hand, said, heard, age, idle>>

DispatchStage(b) == IF Pending(b) THEN sweep.rows[b].stage ELSE Label[b]

(* Mutant: the dispatches of this sweep are not counted.                     *)
RunningAsRead(g) ==
    Cardinality({b \in Beads : /\ sweep.rows[b].assignee = g
                               /\ sweep.rows[b].status = "in_progress"
                               /\ sweep.rows[b].stage # None})

Running(g) ==
    Cardinality({b \in Beads : /\ sweep.rows[b].assignee = g
                               /\ sweep.rows[b].status = "in_progress"
                               /\ sweep.rows[b].stage # None})
    + Cardinality({b \in sweep.stamped : bead[b].assignee = g})

Dispatchable(b) ==
    /\ b \notin sweep.acted
    /\ Running(AgentFor(DispatchStage(b))) < Wip

Dispatch(b) ==
    /\ Turn("dispatch", b)
    /\ Dispatchable(b)
    /\ bead' = [bead EXCEPT ![b] = [@ EXCEPT !.status = "in_progress",
                                             !.assignee = AgentFor(DispatchStage(b)),
                                             !.stage = DispatchStage(b),
                                             !.dispatched = TRUE, !.pending = FALSE]]
    /\ hand' = [hand EXCEPT ![b] = heard[b].hand]
    /\ age' = [age EXCEPT ![b] = 0]
    /\ idle' = [idle EXCEPT ![b] = 0]
    /\ sweep' = [Acted(b) EXCEPT !.stamped = @ \cup {b}]
    /\ UNCHANGED <<pr, said, heard>>

DispatchSkip(b) ==
    /\ Turn("dispatch", b)
    /\ ~Dispatchable(b)
    /\ sweep' = Passed(b)
    /\ UNCHANGED <<bead, pr, hand, said, heard, age, idle>>

(* _send_wakeups: one message to each agent with a dispatch or a re-ping;    *)
(* none in board-only mode.                                                  *)
StampedFor(g) == {b \in sweep.stamped : bead[b].assignee = g}

WakeStart ==
    /\ sweep.pc = "dispatch" /\ sweep.left = {}
    /\ sweep' = [sweep EXCEPT !.pc = "wake",
                              !.todo = IF sweep.mode # "route" THEN {}
                                       ELSE sweep.reping \cup {g \in Agents : StampedFor(g) # {}}]
    /\ UNCHANGED <<bead, pr, hand, said, heard, age, idle>>

Wake(g) ==
    /\ sweep.pc = "wake" /\ g \in sweep.todo
    /\ sweep' = [sweep EXCEPT !.todo = @ \ {g}, !.told = @ \cup StampedFor(g)]
    /\ UNCHANGED <<bead, pr, hand, said, heard, age, idle>>

(* Mutant: a failed wake-up is only logged.                                  *)
WakeFailsLogged(g) ==
    /\ sweep.pc = "wake" /\ g \in sweep.todo
    /\ sweep' = [sweep EXCEPT !.todo = @ \ {g}]
    /\ UNCHANGED <<bead, pr, hand, said, heard, age, idle>>

(* The message fails, or times out after it was delivered; the reverts       *)
(* follow, one board command each.                                           *)
WakeFails(g) ==
    /\ sweep.pc = "wake" /\ g \in sweep.todo
    /\ sweep' = [sweep EXCEPT !.pc = "revert", !.todo = @ \ {g}, !.left = StampedFor(g)]
    /\ UNCHANGED <<bead, pr, hand, said, heard, age, idle>>

(* Mutants: the pending key is not set again; the bead goes to no account.   *)
RevertNotPending(b) ==
    /\ Turn("revert", b)
    /\ bead' = [bead EXCEPT ![b] = [@ EXCEPT !.status = "open", !.assignee = Actor,
                                             !.dispatched = FALSE]]
    /\ sweep' = [Passed(b) EXCEPT !.stamped = @ \ {b}]
    /\ Unstamped(b)
    /\ UNCHANGED <<pr, said, heard>>

Revert(b) ==
    /\ Turn("revert", b)
    /\ bead' = [bead EXCEPT ![b] = [@ EXCEPT !.status = "open", !.assignee = Actor,
                                             !.dispatched = FALSE, !.pending = TRUE]]
    /\ sweep' = [Passed(b) EXCEPT !.stamped = @ \ {b}]
    /\ Unstamped(b)
    /\ UNCHANGED <<pr, said, heard>>

Reverted ==
    /\ sweep.pc = "revert" /\ sweep.left = {}
    /\ sweep' = [sweep EXCEPT !.pc = "wake"]
    /\ UNCHANGED <<bead, pr, hand, said, heard, age, idle>>

SweepOver ==
    /\ sweep' = Asleep
    /\ heard' = [b \in Beads |-> Silence]
    /\ UNCHANGED <<bead, pr, hand, said, age, idle>>

(* Without a wake-up route nothing is dispatched.                            *)
Finished ==
    \/ sweep.pc = "wake" /\ sweep.todo = {}
    \/ sweep.pc = "grace" /\ sweep.left = {} /\ sweep.mode = "none"

TickEnd == Finished /\ SweepOver

(* A board command fails (BoardError) or the service is stopped.             *)
TickFails ==
    /\ sweep.pc # "asleep" /\ ~Finished
    /\ SweepOver

SweepStep ==
    \/ \E mode \in Modes : TickStart(mode)
    \/ NextPass \/ Intake \/ WakeStart \/ Reverted \/ TickEnd
    \/ \E b \in Beads : \/ HandoffRow(b) \/ HandoffSkip(b)
                        \/ GuidanceRow(b) \/ GuidanceSkip(b)
                        \/ GraceRow(b) \/ GraceSkip(b)
                        \/ Dispatch(b) \/ DispatchSkip(b) \/ Revert(b)
    \/ \E g \in Agents : Wake(g) \/ WakeFails(g)

Next ==
    \/ SweepStep \/ TickFails \/ Hour
    \/ \E b \in Beads : \/ LinkPr(b) \/ OwnerCloses(b)
                        \/ \E v \in Posts \cup {None} : AgentSays(b, v)
                        \/ \E w \in {"guidance", "other"} : OwnerSays(b, w)

Spec == Init /\ [][Next]_vars

(* serve loops for ever, and board outages end; hours pass.                  *)
FairSpec ==
    /\ Spec /\ WF_vars(SweepStep) /\ SF_vars(Hour)
    /\ <>[][~TickFails]_vars
-------------------------------------------------------------------------------
(* Every variable has its type.                                              *)
TypeOK ==
    /\ bead \in [Beads -> Row]
    /\ pr \subseteq Beads
    /\ hand \in [Beads -> Verbs \cup {None}]
    /\ said \in [Beads -> {None, "guidance", "other"}]
    /\ heard \in [Beads -> [hand : Verbs \cup {None}, said : {None, "guidance", "other"}]]
    /\ age \in [Beads -> Hours] /\ idle \in [Beads -> Hours]
    /\ sweep = Asleep \/
       /\ sweep.pc \in {"handoffs", "guidance", "grace", "dispatch", "wake", "revert"}
       /\ sweep.mode \in Modes
       /\ sweep.rows \in [Beads -> Row]
       /\ sweep.left \cup sweep.acted \cup sweep.stamped \cup sweep.told \subseteq Beads
       /\ sweep.reping \cup sweep.todo \subseteq Agents

(* No agent ever has more than Wip beads in progress, whatever the sweep that *)
(* dispatched them read and however it ended (_pass_dispatch's running count).*)
WipCap ==
    \A g \in Agents :
        Cardinality({b \in Beads : bead[b].status = "in_progress" /\ bead[b].assignee = g}) <= Wip

(* Every staged bead that is not closed is in a state some pass looks at:    *)
(* waiting for a dispatch, dispatched to its stage's agent, parked with a    *)
(* stage to resume, or with the owner for merge.  No sequence of handoffs,   *)
(* parks, reverts and failed sweeps leaves one that nothing will move again. *)
NoLimbo ==
    \A b \in Beads : bead[b].stage # None /\ bead[b].status # "closed" =>
        \/ bead[b].stage = "merge" /\ bead[b].status = "open" /\ bead[b].assignee = Owner
        \/ bead[b].stage \in Stages /\ bead[b].status = "open"
              /\ bead[b].pending /\ ~bead[b].dispatched
        \/ bead[b].stage \in Stages /\ bead[b].status = "in_progress" /\ bead[b].dispatched
              /\ ~bead[b].pending /\ bead[b].assignee = AgentFor(bead[b].stage)
        \/ bead[b].stage \in Stages /\ bead[b].status = "blocked"
              /\ bead[b].from = bead[b].stage /\ AgentFor(bead[b].from) # Nobody

(* When the wake-ups of a sweep are done, every bead it dispatched was either *)
(* announced to its agent or is pending again (dispatches are reverted to    *)
(* pending when their wake-up ping cannot be delivered), even if the agent   *)
(* or the owner touched the bead while the messages went out.                *)
PingedOrReverted ==
    sweep.pc = "wake" /\ sweep.todo = {} /\ sweep.mode = "route" =>
        \A b \in Beads : Working(b) /\ ~sweep.rows[b].dispatched => b \in sweep.told

(* A bead changes its stage by intake at its label's stage, and afterwards   *)
(* only along the pipeline and on the verb its present stage's agent posted  *)
(* since the dispatch: none is merged that a reviewer has not accepted.      *)
StagesInOrder ==
    [][\A b \in Beads : bead'[b].stage # bead[b].stage =>
          \/ bead[b].stage = None /\ bead'[b].stage = Label[b]
          \/ <<bead[b].stage, hand[b], bead'[b].stage>> \in
                {<<"dev", "dev-done", "test">>, <<"test", "test-pass", "review">>,
                 <<"test", "test-fail", "dev">>, <<"review", "changes-requested", "dev">>,
                 <<"review", "review-accepted", "merge">>}]_vars

(* Dispatched work does not stay in progress for ever: it is handed off,     *)
(* reverted, closed or parked, also when the agent only chatters and when    *)
(* the sweep that dispatched it died before the wake-ups.                    *)
DispatchedSettles ==
    \A b \in Beads : bead[b].status = "in_progress" ~> bead[b].status # "in_progress"

(* A parked bead whose first owner comment is GUIDANCE is resumed.           *)
GuidanceResumes ==
    \A b \in Beads : bead[b].status = "blocked" /\ said[b] = "guidance"
                       ~> bead[b].status # "blocked"
=============================================================================
