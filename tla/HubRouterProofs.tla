---------------------------- MODULE HubRouterProofs ----------------------------
(***************************************************************************)
(* Proofs about HubRouter, for any beads and agents, any roster and labels, *)
(* any WIP cap and hours, and any verbs the agents post.                    *)
(***************************************************************************)
EXTENDS HubRouter, FiniteSetTheorems, TLAPS

(* A row of the board that some pass will look at, or that is with the owner. *)
(* A bead only gets to a stage that has an agent.                             *)
RowOK(r) ==
    /\ r \in Row
    /\ r.stage \in Stages => AgentFor(r.stage) # Nobody
    /\ \/ r.status = "closed"
       \/ r.stage = None /\ r.status = "open"
       \/ r.stage = "merge" /\ r.status = "open" /\ r.assignee = Owner
       \/ r.stage \in Stages /\ r.status = "open" /\ r.pending /\ ~r.dispatched
       \/ r.stage \in Stages /\ r.status = "in_progress" /\ r.dispatched
             /\ ~r.pending /\ r.assignee = AgentFor(r.stage)
       \/ r.stage \in Stages /\ r.status = "blocked" /\ ~r.dispatched /\ r.from = r.stage

BoardInv == bead \in [Beads -> Row] /\ \A b \in Beads : RowOK(bead[b])

Sweeps == [pc : {"handoffs", "guidance", "grace", "dispatch", "wake", "revert"}, mode : Modes,
           left : SUBSET Beads, rows : [Beads -> Row], acted : SUBSET Beads,
           reping : SUBSET Agents, stamped : SUBSET Beads, told : SUBSET Beads,
           todo : SUBSET Agents]

On == sweep.pc # "asleep"

(* A bead the sweep has not touched is as the sweep read it, or the owner has *)
(* closed it since.                                                           *)
AsRead(b) ==
    /\ bead[b].status \in {sweep.rows[b].status, "closed"}
    /\ bead[b].assignee = sweep.rows[b].assignee /\ bead[b].stage = sweep.rows[b].stage
    /\ bead[b].dispatched = sweep.rows[b].dispatched
    /\ bead[b].pending = sweep.rows[b].pending /\ bead[b].from = sweep.rows[b].from

ReadInv == On => /\ \A b \in Beads : RowOK(sweep.rows[b])
                 /\ \A b \in Beads \ sweep.acted : AsRead(b)

(* The first two passes never come to a bead they have touched.               *)
OnceInv == /\ sweep.pc = "handoffs" => \A b \in sweep.acted :
                b \notin sweep.left /\ sweep.rows[b].status = "in_progress"
           /\ sweep.pc = "guidance" => \A b \in sweep.acted \cap sweep.left :
                sweep.rows[b].status # "blocked"

(* Of the beads the sweep has touched exactly the dispatched ones may be in   *)
(* progress.                                                                  *)
StampInv == On =>
    /\ sweep.stamped \subseteq sweep.acted
    /\ \A b \in sweep.acted \ sweep.stamped : bead[b].status # "in_progress"
    /\ \A b \in sweep.stamped : /\ bead[b].stage \in Stages
                                /\ bead[b].dispatched /\ ~bead[b].pending
                                /\ bead[b].assignee = AgentFor(bead[b].stage)

(* A bead to be dispatched has a stage with an agent, or gets one.            *)
IntakeInv == sweep.pc = "dispatch" => \A b \in sweep.left \ sweep.acted :
    Pending(b) \/ (bead[b].stage = None /\ AgentFor(Label[b]) # Nobody)

(* While the wake-ups go out, a dispatched bead is announced, or its agent is *)
(* still to be woken, or its revert is due.                                   *)
WakeInv ==
    /\ sweep.pc = "revert" => sweep.left \subseteq sweep.stamped
    /\ sweep.pc \in {"wake", "revert"} /\ sweep.mode = "route" => \A b \in sweep.stamped :
          b \in sweep.told \/ bead[b].assignee \in sweep.todo
             \/ (sweep.pc = "revert" /\ b \in sweep.left)

IInv == /\ sweep = Asleep \/ sweep \in Sweeps
        /\ BoardInv /\ ReadInv /\ OnceInv /\ StampInv /\ IntakeInv /\ WakeInv
-------------------------------------------------------------------------------
(* One row written, the others left.                                          *)
LEMMA RowWritten ==
    ASSUME BoardInv, NEW b \in Beads, NEW r, RowOK(r), bead' = [bead EXCEPT ![b] = r]
    PROVE  BoardInv' /\ bead'[b] = r /\ \A c \in Beads \ {b} : bead'[c] = bead[c]
<1>1. bead' \in [Beads -> Row] /\ bead'[b] = r /\ \A c \in Beads \ {b} : bead'[c] = bead[c]
  BY DEF BoardInv, RowOK
<1>2. \A c \in Beads : RowOK(bead'[c])
  BY <1>1 DEF BoardInv
<1>3. (\A c \in Beads : RowOK(bead[c]))' <=> \A c \in Beads : RowOK(bead'[c])
  BY DEF RowOK
<1> QED
  BY <1>1, <1>2, <1>3 DEF BoardInv

(* What a sweep record becomes when a pass is done with a bead.               *)
LEMMA PassedFields ==
    ASSUME sweep \in Sweeps, NEW b
    PROVE  /\ Passed(b) \in Sweeps /\ Passed(b).pc = sweep.pc /\ Passed(b).mode = sweep.mode
           /\ Passed(b).left = sweep.left \ {b} /\ Passed(b).rows = sweep.rows
           /\ Passed(b).acted = sweep.acted /\ Passed(b).reping = sweep.reping
           /\ Passed(b).stamped = sweep.stamped /\ Passed(b).told = sweep.told
           /\ Passed(b).todo = sweep.todo
BY DEF Passed, Sweeps

(* What a decision on a bead changes of the sweep: the bead is done and    *)
(* counted as acted on.                                                    *)
LEMMA ActedFields ==
    ASSUME sweep \in Sweeps, NEW b \in Beads
    PROVE  /\ Acted(b) \in Sweeps /\ Acted(b).pc = sweep.pc /\ Acted(b).mode = sweep.mode
           /\ Acted(b).left = sweep.left \ {b} /\ Acted(b).rows = sweep.rows
           /\ Acted(b).acted = sweep.acted \cup {b} /\ Acted(b).reping = sweep.reping
           /\ Acted(b).stamped = sweep.stamped /\ Acted(b).told = sweep.told
           /\ Acted(b).todo = sweep.todo
BY DEF Acted, Sweeps

(* An agent of a stage that has one is an agent.                              *)
LEMMA AgentType ==
    ASSUME NEW s \in Stages
    PROVE  AgentFor(s) \in Agents \cup {Nobody}
BY RosterAssumption DEF AgentFor

(* A sweep under way.                                                         *)
LEMMA Awake == ASSUME sweep = Asleep \/ sweep \in Sweeps
               PROVE  (sweep.pc # "asleep") <=> sweep \in Sweeps
BY DEF Asleep, Sweeps

(* Looking at a bead and leaving it alone changes nothing that matters.       *)
LEMMA SkipKeeps ==
    ASSUME IInv, sweep \in Sweeps, sweep' \in Sweeps, UNCHANGED bead,
           sweep'.pc = sweep.pc, sweep'.mode = sweep.mode, sweep'.left \subseteq sweep.left,
           sweep'.rows = sweep.rows, sweep'.acted = sweep.acted, sweep'.stamped = sweep.stamped,
           sweep'.told = sweep.told, sweep'.todo = sweep.todo, sweep.pc # "revert"
    PROVE  IInv'
<1>1. BoardInv'
  BY DEF IInv, BoardInv, RowOK
<1>2. ReadInv'
  BY DEF IInv, ReadInv, On, AsRead, RowOK
<1>3. OnceInv'
  BY DEF IInv, OnceInv
<1>4. StampInv'
  BY DEF IInv, StampInv, On
<1>5. IntakeInv'
  BY DEF IInv, IntakeInv, Pending
<1>6. WakeInv'
  BY DEF IInv, WakeInv
<1> QED
  BY <1>1, <1>2, <1>3, <1>4, <1>5, <1>6 DEF IInv

(* A pass before the dispatches may write a bead it has not touched yet, with *)
(* a row that is not in progress.                                             *)
LEMMA TouchKeeps ==
    ASSUME IInv, sweep \in Sweeps, sweep.pc \in {"handoffs", "guidance", "grace"},
           NEW b \in Beads, b \in sweep.left, b \notin sweep.acted,
           sweep.pc = "handoffs" => sweep.rows[b].status = "in_progress",
           NEW r, RowOK(r), r.status # "in_progress", bead' = [bead EXCEPT ![b] = r],
           sweep' = Acted(b)
    PROVE  IInv'
<1>1. BoardInv' /\ bead'[b] = r /\ \A c \in Beads \ {b} : bead'[c] = bead[c]
  BY RowWritten DEF IInv
<1>2. /\ sweep' \in Sweeps /\ sweep'.pc = sweep.pc /\ sweep'.left = sweep.left \ {b}
      /\ sweep'.rows = sweep.rows /\ sweep'.acted = sweep.acted \cup {b}
      /\ sweep'.stamped = sweep.stamped
  BY ActedFields
<1>3. sweep.acted \in SUBSET Beads /\ On
  BY DEF Sweeps, On
<1>4. ReadInv'
  BY <1>1, <1>2, <1>3 DEF IInv, ReadInv, On, AsRead, RowOK
<1>5. OnceInv'
  BY <1>2 DEF IInv, OnceInv
<1>6. StampInv'
  BY <1>1, <1>2, <1>3 DEF IInv, StampInv, On
<1>7. IntakeInv' /\ WakeInv'
  BY <1>2 DEF IntakeInv, WakeInv
<1> QED
  BY <1>1, <1>2, <1>4, <1>5, <1>6, <1>7 DEF IInv

(* The row of a bead that is parked can be resumed.                           *)
LEMMA ParkedOK ==
    ASSUME IInv, sweep \in Sweeps, NEW b \in Beads \ sweep.acted, AtWork(b), Parked(b)
    PROVE  \E r : /\ bead' = [bead EXCEPT ![b] = r] /\ RowOK(r) /\ r.status = "blocked"
                  /\ r.stage = bead[b].stage
<1> DEFINE r == [bead[b] EXCEPT !.status = "blocked", !.assignee = Owner,
                                !.from = sweep.rows[b].stage,
                                !.dispatched = FALSE, !.pending = FALSE]
<1>1. bead[b] \in Row /\ RowOK(bead[b]) /\ AsRead(b)
  BY Awake DEF IInv, BoardInv, ReadInv, On, RowOK
<1>2. bead[b].stage \in Stages /\ sweep.rows[b].stage = bead[b].stage
  BY <1>1 DEF AtWork, AsRead
<1>3. bead' = [bead EXCEPT ![b] = r]
  BY DEF Parked
<1>4. r \in Row
  BY <1>1, <1>2 DEF Row
<1>5. /\ r.status = "blocked" /\ r.stage = bead[b].stage /\ ~r.dispatched
      /\ r.from = bead[b].stage
  BY <1>1, <1>2 DEF Row
<1> HIDE DEF r
<1>6. RowOK(r)
  BY <1>1, <1>2, <1>4, <1>5 DEF RowOK
<1> QED
  BY <1>3, <1>5, <1>6

(* The moves from stage to stage that the verbs stand for.                    *)
Pipeline == {<<"dev", "dev-done", "test">>, <<"test", "test-pass", "review">>,
             <<"test", "test-fail", "dev">>, <<"review", "changes-requested", "dev">>,
             <<"review", "review-accepted", "merge">>}

(* A verb of a stage leads along the pipeline, or nowhere.                    *)
LEMMA VerbTarget ==
    ASSUME NEW s \in Stages, NEW verb \in StageVerbs[s]
    PROVE  /\ Target(verb) \in Stages \cup {"merge", None}
           /\ Target(verb) # None => <<s, verb, Target(verb)>> \in Pipeline
<1>1. CASE s = "dev"
  <2>1. verb \in {"dev-done", "blocked"}
    BY <1>1 DEF StageVerbs
  <2> QED
    BY <1>1, <2>1 DEF Target, Pipeline, Stages, None
<1>2. CASE s = "test"
  <2>1. verb \in {"test-pass", "test-fail", "blocked"}
    BY <1>2 DEF StageVerbs
  <2> QED
    BY <1>2, <2>1 DEF Target, Pipeline, Stages, None
<1>3. CASE s = "review"
  <2>1. verb \in {"review-accepted", "changes-requested", "blocked"}
    BY <1>3 DEF StageVerbs
  <2> QED
    BY <1>3, <2>1 DEF Target, Pipeline, Stages, None
<1> QED
  BY <1>1, <1>2, <1>3 DEF Stages

(* So does the handoff the sweep applies: to a stage with an agent, to the    *)
(* owner for merge, or to the owner until guidance comes.                     *)
LEMMA MovedOK ==
    ASSUME IInv, sweep \in Sweeps, NEW b \in Beads \ sweep.acted, AtWork(b),
           hand[b] \in StageVerbs[sweep.rows[b].stage], MovedOn(b, hand[b])
    PROVE  \E r : /\ bead' = [bead EXCEPT ![b] = r] /\ RowOK(r) /\ r.status # "in_progress"
                  /\ r.stage = bead[b].stage \/ <<bead[b].stage, hand[b], r.stage>> \in Pipeline
<1>1. bead[b] \in Row /\ RowOK(bead[b]) /\ AsRead(b)
  BY Awake DEF IInv, BoardInv, ReadInv, On, RowOK
<1>2. bead[b].stage \in Stages /\ sweep.rows[b].stage = bead[b].stage
  BY <1>1 DEF AtWork, AsRead
<1>3. PICK target : target = Target(hand[b])
  OBVIOUS
<1>4. /\ target \in Stages \cup {"merge", None}
      /\ target # None => <<bead[b].stage, hand[b], target>> \in Pipeline
  BY <1>2, <1>3, VerbTarget
<1>5. CASE target = "merge"
  <2> DEFINE r == [bead[b] EXCEPT !.status = "open", !.assignee = Owner,
                                  !.stage = "merge", !.from = None,
                                  !.dispatched = FALSE, !.pending = FALSE]
  <2>1. bead' = [bead EXCEPT ![b] = r]
    BY <1>3, <1>5 DEF MovedOn
  <2>2. r \in Row
    BY <1>1 DEF Row
  <2>3. r.status = "open" /\ r.stage = "merge" /\ r.assignee = Owner
    BY <1>1 DEF Row
  <2> HIDE DEF r
  <2>4. RowOK(r)
    BY <2>2, <2>3 DEF RowOK, Stages
  <2>5. <<bead[b].stage, hand[b], r.stage>> \in Pipeline
    BY <1>4, <1>5, <2>3 DEF None
  <2> QED
    BY <2>1, <2>3, <2>4, <2>5
<1>6. CASE target # "merge" /\ AgentFor(target) = Nobody
  <2>1. Parked(b)
    BY <1>3, <1>6 DEF MovedOn
  <2>2. PICK r : /\ bead' = [bead EXCEPT ![b] = r] /\ RowOK(r) /\ r.status = "blocked"
                 /\ r.stage = bead[b].stage
    BY <2>1, ParkedOK
  <2> QED
    BY <2>2
<1>7. CASE target # "merge" /\ AgentFor(target) # Nobody
  <2> DEFINE r == [bead[b] EXCEPT !.status = "open", !.assignee = AgentFor(target),
                                  !.stage = target, !.from = None,
                                  !.dispatched = FALSE, !.pending = TRUE]
  <2>1. bead' = [bead EXCEPT ![b] = r]
    BY <1>3, <1>7 DEF MovedOn
  <2>2. target \in Stages
    BY <1>4, <1>7 DEF AgentFor
  <2>3. AgentFor(target) \in Agents \cup {Nobody}
    BY <2>2, AgentType
  <2>4. r \in Row
    BY <1>1, <2>2, <2>3 DEF Row
  <2>5. r.status = "open" /\ r.stage = target /\ r.pending /\ ~r.dispatched
    BY <1>1 DEF Row
  <2> HIDE DEF r
  <2>6. RowOK(r)
    BY <1>7, <2>2, <2>4, <2>5 DEF RowOK
  <2>7. <<bead[b].stage, hand[b], r.stage>> \in Pipeline
    BY <1>4, <2>2, <2>5 DEF None, Stages
  <2> QED
    BY <2>1, <2>5, <2>6, <2>7
<1> QED
  BY <1>5, <1>6, <1>7

(* The row of a bead that resumes on guidance.                                *)
LEMMA GuidedOK ==
    ASSUME IInv, sweep \in Sweeps, NEW b \in Beads \ sweep.acted, GuidanceRow(b)
    PROVE  \E r : /\ bead' = [bead EXCEPT ![b] = r] /\ RowOK(r) /\ r.status = "open"
                  /\ r.stage = bead[b].stage
<1> DEFINE r == [bead[b] EXCEPT !.status = "open", !.pending = TRUE,
                                !.assignee = AgentFor(sweep.rows[b].from), !.from = None]
<1>1. bead[b] \in Row /\ RowOK(bead[b]) /\ AsRead(b) /\ RowOK(sweep.rows[b])
  BY Awake DEF IInv, BoardInv, ReadInv, On, RowOK
<1>2. sweep.rows[b].status = "blocked" /\ bead' = [bead EXCEPT ![b] = r]
  BY DEF GuidanceRow, Resumable
<1>3. /\ sweep.rows[b].stage \in Stages /\ ~sweep.rows[b].dispatched
      /\ sweep.rows[b].from = sweep.rows[b].stage
  BY <1>1, <1>2 DEF RowOK
<1>4. bead[b].stage \in Stages /\ ~bead[b].dispatched /\ AgentFor(bead[b].stage) # Nobody
  BY <1>1, <1>3 DEF AsRead, RowOK
<1>5. AgentFor(sweep.rows[b].from) \in Agents \cup {Nobody}
  BY <1>3, AgentType
<1>6. r \in Row
  BY <1>1, <1>5 DEF Row
<1>7. r.status = "open" /\ r.stage = bead[b].stage /\ r.pending /\ ~r.dispatched
  BY <1>1, <1>4 DEF Row
<1> HIDE DEF r
<1>8. RowOK(r)
  BY <1>4, <1>6, <1>7 DEF RowOK
<1> QED
  BY <1>2, <1>7, <1>8

(* The row of a bead that is dispatched.                                      *)
LEMMA DispatchedOK ==
    ASSUME IInv, sweep \in Sweeps, NEW b \in Beads, Dispatch(b)
    PROVE  \E r : /\ bead' = [bead EXCEPT ![b] = r] /\ RowOK(r) /\ r.status = "in_progress"
                  /\ r.stage \in Stages /\ r.dispatched /\ ~r.pending
                  /\ r.assignee = AgentFor(r.stage) /\ r.stage = DispatchStage(b)
                  /\ \/ r.stage = bead[b].stage
                     \/ bead[b].stage = None /\ r.stage = Label[b]
<1>0. PICK s : s = DispatchStage(b)
  OBVIOUS
<1> DEFINE r == [bead[b] EXCEPT !.status = "in_progress", !.assignee = AgentFor(s),
                                !.stage = s, !.dispatched = TRUE, !.pending = FALSE]
<1>1. /\ sweep.pc = "dispatch" /\ b \in sweep.left /\ b \notin sweep.acted
      /\ bead' = [bead EXCEPT ![b] = r]
  BY <1>0 DEF Dispatch, Turn, Dispatchable
<1>2. bead[b] \in Row /\ AsRead(b)
  BY <1>1, Awake DEF IInv, BoardInv, ReadInv, On, RowOK
<1>3. Pending(b) \/ (bead[b].stage = None /\ AgentFor(Label[b]) # Nobody)
  BY <1>1 DEF IInv, IntakeInv
<1>4. /\ s \in Stages /\ AgentFor(s) # Nobody
      /\ s = bead[b].stage \/ (bead[b].stage = None /\ s = Label[b])
  <2>1. CASE Pending(b)
    BY <1>0, <1>2, <2>1 DEF DispatchStage, Pending, AsRead
  <2>2. CASE ~Pending(b)
    BY <1>0, <1>3, <2>2, RosterAssumption DEF DispatchStage
  <2> QED
    BY <2>1, <2>2
<1>5. AgentFor(s) \in Agents \cup {Nobody}
  BY <1>4, AgentType
<1>6. r \in Row
  BY <1>2, <1>4, <1>5 DEF Row
<1>7. /\ r.status = "in_progress" /\ r.stage = s /\ r.dispatched /\ ~r.pending
      /\ r.assignee = AgentFor(s)
  BY <1>2 DEF Row
<1> HIDE DEF r
<1>8. RowOK(r)
  BY <1>4, <1>6, <1>7 DEF RowOK
<1> QED
  BY <1>0, <1>1, <1>4, <1>7, <1>8

(* The row of a bead whose dispatch is taken back.                            *)
LEMMA RevertedOK ==
    ASSUME IInv, sweep \in Sweeps, NEW b \in Beads, Revert(b)
    PROVE  \E r : /\ bead' = [bead EXCEPT ![b] = r] /\ RowOK(r) /\ r.status = "open"
                  /\ r.stage = bead[b].stage
<1> DEFINE r == [bead[b] EXCEPT !.status = "open", !.assignee = Actor,
                                !.dispatched = FALSE, !.pending = TRUE]
<1>1. sweep.pc = "revert" /\ b \in sweep.left /\ bead' = [bead EXCEPT ![b] = r]
  BY DEF Revert, Turn
<1>2. bead[b].stage \in Stages /\ RowOK(bead[b]) /\ bead[b] \in Row
  BY <1>1 DEF IInv, WakeInv, StampInv, On, BoardInv, RowOK
<1>3. r \in Row
  BY <1>2 DEF Row
<1>4. r.status = "open" /\ r.stage = bead[b].stage /\ r.pending /\ ~r.dispatched
  BY <1>2 DEF Row
<1> HIDE DEF r
<1>5. RowOK(r)
  BY <1>2, <1>3, <1>4 DEF RowOK
<1> QED
  BY <1>1, <1>4, <1>5
-------------------------------------------------------------------------------
(* A dispatch and a revert are the sweep's other two writes.                  *)
LEMMA DispatchKeeps ==
    ASSUME IInv, sweep \in Sweeps, NEW b \in Beads, Dispatch(b)
    PROVE  IInv'
<1>1. PICK r : /\ bead' = [bead EXCEPT ![b] = r] /\ RowOK(r) /\ r.status = "in_progress"
               /\ r.stage \in Stages /\ r.dispatched /\ ~r.pending
               /\ r.assignee = AgentFor(r.stage)
  BY DispatchedOK
<1>2. BoardInv' /\ bead'[b] = r /\ \A c \in Beads \ {b} : bead'[c] = bead[c]
  BY <1>1, RowWritten DEF IInv
<1>3. /\ sweep.pc = "dispatch" /\ b \notin sweep.acted
      /\ sweep' = [Acted(b) EXCEPT !.stamped = @ \cup {b}]
  BY DEF Dispatch, Turn, Dispatchable
<1>4. /\ sweep' \in Sweeps /\ sweep'.pc = "dispatch" /\ sweep'.left = sweep.left \ {b}
      /\ sweep'.rows = sweep.rows /\ sweep'.acted = sweep.acted \cup {b}
      /\ sweep'.stamped = sweep.stamped \cup {b}
  BY <1>3, ActedFields DEF Sweeps
<1>5. sweep.acted \in SUBSET Beads /\ sweep.stamped \in SUBSET Beads /\ sweep.left \in SUBSET Beads
  BY DEF Sweeps
<1>6. ReadInv'
  BY <1>2, <1>3, <1>4, <1>5 DEF IInv, ReadInv, On, AsRead, RowOK
<1>7. OnceInv' /\ WakeInv'
  BY <1>4 DEF OnceInv, WakeInv
<1>8. StampInv'
  BY <1>1, <1>2, <1>3, <1>4, <1>5 DEF IInv, StampInv, On
<1>9. IntakeInv'
  BY <1>2, <1>3, <1>4, <1>5 DEF IInv, IntakeInv, Pending
<1> QED
  BY <1>2, <1>4, <1>6, <1>7, <1>8, <1>9 DEF IInv

(* The revert of a failed ping puts the bead back on the queue, its stamp  *)
(* undone, and forgets it in the sweep.                                    *)
LEMMA RevertKeeps ==
    ASSUME IInv, sweep \in Sweeps, NEW b \in Beads, Revert(b)
    PROVE  IInv'
<1>1. PICK r : bead' = [bead EXCEPT ![b] = r] /\ RowOK(r) /\ r.status = "open"
  BY RevertedOK
<1>2. BoardInv' /\ bead'[b] = r /\ \A c \in Beads \ {b} : bead'[c] = bead[c]
  BY <1>1, RowWritten DEF IInv
<1>3. /\ sweep.pc = "revert" /\ b \in sweep.left
      /\ sweep' = [Passed(b) EXCEPT !.stamped = @ \ {b}]
  BY DEF Revert, Turn
<1>4. /\ sweep' \in Sweeps /\ sweep'.pc = "revert" /\ sweep'.left = sweep.left \ {b}
      /\ sweep'.rows = sweep.rows /\ sweep'.acted = sweep.acted /\ sweep'.mode = sweep.mode
      /\ sweep'.stamped = sweep.stamped \ {b} /\ sweep'.told = sweep.told
      /\ sweep'.todo = sweep.todo
  BY <1>3, PassedFields DEF Sweeps
<1>5. /\ sweep.acted \in SUBSET Beads /\ sweep.stamped \in SUBSET Beads
      /\ b \in sweep.stamped /\ b \in sweep.acted
  BY <1>3 DEF Sweeps, IInv, WakeInv, StampInv, On
<1>6. ReadInv'
  BY <1>2, <1>3, <1>4, <1>5 DEF IInv, ReadInv, On, AsRead, RowOK
<1>7. OnceInv' /\ IntakeInv'
  BY <1>4 DEF OnceInv, IntakeInv
<1>8. StampInv'
  BY <1>1, <1>2, <1>3, <1>4, <1>5 DEF IInv, StampInv, On
<1>9. WakeInv'
  BY <1>2, <1>3, <1>4, <1>5 DEF IInv, WakeInv
<1> QED
  BY <1>2, <1>4, <1>6, <1>7, <1>8, <1>9 DEF IInv

(* What agents, the owner and time do leaves the sweep's promises alone: all  *)
(* it can find is that a bead was closed.                                     *)
LEMMA CloseKeeps == ASSUME IInv, NEW b \in Beads, OwnerCloses(b) PROVE IInv'
<1> DEFINE r == [bead[b] EXCEPT !.status = "closed"]
<1>1. bead' = [bead EXCEPT ![b] = r] /\ sweep' = sweep
  BY DEF OwnerCloses, BoardInv
<1>2. bead[b] \in Row /\ RowOK(bead[b])
  BY DEF IInv, BoardInv, RowOK
<1>3. r \in Row /\ r.status = "closed" /\ r.stage = bead[b].stage
      /\ r.assignee = bead[b].assignee /\ r.dispatched = bead[b].dispatched
      /\ r.pending = bead[b].pending /\ r.from = bead[b].from
  BY <1>2 DEF Row
<1> HIDE DEF r
<1>4. RowOK(r)
  BY <1>2, <1>3 DEF RowOK
<1>5. BoardInv' /\ bead'[b] = r /\ \A c \in Beads \ {b} : bead'[c] = bead[c]
  BY <1>1, <1>4, RowWritten DEF IInv
<1>6. /\ \A c \in Beads : /\ bead'[c].stage = bead[c].stage /\ bead'[c].assignee = bead[c].assignee
                          /\ bead'[c].dispatched = bead[c].dispatched
                          /\ bead'[c].pending = bead[c].pending /\ bead'[c].from = bead[c].from
                          /\ bead'[c].status \in {bead[c].status, "closed"}
  BY <1>3, <1>5
<1>7. ReadInv'
  BY <1>1, <1>6 DEF IInv, ReadInv, On, AsRead, RowOK
<1>8. OnceInv'
  BY <1>1 DEF IInv, OnceInv
<1>9. StampInv' /\ IntakeInv' /\ WakeInv'
  <2>1. CASE sweep = Asleep
    BY <1>1, <2>1 DEF StampInv, IntakeInv, WakeInv, On, Asleep
  <2>2. CASE sweep \in Sweeps
    <3>1. /\ sweep.acted \in SUBSET Beads /\ sweep.stamped \in SUBSET Beads
          /\ sweep.left \in SUBSET Beads
      BY <2>2 DEF Sweeps
    <3>2. StampInv'
      BY <1>1, <1>6, <3>1 DEF IInv, StampInv, On
    <3>3. IntakeInv' /\ WakeInv'
      BY <1>1, <1>6, <3>1 DEF IInv, IntakeInv, WakeInv, Pending
    <3> QED
      BY <3>2, <3>3
  <2> QED
    BY <2>1, <2>2 DEF IInv
<1> QED
  BY <1>1, <1>5, <1>7, <1>8, <1>9 DEF IInv

(* Every action keeps the board and the sweep's view of it.                   *)
LEMMA IInvStep == IInv /\ [Next]_vars => IInv'
<1> SUFFICES ASSUME IInv, [Next]_vars PROVE IInv'
  OBVIOUS
<1>0. ASSUME UNCHANGED <<bead, sweep>> PROVE IInv'
  BY <1>0 DEF IInv, BoardInv, RowOK, ReadInv, AsRead, On, OnceInv, StampInv, IntakeInv, Pending,
              WakeInv
<1>a. ASSUME sweep.pc # "asleep" PROVE sweep \in Sweeps
  BY <1>a, Awake DEF IInv
<1>1. ASSUME NEW mode \in Modes, TickStart(mode) PROVE IInv'
  <2>1. /\ UNCHANGED bead
        /\ sweep' = [pc |-> "handoffs", mode |-> mode, left |-> Beads, rows |-> bead, acted |-> {},
                     reping |-> {}, stamped |-> {}, told |-> {}, todo |-> {}]
    BY <1>1 DEF TickStart
  <2>2. bead \in [Beads -> Row]
    BY DEF IInv, BoardInv
  <2>3. sweep' \in Sweeps
    BY <2>1, <2>2 DEF Sweeps
  <2>4. BoardInv'
    BY <2>1 DEF IInv, BoardInv, RowOK
  <2>5. ReadInv'
    BY <2>1 DEF IInv, BoardInv, ReadInv, AsRead, RowOK
  <2>6. OnceInv' /\ StampInv' /\ IntakeInv' /\ WakeInv'
    BY <2>1 DEF OnceInv, StampInv, IntakeInv, WakeInv
  <2> QED
    BY <2>3, <2>4, <2>5, <2>6 DEF IInv
<1>2. CASE NextPass
  <2>1. sweep \in Sweeps /\ UNCHANGED bead /\ sweep.left = {}
    BY <1>2, <1>a DEF NextPass
  <2>2. /\ (sweep.pc = "handoffs" /\ sweep'.pc = "guidance") \/ sweep'.pc = "grace"
        /\ sweep'.rows = sweep.rows /\ sweep'.acted = sweep.acted /\ sweep' \in Sweeps
        /\ sweep'.stamped = sweep.stamped
    BY <1>2, <2>1 DEF NextPass, Sweeps
  <2>3. BoardInv'
    BY <2>1 DEF IInv, BoardInv, RowOK
  <2>4. ReadInv'
    BY <2>1, <2>2, Awake DEF IInv, ReadInv, AsRead, RowOK, On
  <2>5. OnceInv'
    BY <2>2 DEF IInv, OnceInv
  <2>6. StampInv' /\ IntakeInv' /\ WakeInv'
    BY <2>1, <2>2, Awake DEF IInv, StampInv, IntakeInv, WakeInv, On
  <2> QED
    BY <2>2, <2>3, <2>4, <2>5, <2>6 DEF IInv
<1>3. CASE Intake
  <2>1. sweep \in Sweeps /\ UNCHANGED bead
    BY <1>3, <1>a DEF Intake
  <2>2. /\ sweep'.pc = "dispatch" /\ sweep'.left = {b \in Beads : Pending(b) \/ Candidate(b)}
        /\ sweep'.rows = sweep.rows /\ sweep'.acted = sweep.acted /\ sweep' \in Sweeps
        /\ sweep'.stamped = sweep.stamped
    BY <1>3, <2>1 DEF Intake, Sweeps
  <2>3. BoardInv'
    BY <2>1 DEF IInv, BoardInv, RowOK
  <2>4. ReadInv'
    BY <2>1, <2>2, Awake DEF IInv, ReadInv, AsRead, RowOK, On
  <2>5. OnceInv' /\ WakeInv'
    BY <2>2 DEF OnceInv, WakeInv
  <2>6. StampInv'
    BY <2>1, <2>2, Awake DEF IInv, StampInv, On
  <2>7. IntakeInv'
    BY <2>1, <2>2 DEF IntakeInv, Pending, Candidate
  <2> QED
    BY <2>2, <2>3, <2>4, <2>5, <2>6, <2>7 DEF IInv
<1>4. CASE WakeStart
  <2>1. sweep \in Sweeps /\ UNCHANGED bead
    BY <1>4, <1>a DEF WakeStart
  <2>2. /\ sweep'.pc = "wake" /\ sweep'.rows = sweep.rows /\ sweep'.acted = sweep.acted
        /\ sweep'.stamped = sweep.stamped /\ sweep' \in Sweeps /\ sweep'.mode = sweep.mode
        /\ sweep.mode = "route" =>
              sweep'.todo = sweep.reping \cup {g \in Agents : StampedFor(g) # {}}
    BY <1>4, <2>1 DEF WakeStart, Sweeps
  <2>3. BoardInv'
    BY <2>1 DEF IInv, BoardInv, RowOK
  <2>4. ReadInv'
    BY <2>1, <2>2, Awake DEF IInv, ReadInv, AsRead, RowOK, On
  <2>5. OnceInv' /\ IntakeInv'
    BY <2>2 DEF OnceInv, IntakeInv
  <2>6. StampInv'
    BY <2>1, <2>2, Awake DEF IInv, StampInv, On
  <2>7. ASSUME NEW b \in sweep.stamped, sweep.mode = "route" PROVE bead[b].assignee \in sweep'.todo
    <3>1. b \in Beads
      BY <2>1 DEF Sweeps
    <3>2. bead[b].stage \in Stages /\ bead[b].assignee = AgentFor(bead[b].stage)
      BY <2>1, Awake DEF IInv, StampInv, On
    <3>3. AgentFor(bead[b].stage) # Nobody
      BY <3>1, <3>2 DEF IInv, BoardInv, RowOK
    <3>4. bead[b].assignee \in Agents
      BY <3>2, <3>3, AgentType
    <3>5. b \in StampedFor(bead[b].assignee)
      BY DEF StampedFor
    <3> QED
      BY <2>2, <2>7, <3>4, <3>5
  <2>8. WakeInv'
    BY <2>1, <2>2, <2>7 DEF WakeInv
  <2> QED
    BY <2>2, <2>3, <2>4, <2>5, <2>6, <2>8 DEF IInv
<1>5. CASE Reverted
  <2>1. sweep \in Sweeps /\ UNCHANGED bead
    BY <1>5, <1>a DEF Reverted
  <2>2. /\ sweep.pc = "revert" /\ sweep.left = {}
        /\ sweep'.pc = "wake" /\ sweep'.rows = sweep.rows /\ sweep'.acted = sweep.acted
        /\ sweep'.stamped = sweep.stamped /\ sweep' \in Sweeps /\ sweep'.mode = sweep.mode
        /\ sweep'.todo = sweep.todo /\ sweep'.told = sweep.told
    BY <1>5, <2>1 DEF Reverted, Sweeps
  <2>3. BoardInv'
    BY <2>1 DEF IInv, BoardInv, RowOK
  <2>4. ReadInv'
    BY <2>1, <2>2, Awake DEF IInv, ReadInv, AsRead, RowOK, On
  <2>5. OnceInv' /\ IntakeInv'
    BY <2>2 DEF OnceInv, IntakeInv
  <2>6. StampInv'
    BY <2>1, <2>2, Awake DEF IInv, StampInv, On
  <2>7. WakeInv'
    BY <2>1, <2>2 DEF IInv, WakeInv
  <2> QED
    BY <2>2, <2>3, <2>4, <2>5, <2>6, <2>7 DEF IInv
<1>6. CASE TickEnd \/ TickFails
  <2>1. UNCHANGED bead /\ sweep' = Asleep
    BY <1>6 DEF TickEnd, TickFails, SweepOver
  <2>2. sweep'.pc = "asleep"
    BY <2>1 DEF Asleep
  <2>3. BoardInv'
    BY <2>1 DEF IInv, BoardInv, RowOK
  <2> QED
    BY <2>1, <2>2, <2>3 DEF IInv, ReadInv, OnceInv, StampInv, IntakeInv, WakeInv, On, Asleep
<1>7. ASSUME NEW b \in Beads, HandoffRow(b) PROVE IInv'
  <2>1. /\ sweep \in Sweeps /\ sweep.pc = "handoffs" /\ b \in sweep.left /\ AtWork(b)
        /\ sweep' = Acted(b)
    BY <1>7, <1>a DEF HandoffRow, Turn
  <2>2. b \notin sweep.acted /\ sweep.rows[b].status = "in_progress"
    BY <2>1 DEF IInv, OnceInv, AtWork
  <2>3. \E r : bead' = [bead EXCEPT ![b] = r] /\ RowOK(r) /\ r.status # "in_progress"
    <3>1. CASE hand[b] \in StageVerbs[sweep.rows[b].stage]
      <4>1. MovedOn(b, hand[b])
        BY <1>7, <3>1 DEF HandoffRow
      <4> QED
        BY <2>1, <2>2, <3>1, <4>1, MovedOK
    <3>2. CASE hand[b] \notin StageVerbs[sweep.rows[b].stage]
      <4>1. Parked(b)
        BY <1>7, <3>2 DEF HandoffRow
      <4>2. PICK r : bead' = [bead EXCEPT ![b] = r] /\ RowOK(r) /\ r.status = "blocked"
        BY <2>1, <2>2, <4>1, ParkedOK
      <4> QED
        BY <4>2
    <3> QED
      BY <3>1, <3>2
  <2> QED
    BY <2>1, <2>2, <2>3, TouchKeeps
<1>8. ASSUME NEW b \in Beads, GuidanceRow(b) PROVE IInv'
  <2>1. /\ sweep \in Sweeps /\ sweep.pc = "guidance" /\ b \in sweep.left
        /\ sweep.rows[b].status = "blocked" /\ sweep' = Acted(b)
    BY <1>8, <1>a DEF GuidanceRow, Turn, Resumable
  <2>2. b \notin sweep.acted
    BY <2>1 DEF IInv, OnceInv
  <2>3. PICK r : bead' = [bead EXCEPT ![b] = r] /\ RowOK(r) /\ r.status = "open"
    BY <1>8, <2>1, <2>2, GuidedOK
  <2> QED
    BY <2>1, <2>2, <2>3, TouchKeeps
<1>9. ASSUME NEW b \in Beads, GraceRow(b) PROVE IInv'
  <2>1. /\ sweep \in Sweeps /\ sweep.pc = "grace" /\ b \in sweep.left /\ b \notin sweep.acted
        /\ AtWork(b) /\ Parked(b) /\ sweep' = Acted(b)
    BY <1>9, <1>a DEF GraceRow, Turn
  <2>2. PICK r : bead' = [bead EXCEPT ![b] = r] /\ RowOK(r) /\ r.status = "blocked"
    BY <2>1, ParkedOK
  <2> QED
    BY <2>1, <2>2, TouchKeeps
<1>10. ASSUME NEW b \in Beads, HandoffSkip(b) \/ GuidanceSkip(b) \/ DispatchSkip(b) PROVE IInv'
  <2>1. sweep \in Sweeps /\ sweep.pc # "revert" /\ UNCHANGED bead /\ sweep' = Passed(b)
    BY <1>10, <1>a DEF HandoffSkip, GuidanceSkip, DispatchSkip, Turn
  <2>2. sweep'.left \subseteq sweep.left
    BY <2>1, PassedFields
  <2> QED
    BY <2>1, <2>2, PassedFields, SkipKeeps
<1>11. ASSUME NEW b \in Beads, GraceSkip(b) PROVE IInv'
  <2>1. /\ sweep \in Sweeps /\ sweep.pc = "grace" /\ UNCHANGED bead
        /\ sweep' = [Passed(b) EXCEPT !.reping =
              IF AtWork(b) /\ b \notin sweep.acted /\ sweep.mode = "route" /\ idle[b] > Reping
              THEN @ \cup {sweep.rows[b].assignee} ELSE @]
    BY <1>11, <1>a DEF GraceSkip, Turn
  <2>2. AtWork(b) => sweep.rows[b].assignee \in Agents
    <3> SUFFICES ASSUME AtWork(b) PROVE sweep.rows[b].assignee \in Agents
      OBVIOUS
    <3>1. RowOK(sweep.rows[b]) /\ sweep.rows[b].stage \in Stages
          /\ sweep.rows[b].status = "in_progress"
      BY <2>1 DEF IInv, ReadInv, On, AtWork
    <3>2. /\ sweep.rows[b].assignee = AgentFor(sweep.rows[b].stage)
          /\ AgentFor(sweep.rows[b].stage) # Nobody
      BY <3>1 DEF RowOK
    <3> QED
      BY <3>1, <3>2, AgentType
  <2>3. /\ sweep' \in Sweeps /\ sweep'.pc = sweep.pc /\ sweep'.mode = sweep.mode
        /\ sweep'.left \subseteq sweep.left /\ sweep'.rows = sweep.rows
        /\ sweep'.acted = sweep.acted /\ sweep'.stamped = sweep.stamped
        /\ sweep'.told = sweep.told /\ sweep'.todo = sweep.todo
    BY <2>1, <2>2, PassedFields DEF Sweeps
  <2> QED
    BY <2>1, <2>3, SkipKeeps
<1>12. ASSUME NEW b \in Beads, Dispatch(b) \/ Revert(b) PROVE IInv'
  <2>1. sweep \in Sweeps
    BY <1>12, <1>a DEF Dispatch, Revert, Turn
  <2> QED
    BY <1>12, <2>1, DispatchKeeps, RevertKeeps
<1>13. ASSUME NEW g \in Agents, Wake(g) \/ WakeFails(g) PROVE IInv'
  <2>1. sweep \in Sweeps /\ UNCHANGED bead /\ sweep.pc = "wake"
    BY <1>13, <1>a DEF Wake, WakeFails
  <2>2. StampedFor(g) \in SUBSET Beads
    BY <2>1 DEF StampedFor, Sweeps
  <2>3. /\ sweep'.rows = sweep.rows /\ sweep'.acted = sweep.acted
        /\ sweep'.stamped = sweep.stamped /\ sweep' \in Sweeps /\ sweep'.mode = sweep.mode
        /\ sweep'.todo = sweep.todo \ {g}
        /\ \/ sweep'.pc = "wake" /\ sweep'.told = sweep.told \cup StampedFor(g)
           \/ sweep'.pc = "revert" /\ sweep'.left = StampedFor(g) /\ sweep'.told = sweep.told
    <3>1. CASE Wake(g)
      BY <2>1, <2>2, <3>1 DEF Wake, Sweeps
    <3>2. CASE WakeFails(g)
      BY <2>1, <2>2, <3>2 DEF WakeFails, Sweeps
    <3> QED
      BY <1>13, <3>1, <3>2
  <2>4. BoardInv'
    BY <2>1 DEF IInv, BoardInv, RowOK
  <2>5. ReadInv'
    BY <2>1, <2>3, Awake DEF IInv, ReadInv, AsRead, RowOK, On
  <2>6. OnceInv' /\ IntakeInv'
    BY <2>3 DEF OnceInv, IntakeInv
  <2>7. StampInv'
    BY <2>1, <2>3, Awake DEF IInv, StampInv, On
  <2>8. WakeInv'
    BY <2>1, <2>3 DEF IInv, WakeInv, StampedFor
  <2> QED
    BY <2>3, <2>4, <2>5, <2>6, <2>7, <2>8 DEF IInv
<1>14. CASE Hour
  BY <1>0, <1>14 DEF Hour
<1>15. ASSUME NEW b \in Beads,
              LinkPr(b) \/ (\E v \in Posts \cup {None} : AgentSays(b, v))
                 \/ \E w \in {"guidance", "other"} : OwnerSays(b, w)
       PROVE  IInv'
  BY <1>0, <1>15 DEF LinkPr, AgentSays, OwnerSays
<1>16. ASSUME NEW b \in Beads, OwnerCloses(b) PROVE IInv'
  BY <1>16, CloseKeeps
<1>17. CASE UNCHANGED vars
  BY <1>0, <1>17 DEF vars
<1>18. CASE SweepStep
  BY <1>18, <1>1, <1>2, <1>3, <1>4, <1>5, <1>6, <1>7, <1>8, <1>9, <1>10, <1>11, <1>12, <1>13
     DEF SweepStep
<1> QED
  BY <1>6, <1>14, <1>15, <1>16, <1>17, <1>18 DEF Next

(* They hold in every state.                                                  *)
LEMMA IInvAlways == Spec => []IInv
<1>1. Init => IInv
  <2> SUFFICES ASSUME Init PROVE IInv
    OBVIOUS
  <2> DEFINE r == [status |-> "open", assignee |-> Nobody, stage |-> None,
                   dispatched |-> FALSE, pending |-> FALSE, from |-> None]
  <2>1. bead = [b \in Beads |-> r] /\ sweep = [pc |-> "asleep"]
    BY DEF Init, Asleep
  <2>3. r \in Row /\ r.stage = None /\ r.status = "open"
    BY DEF Row
  <2> HIDE DEF r
  <2>4. RowOK(r)
    BY <2>3 DEF RowOK, Stages, None
  <2>2. BoardInv
    BY <2>1, <2>3, <2>4 DEF BoardInv
  <2> QED
    BY <2>1, <2>2 DEF IInv, ReadInv, OnceInv, StampInv, IntakeInv, WakeInv, On, Asleep
<1> QED
  BY <1>1, IInvStep, PTL DEF Spec

(* Whatever sequence of handoffs, parks, reverts and sweeps that die, every   *)
(* staged bead is where some pass looks at it (the filters of the passes of   *)
(* vs-hub-router.py).                                                         *)
THEOREM NeverInLimbo == Spec => []NoLimbo
<1>1. IInv => NoLimbo
  BY DEF IInv, BoardInv, RowOK, NoLimbo
<1> QED
  BY <1>1, IInvAlways, PTL

(* When the wake-ups are done, what was dispatched is announced or pending    *)
(* again (_send_wakeups).                                                     *)
THEOREM AllPingedOrReverted == Spec => []PingedOrReverted
<1>1. IInv => PingedOrReverted
  <2> SUFFICES ASSUME IInv, sweep.pc = "wake", sweep.todo = {}, sweep.mode = "route",
                      NEW b \in Beads, Working(b), ~sweep.rows[b].dispatched
               PROVE  b \in sweep.told
    BY DEF PingedOrReverted
  <2>1. b \in sweep.acted
    BY DEF IInv, ReadInv, On, AsRead, Working
  <2>2. b \in sweep.stamped
    BY <2>1 DEF IInv, StampInv, On, Working
  <2> QED
    BY <2>2 DEF IInv, WakeInv
<1> QED
  BY <1>1, IInvAlways, PTL
-------------------------------------------------------------------------------
(* A write that puts nothing in progress, and changes the stage only as the   *)
(* stage's agent asked.                                                       *)
Settles(b) == \E r : /\ bead' = [bead EXCEPT ![b] = r] /\ r.status # "in_progress"
                     /\ \/ r.stage = bead[b].stage
                        \/ <<bead[b].stage, hand[b], r.stage>> \in Pipeline

(* Every step but a dispatch writes at most one row, and so.                  *)
LEMMA Writes ==
    ASSUME IInv, [Next]_vars
    PROVE  \/ bead' = bead
           \/ \E b \in Beads : Settles(b)
           \/ \E b \in Beads : sweep \in Sweeps /\ Dispatch(b)
<1>a. ASSUME sweep.pc # "asleep" PROVE sweep \in Sweeps
  BY <1>a, Awake DEF IInv
<1>1. ASSUME NEW b \in Beads, HandoffRow(b) PROVE Settles(b)
  <2>1. /\ sweep \in Sweeps /\ b \in sweep.left /\ AtWork(b) /\ sweep.pc = "handoffs"
    BY <1>1, <1>a DEF HandoffRow, Turn
  <2>2. b \notin sweep.acted
    BY <2>1 DEF IInv, OnceInv
  <2>3. CASE hand[b] \in StageVerbs[sweep.rows[b].stage]
    <3>1. MovedOn(b, hand[b])
      BY <1>1, <2>3 DEF HandoffRow
    <3> QED
      BY <2>1, <2>2, <2>3, <3>1, MovedOK DEF Settles
  <2>4. CASE hand[b] \notin StageVerbs[sweep.rows[b].stage]
    <3>1. Parked(b)
      BY <1>1, <2>4 DEF HandoffRow
    <3>2. PICK r : /\ bead' = [bead EXCEPT ![b] = r] /\ RowOK(r) /\ r.status = "blocked"
                   /\ r.stage = bead[b].stage
      BY <2>1, <2>2, <3>1, ParkedOK
    <3> QED
      BY <3>2 DEF Settles
  <2> QED
    BY <2>3, <2>4
<1>2. ASSUME NEW b \in Beads, GuidanceRow(b) PROVE Settles(b)
  <2>1. /\ sweep \in Sweeps /\ b \in sweep.left /\ sweep.rows[b].status = "blocked"
        /\ sweep.pc = "guidance"
    BY <1>2, <1>a DEF GuidanceRow, Turn, Resumable
  <2>2. b \notin sweep.acted
    BY <2>1 DEF IInv, OnceInv
  <2>3. PICK r : /\ bead' = [bead EXCEPT ![b] = r] /\ RowOK(r) /\ r.status = "open"
                 /\ r.stage = bead[b].stage
    BY <1>2, <2>1, <2>2, GuidedOK
  <2> QED
    BY <2>3 DEF Settles
<1>3. ASSUME NEW b \in Beads, GraceRow(b) PROVE Settles(b)
  <2>1. sweep \in Sweeps /\ b \notin sweep.acted /\ AtWork(b) /\ Parked(b)
    BY <1>3, <1>a DEF GraceRow, Turn
  <2>2. PICK r : /\ bead' = [bead EXCEPT ![b] = r] /\ RowOK(r) /\ r.status = "blocked"
                 /\ r.stage = bead[b].stage
    BY <2>1, ParkedOK
  <2> QED
    BY <2>2 DEF Settles
<1>4. ASSUME NEW b \in Beads, Revert(b) PROVE Settles(b)
  <2>1. sweep \in Sweeps
    BY <1>4, <1>a DEF Revert, Turn
  <2>2. PICK r : /\ bead' = [bead EXCEPT ![b] = r] /\ RowOK(r) /\ r.status = "open"
                 /\ r.stage = bead[b].stage
    BY <1>4, <2>1, RevertedOK
  <2> QED
    BY <2>2 DEF Settles
<1>5. ASSUME NEW b \in Beads, OwnerCloses(b) PROVE Settles(b)
  <2> DEFINE r == [bead[b] EXCEPT !.status = "closed"]
  <2>1. bead' = [bead EXCEPT ![b] = r]
    BY <1>5 DEF OwnerCloses
  <2>2. r.status = "closed" /\ r.stage = bead[b].stage
    BY DEF IInv, BoardInv, Row
  <2> HIDE DEF r
  <2> QED
    BY <2>1, <2>2 DEF Settles
<1>6. ASSUME NEW b \in Beads, Dispatch(b) PROVE sweep \in Sweeps
  BY <1>6, <1>a DEF Dispatch, Turn
<1>7. ASSUME NEW b \in Beads,
             HandoffSkip(b) \/ GuidanceSkip(b) \/ GraceSkip(b) \/ DispatchSkip(b) \/ LinkPr(b)
      PROVE  bead' = bead
  BY <1>7 DEF HandoffSkip, GuidanceSkip, GraceSkip, DispatchSkip, LinkPr
<1>8. ASSUME NEW mode \in Modes, TickStart(mode) PROVE bead' = bead
  BY <1>8 DEF TickStart
<1>9. ASSUME NextPass \/ Intake \/ WakeStart \/ Reverted \/ TickEnd \/ TickFails \/ Hour
      PROVE  bead' = bead
  BY <1>9 DEF NextPass, Intake, WakeStart, Reverted, TickEnd, TickFails, SweepOver, Hour
<1>10. ASSUME NEW g \in Agents, Wake(g) \/ WakeFails(g) PROVE bead' = bead
  BY <1>10 DEF Wake, WakeFails
<1>11. ASSUME NEW b \in Beads, NEW v, AgentSays(b, v) \/ OwnerSays(b, v) PROVE bead' = bead
  BY <1>11 DEF AgentSays, OwnerSays
<1>12. CASE SweepStep
  BY <1>12, <1>1, <1>2, <1>3, <1>4, <1>6, <1>7, <1>8, <1>9, <1>10 DEF SweepStep
<1>13. CASE UNCHANGED vars
  BY <1>13 DEF vars
<1> QED
  BY <1>5, <1>7, <1>9, <1>11, <1>12, <1>13 DEF Next

(* No bead skips a stage: it moves along the pipeline, on the verb its        *)
(* stage's agent posted, or is taken in at its label (HANDOFF_TARGET_STAGE).  *)
THEOREM NoStageSkipped == Spec => StagesInOrder
<1> DEFINE Ordered == \A b \in Beads : bead'[b].stage # bead[b].stage =>
          \/ bead[b].stage = None /\ bead'[b].stage = Label[b]
          \/ <<bead[b].stage, hand[b], bead'[b].stage>> \in Pipeline
<1>1. ASSUME IInv, [Next]_vars PROVE Ordered
  <2>0. bead \in [Beads -> Row]
    BY <1>1 DEF IInv, BoardInv
  <2>1. CASE bead' = bead
    BY <2>1
  <2>2. ASSUME NEW b \in Beads, Settles(b) PROVE Ordered
    <3>1. PICK r : /\ bead' = [bead EXCEPT ![b] = r]
                   /\ \/ r.stage = bead[b].stage
                      \/ <<bead[b].stage, hand[b], r.stage>> \in Pipeline
      BY <2>2 DEF Settles
    <3>2. bead'[b] = r /\ \A c \in Beads \ {b} : bead'[c] = bead[c]
      BY <2>0, <3>1
    <3> QED
      BY <3>1, <3>2
  <2>3. ASSUME NEW b \in Beads, sweep \in Sweeps, Dispatch(b) PROVE Ordered
    <3>1. PICK r : /\ bead' = [bead EXCEPT ![b] = r]
                   /\ \/ r.stage = bead[b].stage
                      \/ bead[b].stage = None /\ r.stage = Label[b]
      BY <1>1, <2>3, DispatchedOK
    <3>2. bead'[b] = r /\ \A c \in Beads \ {b} : bead'[c] = bead[c]
      BY <2>0, <3>1
    <3> QED
      BY <3>1, <3>2
  <2> QED
    BY <1>1, <2>1, <2>2, <2>3, Writes
<1>2. IInv /\ [Next]_vars => [Ordered]_vars
  BY <1>1
<1>3. StagesInOrder <=> [][Ordered]_vars
  BY DEF StagesInOrder, Pipeline
<1> QED
  BY <1>2, <1>3, IInvAlways, PTL DEF Spec
-------------------------------------------------------------------------------
(* What an agent has in progress.                                             *)
Load(g) == {b \in Beads : bead[b].status = "in_progress" /\ bead[b].assignee = g}

(* During a sweep it is among what the sweep counts: what it read, and what   *)
(* it has dispatched itself.                                                  *)
LEMMA LoadCounted ==
    ASSUME IInv, sweep \in Sweeps, NEW g
    PROVE  /\ Cardinality(Load(g)) \in Nat /\ Running(g) \in Nat
           /\ Cardinality(Load(g)) <= Running(g)
<1> DEFINE A == {b \in Beads : /\ sweep.rows[b].assignee = g
                               /\ sweep.rows[b].status = "in_progress"
                               /\ sweep.rows[b].stage # None}
           B == {b \in sweep.stamped : bead[b].assignee = g}
<1>1. Running(g) = Cardinality(A) + Cardinality(B)
  BY DEF Running
<1>2. IsFiniteSet(Beads) /\ A \in SUBSET Beads /\ B \in SUBSET Beads
  BY RosterAssumption DEF Sweeps
<1>3. Load(g) \subseteq A \cup B
  <2> SUFFICES ASSUME NEW b \in Beads, bead[b].status = "in_progress", bead[b].assignee = g,
                      b \notin B
               PROVE  b \in A
    BY DEF Load
  <2>1. b \notin sweep.acted
    BY Awake DEF IInv, StampInv, On
  <2>2. AsRead(b) /\ RowOK(sweep.rows[b])
    BY <2>1, Awake DEF IInv, ReadInv, On
  <2>3. sweep.rows[b].status = "in_progress" /\ sweep.rows[b].assignee = g
    BY <2>2 DEF AsRead
  <2>4. sweep.rows[b].stage # None
    BY <2>2, <2>3 DEF RowOK, Stages, None
  <2> QED
    BY <2>3, <2>4
<1> HIDE DEF A, B
<1>4. IsFiniteSet(A) /\ IsFiniteSet(B)
  BY <1>2, FS_Subset
<1>5. /\ IsFiniteSet(A \cup B) /\ IsFiniteSet(A \cap B)
      /\ Cardinality(A \cup B) = Cardinality(A) + Cardinality(B) - Cardinality(A \cap B)
  <2>1. A \cap B \in SUBSET A
    OBVIOUS
  <2> QED
    BY <1>4, <2>1, FS_Union, FS_Subset
<1>6. /\ Cardinality(A) \in Nat /\ Cardinality(B) \in Nat /\ Cardinality(A \cap B) \in Nat
      /\ Cardinality(A \cup B) \in Nat
  BY <1>4, <1>5, FS_CardinalityType
<1>7. IsFiniteSet(Load(g)) /\ Cardinality(Load(g)) <= Cardinality(A \cup B)
  BY <1>3, <1>5, FS_Subset
<1>8. Cardinality(Load(g)) \in Nat
  BY <1>7, FS_CardinalityType
<1> QED
  BY <1>1, <1>5, <1>6, <1>7, <1>8

(* No step takes an agent over the cap.                                       *)
LEMMA WipStep == IInv /\ WipCap /\ [Next]_vars => WipCap'
<1> SUFFICES ASSUME IInv, WipCap, [Next]_vars, NEW g \in Agents
             PROVE  Cardinality(Load(g)') <= Wip
  BY DEF WipCap, Load
<1>0. bead \in [Beads -> Row] /\ IsFiniteSet(Beads) /\ Wip \in Nat
  BY RosterAssumption DEF IInv, BoardInv
<1>1. Cardinality(Load(g)) <= Wip
  BY DEF WipCap, Load
<1>2. IsFiniteSet(Load(g)) /\ Cardinality(Load(g)) \in Nat
  <2>1. Load(g) \in SUBSET Beads
    BY DEF Load
  <2> QED
    BY <1>0, <2>1, FS_Subset, FS_CardinalityType
<1>3. ASSUME Load(g)' \subseteq Load(g) PROVE Cardinality(Load(g)') <= Wip
  <2>1. IsFiniteSet(Load(g)') /\ Cardinality(Load(g)') <= Cardinality(Load(g))
    BY <1>2, <1>3, FS_Subset
  <2>2. Cardinality(Load(g)') \in Nat
    BY <2>1, FS_CardinalityType
  <2> QED
    BY <1>0, <1>1, <1>2, <2>1, <2>2
<1>4. CASE bead' = bead
  BY <1>3, <1>4 DEF Load
<1>5. ASSUME NEW b \in Beads, Settles(b) PROVE Cardinality(Load(g)') <= Wip
  <2>1. PICK r : bead' = [bead EXCEPT ![b] = r] /\ r.status # "in_progress"
    BY <1>5 DEF Settles
  <2>2. bead'[b] = r /\ \A c \in Beads \ {b} : bead'[c] = bead[c]
    BY <1>0, <2>1
  <2>3. Load(g)' \subseteq Load(g)
    BY <2>1, <2>2 DEF Load
  <2> QED
    BY <1>3, <2>3
<1>6. ASSUME NEW b \in Beads, sweep \in Sweeps, Dispatch(b) PROVE Cardinality(Load(g)') <= Wip
  <2>1. PICK r : /\ bead' = [bead EXCEPT ![b] = r] /\ r.stage = DispatchStage(b)
                 /\ r.assignee = AgentFor(r.stage)
    BY <1>6, DispatchedOK
  <2>2. bead'[b] = r /\ \A c \in Beads \ {b} : bead'[c] = bead[c]
    BY <1>0, <2>1
  <2>3. CASE r.assignee # g
    <3>1. Load(g)' \subseteq Load(g)
      BY <2>2, <2>3 DEF Load
    <3> QED
      BY <1>3, <3>1
  <2>4. CASE r.assignee = g
    <3>1. Running(g) < Wip
      BY <1>6, <2>1, <2>4 DEF Dispatch, Dispatchable
    <3>2. Running(g) \in Nat /\ Cardinality(Load(g)) <= Running(g)
      BY <1>6, LoadCounted
    <3>3. Load(g)' \subseteq Load(g) \cup {b}
      BY <2>2 DEF Load
    <3>4. /\ IsFiniteSet(Load(g) \cup {b})
          /\ Cardinality(Load(g) \cup {b}) \in {Cardinality(Load(g)), Cardinality(Load(g)) + 1}
      BY <1>2, FS_AddElement
    <3>5. IsFiniteSet(Load(g)') /\ Cardinality(Load(g)') <= Cardinality(Load(g) \cup {b})
      BY <3>3, <3>4, FS_Subset
    <3>6. Cardinality(Load(g)') \in Nat
      BY <3>5, FS_CardinalityType
    <3> QED
      BY <1>0, <1>2, <3>1, <3>2, <3>4, <3>5, <3>6
  <2> QED
    BY <2>3, <2>4
<1> QED
  BY <1>4, <1>5, <1>6, Writes

(* No agent ever has more than the cap in progress, whatever the sweep that   *)
(* dispatched it read and however sweeps end (_pass_dispatch).                *)
THEOREM NeverOverWip == Spec => []WipCap
<1>1. Init => WipCap
  <2> SUFFICES ASSUME Init, NEW g \in Agents PROVE Cardinality(Load(g)) <= Wip
    BY DEF WipCap, Load
  <2>1. Load(g) = {}
    BY DEF Init, Load
  <2>2. Cardinality(Load(g)) = 0
    BY <2>1, FS_EmptySet
  <2> QED
    BY <2>2, RosterAssumption
<1> QED
  BY <1>1, WipStep, IInvAlways, PTL DEF Spec
-------------------------------------------------------------------------------
(* The variables the sweep's promises do not speak of.                        *)
TalkInv ==
    /\ pr \subseteq Beads
    /\ hand \in [Beads -> Verbs \cup {None}]
    /\ said \in [Beads -> {None, "guidance", "other"}]
    /\ heard \in [Beads -> [hand : Verbs \cup {None}, said : {None, "guidance", "other"}]]
    /\ age \in [Beads -> Hours] /\ idle \in [Beads -> Hours]

(* Every action keeps their types.                                            *)
LEMMA TalkStep == TalkInv /\ [Next]_vars => TalkInv'
<1> SUFFICES ASSUME TalkInv, [Next]_vars PROVE TalkInv'
  OBVIOUS
<1>z. 0 \in Hours /\ Silent \in Nat
  BY RosterAssumption DEF Hours
<1>0. ASSUME UNCHANGED <<pr, hand, said, heard, age, idle>> PROVE TalkInv'
  BY <1>0 DEF TalkInv
<1>u. ASSUME NEW b \in Beads, Unstamped(b), UNCHANGED <<pr, heard>>,
             said' = said \/ said' = [said EXCEPT ![b] = heard[b].said]
      PROVE  TalkInv'
  BY <1>u, <1>z DEF TalkInv, Unstamped
<1>1. ASSUME NEW b \in Beads, HandoffRow(b) PROVE TalkInv'
  <2>1. said' = said \/ said' = [said EXCEPT ![b] = heard[b].said]
    BY <1>1 DEF HandoffRow, MovedOn, Parked
  <2> QED
    BY <1>1, <1>u, <2>1 DEF HandoffRow
<1>2. ASSUME NEW b \in Beads, GraceRow(b) \/ Revert(b) PROVE TalkInv'
  BY <1>2, <1>u DEF GraceRow, Parked, Revert
<1>3. ASSUME NEW b \in Beads, GuidanceRow(b) PROVE TalkInv'
  BY <1>3 DEF GuidanceRow, TalkInv
<1>4. ASSUME NEW b \in Beads, Dispatch(b) PROVE TalkInv'
  BY <1>4, <1>z DEF Dispatch, TalkInv
<1>5. ASSUME NEW b \in Beads,
             HandoffSkip(b) \/ GuidanceSkip(b) \/ GraceSkip(b) \/ DispatchSkip(b) \/ OwnerCloses(b)
      PROVE  TalkInv'
  BY <1>0, <1>5 DEF HandoffSkip, GuidanceSkip, GraceSkip, DispatchSkip, OwnerCloses
<1>6. ASSUME NEW mode \in Modes, TickStart(mode) PROVE TalkInv'
  BY <1>0, <1>6 DEF TickStart
<1>7. ASSUME NextPass \/ Intake \/ WakeStart \/ Reverted PROVE TalkInv'
  BY <1>0, <1>7 DEF NextPass, Intake, WakeStart, Reverted
<1>8. ASSUME TickEnd \/ TickFails PROVE TalkInv'
  BY <1>8 DEF TickEnd, TickFails, SweepOver, Silence, TalkInv
<1>9. ASSUME NEW g \in Agents, Wake(g) \/ WakeFails(g) PROVE TalkInv'
  BY <1>0, <1>9 DEF Wake, WakeFails
<1>10. CASE Hour
  <2> DEFINE Later(h) == IF h = Silent + 1 THEN h ELSE h + 1
  <2>1. \A h \in Hours : Later(h) \in Hours
    BY <1>z DEF Hours
  <2>2. /\ age' = [b \in Beads |-> IF Working(b) THEN Later(age[b]) ELSE age[b]]
        /\ idle' = [b \in Beads |-> IF Working(b) THEN Later(idle[b]) ELSE idle[b]]
        /\ UNCHANGED <<pr, hand, said, heard>>
    BY <1>10 DEF Hour
  <2> HIDE DEF Later
  <2> QED
    BY <2>1, <2>2 DEF TalkInv
<1>11. ASSUME NEW b \in Beads, LinkPr(b) PROVE TalkInv'
  BY <1>11 DEF LinkPr, TalkInv
<1>12. ASSUME NEW b \in Beads, NEW v \in Posts \cup {None}, AgentSays(b, v) PROVE TalkInv'
  <2>1. v \in Verbs \cup {None}
    BY RosterAssumption
  <2> QED
    BY <1>12, <1>z, <2>1 DEF AgentSays, TalkInv
<1>13. ASSUME NEW b \in Beads, NEW w \in {"guidance", "other"}, OwnerSays(b, w) PROVE TalkInv'
  BY <1>13 DEF OwnerSays, First, TalkInv
<1>14. CASE SweepStep
  BY <1>14, <1>1, <1>2, <1>3, <1>4, <1>5, <1>6, <1>7, <1>8, <1>9 DEF SweepStep
<1>15. CASE UNCHANGED vars
  BY <1>0, <1>15 DEF vars
<1> QED
  BY <1>5, <1>8, <1>10, <1>11, <1>12, <1>13, <1>14, <1>15 DEF Next

(* The board, what was said on it and the sweep keep their types.             *)
THEOREM TypeCorrect == Spec => []TypeOK
<1>1. Init => TalkInv
  BY RosterAssumption DEF Init, TalkInv, Silence, Hours
<1>2. IInv /\ TalkInv => TypeOK
  <2> SUFFICES ASSUME IInv, TalkInv PROVE TypeOK
    OBVIOUS
  <2>1. sweep \in Sweeps =>
       /\ sweep.pc \in {"handoffs", "guidance", "grace", "dispatch", "wake", "revert"}
       /\ sweep.mode \in Modes
       /\ sweep.rows \in [Beads -> Row]
       /\ sweep.left \cup sweep.acted \cup sweep.stamped \cup sweep.told \subseteq Beads
       /\ sweep.reping \cup sweep.todo \subseteq Agents
    BY DEF Sweeps
  <2> QED
    BY <2>1 DEF IInv, BoardInv, TalkInv, TypeOK
<1>3. Spec => []TalkInv
  BY <1>1, TalkStep, PTL DEF Spec
<1> QED
  BY <1>2, <1>3, IInvAlways, PTL
===============================================================================
