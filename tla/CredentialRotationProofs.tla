----------------------- MODULE CredentialRotationProofs -----------------------
(* Proofs about CredentialRotation: deliver-then-revoke of the identity keys *)
(* for any number of agents, keys, bundle versions, rotations and crashes,   *)
(* where the registrar serves one start or sweep at a time. (Two requests at *)
(* a time overwrite each other's renderings: the properties fail then.)      *)
EXTENDS CredentialRotation, FiniteSetTheorems, WellFoundedInduction, TLAPS

OneWorker == \A v, w \in Workers : v = w

-----------------------------------------------------------------------------
(* The states of a request.                                                  *)

StartJobs == [pc: {"check", "mint"}, agent: Agents, old: Key]
ScanJobs == [pc: {"scan"}, agent: Agents, old: Key, new: Key]
DeliverJobs == [pc: {"deliver"}, agent: Agents, old: Key, new: Key,
                seen: [Agents -> Bundles], todo: SUBSET Agents, ledger: Ledgers]
SweepJobs == [pc: {"sweep"}, only: Nat, force: BOOLEAN]
RowJobs == [pc: {"row", "flip", "confirm", "revoke"}, force: BOOLEAN, queue: SUBSET Rows]
FlipJobs == [pc: {"flipWrite"}, force: BOOLEAN, queue: SUBSET Rows, seen: Bundles]
MarkJobs == [pc: {"flipMark"}, force: BOOLEAN, queue: SUBSET Rows, version: Version]
CleanJobs == [pc: {"clean"}, force: BOOLEAN, queue: SUBSET Rows, todo: SUBSET Agents]
WriteJobs == [pc: {"cleanWrite"}, force: BOOLEAN, queue: SUBSET Rows, todo: SUBSET Agents,
              peer: Agents, seen: Bundles]
Jobs == {Idle} \union StartJobs \union ScanJobs \union DeliverJobs \union SweepJobs
        \union RowJobs \union FlipJobs \union MarkJobs \union CleanJobs \union WriteJobs

Starting == {"check", "mint", "scan", "deliver"}
Late == {"revoke", "clean", "cleanWrite"}
AtRowPcs == {"row", "flip", "flipWrite", "flipMark", "confirm"} \union Late

TypeInv == /\ TypeOK
           /\ rows \in Seq(Rows)
           /\ job \in [Workers -> Jobs]
           /\ \A w \in Workers : job[w].pc \in AtRowPcs =>
                /\ job[w].queue # {}
                /\ \A r \in job[w].queue : r.id \in DOMAIN rows /\ r.status \in Open

-----------------------------------------------------------------------------
(* The rows a sweep holds are the rows of the table, but for the status of   *)
(* the one it has just confirmed.                                            *)
AsTable(w, r) ==
    rows[r.id] = IF r = Current(w) /\ job[w].pc \in Late
                 THEN [r EXCEPT !.status = "awaiting_revoke"] ELSE r

QueueInv(w) ==
    job[w].pc \in AtRowPcs =>
        /\ \A r \in job[w].queue : AsTable(w, r) /\ (job[w].force => r.agent \in forced)
        /\ \A r, s \in job[w].queue : r.id = s.id => r = s

ForceInv(w) ==
    job[w].pc = "sweep" /\ job[w].force =>
        job[w].only \in DOMAIN rows /\ rows[job[w].only].agent \in forced

(* Which row the sweep is at, and what has been found out about it.          *)
StageInv(w) ==
    /\ job[w].pc \in {"flip", "flipWrite", "flipMark"} => Current(w).status = "delivering"
    /\ job[w].pc = "confirm" => Current(w).status = "awaiting_target"
    /\ job[w].pc \in {"flip", "flipWrite"} /\ Current(w).agent \notin forced
         => PeersConfirmed(Current(w))
    /\ job[w].pc = "confirm" /\ Current(w).agent \notin forced => TargetConfirmed(Current(w))
    /\ job[w].pc = "flipWrite" => job[w].seen = bundle[Current(w).agent]
    /\ job[w].pc = "flipMark" =>
         /\ bundle[Current(w).agent].id = Current(w).new /\ job[w].version # 0
         /\ dev[Current(w).agent].v >= job[w].version
              => dev[Current(w).agent].id = Current(w).new
    /\ job[w].pc = "cleanWrite" => job[w].seen = bundle[job[w].peer]

(* A peer's a2a.json in the overlap: the new key, and the old one beside it. *)
Overlaps(b2, a, old, new) == b2.tok[a] = new /\ b2.ov[a] = old

(* A start holds the identity key of the bundle, and once past its check     *)
(* there is no open row; the peers served so far have both keys.             *)
StartInv(w) ==
    job[w].pc \in Starting =>
        LET a == job[w].agent IN
        /\ job[w].old = bundle[a].id
        /\ job[w].pc # "check" => ~HasOpenRow(a)
        /\ job[w].pc \in {"scan", "deliver"} =>
             job[w].new \in live[a] /\ job[w].new <= minted[a] /\ job[w].new # job[w].old
        /\ job[w].pc = "deliver" =>
             /\ a \notin job[w].todo /\ job[w].ledger[a] = 0
             /\ \A b \in job[w].todo : job[w].seen[b] = bundle[b]
             /\ \A b \in Agents \ (job[w].todo \union {a}) :
                  /\ job[w].ledger[b] # 0
                  /\ Overlaps(bundle[b], a, job[w].old, job[w].new)
                  /\ dev[b].v >= job[w].ledger[b]
                       => Overlaps(dev[b], a, job[w].old, job[w].new)

JobInv == \A w \in Workers : QueueInv(w) /\ ForceInv(w) /\ StageInv(w) /\ StartInv(w)

-----------------------------------------------------------------------------
(* What the bundles and the devices hold at each stage of an open row.       *)

Peers(a) == Agents \ {a}

Delivering(r) ==
    r.status = "delivering" =>
        LET a == r.agent IN
        /\ r.old \in live[a] /\ bundle[a].id \in {r.old, r.new}
        /\ \A b \in Peers(a) :
             /\ Overlaps(bundle[b], a, r.old, r.new)
             /\ dev[b].v >= r.ledger[b] => Overlaps(dev[b], a, r.old, r.new)
        /\ a \notin forced =>
             /\ dev[a].id \in {r.old, r.new}
             /\ bundle[a].id = r.old => dev[a].id = r.old
             /\ \A b \in Peers(a) : r.old \in Accepted(dev[b], a)
             /\ bundle[a].id = r.new => \A b \in Peers(a) : Overlaps(dev[b], a, r.old, r.new)

AwaitingTarget(r) ==
    r.status = "awaiting_target" =>
        LET a == r.agent IN
        /\ r.old \in live[a] /\ bundle[a].id = r.new /\ r.nbv # 0
        /\ dev[a].v >= r.nbv => dev[a].id = r.new
        /\ \A b \in Peers(a) : Overlaps(bundle[b], a, r.old, r.new)
        /\ a \notin forced =>
             /\ dev[a].id \in {r.old, r.new}
             /\ \A b \in Peers(a) : Overlaps(dev[b], a, r.old, r.new)

AwaitingRevoke(r) ==
    r.status = "awaiting_revoke" =>
        LET a == r.agent IN
        /\ bundle[a].id = r.new
        /\ \A b \in Peers(a) : bundle[b].tok[a] = r.new
        /\ a \notin forced =>
             /\ dev[a].id = r.new
             /\ \A b \in Peers(a) : dev[b].tok[a] = r.new

RowInv(i) ==
    LET r == rows[i] a == rows[i].agent IN
    /\ r.old # NoKey /\ r.old <= minted[a]
    /\ r.new # NoKey /\ r.new <= minted[a] /\ r.old # r.new /\ r.new \in live[a]
    /\ r.ledger[a] = 0 /\ \A b \in Peers(a) : r.ledger[b] # 0
    /\ Delivering(r) /\ AwaitingTarget(r) /\ AwaitingRevoke(r)

OpenIds == {i \in DOMAIN rows : rows[i].status \in Open}

RowsInv ==
    /\ \A i \in OpenIds : RowInv(i)
    /\ \A i, j \in OpenIds : rows[i].agent = rows[j].agent => i = j

(* An agent without an open row: the device runs with the bundle's key,      *)
(* which is live and which every peer accepts.                               *)
RestInv(a) ==
    ~HasOpenRow(a) =>
        /\ bundle[a].id \in live[a]
        /\ a \notin forced =>
             /\ dev[a].id = bundle[a].id
             /\ \A b \in Peers(a) : /\ bundle[a].id \in Accepted(bundle[b], a)
                                    /\ bundle[a].id \in Accepted(dev[b], a)

AgentInv(a) ==
    /\ report[a] <= dev[a].v /\ dev[a].v <= bundle[a].v
    /\ bundle[a].id # NoKey /\ bundle[a].id <= minted[a]
    /\ bundle[a].ov[a] = NoKey
    /\ \A b \in Peers(a) : bundle[b].tok[a] # NoKey
    /\ RestInv(a)

IInv == JobInv /\ RowsInv /\ \A a \in Agents : AgentInv(a)

-----------------------------------------------------------------------------
(* The keys that no row tells of: those of starts that died on the way.      *)

StartOf(w, a) == job[w].pc \in {"scan", "deliver"} /\ job[w].agent = a
UnderWay(a) == \E w \in Workers : StartOf(w, a)
CleanupOf(w, a) == job[w].pc \in {"clean", "cleanWrite"} /\ Current(w).agent = a

Told(a) == Cardinality(RowsOf(a)) + 1 + (IF UnderWay(a) THEN 1 ELSE 0)

NoOverlap(a) == \A b \in Agents : bundle[b].ov[a] = NoKey

(* No key but the ones in use is live, and the overlap is found with the     *)
(* peers only while the rotation lasts.                                      *)
Tidy(a) ==
    /\ ~HasOpenRow(a) =>
         /\ \A key \in live[a] : \/ key = bundle[a].id
                                \/ \E w \in Workers : StartOf(w, a) /\ key = job[w].new
         /\ UnderWay(a) \/ NoOverlap(a)
    /\ \A i \in OpenIds : rows[i].agent = a => live[a] \subseteq {rows[i].old, rows[i].new}
    /\ \A w \in Workers : StartOf(w, a) /\ job[w].pc = "scan" => NoOverlap(a)
    /\ \A w \in Workers : CleanupOf(w, a) =>
         /\ Current(w).old \notin live[a]
         /\ \A b \in Agents \ job[w].todo : \/ job[w].pc = "cleanWrite" /\ b = job[w].peer
                                            \/ bundle[b].ov[a] = NoKey

(* Every row and the start under way has a key of its own; where there are   *)
(* no other keys, the agent is tidy.                                         *)
TidyInv(a) == minted[a] >= Told(a) /\ (minted[a] = Told(a) => Tidy(a))

-----------------------------------------------------------------------------
(* Types.                                                                    *)

(* The pc of a request tells which fields it has.                            *)
LEMMA JobShape ==
    ASSUME NEW x \in Jobs
    PROVE  /\ x.pc \in {"check", "mint"} => x \in StartJobs
           /\ x.pc = "scan" => x \in ScanJobs
           /\ x.pc = "deliver" => x \in DeliverJobs
           /\ x.pc = "sweep" => x \in SweepJobs
           /\ x.pc \in {"row", "flip", "confirm", "revoke"} => x \in RowJobs
           /\ x.pc = "flipWrite" => x \in FlipJobs
           /\ x.pc = "flipMark" => x \in MarkJobs
           /\ x.pc = "clean" => x \in CleanJobs
           /\ x.pc = "cleanWrite" => x \in WriteJobs
  BY DEF Jobs, Idle, StartJobs, ScanJobs, DeliverJobs, SweepJobs, RowJobs, FlipJobs,
     MarkJobs, CleanJobs, WriteJobs

(* What every request at a row holds.                                        *)
LEMMA AtRowShape ==
    ASSUME TypeInv, NEW w \in Workers, job[w].pc \in AtRowPcs
    PROVE  job[w].force \in BOOLEAN /\ job[w].queue \subseteq Rows
<1>1. job[w] \in Jobs
  BY DEF TypeInv
<1>2. \/ job[w] \in RowJobs \/ job[w] \in FlipJobs \/ job[w] \in MarkJobs
      \/ job[w] \in CleanJobs \/ job[w] \in WriteJobs
  BY <1>1, JobShape, Zenon DEF AtRowPcs, Late
<1> QED
  BY <1>2 DEF RowJobs, FlipJobs, MarkJobs, CleanJobs, WriteJobs

(* The columns of a row.                                                     *)
LEMMA RowFields ==
    ASSUME NEW r \in Rows
    PROVE  /\ r.id \in Nat /\ r.agent \in Agents /\ r.status \in Statuses
           /\ r.old \in KeyOrNone /\ r.new \in KeyOrNone /\ r.nbv \in Version
           /\ r.ledger \in [Agents -> Version]
  BY DEF Rows, Ledgers

(* A row of the table, by its id.                                            *)
LEMMA RowAt ==
    ASSUME TypeInv, NEW i \in DOMAIN rows
    PROVE  rows[i] \in Rows /\ rows[i].id = i /\ i \in 1..Len(rows)
  BY DEF TypeInv, TypeOK

(* advanceRotations takes the row with the lowest id first: there is one.    *)
LEMMA CurrentIsThere ==
    ASSUME TypeInv, NEW w \in Workers, job[w].pc \in AtRowPcs
    PROVE  /\ Current(w) \in job[w].queue /\ Current(w) \in Rows
           /\ Current(w).id \in DOMAIN rows /\ Current(w).status \in Open
<1> DEFINE Q == job[w].queue
           T == {r.id : r \in Q}
<1>1. /\ Q \subseteq Rows /\ Q # {}
      /\ \A r \in Q : r.id \in DOMAIN rows /\ r.status \in Open
  BY AtRowShape DEF TypeInv
<1>2. T \subseteq Nat /\ T # {}
  BY <1>1, RowFields
<1>3. PICK x \in T : \A y \in T : ~ (<<y, x>> \in OpToRel(<, Nat))
  BY <1>2, NatLessThanWellFounded, WFMin
<1>4. \A y \in T : ~ (y < x)
  BY <1>2, <1>3, Zenon DEF OpToRel
<1>5. PICK r \in Q : r.id = x
  BY <1>3
<1>6. \A s \in Q : r.id <= s.id
  <2> SUFFICES ASSUME NEW s \in Q PROVE r.id <= s.id
    OBVIOUS
  <2>1. s.id \in T /\ s.id \in Nat /\ r.id \in Nat
    BY <1>2, <1>5
  <2>2. ~(s.id < r.id)
    BY <1>4, <1>5, <2>1
  <2> QED
    BY <2>1, <2>2
<1> HIDE DEF T
<1>7. \E q \in job[w].queue : \A s \in job[w].queue : q.id <= s.id
  BY <1>5, <1>6
<1>8. Current(w) \in job[w].queue
  BY <1>7, Zenon DEF Current
<1> QED
  BY <1>1, <1>8

(* One request moves, to a state of a request.                               *)
LEMMA GotoTyped ==
    ASSUME TypeInv, NEW w \in Workers, NEW x \in Jobs, Goto(w, x)
    PROVE  /\ job' \in [Workers -> Jobs] /\ job'[w] = x
           /\ \A v \in Workers \ {w} : job'[v] = job[v]
  BY DEF TypeInv, Goto

(* A request that moves within the table keeps to it.                        *)
LEMMA GotoInTable ==
    ASSUME TypeInv, NEW w \in Workers, NEW x \in Jobs, Goto(w, x), DOMAIN rows \subseteq DOMAIN rows',
           x.pc \in AtRowPcs =>
             x.queue # {} /\ \A r \in x.queue : r.id \in DOMAIN rows' /\ r.status \in Open
    PROVE  \A v \in Workers : job'[v].pc \in AtRowPcs =>
             /\ job'[v].queue # {}
             /\ \A r \in job'[v].queue : r.id \in DOMAIN rows' /\ r.status \in Open
<1>1. job'[w] = x /\ \A v \in Workers \ {w} : job'[v] = job[v]
  BY GotoTyped
<1>2. \A v \in Workers : job[v].pc \in AtRowPcs =>
        /\ job[v].queue # {}
        /\ \A r \in job[v].queue : r.id \in DOMAIN rows /\ r.status \in Open
  BY DEF TypeInv
<1> QED
  BY <1>1, <1>2

(* The sweep goes on with the rest of its rows, or ends.                     *)
LEMMA NextRowTyped ==
    ASSUME TypeInv, NEW w \in Workers, job[w].pc \in AtRowPcs
    PROVE  /\ NextRow(w) \in Jobs
           /\ NextRow(w) = Idle \/
                (/\ NextRow(w).pc = "row" /\ NextRow(w).force = job[w].force
                 /\ NextRow(w).queue = job[w].queue \ {Current(w)} /\ NextRow(w).queue # {})
           /\ NextRow(w).pc \in AtRowPcs =>
                /\ NextRow(w).queue # {}
                /\ \A r \in NextRow(w).queue : r.id \in DOMAIN rows /\ r.status \in Open
<1>1. /\ job[w].force \in BOOLEAN /\ job[w].queue \subseteq Rows
      /\ \A r \in job[w].queue : r.id \in DOMAIN rows /\ r.status \in Open
  BY AtRowShape DEF TypeInv
<1> DEFINE rest == job[w].queue \ {Current(w)}
<1>2. CASE rest = {}
  <2>1. NextRow(w) = Idle
    BY <1>2 DEF NextRow
  <2> QED
    BY <2>1 DEF Jobs, Idle, AtRowPcs, Late
<1>3. CASE rest # {}
  <2>1. NextRow(w) = [pc |-> "row", force |-> job[w].force, queue |-> rest]
    BY <1>3 DEF NextRow
  <2>2. rest \subseteq Rows
    BY <1>1
  <2>3. NextRow(w) \in RowJobs
    BY <1>1, <2>1, <2>2 DEF RowJobs
  <2> QED
    BY <1>1, <1>3, <2>1, <2>3 DEF Jobs
<1> QED
  BY <1>2, <1>3

(* The sweep stays at its row and takes the next step there.                 *)
LEMMA AtRowTyped ==
    ASSUME TypeInv, NEW w \in Workers, job[w].pc \in AtRowPcs,
           NEW pc \in {"flip", "confirm", "revoke"}
    PROVE  /\ AtRow(w, pc) \in Jobs /\ AtRow(w, pc).pc = pc
           /\ AtRow(w, pc).force = job[w].force /\ AtRow(w, pc).queue = job[w].queue
  BY AtRowShape DEF AtRow, Jobs, RowJobs

(* One row is written, the others are left.                                  *)
LEMMA RowWritten ==
    ASSUME TypeInv, NEW i \in DOMAIN rows, NEW r \in Rows, r.id = i,
           rows' = [rows EXCEPT ![i] = r]
    PROVE  /\ rows' \in Seq(Rows) /\ DOMAIN rows' = DOMAIN rows /\ Len(rows') = Len(rows)
           /\ rows'[i] = r /\ \A j \in DOMAIN rows \ {i} : rows'[j] = rows[j]
           /\ \A j \in DOMAIN rows' : rows'[j] \in Rows /\ rows'[j].id = j
<1>1. rows \in Seq(Rows) /\ \A j \in DOMAIN rows : rows[j] \in Rows /\ rows[j].id = j
  BY DEF TypeInv, TypeOK
<1>2. /\ rows' \in Seq(Rows) /\ DOMAIN rows' = DOMAIN rows /\ Len(rows') = Len(rows)
      /\ rows'[i] = r /\ \A j \in DOMAIN rows \ {i} : rows'[j] = rows[j]
  BY <1>1
<1> QED
  BY <1>1, <1>2

(* The three writes of a sweep to its row.                                   *)
LEMMA SweepWrites ==
    ASSUME TypeInv, NEW w \in Workers
    PROVE  /\ FlipMark(w) =>
                \E r \in Rows :
                  /\ rows' = [rows EXCEPT ![Current(w).id] = r] /\ Current(w).id \in DOMAIN rows
                  /\ r = [rows[Current(w).id] EXCEPT !.status = "awaiting_target",
                                                     !.nbv = job[w].version]
                  /\ r.id = Current(w).id
           /\ Confirm(w) =>
                \E r \in Rows :
                  /\ rows' = [rows EXCEPT ![Current(w).id] = r] /\ Current(w).id \in DOMAIN rows
                  /\ r = [rows[Current(w).id] EXCEPT !.status = "awaiting_revoke"]
                  /\ r.id = Current(w).id
           /\ Complete(w) =>
                \E r \in Rows :
                  /\ rows' = [rows EXCEPT ![Current(w).id] = r] /\ Current(w).id \in DOMAIN rows
                  /\ r = [rows[Current(w).id] EXCEPT !.status = "completed", !.old = NoKey,
                                                     !.new = NoKey]
                  /\ r.id = Current(w).id
<1> DEFINE k == Current(w).id
<1>1. ASSUME job[w].pc \in AtRowPcs
      PROVE  k \in DOMAIN rows /\ rows[k] \in Rows /\ rows[k].id = k /\ rows \in Seq(Rows)
  BY <1>1, CurrentIsThere, RowAt DEF TypeInv
<1>2. NoKey \in KeyOrNone
  BY BoundsAssumption DEF NoKey, KeyOrNone
<1>3. ASSUME FlipMark(w)
      PROVE  \E r \in Rows :
                  /\ rows' = [rows EXCEPT ![Current(w).id] = r] /\ Current(w).id \in DOMAIN rows
                  /\ r = [rows[Current(w).id] EXCEPT !.status = "awaiting_target",
                                                     !.nbv = job[w].version]
                  /\ r.id = Current(w).id
  <2>1. job[w].pc = "flipMark" /\ job[w].pc \in AtRowPcs /\ job[w] \in MarkJobs
    BY <1>3, JobShape DEF FlipMark, AtRowPcs, TypeInv
  <2>2. k \in DOMAIN rows /\ rows[k] \in Rows /\ rows[k].id = k /\ rows \in Seq(Rows)
    BY <1>1, <2>1
  <2> DEFINE r == [rows[k] EXCEPT !.status = "awaiting_target", !.nbv = job[w].version]
  <2>3. r \in Rows /\ r.id = k
    BY <2>1, <2>2 DEF Rows, Statuses, MarkJobs
  <2>4. rows' = [rows EXCEPT ![k] = r]
    BY <1>3, <2>2 DEF FlipMark
  <2> QED
    BY <2>2, <2>3, <2>4
<1>4. ASSUME Confirm(w)
      PROVE  \E r \in Rows :
                  /\ rows' = [rows EXCEPT ![Current(w).id] = r] /\ Current(w).id \in DOMAIN rows
                  /\ r = [rows[Current(w).id] EXCEPT !.status = "awaiting_revoke"]
                  /\ r.id = Current(w).id
  <2>1. job[w].pc \in AtRowPcs
    BY <1>4 DEF Confirm, AtRowPcs
  <2>2. k \in DOMAIN rows /\ rows[k] \in Rows /\ rows[k].id = k /\ rows \in Seq(Rows)
    BY <1>1, <2>1
  <2> DEFINE r == [rows[k] EXCEPT !.status = "awaiting_revoke"]
  <2>3. r \in Rows /\ r.id = k
    BY <2>2 DEF Rows, Statuses
  <2>4. rows' = [rows EXCEPT ![k] = r]
    BY <1>4, <2>2 DEF Confirm
  <2> QED
    BY <2>2, <2>3, <2>4
<1>5. ASSUME Complete(w)
      PROVE  \E r \in Rows :
                  /\ rows' = [rows EXCEPT ![Current(w).id] = r] /\ Current(w).id \in DOMAIN rows
                  /\ r = [rows[Current(w).id] EXCEPT !.status = "completed", !.old = NoKey,
                                                     !.new = NoKey]
                  /\ r.id = Current(w).id
  <2>1. job[w].pc \in AtRowPcs
    BY <1>5 DEF Complete, AtRowPcs, Late
  <2>2. k \in DOMAIN rows /\ rows[k] \in Rows /\ rows[k].id = k /\ rows \in Seq(Rows)
    BY <1>1, <2>1
  <2> DEFINE r == [rows[k] EXCEPT !.status = "completed", !.old = NoKey, !.new = NoKey]
  <2>3. r \in Rows /\ r.id = k
    BY <1>2, <2>2 DEF Rows, Statuses
  <2>4. rows' = [rows EXCEPT ![k] = r]
    BY <1>5, <2>2 DEF Complete
  <2> QED
    BY <2>2, <2>3, <2>4
<1> QED
  BY <1>3, <1>4, <1>5

(* rotateBundle: one bundle is replaced, with the next version.              *)
LEMMA BundleWritten ==
    ASSUME TypeInv, NEW p \in Agents, NEW x \in Bundles, RotateBundle(p, x)
    PROVE  /\ bundle' \in [Agents -> Bundles]
           /\ bundle'[p].v = bundle[p].v + 1 /\ bundle'[p].id = x.id
           /\ bundle'[p].tok = x.tok /\ bundle'[p].ov = x.ov
           /\ \A q \in Agents \ {p} : bundle'[q] = bundle[q]
<1>1. bundle \in [Agents -> Bundles] /\ bundle[p].v \in Version /\ bundle[p].v < MaxVersion
  BY DEF TypeInv, TypeOK, Bundles, RotateBundle
<1>2. bundle[p].v + 1 \in Version
  BY <1>1, BoundsAssumption DEF Version
<1> DEFINE y == [x EXCEPT !.v = bundle[p].v + 1]
<1>3. y \in Bundles /\ y.v = bundle[p].v + 1 /\ y.id = x.id /\ y.tok = x.tok /\ y.ov = x.ov
  BY <1>2 DEF Bundles
<1>4. bundle' = [bundle EXCEPT ![p] = y]
  BY DEF RotateBundle
<1> HIDE DEF y
<1> QED
  BY <1>1, <1>3, <1>4

(* The rendering of a delivery: both entries for the target.                 *)
LEMMA OverlapTyped ==
    ASSUME NEW x \in Bundles, NEW a \in Agents, NEW old \in KeyOrNone, NEW new \in KeyOrNone
    PROVE  WithOverlap(x, a, old, new) \in Bundles
<1>1. x.tok \in [Agents -> KeyOrNone] /\ x.ov \in [Agents -> KeyOrNone]
  BY DEF Bundles
<1> DEFINE toks == [x.tok EXCEPT ![a] = new]
           ovs == [x.ov EXCEPT ![a] = old]
<1>2. toks \in [Agents -> KeyOrNone] /\ ovs \in [Agents -> KeyOrNone]
  BY <1>1
<1>3. WithOverlap(x, a, old, new) = [x EXCEPT !.tok = toks, !.ov = ovs]
  BY DEF WithOverlap, Bundles
<1> HIDE DEF toks, ovs
<1> QED
  BY <1>2, <1>3 DEF Bundles

(* A delivery replaces the two entries of the target, and nothing else.      *)
LEMMA OverlapWritten ==
    ASSUME TypeInv, NEW p \in Agents, NEW a \in Agents, NEW old \in KeyOrNone,
           NEW new \in KeyOrNone, RotateBundle(p, WithOverlap(bundle[p], a, old, new))
    PROVE  /\ bundle'[p].v = bundle[p].v + 1 /\ bundle'[p].id = bundle[p].id
           /\ bundle'[p].tok = [bundle[p].tok EXCEPT ![a] = new]
           /\ bundle'[p].ov = [bundle[p].ov EXCEPT ![a] = old]
           /\ \A c \in Agents \ {p} : bundle'[c] = bundle[c]
<1>1. bundle[p] \in Bundles
  BY DEF TypeInv, TypeOK
<1>2. PICK y \in Bundles : y = WithOverlap(bundle[p], a, old, new)
  BY <1>1, OverlapTyped
<1>3. /\ y.id = bundle[p].id /\ y.tok = [bundle[p].tok EXCEPT ![a] = new]
      /\ y.ov = [bundle[p].ov EXCEPT ![a] = old]
  BY <1>1, <1>2 DEF WithOverlap, Bundles
<1> QED
  BY <1>2, <1>3, BundleWritten

(* The rendering of a cleanup: the overlap entry is gone.                    *)
LEMMA CleanRendering ==
    ASSUME NEW x \in Bundles, NEW a \in Agents
    PROVE  \E y \in Bundles :
             /\ y = [x EXCEPT !.ov[a] = NoKey]
             /\ y.id = x.id /\ y.tok = x.tok /\ y.ov = [x.ov EXCEPT ![a] = NoKey]
<1>1. x.ov \in [Agents -> KeyOrNone] /\ NoKey \in KeyOrNone
  BY BoundsAssumption DEF Bundles, NoKey, KeyOrNone
<1> DEFINE none == [x.ov EXCEPT ![a] = NoKey]
<1>2. none \in [Agents -> KeyOrNone]
  BY <1>1
<1>3. [x EXCEPT !.ov[a] = NoKey] = [x EXCEPT !.ov = none]
  BY DEF Bundles
<1> HIDE DEF none
<1>4. /\ [x EXCEPT !.ov = none] \in Bundles /\ [x EXCEPT !.ov = none].id = x.id
      /\ [x EXCEPT !.ov = none].tok = x.tok /\ [x EXCEPT !.ov = none].ov = none
  BY <1>2 DEF Bundles
<1> QED
  BY <1>3, <1>4 DEF none

(* The flip renders the identity key and keeps the peers.                    *)
LEMMA FlipRendering ==
    ASSUME NEW x \in Bundles, NEW r \in Rows
    PROVE  /\ Flipped(x, r) \in Bundles /\ Flipped(x, r).id = r.new
           /\ Flipped(x, r).tok = x.tok /\ Flipped(x, r).ov = x.ov
  BY RowFields DEF Flipped, Bundles

-----------------------------------------------------------------------------
(* The steps of a request, and what each makes of the tables.                *)

(* A start: load, check, mint and scan lead from one to the next, or end.    *)
LEMMA StartMoves ==
    ASSUME TypeInv, NEW w \in Workers
    PROVE  /\ \A a \in Agents : StartLoad(w, a) =>
                \E x \in Jobs : /\ Goto(w, x) /\ x.pc = "check" /\ x.agent = a
                                /\ x.old = bundle[a].id
           /\ StartCheck(w) =>
                \E x \in Jobs : /\ Goto(w, x) /\ job[w] \in StartJobs
                                /\ x = Idle \/ (/\ x.pc = "mint" /\ x.agent = job[w].agent
                                                /\ x.old = job[w].old
                                                /\ ~HasOpenRow(job[w].agent))
           /\ StartMintFails(w) => Goto(w, Idle) /\ Idle \in Jobs
           /\ Crash(w) => Goto(w, Idle) /\ Idle \in Jobs
           /\ StartMint(w) =>
                \E x \in Jobs : /\ Goto(w, x) /\ job[w] \in StartJobs /\ x.pc = "scan"
                                /\ x.agent = job[w].agent /\ x.old = job[w].old
                                /\ x.new = minted[job[w].agent] + 1
                                /\ minted[job[w].agent] + 1 \in Key
           /\ StartScan(w) =>
                \E x \in Jobs : /\ Goto(w, x) /\ job[w] \in ScanJobs /\ x.pc = "deliver"
                                /\ x.agent = job[w].agent /\ x.old = job[w].old
                                /\ x.new = job[w].new /\ x.seen = bundle
                                /\ x.todo = {b \in Agents \ {job[w].agent} :
                                               References(b, job[w].agent)}
                                /\ x.ledger = [b \in Agents |-> 0]
<1>1. job[w] \in Jobs /\ Idle \in Jobs
  BY DEF TypeInv, Jobs
<1>2. ASSUME NEW a \in Agents, StartLoad(w, a)
      PROVE  \E x \in Jobs : /\ Goto(w, x) /\ x.pc = "check" /\ x.agent = a
                             /\ x.old = bundle[a].id
  <2>1. bundle[a].id \in Key
    BY <1>2 DEF StartLoad, OldToken, TypeInv, TypeOK, Bundles, Key, KeyOrNone, NoKey
  <2>2. [pc |-> "check", agent |-> a, old |-> bundle[a].id] \in Jobs
    BY <2>1 DEF Jobs, StartJobs
  <2> QED
    BY <1>2, <2>2 DEF StartLoad, OldToken
<1>3. ASSUME StartCheck(w)
      PROVE  \E x \in Jobs : /\ Goto(w, x) /\ job[w] \in StartJobs
                             /\ x = Idle \/ (/\ x.pc = "mint" /\ x.agent = job[w].agent
                                             /\ x.old = job[w].old
                                             /\ ~HasOpenRow(job[w].agent))
  <2>1. job[w] \in StartJobs
    BY <1>1, <1>3, JobShape DEF StartCheck
  <2>2. LET x == [job[w] EXCEPT !.pc = "mint"]
        IN  x \in Jobs /\ x.pc = "mint" /\ x.agent = job[w].agent /\ x.old = job[w].old
    BY <2>1 DEF StartJobs, Jobs
  <2> QED
    BY <1>1, <1>3, <2>1, <2>2 DEF StartCheck
<1>4. ASSUME StartMint(w)
      PROVE  \E x \in Jobs : /\ Goto(w, x) /\ job[w] \in StartJobs /\ x.pc = "scan"
                             /\ x.agent = job[w].agent /\ x.old = job[w].old
                             /\ x.new = minted[job[w].agent] + 1
                             /\ minted[job[w].agent] + 1 \in Key
  <2>1. job[w] \in StartJobs
    BY <1>1, <1>4, JobShape DEF StartMint
  <2>2. job[w].agent \in Agents /\ minted \in [Agents -> Key]
    BY <2>1 DEF StartJobs, TypeInv, TypeOK
  <2>3. minted[job[w].agent] + 1 \in Key /\ minted'[job[w].agent] = minted[job[w].agent] + 1
    BY <1>4, <2>2, BoundsAssumption DEF StartMint, Key, FreshMeshAlias
  <2>4. [pc |-> "scan", agent |-> job[w].agent, old |-> job[w].old,
         new |-> minted'[job[w].agent]] \in Jobs
    BY <2>1, <2>3 DEF Jobs, ScanJobs, StartJobs
  <2> QED
    BY <1>4, <2>1, <2>3, <2>4 DEF StartMint
<1>5. ASSUME StartScan(w)
      PROVE  \E x \in Jobs : /\ Goto(w, x) /\ job[w] \in ScanJobs /\ x.pc = "deliver"
                             /\ x.agent = job[w].agent /\ x.old = job[w].old
                             /\ x.new = job[w].new /\ x.seen = bundle
                             /\ x.todo = {b \in Agents \ {job[w].agent} :
                                            References(b, job[w].agent)}
                             /\ x.ledger = [b \in Agents |-> 0]
  <2>1. job[w] \in ScanJobs
    BY <1>1, <1>5, JobShape DEF StartScan
  <2> DEFINE todo == {b \in Agents \ {job[w].agent} : References(b, job[w].agent)}
             ledger == [b \in Agents |-> 0]
             x == [pc |-> "deliver", agent |-> job[w].agent, old |-> job[w].old,
                   new |-> job[w].new, seen |-> bundle, todo |-> todo, ledger |-> ledger]
  <2>2. todo \subseteq Agents /\ ledger \in Ledgers /\ bundle \in [Agents -> Bundles]
    BY BoundsAssumption DEF Ledgers, Version, TypeInv, TypeOK
  <2>3. Goto(w, x)
    BY <1>5 DEF StartScan
  <2> HIDE DEF todo, ledger
  <2>4. x \in Jobs
    BY <2>1, <2>2 DEF Jobs, DeliverJobs, ScanJobs
  <2> QED
    BY <2>1, <2>3, <2>4 DEF todo, ledger
<1>6. (StartMintFails(w) => Goto(w, Idle)) /\ (Crash(w) => Goto(w, Idle))
  BY DEF StartMintFails, Crash
<1> QED
  BY <1>1, <1>2, <1>3, <1>4, <1>5, <1>6

(* A delivery: one peer's bundle gets both keys, and goes into the ledger.   *)
LEMMA DeliverMoves ==
    ASSUME TypeInv, NEW w \in Workers, StartDeliver(w)
    PROVE  /\ job[w] \in DeliverJobs
           /\ \E b \in job[w].todo, x \in Jobs :
                /\ b \in Agents
                /\ RotateBundle(b, WithOverlap(job[w].seen[b], job[w].agent, job[w].old,
                                               job[w].new))
                /\ WithOverlap(job[w].seen[b], job[w].agent, job[w].old, job[w].new) \in Bundles
                /\ Goto(w, x) /\ x.pc = "deliver" /\ x.agent = job[w].agent
                /\ x.old = job[w].old /\ x.new = job[w].new /\ x.seen = job[w].seen
                /\ x.todo = job[w].todo \ {b}
                /\ x.ledger = [job[w].ledger EXCEPT ![b] = bundle'[b].v]
<1>1. job[w] \in DeliverJobs
  BY JobShape DEF StartDeliver, TypeInv
<1>2. PICK b \in job[w].todo :
        /\ RotateBundle(b, WithOverlap(job[w].seen[b], job[w].agent, job[w].old, job[w].new))
        /\ Goto(w, [job[w] EXCEPT !.todo = @ \ {b}, !.ledger[b] = bundle'[b].v])
  BY DEF StartDeliver
<1>3. /\ b \in Agents /\ job[w].seen[b] \in Bundles /\ job[w].agent \in Agents
      /\ job[w].old \in KeyOrNone /\ job[w].new \in KeyOrNone
      /\ job[w].ledger \in [Agents -> Version] /\ job[w].todo \subseteq Agents
  BY <1>1 DEF DeliverJobs, Ledgers, Key, KeyOrNone
<1>4. WithOverlap(job[w].seen[b], job[w].agent, job[w].old, job[w].new) \in Bundles
  BY <1>3, OverlapTyped
<1>5. bundle'[b].v \in Version
  BY <1>2, <1>3, <1>4, BundleWritten DEF Bundles
<1> DEFINE todo == job[w].todo \ {b}
           ledger == [job[w].ledger EXCEPT ![b] = bundle'[b].v]
           x == [job[w] EXCEPT !.todo = todo, !.ledger = ledger]
<1>6. Goto(w, x)
  BY <1>1, <1>2 DEF DeliverJobs
<1>7. todo \subseteq Agents /\ ledger \in Ledgers
  BY <1>3, <1>5 DEF Ledgers
<1> HIDE DEF todo, ledger
<1>8. /\ x \in DeliverJobs /\ x.pc = "deliver" /\ x.agent = job[w].agent
      /\ x.old = job[w].old /\ x.new = job[w].new /\ x.seen = job[w].seen
      /\ x.todo = todo /\ x.ledger = ledger
  BY <1>1, <1>7 DEF DeliverJobs
<1>9. x \in Jobs
  BY <1>8 DEF Jobs
<1> QED
  BY <1>1, <1>2, <1>3, <1>4, <1>6, <1>8, <1>9 DEF todo, ledger

(* The row, once every peer is served.                                       *)
LEMMA InsertMoves ==
    ASSUME TypeInv, NEW w \in Workers, StartInsert(w)
    PROVE  /\ job[w] \in DeliverJobs /\ Goto(w, Idle) /\ Idle \in Jobs
           /\ rows' \in Seq(Rows) /\ Len(rows') = Len(rows) + 1
           /\ DOMAIN rows' = DOMAIN rows \union {Len(rows) + 1}
           /\ Len(rows) + 1 \notin DOMAIN rows
           /\ \A i \in DOMAIN rows : rows'[i] = rows[i]
           /\ \A i \in DOMAIN rows' : rows'[i] \in Rows /\ rows'[i].id = i
           /\ \E r \in Rows :
                /\ rows'[Len(rows) + 1] = r /\ r.id = Len(rows) + 1
                /\ r.agent = job[w].agent /\ r.status = "delivering" /\ r.old = job[w].old
                /\ r.new = job[w].new /\ r.ledger = job[w].ledger
<1>1. job[w] \in DeliverJobs
  BY JobShape DEF StartInsert, TypeInv
<1>2. rows \in Seq(Rows) /\ Len(rows) + 1 \in Nat /\ 0 \in Version
      /\ \A i \in DOMAIN rows : rows[i] \in Rows /\ rows[i].id = i
  BY BoundsAssumption DEF TypeInv, TypeOK, Version
<1> DEFINE r == [id |-> Len(rows) + 1, agent |-> job[w].agent, status |-> "delivering",
                 old |-> job[w].old, new |-> job[w].new, nbv |-> 0,
                 ledger |-> job[w].ledger]
<1>3. r \in Rows
  BY <1>1, <1>2 DEF Rows, DeliverJobs, Statuses, Key, KeyOrNone
<1>4. rows' = Append(rows, r)
  BY DEF StartInsert
<1>5. /\ r.id = Len(rows) + 1 /\ r.agent = job[w].agent /\ r.status = "delivering"
      /\ r.old = job[w].old /\ r.new = job[w].new /\ r.ledger = job[w].ledger
  OBVIOUS
<1> HIDE DEF r
<1>6. /\ rows' \in Seq(Rows) /\ Len(rows') = Len(rows) + 1
      /\ DOMAIN rows' = DOMAIN rows \union {Len(rows) + 1}
      /\ Len(rows) + 1 \notin DOMAIN rows
      /\ \A i \in DOMAIN rows : rows'[i] = rows[i]
      /\ rows'[Len(rows) + 1] = r
  BY <1>2, <1>3, <1>4
<1>7. \A i \in DOMAIN rows' : rows'[i] \in Rows /\ rows'[i].id = i
  BY <1>2, <1>3, <1>5, <1>6
<1>8. Goto(w, Idle) /\ Idle \in Jobs
  BY DEF StartInsert, Jobs
<1> QED
  BY <1>1, <1>3, <1>5, <1>6, <1>7, <1>8

(* A report sets off a sweep of all open rows.                               *)
LEMMA ReportMoves ==
    ASSUME TypeInv, NEW w \in Workers, NEW a \in Agents, Report(w, a)
    PROVE  \E x \in Jobs : Goto(w, x) /\ x.pc = "sweep" /\ x.force = FALSE
<1>1. [pc |-> "sweep", only |-> 0, force |-> FALSE] \in Jobs
  BY DEF Jobs, SweepJobs
<1> QED
  BY <1>1 DEF Report

(* A reconcile sets off a sweep of one row, forced or not.                   *)
LEMMA ReconcileMoves ==
    ASSUME TypeInv, NEW w \in Workers, NEW id \in DOMAIN rows, NEW force \in BOOLEAN,
           Reconcile(w, id, force)
    PROVE  \E x \in Jobs : Goto(w, x) /\ x.pc = "sweep" /\ x.only = id /\ x.force = force
<1>1. id \in Nat
  BY RowAt
<1>2. [pc |-> "sweep", only |-> id, force |-> force] \in Jobs
  BY <1>1 DEF Jobs, SweepJobs
<1> QED
  BY <1>2 DEF Reconcile

(* The sweep reads the open rows, once.                                      *)
LEMMA SweepReadMoves ==
    ASSUME TypeInv, NEW w \in Workers, SweepRead(w)
    PROVE  \E x \in Jobs :
                /\ Goto(w, x) /\ job[w] \in SweepJobs
                /\ x = Idle \/
                   (/\ x.pc = "row" /\ x.force = job[w].force /\ x.queue # {}
                    /\ x.queue = {r \in OpenRows : job[w].only \in {0, r.id}})
<1>a. job[w] \in Jobs /\ Idle \in Jobs
  BY DEF TypeInv, Jobs
<1>1. job[w] \in SweepJobs
  BY <1>a, JobShape DEF SweepRead
<1> DEFINE wanted == {r \in OpenRows : job[w].only \in {0, r.id}}
<1>2. wanted \subseteq Rows
  BY RowAt DEF OpenRows
<1>3. Goto(w, IF wanted = {} THEN Idle
              ELSE [pc |-> "row", force |-> job[w].force, queue |-> wanted])
  BY DEF SweepRead
<1> HIDE DEF wanted
<1>4. [pc |-> "row", force |-> job[w].force, queue |-> wanted] \in Jobs
  BY <1>1, <1>2 DEF Jobs, RowJobs, SweepJobs
<1>5. CASE wanted = {}
  BY <1>a, <1>1, <1>3, <1>5
<1>6. CASE wanted # {}
  BY <1>1, <1>3, <1>4, <1>6 DEF wanted
<1> QED
  BY <1>5, <1>6

(* The copy of the row decides the stage; its gate may be shut.              *)
LEMMA SweepRowMoves ==
    ASSUME TypeInv, NEW w \in Workers, SweepRow(w)
    PROVE  \E x \in Jobs :
                /\ Goto(w, x) /\ job[w].pc \in AtRowPcs
                /\ \/ x = NextRow(w)
                   \/ /\ x = AtRow(w, "flip") /\ Current(w).status = "delivering"
                      /\ job[w].force \/ PeersConfirmed(Current(w))
                   \/ /\ x = AtRow(w, "confirm") /\ Current(w).status = "awaiting_target"
                      /\ job[w].force \/ TargetConfirmed(Current(w))
                   \/ x = AtRow(w, "revoke") /\ Current(w).status = "awaiting_revoke"
<1>1. job[w].pc \in AtRowPcs
  BY DEF SweepRow, AtRowPcs
<1>2. /\ NextRow(w) \in Jobs /\ AtRow(w, "flip") \in Jobs /\ AtRow(w, "confirm") \in Jobs
      /\ AtRow(w, "revoke") \in Jobs
  BY <1>1, NextRowTyped, AtRowTyped
<1> DEFINE st == Current(w).status
           x == CASE st = "delivering" ->
                       IF job[w].force \/ PeersConfirmed(Current(w))
                       THEN AtRow(w, "flip") ELSE NextRow(w)
                  [] st = "awaiting_target" ->
                       IF job[w].force \/ TargetConfirmed(Current(w))
                       THEN AtRow(w, "confirm") ELSE NextRow(w)
                  [] st = "awaiting_revoke" -> AtRow(w, "revoke")
<1>4. Goto(w, x)
  BY DEF SweepRow
<1>5. st \in Open
  BY <1>1, CurrentIsThere
<1>6. CASE st = "delivering"
  BY <1>1, <1>2, <1>4, <1>6
<1>7. CASE st = "awaiting_target"
  BY <1>1, <1>2, <1>4, <1>7
<1>8. CASE st = "awaiting_revoke"
  BY <1>1, <1>2, <1>4, <1>8
<1> QED
  BY <1>5, <1>6, <1>7, <1>8 DEF Open, Statuses

(* flipTarget reads the target's bundle.                                     *)
LEMMA FlipLoadMoves ==
    ASSUME TypeInv, NEW w \in Workers, FlipLoad(w)
    PROVE  \E x \in Jobs :
                /\ Goto(w, x) /\ x.pc = "flipWrite" /\ job[w].pc \in AtRowPcs
                /\ x.force = job[w].force /\ x.queue = job[w].queue
                /\ x.seen = bundle[Current(w).agent]
<1>a. job[w] \in Jobs /\ bundle \in [Agents -> Bundles]
  BY DEF TypeInv, TypeOK
<1>b. ASSUME job[w].pc \in AtRowPcs
      PROVE  /\ job[w].force \in BOOLEAN /\ job[w].queue \subseteq Rows
             /\ Current(w) \in Rows /\ Current(w).agent \in Agents
  BY <1>b, AtRowShape, CurrentIsThere, RowFields
<1>1. job[w].pc \in AtRowPcs
  BY DEF FlipLoad, AtRowPcs
<1> DEFINE x == [pc |-> "flipWrite", force |-> job[w].force, queue |-> job[w].queue,
                 seen |-> bundle[Current(w).agent]]
<1>2. bundle[Current(w).agent] \in Bundles
  BY <1>a, <1>b, <1>1
<1>3. x \in Jobs
  BY <1>b, <1>1, <1>2 DEF Jobs, FlipJobs
<1>4. Goto(w, x)
  BY DEF FlipLoad, LoadBundle
<1> QED
  BY <1>1, <1>3, <1>4

(* flipTarget writes the target's bundle with the new identity key.          *)
LEMMA FlipWriteMoves ==
    ASSUME TypeInv, NEW w \in Workers, FlipWrite(w)
    PROVE  \E x \in Jobs :
                /\ Goto(w, x) /\ x.pc = "flipMark" /\ job[w] \in FlipJobs
                /\ x.force = job[w].force /\ x.queue = job[w].queue
                /\ x.version = bundle'[Current(w).agent].v
                /\ RotateBundle(Current(w).agent, Flipped(job[w].seen, Current(w)))
                /\ Flipped(job[w].seen, Current(w)) \in Bundles
<1>a. job[w] \in Jobs /\ bundle \in [Agents -> Bundles]
  BY DEF TypeInv, TypeOK
<1>b. ASSUME job[w].pc \in AtRowPcs
      PROVE  /\ job[w].force \in BOOLEAN /\ job[w].queue \subseteq Rows
             /\ Current(w) \in Rows /\ Current(w).agent \in Agents
  BY <1>b, AtRowShape, CurrentIsThere, RowFields
<1>1. job[w].pc \in AtRowPcs /\ job[w] \in FlipJobs
  BY <1>a, JobShape DEF FlipWrite, AtRowPcs
<1>2. job[w].seen \in Bundles
  BY <1>1 DEF FlipJobs
<1>3. Flipped(job[w].seen, Current(w)) \in Bundles
  BY <1>b, <1>1, <1>2, FlipRendering
<1>4. RotateBundle(Current(w).agent, Flipped(job[w].seen, Current(w)))
  BY DEF FlipWrite
<1>5. bundle'[Current(w).agent].v \in Version
  BY <1>b, <1>1, <1>3, <1>4, BundleWritten DEF Bundles
<1> DEFINE x == [pc |-> "flipMark", force |-> job[w].force, queue |-> job[w].queue,
                 version |-> bundle'[Current(w).agent].v]
<1>6. x \in Jobs
  BY <1>b, <1>1, <1>5 DEF Jobs, MarkJobs
<1>7. Goto(w, x)
  BY DEF FlipWrite
<1> QED
  BY <1>1, <1>3, <1>4, <1>6, <1>7

(* After the revocation the overlap of the ledger's peers is cleaned up.     *)
LEMMA RevokeMoves ==
    ASSUME TypeInv, NEW w \in Workers, Revoke(w)
    PROVE  \E x \in Jobs :
                /\ Goto(w, x) /\ x.pc = "clean" /\ job[w].pc \in AtRowPcs
                /\ x.force = job[w].force /\ x.queue = job[w].queue
                /\ x.todo = {b \in Agents : Current(w).ledger[b] # 0}
<1>b. ASSUME job[w].pc \in AtRowPcs
      PROVE  /\ job[w].force \in BOOLEAN /\ job[w].queue \subseteq Rows
             /\ Current(w) \in Rows /\ Current(w).agent \in Agents
  BY <1>b, AtRowShape, CurrentIsThere, RowFields
<1>1. job[w].pc \in AtRowPcs
  BY DEF Revoke, AtRowPcs, Late
<1> DEFINE todo == {b \in Agents : Current(w).ledger[b] # 0}
           x == [pc |-> "clean", force |-> job[w].force, queue |-> job[w].queue,
                 todo |-> todo]
<1>2. Goto(w, x)
  BY DEF Revoke
<1>3. todo \subseteq Agents
  OBVIOUS
<1> HIDE DEF todo
<1>4. x \in Jobs
  BY <1>b, <1>1, <1>3 DEF Jobs, CleanJobs
<1> QED
  BY <1>1, <1>2, <1>4 DEF todo

(* cleanupPeerOverlap reads a peer, or passes over it.                       *)
LEMMA CleanLoadMoves ==
    ASSUME TypeInv, NEW w \in Workers, NEW b \in Agents, CleanLoad(w, b)
    PROVE  \E x \in Jobs :
                /\ Goto(w, x) /\ job[w] \in CleanJobs /\ b \in job[w].todo
                /\ x.force = job[w].force /\ x.queue = job[w].queue
                /\ x.todo = job[w].todo \ {b}
                /\ \/ x.pc = "clean" /\ bundle[b].ov[Current(w).agent] = NoKey
                   \/ x.pc = "cleanWrite" /\ x.peer = b /\ x.seen = bundle[b]
<1>a. job[w] \in Jobs /\ bundle \in [Agents -> Bundles]
  BY DEF TypeInv, TypeOK
<1>b. ASSUME job[w].pc \in AtRowPcs
      PROVE  /\ job[w].force \in BOOLEAN /\ job[w].queue \subseteq Rows
             /\ Current(w) \in Rows /\ Current(w).agent \in Agents
  BY <1>b, AtRowShape, CurrentIsThere, RowFields
<1>1. job[w].pc \in AtRowPcs /\ job[w] \in CleanJobs /\ b \in job[w].todo
  BY <1>a, JobShape DEF CleanLoad, AtRowPcs, Late
<1> DEFINE rest == job[w].todo \ {b}
           x == [pc |-> "clean", force |-> job[w].force, queue |-> job[w].queue,
                 todo |-> rest]
           y == [pc |-> "cleanWrite", force |-> job[w].force, queue |-> job[w].queue,
                 todo |-> rest, peer |-> b, seen |-> bundle[b]]
<1>2. Goto(w, IF bundle[b].ov[Current(w).agent] = NoKey THEN x ELSE y)
  BY DEF CleanLoad, LoadBundle
<1>3. rest \subseteq Agents /\ bundle[b] \in Bundles
  BY <1>a, <1>1 DEF CleanJobs
<1> HIDE DEF rest
<1>4. x \in Jobs /\ y \in Jobs
  BY <1>b, <1>1, <1>3 DEF Jobs, CleanJobs, WriteJobs
<1>5. CASE bundle[b].ov[Current(w).agent] = NoKey
  BY <1>1, <1>2, <1>4, <1>5 DEF rest
<1>6. CASE bundle[b].ov[Current(w).agent] # NoKey
  BY <1>1, <1>2, <1>4, <1>6 DEF rest
<1> QED
  BY <1>5, <1>6

(* cleanupPeerOverlap writes a peer's bundle without the overlap entry.      *)
LEMMA CleanWriteMoves ==
    ASSUME TypeInv, NEW w \in Workers, CleanWrite(w)
    PROVE  \E x \in Jobs :
                /\ Goto(w, x) /\ x.pc = "clean" /\ job[w] \in WriteJobs
                /\ x.force = job[w].force /\ x.queue = job[w].queue /\ x.todo = job[w].todo
                /\ RotateBundle(job[w].peer, [job[w].seen EXCEPT !.ov[Current(w).agent] = NoKey])
                /\ [job[w].seen EXCEPT !.ov[Current(w).agent] = NoKey] \in Bundles
<1>a. job[w] \in Jobs /\ bundle \in [Agents -> Bundles]
  BY DEF TypeInv, TypeOK
<1>b. ASSUME job[w].pc \in AtRowPcs
      PROVE  /\ job[w].force \in BOOLEAN /\ job[w].queue \subseteq Rows
             /\ Current(w) \in Rows /\ Current(w).agent \in Agents
  BY <1>b, AtRowShape, CurrentIsThere, RowFields
<1>1. job[w].pc \in AtRowPcs /\ job[w] \in WriteJobs
  BY <1>a, JobShape DEF CleanWrite, AtRowPcs, Late
<1>2. job[w].seen \in Bundles /\ job[w].todo \subseteq Agents
  BY <1>1 DEF WriteJobs
<1>4. [job[w].seen EXCEPT !.ov[Current(w).agent] = NoKey] \in Bundles
  BY <1>b, <1>1, <1>2, CleanRendering
<1> DEFINE x == [pc |-> "clean", force |-> job[w].force, queue |-> job[w].queue,
                 todo |-> job[w].todo]
<1>5. x \in Jobs
  BY <1>b, <1>1, <1>2 DEF Jobs, CleanJobs
<1>6. /\ Goto(w, x)
      /\ RotateBundle(job[w].peer, [job[w].seen EXCEPT !.ov[Current(w).agent] = NoKey])
  BY DEF CleanWrite
<1> QED
  BY <1>1, <1>4, <1>5, <1>6

(* A step that moves a request within the table, and leaves the rows.        *)
LEMMA MoveTyped ==
    ASSUME TypeInv, TypeOK', NEW w \in Workers, NEW x \in Jobs, Goto(w, x), rows' = rows,
           x.pc \in AtRowPcs =>
             x.queue # {} /\ \A r \in x.queue : r.id \in DOMAIN rows /\ r.status \in Open
    PROVE  TypeInv'
<1>1. job' \in [Workers -> Jobs]
  BY GotoTyped
<1>2. \A v \in Workers : job'[v].pc \in AtRowPcs =>
             /\ job'[v].queue # {}
             /\ \A r \in job'[v].queue : r.id \in DOMAIN rows' /\ r.status \in Open
  BY GotoInTable
<1> QED
  BY <1>1, <1>2 DEF TypeInv

(* A step that writes one row, and moves a request within the table.         *)
LEMMA MarkTyped ==
    ASSUME TypeInv, NEW w \in Workers, NEW x \in Jobs, Goto(w, x),
           NEW i \in DOMAIN rows, NEW r \in Rows, r.id = i, rows' = [rows EXCEPT ![i] = r],
           UNCHANGED <<minted, live, bundle, dev, report, history>>,
           x.pc \in AtRowPcs =>
             x.queue # {} /\ \A s \in x.queue : s.id \in DOMAIN rows /\ s.status \in Open
    PROVE  TypeInv'
<1>1. /\ rows' \in Seq(Rows) /\ DOMAIN rows' = DOMAIN rows
      /\ \A j \in DOMAIN rows' : rows'[j] \in Rows /\ rows'[j].id = j
  BY RowWritten
<1>2. job' \in [Workers -> Jobs]
  BY GotoTyped
<1>3. \A v \in Workers : job'[v].pc \in AtRowPcs =>
             /\ job'[v].queue # {}
             /\ \A s \in job'[v].queue : s.id \in DOMAIN rows' /\ s.status \in Open
  BY <1>1, GotoInTable
<1> QED
  BY <1>1, <1>2, <1>3 DEF TypeInv, TypeOK, history

(* The steps of a start keep the types.                                      *)
LEMMA StartTyped ==
    ASSUME TypeInv, NEW w \in Workers,
           \/ \E a \in Agents : StartLoad(w, a)
           \/ StartCheck(w) \/ StartMint(w) \/ StartMintFails(w) \/ StartScan(w)
           \/ StartDeliver(w) \/ StartInsert(w) \/ Crash(w)
    PROVE  TypeInv'
<1>0. Idle.pc \notin AtRowPcs /\ TypeOK
  BY DEF Idle, AtRowPcs, Late, TypeInv
<1>1. ASSUME NEW a \in Agents, StartLoad(w, a) PROVE TypeInv'
  <2>1. rows' = rows /\ TypeOK'
    BY <1>0, <1>1 DEF StartLoad, TypeOK, history
  <2>2. PICK x \in Jobs : Goto(w, x) /\ x.pc = "check"
    BY <1>1, StartMoves
  <2> QED
    BY <2>1, <2>2, MoveTyped DEF AtRowPcs, Late
<1>2. CASE StartCheck(w)
  <2>1. rows' = rows /\ TypeOK'
    BY <1>0, <1>2 DEF StartCheck, TypeOK, history
  <2>2. PICK x \in Jobs : Goto(w, x) /\ (x = Idle \/ x.pc = "mint")
    BY <1>2, StartMoves
  <2>3. x.pc \notin AtRowPcs
    BY <1>0, <2>2 DEF AtRowPcs, Late
  <2> QED
    BY <2>1, <2>2, <2>3, MoveTyped
<1>3. CASE StartMintFails(w)
  <2>1. rows' = rows /\ TypeOK'
    BY <1>0, <1>3 DEF StartMintFails, TypeOK, history
  <2> QED
    BY <1>0, <1>3, <2>1, MoveTyped, StartMoves
<1>4. CASE Crash(w)
  <2>1. rows' = rows /\ TypeOK'
    BY <1>0, <1>4, BoundsAssumption DEF Crash, TypeOK
  <2> QED
    BY <1>0, <1>4, <2>1, MoveTyped, StartMoves
<1>5. CASE StartMint(w)
  <2>1. PICK x \in Jobs : /\ Goto(w, x) /\ job[w] \in StartJobs /\ x.pc = "scan"
                          /\ minted[job[w].agent] + 1 \in Key
    BY <1>5, StartMoves
  <2>2. job[w].agent \in Agents
    BY <2>1 DEF StartJobs
  <2>3. minted' \in [Agents -> Key] /\ live' \in [Agents -> SUBSET Key]
    BY <1>0, <1>5, <2>1, <2>2 DEF StartMint, FreshMeshAlias, TypeOK
  <2>4. rows' = rows /\ TypeOK'
    BY <1>0, <1>5, <2>3 DEF StartMint, TypeOK, history
  <2> QED
    BY <2>1, <2>4, MoveTyped DEF AtRowPcs, Late
<1>6. CASE StartScan(w)
  <2>1. rows' = rows /\ TypeOK'
    BY <1>0, <1>6 DEF StartScan, TypeOK, history
  <2>2. PICK x \in Jobs : Goto(w, x) /\ x.pc = "deliver"
    BY <1>6, StartMoves
  <2> QED
    BY <2>1, <2>2, MoveTyped DEF AtRowPcs, Late
<1>7. CASE StartDeliver(w)
  <2>1. PICK b \in Agents, x \in Jobs, y \in Bundles :
          RotateBundle(b, y) /\ Goto(w, x) /\ x.pc = "deliver"
    BY <1>7, DeliverMoves
  <2>2. bundle' \in [Agents -> Bundles]
    BY <2>1, BundleWritten
  <2>3. rows' = rows /\ TypeOK'
    BY <1>0, <1>7, <2>2 DEF StartDeliver, TypeOK, history
  <2> QED
    BY <2>1, <2>3, MoveTyped DEF AtRowPcs, Late
<1>8. CASE StartInsert(w)
  <2>1. /\ Goto(w, Idle) /\ Idle \in Jobs
        /\ rows' \in Seq(Rows) /\ DOMAIN rows \subseteq DOMAIN rows'
        /\ \A i \in DOMAIN rows' : rows'[i] \in Rows /\ rows'[i].id = i
    BY <1>8, InsertMoves
  <2>2. TypeOK'
    BY <1>0, <1>8, <2>1 DEF StartInsert, TypeOK, history
  <2>3. \A v \in Workers : job'[v].pc \in AtRowPcs =>
             /\ job'[v].queue # {}
             /\ \A r \in job'[v].queue : r.id \in DOMAIN rows' /\ r.status \in Open
    BY <1>0, <2>1, GotoInTable
  <2> QED
    BY <2>1, <2>2, <2>3, GotoTyped DEF TypeInv
<1> QED
  BY <1>1, <1>2, <1>3, <1>4, <1>5, <1>6, <1>7, <1>8

(* The steps of a sweep keep the types.                                      *)
LEMMA SweepTyped ==
    ASSUME TypeInv, NEW w \in Workers,
           \/ \E a \in Agents : Report(w, a)
           \/ \E id \in DOMAIN rows, force \in BOOLEAN : Reconcile(w, id, force)
           \/ SweepRead(w) \/ SweepRow(w)
           \/ FlipLoad(w) \/ FlipWrite(w) \/ FlipMark(w)
           \/ Confirm(w) \/ Revoke(w) \/ RevokeFails(w)
           \/ (\E b \in Agents : CleanLoad(w, b)) \/ CleanWrite(w) \/ Complete(w)
    PROVE  TypeInv'
<1>0. Idle.pc \notin AtRowPcs /\ TypeOK
  BY DEF Idle, AtRowPcs, Late, TypeInv
<1>a. job[w].pc \in AtRowPcs =>
        /\ job[w].queue # {}
        /\ \A r \in job[w].queue : r.id \in DOMAIN rows /\ r.status \in Open
        /\ Current(w) \in Rows /\ Current(w).agent \in Agents /\ Current(w).id \in DOMAIN rows
  BY CurrentIsThere, RowFields DEF TypeInv
<1>1. ASSUME NEW a \in Agents, Report(w, a) PROVE TypeInv'
  <2>1. dev[a].v \in Version
    BY <1>0 DEF TypeOK, Bundles
  <2>2. rows' = rows /\ TypeOK'
    BY <1>0, <1>1, <2>1 DEF Report, TypeOK, history
  <2>3. PICK x \in Jobs : Goto(w, x) /\ x.pc = "sweep"
    BY <1>1, ReportMoves
  <2> QED
    BY <2>2, <2>3, MoveTyped DEF AtRowPcs, Late
<1>2. ASSUME NEW id \in DOMAIN rows, NEW force \in BOOLEAN, Reconcile(w, id, force)
      PROVE  TypeInv'
  <2>1. rows[id].agent \in Agents
    BY RowAt, RowFields
  <2>2. rows' = rows /\ TypeOK'
    BY <1>0, <1>2, <2>1 DEF Reconcile, TypeOK
  <2>3. PICK x \in Jobs : Goto(w, x) /\ x.pc = "sweep"
    BY <1>2, ReconcileMoves
  <2> QED
    BY <2>2, <2>3, MoveTyped DEF AtRowPcs, Late
<1>3. CASE SweepRead(w)
  <2>1. rows' = rows /\ TypeOK'
    BY <1>0, <1>3 DEF SweepRead, TypeOK, history
  <2>2. PICK x \in Jobs : Goto(w, x) /\ (x = Idle \/ (x.queue # {} /\ x.queue \subseteq OpenRows))
    BY <1>3, SweepReadMoves
  <2>3. \A r \in OpenRows : r.id \in DOMAIN rows /\ r.status \in Open
    BY RowAt DEF OpenRows
  <2> QED
    BY <1>0, <2>1, <2>2, <2>3, MoveTyped
<1>4. CASE SweepRow(w)
  <2>1. rows' = rows /\ TypeOK'
    BY <1>0, <1>4 DEF SweepRow, TypeOK, history
  <2>2. PICK x \in Jobs :
          /\ Goto(w, x) /\ job[w].pc \in AtRowPcs
          /\ \/ x = NextRow(w) \/ x = AtRow(w, "flip")
             \/ x = AtRow(w, "confirm") \/ x = AtRow(w, "revoke")
    BY <1>4, SweepRowMoves
  <2>3. x = NextRow(w) \/ x.queue = job[w].queue
    BY <2>2, AtRowTyped
  <2> QED
    BY <1>a, <2>1, <2>2, <2>3, NextRowTyped, MoveTyped
<1>5. CASE FlipLoad(w)
  <2>1. rows' = rows /\ TypeOK'
    BY <1>0, <1>5 DEF FlipLoad, TypeOK, history
  <2>2. PICK x \in Jobs : Goto(w, x) /\ x.queue = job[w].queue /\ job[w].pc \in AtRowPcs
    BY <1>5, FlipLoadMoves
  <2> QED
    BY <1>a, <2>1, <2>2, MoveTyped
<1>6. CASE FlipWrite(w)
  <2>0. job[w].pc \in AtRowPcs
    BY <1>6 DEF FlipWrite, AtRowPcs
  <2>1. PICK x \in Jobs, y \in Bundles :
          Goto(w, x) /\ x.queue = job[w].queue /\ RotateBundle(Current(w).agent, y)
    BY <1>6, FlipWriteMoves
  <2>2. bundle' \in [Agents -> Bundles]
    BY <1>a, <2>0, <2>1, BundleWritten
  <2>3. rows' = rows /\ TypeOK'
    BY <1>0, <1>6, <2>2 DEF FlipWrite, TypeOK, history
  <2> QED
    BY <1>a, <2>0, <2>1, <2>3, MoveTyped
<1>7. CASE FlipMark(w)
  <2>1. PICK r \in Rows : /\ rows' = [rows EXCEPT ![Current(w).id] = r]
                          /\ Current(w).id \in DOMAIN rows /\ r.id = Current(w).id
    BY <1>7, SweepWrites
  <2>2. job[w].pc \in AtRowPcs /\ Goto(w, NextRow(w))
        /\ UNCHANGED <<minted, live, bundle, dev, report, history>>
    BY <1>7 DEF FlipMark, AtRowPcs
  <2> QED
    BY <2>1, <2>2, NextRowTyped, MarkTyped
<1>8. CASE Confirm(w)
  <2>1. PICK r \in Rows : /\ rows' = [rows EXCEPT ![Current(w).id] = r]
                          /\ Current(w).id \in DOMAIN rows /\ r.id = Current(w).id
    BY <1>8, SweepWrites
  <2>2. job[w].pc \in AtRowPcs /\ Goto(w, AtRow(w, "revoke"))
        /\ UNCHANGED <<minted, live, bundle, dev, report, history>>
    BY <1>8 DEF Confirm, AtRowPcs
  <2> QED
    BY <1>a, <2>1, <2>2, AtRowTyped, MarkTyped
<1>9. CASE Revoke(w)
  <2>1. PICK x \in Jobs : Goto(w, x) /\ x.queue = job[w].queue /\ job[w].pc \in AtRowPcs
    BY <1>9, RevokeMoves
  <2>2. live' \in [Agents -> SUBSET Key]
    BY <1>0, <1>9 DEF Revoke, TypeOK
  <2>3. rows' = rows /\ TypeOK'
    BY <1>0, <1>9, <2>2 DEF Revoke, TypeOK, history
  <2> QED
    BY <1>a, <2>1, <2>3, MoveTyped
<1>10. CASE RevokeFails(w)
  <2>1. Goto(w, NextRow(w)) /\ job[w].pc \in AtRowPcs
    BY <1>10 DEF RevokeFails, NoteFailure, AtRowPcs, Late
  <2>2. live' \in [Agents -> SUBSET Key]
    BY <1>0, <1>10 DEF RevokeFails, TypeOK
  <2>3. rows' = rows /\ TypeOK'
    BY <1>0, <1>10, <2>2 DEF RevokeFails, NoteFailure, TypeOK, history
  <2> QED
    BY <2>1, <2>3, NextRowTyped, MoveTyped
<1>11. ASSUME NEW b \in Agents, CleanLoad(w, b) PROVE TypeInv'
  <2>1. rows' = rows /\ TypeOK' /\ job[w].pc \in AtRowPcs
    BY <1>0, <1>11 DEF CleanLoad, TypeOK, history, AtRowPcs, Late
  <2>2. PICK x \in Jobs : Goto(w, x) /\ x.queue = job[w].queue
    BY <1>11, CleanLoadMoves
  <2> QED
    BY <1>a, <2>1, <2>2, MoveTyped
<1>12. CASE CleanWrite(w)
  <2>0. job[w].pc \in AtRowPcs
    BY <1>12 DEF CleanWrite, AtRowPcs, Late
  <2>1. PICK x \in Jobs, y \in Bundles :
          /\ Goto(w, x) /\ x.queue = job[w].queue /\ RotateBundle(job[w].peer, y)
          /\ job[w] \in WriteJobs
    BY <1>12, CleanWriteMoves
  <2>2. bundle' \in [Agents -> Bundles]
    BY <2>1, BundleWritten DEF WriteJobs
  <2>3. rows' = rows /\ TypeOK'
    BY <1>0, <1>12, <2>2 DEF CleanWrite, TypeOK, history
  <2> QED
    BY <1>a, <2>0, <2>1, <2>3, MoveTyped
<1>13. CASE Complete(w)
  <2>1. PICK r \in Rows : /\ rows' = [rows EXCEPT ![Current(w).id] = r]
                          /\ Current(w).id \in DOMAIN rows /\ r.id = Current(w).id
    BY <1>13, SweepWrites
  <2>2. job[w].pc \in AtRowPcs /\ Goto(w, NextRow(w))
        /\ UNCHANGED <<minted, live, bundle, dev, report, history>>
    BY <1>13 DEF Complete, AtRowPcs, Late
  <2> QED
    BY <2>1, <2>2, NextRowTyped, MarkTyped
<1> QED
  BY <1>1, <1>2, <1>3, <1>4, <1>5, <1>6, <1>7, <1>8, <1>9, <1>10, <1>11, <1>12, <1>13

(* Every step keeps the types.                                               *)
LEMMA NextTyped == TypeInv /\ [Next]_vars => TypeInv'
<1> SUFFICES ASSUME TypeInv, [Next]_vars PROVE TypeInv'
  OBVIOUS
<1>1. CASE UNCHANGED vars
  BY <1>1 DEF vars, history, TypeInv, TypeOK
<1>2. ASSUME NEW a \in Agents, Fetch(a) PROVE TypeInv'
  BY <1>2 DEF Fetch, TypeInv, TypeOK, history
<1> QED
  BY <1>1, <1>2, StartTyped, SweepTyped DEF Next, Step

(* Every agent enrolled, with its first key, and no rotation.                *)
LEMMA InitTyped == Init => TypeInv
<1> SUFFICES ASSUME Init PROVE TypeInv
  OBVIOUS
<1>1. 0 \in Version /\ 1 \in Version /\ 1 \in Key /\ 1 \in KeyOrNone /\ NoKey \in KeyOrNone
  BY BoundsAssumption DEF Version, Key, KeyOrNone, NoKey
<1>2. minted \in [Agents -> Key] /\ live \in [Agents -> SUBSET Key] /\ report \in [Agents -> Version]
  BY <1>1 DEF Init
<1>3. ASSUME NEW a \in Agents
      PROVE  [v |-> 1, id |-> 1, tok |-> [b \in Agents |-> IF b = a THEN NoKey ELSE 1],
              ov |-> [b \in Agents |-> NoKey]] \in Bundles
  BY <1>1 DEF Bundles
<1>4. bundle \in [Agents -> Bundles] /\ dev \in [Agents -> Bundles]
  BY <1>3 DEF Init
<1>5. rows = <<>> /\ rows \in Seq(Rows) /\ DOMAIN rows = {}
  BY DEF Init
<1>6. job \in [Workers -> Jobs] /\ \A w \in Workers : job[w].pc = "idle"
  BY DEF Init, Jobs, Idle
<1>7. forced \subseteq Agents /\ crashes \in 0..MaxCrash
  BY BoundsAssumption DEF Init
<1> QED
  BY <1>2, <1>4, <1>5, <1>6, <1>7 DEF TypeInv, TypeOK, AtRowPcs, Late

(* Whatever requests interleave, the tables, bundles and gateway keys keep   *)
(* the shape the schema and the renderer give them, and ids come in order.   *)
THEOREM TypeCorrect == Spec => []TypeOK
<1>1. TypeInv => TypeOK
  BY DEF TypeInv
<1> QED
  BY <1>1, InitTyped, NextTyped, PTL DEF Spec

-----------------------------------------------------------------------------
(* What a step leaves alone.                                                 *)

(* The first of a set of rows, as Current picks it.                          *)
First(Q) == CHOOSE r \in Q : \A s \in Q : r.id <= s.id

(* The row a sweep is at depends on its queue alone.                         *)
LEMMA CurrentIsFirst ==
    ASSUME NEW w
    PROVE  Current(w) = First(job[w].queue) /\ Current(w)' = First(job'[w].queue)
  BY DEF Current, First

(* No step but the ones of its own rotation touches an agent.                *)
Untouched(a) ==
    /\ minted'[a] >= minted[a] /\ live[a] \subseteq live'[a]
    /\ bundle'[a].id = bundle[a].id /\ bundle'[a].v >= bundle[a].v
    /\ \A b \in Agents : bundle'[b].tok[a] = bundle[b].tok[a] /\ bundle'[b].ov[a] = bundle[b].ov[a]

(* The row of an agent that is left alone stays as it should be.             *)
LEMMA RowKept ==
    ASSUME TypeInv, TypeInv', NEW i \in OpenIds, RowInv(i), i \in DOMAIN rows', rows'[i] = rows[i],
           Untouched(rows[i].agent), dev' = dev, forced \subseteq forced'
    PROVE  RowInv(i)'
<1>1. PICK r : r = rows[i]
  OBVIOUS
<1>2. r \in Rows /\ r.agent \in Agents /\ r.old \in Nat /\ r.new \in Nat /\ i \in DOMAIN rows
  BY <1>1, RowAt, RowFields DEF OpenIds, KeyOrNone
<1>3. PICK a \in Agents : a = r.agent
  BY <1>2
<1>4. minted[a] \in Nat /\ minted'[a] \in Nat
  BY DEF TypeInv, TypeOK, Key
<1>5. /\ r.old # NoKey /\ r.old <= minted[a]
      /\ r.new # NoKey /\ r.new <= minted[a] /\ r.old # r.new /\ r.new \in live[a]
      /\ r.ledger[a] = 0 /\ \A b \in Peers(a) : r.ledger[b] # 0
      /\ Delivering(r) /\ AwaitingTarget(r) /\ AwaitingRevoke(r)
  BY <1>1, <1>3 DEF RowInv
<1>6. Untouched(a)
  BY <1>1, <1>3
<1>7. r.old <= minted'[a] /\ r.new <= minted'[a] /\ r.new \in live'[a]
  BY <1>2, <1>4, <1>5, <1>6 DEF Untouched
<1>8. Delivering(r)'
  BY <1>3, <1>5, <1>6 DEF Delivering, Untouched, Overlaps, Accepted, Peers
<1>9. AwaitingTarget(r)'
  BY <1>3, <1>5, <1>6 DEF AwaitingTarget, Untouched, Overlaps, Peers
<1>10. AwaitingRevoke(r)'
  BY <1>3, <1>5, <1>6 DEF AwaitingRevoke, Untouched, Peers
<1> QED
  BY <1>1, <1>3, <1>5, <1>7, <1>8, <1>9, <1>10 DEF RowInv

(* The agent that is left alone, its rows included, stays as it should be.   *)
LEMMA AgentKept ==
    ASSUME TypeInv, TypeInv', NEW a \in Agents, AgentInv(a), Untouched(a),
           HasOpenRow(a)' = HasOpenRow(a), dev' = dev, report' = report, forced \subseteq forced'
    PROVE  AgentInv(a)'
<1>1. /\ minted[a] \in Nat /\ minted'[a] \in Nat /\ bundle[a].id \in Nat
      /\ bundle[a].v \in Nat /\ bundle'[a].v \in Nat /\ dev[a].v \in Nat
  <2>1. minted[a] \in Key /\ bundle[a] \in Bundles /\ dev[a] \in Bundles
    BY DEF TypeInv, TypeOK
  <2>2. minted'[a] \in Key /\ bundle'[a] \in Bundles
    BY DEF TypeInv, TypeOK
  <2> QED
    BY <2>1, <2>2 DEF Key, KeyOrNone, Bundles, Version
<1>2. RestInv(a)'
  BY DEF AgentInv, RestInv, Untouched, Accepted, Peers
<1> QED
  BY <1>1, <1>2 DEF AgentInv, Untouched, Peers

(* The rows as a whole, when none of them is written.                        *)
LEMMA TablesKept ==
    ASSUME TypeInv, TypeInv', IInv, rows' = rows, dev' = dev, report' = report,
           forced \subseteq forced', \A a \in Agents : Untouched(a)
    PROVE  RowsInv' /\ \A a \in Agents : AgentInv(a)'
<1>1. OpenIds' = OpenIds /\ \A a \in Agents : HasOpenRow(a)' = HasOpenRow(a)
  BY DEF OpenIds, HasOpenRow
<1>2. ASSUME NEW i \in OpenIds PROVE RowInv(i)'
  <2>1. RowInv(i) /\ rows[i].agent \in Agents /\ i \in DOMAIN rows
    BY RowAt, RowFields DEF IInv, RowsInv, OpenIds
  <2> QED
    BY <2>1, RowKept
<1>3. RowsInv'
  BY <1>1, <1>2 DEF IInv, RowsInv
<1>4. ASSUME NEW a \in Agents PROVE AgentInv(a)'
  BY <1>1, AgentKept DEF IInv
<1> QED
  BY <1>3, <1>4

(* Nothing but requests moves.                                               *)
LEMMA AllUntouched ==
    ASSUME TypeInv, UNCHANGED <<minted, live, bundle>>
    PROVE  \A a \in Agents : Untouched(a)
<1>1. \A a \in Agents : minted[a] \in Nat /\ bundle[a].v \in Nat
  BY DEF TypeInv, TypeOK, Key, Bundles, Version
<1> QED
  BY <1>1 DEF Untouched

(* The one request of the registrar.                                         *)
LEMMA OnlyRequest ==
    ASSUME OneWorker, TypeInv, NEW w \in Workers, NEW x \in Jobs, Goto(w, x)
    PROVE  job'[w] = x /\ \A v \in Workers : v = w
  BY GotoTyped DEF OneWorker

(* Keys and versions are numbers.                                            *)
LEMMA Numbers ==
    ASSUME TypeInv, NEW c \in Agents
    PROVE  /\ minted[c] \in Nat /\ bundle[c] \in Bundles /\ dev[c] \in Bundles
           /\ bundle[c].v \in Nat /\ bundle[c].id \in Nat
           /\ dev[c].v \in Nat /\ dev[c].id \in Nat /\ report[c] \in Nat
<1>1. /\ minted[c] \in Key /\ bundle[c] \in Bundles /\ dev[c] \in Bundles
      /\ report[c] \in Version
  BY DEF TypeInv, TypeOK
<1> QED
  BY <1>1 DEF Key, KeyOrNone, Bundles, Version

(* A request that is over.                                                   *)
LEMMA RequestOver ==
    ASSUME OneWorker, TypeInv, NEW w \in Workers, Goto(w, Idle)
    PROVE  JobInv'
<1>1. Idle \in Jobs
  BY DEF Jobs
<1>2. job'[w] = Idle /\ \A v \in Workers : v = w
  BY <1>1, OnlyRequest
<1>3. job'[w].pc = "idle"
  BY <1>2 DEF Idle
<1>4. QueueInv(w)' /\ ForceInv(w)' /\ StageInv(w)' /\ StartInv(w)'
  BY <1>3 DEF QueueInv, ForceInv, StageInv, StartInv, Starting, AtRowPcs, Late
<1> QED
  BY <1>2, <1>4 DEF JobInv

(* A request that is a start in order.                                       *)
LEMMA StartInOrder ==
    ASSUME OneWorker, TypeInv, NEW w \in Workers, NEW x \in Jobs, Goto(w, x),
           x.pc \in Starting, StartInv(w)'
    PROVE  JobInv'
<1>1. job'[w] = x /\ \A v \in Workers : v = w
  BY OnlyRequest
<1>2. StartInv(w)' /\ x.pc \in Starting
  OBVIOUS
<1>3. QueueInv(w)' /\ ForceInv(w)' /\ StageInv(w)'
  BY <1>1, <1>2 DEF QueueInv, ForceInv, StageInv, Starting, AtRowPcs, Late
<1> QED
  BY <1>1, <1>2, <1>3 DEF JobInv

-----------------------------------------------------------------------------
(* The steps of a start.                                                     *)

(* A start that only moves on: loading the target, finding an open row or    *)
(* none, a refused mint, and the registrar dying in any request.             *)
LEMMA StartsSafely ==
    ASSUME OneWorker, TypeInv, TypeInv', IInv, NEW w \in Workers,
           \/ \E a \in Agents : StartLoad(w, a)
           \/ StartCheck(w) \/ StartMintFails(w) \/ Crash(w)
    PROVE  IInv'
<1>1. UNCHANGED <<minted, live, bundle, dev, report, rows, forced>>
  BY DEF StartLoad, StartCheck, StartMintFails, Crash, history
<1>2. RowsInv' /\ \A a \in Agents : AgentInv(a)'
  BY <1>1, TablesKept, AllUntouched
<1>3. ASSUME NEW a \in Agents, StartLoad(w, a) PROVE JobInv'
  <2>1. PICK x \in Jobs : Goto(w, x) /\ x.pc = "check" /\ x.agent = a /\ x.old = bundle[a].id
    BY <1>3, StartMoves
  <2>2. job'[w] = x
    BY <2>1, OnlyRequest
  <2>3. StartInv(w)' /\ x.pc \in Starting
    BY <1>1, <2>1, <2>2 DEF StartInv, Starting
  <2> QED
    BY <2>1, <2>3, StartInOrder
<1>4. ASSUME StartCheck(w) PROVE JobInv'
  <2>1. PICK x \in Jobs : /\ Goto(w, x) /\ job[w] \in StartJobs
                          /\ x = Idle \/ (/\ x.pc = "mint" /\ x.agent = job[w].agent
                                          /\ x.old = job[w].old
                                          /\ ~HasOpenRow(job[w].agent))
    BY <1>4, StartMoves
  <2>2. job'[w] = x
    BY <2>1, OnlyRequest
  <2>3. job[w].old = bundle[job[w].agent].id
    BY <1>4 DEF IInv, JobInv, StartInv, StartCheck, Starting
  <2>4. CASE x = Idle
    BY <2>1, <2>4, RequestOver
  <2>5. CASE x # Idle
    <3>1. ~HasOpenRow(x.agent)'
      BY <1>1, <2>1, <2>5 DEF HasOpenRow
    <3>2. StartInv(w)' /\ x.pc \in Starting
      BY <1>1, <2>1, <2>2, <2>3, <2>5, <3>1 DEF StartInv, Starting
    <3> QED
      BY <2>1, <3>2, StartInOrder
  <2> QED
    BY <2>4, <2>5
<1>5. ASSUME StartMintFails(w) \/ Crash(w) PROVE JobInv'
  <2>1. Goto(w, Idle)
    BY <1>5, StartMoves
  <2> QED
    BY <2>1, RequestOver
<1> QED
  BY <1>2, <1>3, <1>4, <1>5 DEF IInv

(* The mint: a key that no bundle holds yet.                                 *)
LEMMA MintsSafely ==
    ASSUME OneWorker, TypeInv, TypeInv', IInv, NEW w \in Workers, StartMint(w)
    PROVE  IInv'
<1>1. PICK x \in Jobs : /\ Goto(w, x) /\ job[w] \in StartJobs /\ x.pc = "scan"
                        /\ x.agent = job[w].agent /\ x.old = job[w].old
                        /\ x.new = minted[job[w].agent] + 1
                        /\ minted[job[w].agent] + 1 \in Key
  BY StartMoves
<1>2. PICK a \in Agents : a = job[w].agent
  BY <1>1 DEF StartJobs
<1>3. /\ minted' = [minted EXCEPT ![a] = minted[a] + 1]
      /\ live' = [live EXCEPT ![a] = @ \union {minted[a] + 1}]
      /\ UNCHANGED <<bundle, dev, report, rows, forced>>
  BY <1>2 DEF StartMint, FreshMeshAlias, history, TypeInv, TypeOK
<1>4. /\ \A c \in Agents : minted[c] \in Nat /\ bundle[c].v \in Nat /\ bundle[c].id \in Nat
      /\ minted \in [Agents -> Key] /\ live \in [Agents -> SUBSET Key]
  BY Numbers DEF TypeInv, TypeOK
<1>5. ASSUME NEW c \in Agents PROVE Untouched(c)
  <2>1. minted'[c] >= minted[c] /\ live[c] \subseteq live'[c]
    BY <1>3, <1>4
  <2>2. bundle' = bundle /\ bundle[c].v \in Nat
    BY <1>3, <1>4
  <2> QED
    BY <2>1, <2>2 DEF Untouched
<1>6. RowsInv' /\ \A c \in Agents : AgentInv(c)'
  BY <1>3, <1>5, TablesKept
<1>7. job'[w] = x
  BY <1>1, OnlyRequest
<1>8. job[w].old = bundle[a].id /\ ~HasOpenRow(a)
  BY <1>2 DEF IInv, JobInv, StartInv, StartMint, Starting
<1>9. ~HasOpenRow(a)'
  BY <1>3, <1>8 DEF HasOpenRow
<1>10. bundle[a].id <= minted[a]
  BY DEF IInv, AgentInv
<1>11. x.new \in live'[a] /\ x.new <= minted'[a] /\ x.new # x.old
  BY <1>1, <1>2, <1>3, <1>4, <1>8, <1>10
<1>12. StartInv(w)' /\ x.pc \in Starting
  BY <1>1, <1>2, <1>3, <1>7, <1>8, <1>9, <1>11 DEF StartInv, Starting
<1> QED
  BY <1>1, <1>6, <1>12, StartInOrder DEF IInv

(* referencingPeerDevices finds every peer.                                  *)
LEMMA ScansSafely ==
    ASSUME OneWorker, TypeInv, TypeInv', IInv, NEW w \in Workers, StartScan(w)
    PROVE  IInv'
<1>1. PICK x \in Jobs : /\ Goto(w, x) /\ job[w] \in ScanJobs /\ x.pc = "deliver"
                        /\ x.agent = job[w].agent /\ x.old = job[w].old
                        /\ x.new = job[w].new /\ x.seen = bundle
                        /\ x.todo = {b \in Agents \ {job[w].agent} :
                                       References(b, job[w].agent)}
                        /\ x.ledger = [b \in Agents |-> 0]
  BY StartMoves
<1>2. PICK a \in Agents : a = job[w].agent
  BY <1>1 DEF ScanJobs
<1>3. UNCHANGED <<minted, live, bundle, dev, report, rows, forced>>
  BY DEF StartScan, history
<1>4. RowsInv' /\ \A c \in Agents : AgentInv(c)'
  BY <1>3, TablesKept, AllUntouched
<1>5. job'[w] = x
  BY <1>1, OnlyRequest
<1>6. /\ job[w].old = bundle[a].id /\ ~HasOpenRow(a)
      /\ job[w].new \in live[a] /\ job[w].new <= minted[a] /\ job[w].new # job[w].old
  BY <1>2 DEF IInv, JobInv, StartInv, StartScan, Starting
<1>7. x.todo = Peers(a)
  BY <1>1, <1>2 DEF IInv, AgentInv, References, Peers
<1>8. ~HasOpenRow(a)'
  BY <1>3, <1>6 DEF HasOpenRow
<1>9. StartInv(w)' /\ x.pc \in Starting
  BY <1>1, <1>2, <1>3, <1>5, <1>6, <1>7, <1>8 DEF StartInv, Starting, Peers
<1> QED
  BY <1>1, <1>4, <1>9, StartInOrder DEF IInv

(* A step of one agent's rotation: what is to be shown is about that agent.  *)
LEMMA TargetStep ==
    ASSUME TypeInv, TypeInv', IInv, NEW a \in Agents, dev' = dev, report' = report,
           forced \subseteq forced', \A c \in Peers(a) : Untouched(c),
           \A i \in DOMAIN rows : /\ i \in DOMAIN rows'
                                  /\ rows[i].agent # a => rows'[i] = rows[i],
           \A i \in DOMAIN rows' : rows'[i].agent # a => i \in DOMAIN rows /\ rows[i].agent # a,
           \A i \in OpenIds' : rows'[i].agent = a => RowInv(i)',
           \A i, j \in OpenIds' : rows'[i].agent = a /\ rows'[j].agent = a => i = j,
           AgentInv(a)'
    PROVE  RowsInv' /\ \A c \in Agents : AgentInv(c)'
<1>1. ASSUME NEW i \in OpenIds', rows'[i].agent # a
      PROVE  i \in OpenIds /\ rows'[i] = rows[i] /\ rows[i].agent \in Agents
  BY <1>1, RowAt, RowFields DEF OpenIds
<1>2. ASSUME NEW i \in OpenIds' PROVE RowInv(i)'
  <2>1. CASE rows'[i].agent # a
    <3>1. i \in OpenIds /\ rows'[i] = rows[i] /\ rows[i].agent \in Peers(a)
      BY <1>1, <2>1 DEF Peers
    <3>2. RowInv(i) /\ i \in DOMAIN rows'
      BY <1>2, <3>1 DEF IInv, RowsInv, OpenIds
    <3> QED
      BY <3>1, <3>2, RowKept
  <2> QED
    BY <2>1
<1>3. ASSUME NEW i \in OpenIds', NEW j \in OpenIds', rows'[i].agent = rows'[j].agent
      PROVE  i = j
  <2>1. CASE rows'[i].agent # a
    BY <1>1, <1>3, <2>1 DEF IInv, RowsInv
  <2> QED
    BY <1>3, <2>1
<1>4. RowsInv'
  BY <1>2, <1>3 DEF RowsInv
<1>5. ASSUME NEW c \in Peers(a) PROVE AgentInv(c)'
  <2>1. c \in Agents /\ c # a /\ Untouched(c) /\ AgentInv(c)
    BY DEF IInv, Peers
  <2>2. HasOpenRow(c)' = HasOpenRow(c)
    <3>1. HasOpenRow(c) => HasOpenRow(c)'
      BY <2>1 DEF HasOpenRow
    <3>2. HasOpenRow(c)' => HasOpenRow(c)
      BY <2>1 DEF HasOpenRow
    <3> QED
      BY <3>1, <3>2 DEF HasOpenRow
  <2> QED
    BY <2>1, <2>2, AgentKept
<1> QED
  BY <1>4, <1>5 DEF Peers

(* A delivery: the peer has both keys, in its bundle and once it fetches.    *)
LEMMA DeliversSafely ==
    ASSUME OneWorker, TypeInv, TypeInv', IInv, NEW w \in Workers, StartDeliver(w)
    PROVE  IInv'
<1>1. job[w] \in DeliverJobs
  BY DeliverMoves
<1>2. PICK a \in Agents, old \in KeyOrNone, new \in KeyOrNone :
        a = job[w].agent /\ old = job[w].old /\ new = job[w].new
  BY <1>1 DEF DeliverJobs, Key, KeyOrNone
<1>3. PICK b \in job[w].todo, x \in Jobs :
                /\ b \in Agents
                /\ RotateBundle(b, WithOverlap(job[w].seen[b], a, old, new))
                /\ WithOverlap(job[w].seen[b], a, old, new) \in Bundles
                /\ Goto(w, x) /\ x.pc = "deliver" /\ x.agent = a
                /\ x.old = old /\ x.new = new /\ x.seen = job[w].seen
                /\ x.todo = job[w].todo \ {b}
                /\ x.ledger = [job[w].ledger EXCEPT ![b] = bundle'[b].v]
  BY <1>2, DeliverMoves
<1>4. /\ old = bundle[a].id /\ ~HasOpenRow(a)
      /\ new \in live[a] /\ new <= minted[a] /\ new # old
      /\ a \notin job[w].todo /\ job[w].ledger[a] = 0
      /\ \A c \in job[w].todo : job[w].seen[c] = bundle[c]
      /\ \A c \in Agents \ (job[w].todo \union {a}) :
           /\ job[w].ledger[c] # 0
           /\ Overlaps(bundle[c], a, old, new)
           /\ dev[c].v >= job[w].ledger[c] => Overlaps(dev[c], a, old, new)
  BY <1>2 DEF IInv, JobInv, StartInv, StartDeliver, Starting
<1>5. b # a /\ job[w].seen[b] = bundle[b] /\ bundle[b] \in Bundles
  BY <1>3, <1>4, Numbers
<1>6. UNCHANGED <<minted, live, dev, report, rows, forced>>
  BY DEF StartDeliver, history
<1>7. /\ bundle'[b].v = bundle[b].v + 1 /\ bundle'[b].id = bundle[b].id
      /\ bundle'[b].tok = [bundle[b].tok EXCEPT ![a] = new]
      /\ bundle'[b].ov = [bundle[b].ov EXCEPT ![a] = old]
      /\ \A c \in Agents \ {b} : bundle'[c] = bundle[c]
  BY <1>3, <1>5, OverlapWritten
<1>8. bundle[b].tok \in [Agents -> KeyOrNone] /\ bundle[b].ov \in [Agents -> KeyOrNone]
  BY <1>5 DEF Bundles
<1>9. /\ \A c \in Peers(a) : bundle'[b].tok[c] = bundle[b].tok[c] /\ bundle'[b].ov[c] = bundle[b].ov[c]
      /\ Overlaps(bundle'[b], a, old, new)
  BY <1>7, <1>8 DEF Peers, Overlaps
<1>10. ASSUME NEW c \in Peers(a) PROVE Untouched(c)
  <2>1. c \in Agents /\ minted[c] \in Nat /\ bundle[c].v \in Nat
    BY Numbers DEF Peers
  <2>2. bundle'[c].id = bundle[c].id /\ bundle'[c].v >= bundle[c].v
    BY <1>7, <2>1
  <2>3. \A d \in Agents : bundle'[d].tok[c] = bundle[d].tok[c] /\ bundle'[d].ov[c] = bundle[d].ov[c]
    BY <1>7, <1>9
  <2> QED
    BY <1>6, <2>1, <2>2, <2>3 DEF Untouched
<1>11. HasOpenRow(a)' = HasOpenRow(a) /\ OpenIds' = OpenIds
  BY <1>6 DEF HasOpenRow, OpenIds
<1>12. AgentInv(a)'
  <2>1. AgentInv(a) /\ bundle'[a] = bundle[a]
    BY <1>5, <1>7 DEF IInv
  <2>2. bundle[a].id # NoKey /\ new # NoKey
    BY <1>2, <1>1, <2>1 DEF AgentInv, DeliverJobs, Key, NoKey
  <2>3. \A c \in Peers(a) : bundle'[c].tok[a] # NoKey
    BY <1>7, <1>9, <2>1, <2>2 DEF AgentInv, Peers, Overlaps
  <2>4. RestInv(a)'
    <3>1. RestInv(a)
      BY <2>1 DEF AgentInv
    <3>2. \A c \in Peers(a) : bundle[a].id \in Accepted(bundle[c], a) =>
                              bundle[a].id \in Accepted(bundle'[c], a)
      BY <1>4, <1>7, <1>9 DEF Peers, Overlaps, Accepted
    <3> QED
      BY <1>4, <1>6, <1>11, <2>1, <3>1, <3>2 DEF RestInv
  <2> QED
    BY <1>6, <2>1, <2>3, <2>4 DEF AgentInv
<1>13. \A i \in OpenIds : rows[i].agent # a
  BY <1>4 DEF HasOpenRow, OpenIds
<1>14. RowsInv' /\ \A c \in Agents : AgentInv(c)'
  BY <1>6, <1>10, <1>11, <1>12, <1>13, TargetStep
<1>15. job'[w] = x
  BY <1>3, OnlyRequest
<1>16. ASSUME NEW c \in Agents \ (x.todo \union {a})
       PROVE  /\ x.ledger[c] # 0
              /\ Overlaps(bundle'[c], a, old, new)
              /\ dev'[c].v >= x.ledger[c] => Overlaps(dev'[c], a, old, new)
  <2>0. job[w].ledger \in [Agents -> Version]
    BY <1>1 DEF DeliverJobs, Ledgers
  <2>1. CASE c = b
    <3>1. dev[b].v <= bundle[b].v /\ bundle[b].v \in Nat /\ dev[b].v \in Nat
      BY <1>3, Numbers DEF IInv, AgentInv
    <3>2. x.ledger[b] = bundle[b].v + 1
      BY <1>3, <1>7, <2>0
    <3> QED
      BY <1>6, <1>9, <2>1, <3>1, <3>2
  <2>2. CASE c # b
    <3>1. c \in Agents \ (job[w].todo \union {a}) /\ x.ledger[c] = job[w].ledger[c]
      BY <1>3, <2>0, <2>2
    <3> QED
      BY <1>4, <1>6, <1>7, <2>2, <3>1
  <2> QED
    BY <2>1, <2>2
<1>17. \A c \in x.todo : x.seen[c] = bundle'[c]
  BY <1>1, <1>3, <1>4, <1>7 DEF DeliverJobs
<1>18. x.ledger[a] = 0 /\ a \notin x.todo
  BY <1>1, <1>3, <1>4, <1>5 DEF DeliverJobs, Ledgers
<1>19. bundle'[a] = bundle[a]
  BY <1>5, <1>7
<1>20. StartInv(w)' /\ x.pc \in Starting
  <2>1. /\ x.pc = "deliver" /\ x.agent = a /\ x.old = old /\ x.new = new
        /\ old = bundle'[a].id /\ ~HasOpenRow(a)'
        /\ new \in live'[a] /\ new <= minted'[a] /\ new # old
    BY <1>3, <1>4, <1>6, <1>11, <1>19
  <2>2. \A c \in Agents \ (x.todo \union {a}) :
              /\ x.ledger[c] # 0
              /\ Overlaps(bundle'[c], a, old, new)
              /\ dev'[c].v >= x.ledger[c] => Overlaps(dev'[c], a, old, new)
    BY <1>16
  <2> QED
    BY <1>15, <1>17, <1>18, <2>1, <2>2 DEF StartInv, Starting
<1> QED
  BY <1>3, <1>14, <1>20, StartInOrder DEF IInv

(* The row is entered: every peer has been served.                           *)
LEMMA InsertsSafely ==
    ASSUME OneWorker, TypeInv, TypeInv', IInv, NEW w \in Workers, StartInsert(w)
    PROVE  IInv'
<1>1. job[w] \in DeliverJobs /\ Goto(w, Idle)
  BY InsertMoves
<1>2. PICK a \in Agents : a = job[w].agent
  BY <1>1 DEF DeliverJobs
<1>3. PICK k : k = Len(rows) + 1
  OBVIOUS
<1>4. /\ DOMAIN rows' = DOMAIN rows \union {k} /\ k \notin DOMAIN rows
      /\ \A i \in DOMAIN rows : rows'[i] = rows[i]
  BY <1>3, InsertMoves
<1>5. PICK r \in Rows :
                /\ rows'[k] = r /\ r.agent = a /\ r.status = "delivering" /\ r.old = job[w].old
                /\ r.new = job[w].new /\ r.ledger = job[w].ledger
  BY <1>2, <1>3, InsertMoves
<1>6. /\ r.old = bundle[a].id /\ ~HasOpenRow(a)
      /\ r.new \in live[a] /\ r.new <= minted[a] /\ r.new # r.old /\ r.ledger[a] = 0
      /\ \A c \in Peers(a) :
           /\ r.ledger[c] # 0
           /\ Overlaps(bundle[c], a, r.old, r.new)
           /\ dev[c].v >= r.ledger[c] => Overlaps(dev[c], a, r.old, r.new)
  BY <1>2, <1>5 DEF IInv, JobInv, StartInv, StartInsert, Starting, Peers
<1>7. UNCHANGED <<minted, live, bundle, dev, report, forced>>
  BY DEF StartInsert, history
<1>8. \A c \in Agents : Untouched(c)
  BY <1>7, AllUntouched
<1>9. AgentInv(a) /\ r.new # NoKey
  BY <1>1, <1>5 DEF IInv, DeliverJobs, Key, NoKey
<1>10. /\ bundle[a].id \in live[a] /\ bundle[a].id # NoKey /\ bundle[a].id <= minted[a]
       /\ a \notin forced =>
             /\ dev[a].id = bundle[a].id
             /\ \A b \in Peers(a) : bundle[a].id \in Accepted(dev[b], a)
  BY <1>6, <1>9 DEF AgentInv, RestInv
<1>11. Delivering(r)' /\ AwaitingTarget(r)' /\ AwaitingRevoke(r)'
  <2>1. Delivering(r)'
    BY <1>5, <1>6, <1>7, <1>10 DEF Delivering
  <2>2. AwaitingTarget(r)' /\ AwaitingRevoke(r)'
    BY <1>5 DEF AwaitingTarget, AwaitingRevoke
  <2> QED
    BY <2>1, <2>2
<1>12. RowInv(k)'
  BY <1>5, <1>6, <1>7, <1>9, <1>10, <1>11 DEF RowInv
<1>13. ASSUME NEW i \in OpenIds', rows'[i].agent = a PROVE i = k
  BY <1>4, <1>6, <1>13 DEF OpenIds, HasOpenRow
<1>14. HasOpenRow(a)'
  BY <1>4, <1>5 DEF HasOpenRow, Open, Statuses
<1>15. AgentInv(a)'
  BY <1>7, <1>9, <1>14 DEF AgentInv, RestInv
<1>16. RowsInv' /\ \A c \in Agents : AgentInv(c)'
  <2>1. \A i \in DOMAIN rows : i \in DOMAIN rows' /\ (rows[i].agent # a => rows'[i] = rows[i])
    BY <1>4
  <2>2. \A i \in DOMAIN rows' : rows'[i].agent # a => i \in DOMAIN rows /\ rows[i].agent # a
    BY <1>4, <1>5
  <2>3. \A c \in Peers(a) : Untouched(c)
    BY <1>8 DEF Peers
  <2>4. \A i \in OpenIds' : rows'[i].agent = a => RowInv(i)'
    BY <1>12, <1>13
  <2>5. \A i, j \in OpenIds' : rows'[i].agent = a /\ rows'[j].agent = a => i = j
    BY <1>13
  <2> QED
    BY <1>7, <1>15, <2>1, <2>2, <2>3, <2>4, <2>5, TargetStep
<1> QED
  BY <1>1, <1>16, RequestOver DEF IInv

-----------------------------------------------------------------------------
(* The steps of a sweep.                                                     *)

(* A request that is a sweep in order.                                       *)
LEMMA SweepInOrder ==
    ASSUME OneWorker, TypeInv, NEW w \in Workers, NEW x \in Jobs, Goto(w, x),
           x.pc \in AtRowPcs, QueueInv(w)', StageInv(w)'
    PROVE  JobInv'
<1>1. job'[w] = x /\ \A v \in Workers : v = w
  BY OnlyRequest
<1>2. ForceInv(w)' /\ StartInv(w)'
  BY <1>1 DEF ForceInv, StartInv, Starting, AtRowPcs, Late
<1> QED
  BY <1>1, <1>2 DEF JobInv

(* The sweep goes on with its other rows, which nobody has written.          *)
LEMMA NextRowInOrder ==
    ASSUME OneWorker, TypeInv, IInv, NEW w \in Workers, job[w].pc \in AtRowPcs,
           Goto(w, NextRow(w)), forced' = forced,
           \A i \in DOMAIN rows : i # Current(w).id => rows'[i] = rows[i]
    PROVE  JobInv'
<1>1. PICK x \in Jobs : x = NextRow(w)
  BY NextRowTyped
<1>2. CASE x = Idle
  BY <1>1, <1>2, RequestOver
<1>3. CASE x # Idle
  <2>1. x.pc = "row" /\ x.force = job[w].force /\ x.queue = job[w].queue \ {Current(w)}
    BY <1>1, <1>3, NextRowTyped
  <2>2. job'[w] = x /\ Goto(w, x)
    BY <1>1, OnlyRequest
  <2>3. /\ \A r \in job[w].queue : AsTable(w, r) /\ (job[w].force => r.agent \in forced)
        /\ \A r, s \in job[w].queue : r.id = s.id => r = s
    BY DEF IInv, JobInv, QueueInv
  <2>4. /\ Current(w) \in job[w].queue
        /\ \A r \in job[w].queue : r.id \in DOMAIN rows
    BY CurrentIsThere DEF TypeInv
  <2>5. ASSUME NEW r \in x.queue PROVE rows'[r.id] = r
    <3>1. r \in job[w].queue /\ r # Current(w)
      BY <2>1
    <3>2. rows[r.id] = r /\ r.id # Current(w).id
      BY <2>3, <2>4, <3>1 DEF AsTable
    <3> QED
      BY <2>4, <3>1, <3>2
  <2>6. \A r \in x.queue : AsTable(w, r)'
    BY <2>1, <2>2, <2>5 DEF AsTable, Late
  <2>7. QueueInv(w)'
    BY <2>1, <2>2, <2>3, <2>6 DEF QueueInv
  <2>8. StageInv(w)' /\ x.pc \in AtRowPcs
    BY <2>1, <2>2 DEF StageInv, AtRowPcs
  <2> QED
    BY <2>2, <2>7, <2>8, SweepInOrder
<1> QED
  BY <1>2, <1>3

(* The sweep stays at its row: the copy is what the table holds, or what the *)
(* table held before it was confirmed.                                       *)
LEMMA QueueKept ==
    ASSUME OneWorker, TypeInv, IInv, NEW w \in Workers, job[w].pc \in AtRowPcs,
           NEW x \in Jobs, Goto(w, x), x.pc \in AtRowPcs, x.queue = job[w].queue,
           x.force = job[w].force, forced' = forced,
           \A i \in DOMAIN rows : i # Current(w).id => rows'[i] = rows[i],
           rows'[Current(w).id] = IF x.pc \in Late
                                  THEN [Current(w) EXCEPT !.status = "awaiting_revoke"]
                                  ELSE Current(w)
    PROVE  QueueInv(w)' /\ Current(w)' = Current(w) /\ job'[w] = x
<1>1. job'[w] = x
  BY OnlyRequest
<1>2. Current(w)' = Current(w)
  BY <1>1, CurrentIsFirst
<1>3. /\ \A r \in job[w].queue : AsTable(w, r) /\ (job[w].force => r.agent \in forced)
      /\ \A r, s \in job[w].queue : r.id = s.id => r = s
  BY DEF IInv, JobInv, QueueInv
<1>4. /\ Current(w) \in job[w].queue
      /\ \A r \in job[w].queue : r.id \in DOMAIN rows
  BY CurrentIsThere DEF TypeInv
<1>5. ASSUME NEW r \in job[w].queue PROVE AsTable(w, r)'
  <2>1. CASE r = Current(w)
    BY <1>1, <1>2, <2>1 DEF AsTable
  <2>2. CASE r # Current(w)
    <3>1. rows[r.id] = r /\ r.id # Current(w).id
      BY <1>3, <1>4, <2>2 DEF AsTable
    <3>2. rows'[r.id] = r
      BY <1>4, <3>1
    <3> QED
      BY <1>1, <1>2, <2>2, <3>2 DEF AsTable
  <2> QED
    BY <2>1, <2>2
<1>6. QueueInv(w)'
  BY <1>1, <1>3, <1>5 DEF QueueInv
<1> QED
  BY <1>1, <1>2, <1>6

(* The row a sweep is at, in the table.                                      *)
LEMMA RowInTable ==
    ASSUME TypeInv, IInv, NEW w \in Workers, job[w].pc \in AtRowPcs
    PROVE  /\ Current(w).id \in OpenIds /\ Current(w) \in Rows /\ Current(w).agent \in Agents
           /\ rows[Current(w).id].agent = Current(w).agent
           /\ rows[Current(w).id] = IF job[w].pc \in Late
                                    THEN [Current(w) EXCEPT !.status = "awaiting_revoke"]
                                    ELSE Current(w)
           /\ RowInv(Current(w).id) /\ HasOpenRow(Current(w).agent)
           /\ job[w].force => Current(w).agent \in forced
<1>1. PICK r \in Rows : r = Current(w)
  BY CurrentIsThere
<1>2. r \in job[w].queue /\ r.id \in DOMAIN rows /\ r.status \in Open /\ r.agent \in Agents
  BY <1>1, CurrentIsThere, RowFields
<1>3. AsTable(w, r) /\ (job[w].force => r.agent \in forced)
  BY <1>2 DEF IInv, JobInv, QueueInv
<1>4. rows[r.id] = IF job[w].pc \in Late THEN [r EXCEPT !.status = "awaiting_revoke"] ELSE r
  BY <1>1, <1>3 DEF AsTable
<1>5. rows[r.id].agent = r.agent /\ rows[r.id].status \in Open
  <2>1. [r EXCEPT !.status = "awaiting_revoke"].agent = r.agent
        /\ [r EXCEPT !.status = "awaiting_revoke"].status = "awaiting_revoke"
    BY DEF Rows
  <2> QED
    BY <1>2, <1>4, <2>1 DEF Open, Statuses
<1>6. r.id \in OpenIds /\ HasOpenRow(r.agent)
  BY <1>2, <1>5 DEF OpenIds, HasOpenRow
<1>7. RowInv(r.id)
  BY <1>6 DEF IInv, RowsInv
<1> QED
  BY <1>1, <1>2, <1>3, <1>4, <1>5, <1>6, <1>7

(* A step of a sweep at its row: what is to be shown is about that row.      *)
LEMMA RowStep ==
    ASSUME TypeInv, TypeInv', IInv, NEW k \in OpenIds, NEW a \in Agents, a = rows[k].agent,
           dev' = dev, report' = report, forced' = forced, \A c \in Peers(a) : Untouched(c),
           DOMAIN rows' = DOMAIN rows, rows'[k].agent = a,
           \A i \in DOMAIN rows : i # k => rows'[i] = rows[i],
           rows'[k].status \in Open => RowInv(k)', AgentInv(a)'
    PROVE  RowsInv' /\ \A c \in Agents : AgentInv(c)'
<1>1. k \in DOMAIN rows
  BY DEF OpenIds
<1>2. ASSUME NEW i \in OpenIds', rows'[i].agent = a PROVE i = k /\ RowInv(i)'
  <2>1. i = k
    <3>1. SUFFICES ASSUME i # k PROVE FALSE
      OBVIOUS
    <3>2. i \in OpenIds /\ rows[i].agent = a
      BY <1>2, <3>1 DEF OpenIds
    <3> QED
      BY <3>1, <3>2 DEF IInv, RowsInv
  <2>2. rows'[k].status \in Open
    BY <2>1 DEF OpenIds
  <2> QED
    BY <2>1, <2>2
<1>3. \A i \in DOMAIN rows : i \in DOMAIN rows' /\ (rows[i].agent # a => rows'[i] = rows[i])
  BY <1>1
<1>4. \A i \in DOMAIN rows' : rows'[i].agent # a => i \in DOMAIN rows /\ rows[i].agent # a
  BY <1>1
<1>5. \A i \in OpenIds' : rows'[i].agent = a => RowInv(i)'
  BY <1>2
<1>6. \A i, j \in OpenIds' : rows'[i].agent = a /\ rows'[j].agent = a => i = j
  BY <1>2
<1>7. forced \subseteq forced'
  OBVIOUS
<1> QED
  BY <1>3, <1>4, <1>5, <1>6, <1>7, TargetStep

(* A report: what the device has applied, never more.                        *)
LEMMA ReportsSafely ==
    ASSUME OneWorker, TypeInv, TypeInv', IInv, NEW w \in Workers, NEW a \in Agents, Report(w, a)
    PROVE  IInv'
<1>1. UNCHANGED <<minted, live, bundle, dev, rows, forced>> /\ report' = [report EXCEPT ![a] = dev[a].v]
  BY DEF Report, history
<1>2. PICK x \in Jobs : Goto(w, x) /\ x.pc = "sweep" /\ x.force = FALSE
  BY ReportMoves
<1>3. job'[w] = x /\ \A v \in Workers : v = w
  BY <1>2, OnlyRequest
<1>4. QueueInv(w)' /\ ForceInv(w)' /\ StageInv(w)' /\ StartInv(w)'
  BY <1>2, <1>3 DEF QueueInv, ForceInv, StageInv, StartInv, Starting, AtRowPcs, Late
<1>5. JobInv'
  BY <1>3, <1>4 DEF JobInv
<1>6. RowsInv'
  <2>1. OpenIds' = OpenIds
    BY <1>1 DEF OpenIds
  <2>2. ASSUME NEW i \in OpenIds PROVE RowInv(i)'
    <3>1. RowInv(i)
      BY DEF IInv, RowsInv
    <3> QED
      BY <1>1, <3>1 DEF RowInv, Delivering, AwaitingTarget, AwaitingRevoke
  <2> QED
    BY <1>1, <2>1, <2>2 DEF IInv, RowsInv
<1>7. ASSUME NEW c \in Agents PROVE AgentInv(c)'
  <2>1. AgentInv(c) /\ dev[c].v \in Nat /\ report \in [Agents -> Version]
    BY Numbers DEF IInv, TypeInv, TypeOK
  <2>2. report'[c] <= dev[c].v
    BY <1>1, <2>1 DEF AgentInv
  <2>3. RestInv(c)'
    <3>1. HasOpenRow(c)' = HasOpenRow(c)
      BY <1>1 DEF HasOpenRow
    <3> QED
      BY <1>1, <2>1, <3>1 DEF AgentInv, RestInv
  <2> QED
    BY <1>1, <2>1, <2>2, <2>3 DEF AgentInv
<1> QED
  BY <1>5, <1>6, <1>7 DEF IInv

(* A reconcile: an agent may become one the owner has forced.                *)
LEMMA ReconcilesSafely ==
    ASSUME OneWorker, TypeInv, TypeInv', IInv, NEW w \in Workers, NEW id \in DOMAIN rows,
           NEW force \in BOOLEAN, Reconcile(w, id, force)
    PROVE  IInv'
<1>1. /\ UNCHANGED <<minted, live, bundle, dev, report, rows>> /\ forced \subseteq forced'
      /\ force => rows[id].agent \in forced'
  BY DEF Reconcile
<1>2. RowsInv' /\ \A a \in Agents : AgentInv(a)'
  BY <1>1, TablesKept, AllUntouched
<1>3. PICK x \in Jobs : Goto(w, x) /\ x.pc = "sweep" /\ x.only = id /\ x.force = force
  BY ReconcileMoves
<1>4. job'[w] = x /\ \A v \in Workers : v = w
  BY <1>3, OnlyRequest
<1>5. ForceInv(w)'
  BY <1>1, <1>3, <1>4 DEF ForceInv
<1>6. QueueInv(w)' /\ StageInv(w)' /\ StartInv(w)'
  BY <1>3, <1>4 DEF QueueInv, StageInv, StartInv, Starting, AtRowPcs, Late
<1> QED
  BY <1>2, <1>4, <1>5, <1>6 DEF IInv, JobInv

(* The sweep reads its rows as they are.                                     *)
LEMMA SweepsSafely ==
    ASSUME OneWorker, TypeInv, TypeInv', IInv, NEW w \in Workers, SweepRead(w)
    PROVE  IInv'
<1>1. UNCHANGED <<minted, live, bundle, dev, report, rows, forced>> /\ job[w].pc = "sweep"
  BY DEF SweepRead, history
<1>2. RowsInv' /\ \A a \in Agents : AgentInv(a)'
  BY <1>1, TablesKept, AllUntouched
<1>3. PICK x \in Jobs :
                /\ Goto(w, x) /\ job[w] \in SweepJobs
                /\ x = Idle \/
                   (/\ x.pc = "row" /\ x.force = job[w].force /\ x.queue # {}
                    /\ x.queue = {r \in OpenRows : job[w].only \in {0, r.id}})
  BY SweepReadMoves
<1>4. CASE x = Idle
  BY <1>2, <1>3, <1>4, RequestOver DEF IInv
<1>5. CASE x # Idle
  <2>1. job'[w] = x
    BY <1>3, OnlyRequest
  <2>2. ASSUME NEW r \in x.queue PROVE rows[r.id] = r /\ job[w].only \in {0, r.id}
    <3>1. r \in OpenRows /\ job[w].only \in {0, r.id}
      BY <1>3, <1>5
    <3>2. PICK i \in DOMAIN rows : r = rows[i]
      BY <3>1 DEF OpenRows
    <3> QED
      BY <3>1, <3>2, RowAt
  <2>3. ASSUME NEW r \in x.queue, x.force PROVE r.agent \in forced
    <3>1. job[w].only \in DOMAIN rows /\ rows[job[w].only].agent \in forced
      BY <1>1, <1>3, <1>5, <2>3 DEF IInv, JobInv, ForceInv
    <3>2. job[w].only # 0
      BY <3>1, RowAt
    <3> QED
      BY <2>2, <3>1, <3>2
  <2>4. x.pc = "row" /\ x.pc \in AtRowPcs /\ x.pc \notin Late
    BY <1>3, <1>5 DEF AtRowPcs, Late
  <2>5. \A r \in x.queue : AsTable(w, r)'
    BY <1>1, <2>1, <2>2, <2>4 DEF AsTable
  <2>6. \A r, s \in x.queue : r.id = s.id => r = s
    BY <2>2
  <2>7. QueueInv(w)'
    BY <1>1, <2>1, <2>3, <2>5, <2>6 DEF QueueInv
  <2>8. StageInv(w)'
    BY <2>1, <2>4 DEF StageInv
  <2>9. JobInv'
    BY <1>3, <2>4, <2>7, <2>8, SweepInOrder
  <2> QED
    BY <1>2, <2>9 DEF IInv
<1> QED
  BY <1>4, <1>5

(* The copy is up to date, so the stage it calls for is the row's stage.     *)
LEMMA ChoosesSafely ==
    ASSUME OneWorker, TypeInv, TypeInv', IInv, NEW w \in Workers, SweepRow(w)
    PROVE  IInv'
<1>1. /\ UNCHANGED <<minted, live, bundle, dev, report, rows, forced>>
      /\ job[w].pc \in AtRowPcs /\ job[w].pc \notin Late
  BY DEF SweepRow, history, AtRowPcs, Late
<1>2. RowsInv' /\ \A a \in Agents : AgentInv(a)'
  BY <1>1, TablesKept, AllUntouched
<1>3. PICK x \in Jobs :
                /\ Goto(w, x)
                /\ \/ x = NextRow(w)
                   \/ /\ x = AtRow(w, "flip") /\ Current(w).status = "delivering"
                      /\ job[w].force \/ PeersConfirmed(Current(w))
                   \/ /\ x = AtRow(w, "confirm") /\ Current(w).status = "awaiting_target"
                      /\ job[w].force \/ TargetConfirmed(Current(w))
                   \/ x = AtRow(w, "revoke") /\ Current(w).status = "awaiting_revoke"
  BY SweepRowMoves
<1>4. PICK r \in Rows : r = Current(w)
  BY <1>1, RowInTable
<1>5. rows[r.id] = r /\ (job[w].force => r.agent \in forced)
  BY <1>1, <1>4, RowInTable
<1>6. CASE x = NextRow(w)
  BY <1>1, <1>2, <1>3, <1>6, NextRowInOrder DEF IInv
<1>7. CASE x # NextRow(w)
  <2>1. /\ x.pc \in {"flip", "confirm", "revoke"} /\ x.queue = job[w].queue
        /\ x.force = job[w].force
    BY <1>1, <1>3, <1>7, AtRowTyped
  <2>2. x.pc = "revoke" => [r EXCEPT !.status = "awaiting_revoke"] = r
    <3>1. x.pc = "revoke" => r.status = "awaiting_revoke"
      BY <1>1, <1>3, <1>4, <1>7, AtRowTyped
    <3> QED
      BY <3>1 DEF Rows
  <2>3. x.pc \in AtRowPcs /\ (x.pc \in Late <=> x.pc = "revoke")
    BY <2>1 DEF AtRowPcs, Late
  <2>4. rows'[r.id] = IF x.pc \in Late THEN [r EXCEPT !.status = "awaiting_revoke"] ELSE r
    BY <1>1, <1>5, <2>2, <2>3
  <2>5. QueueInv(w)' /\ Current(w)' = r /\ job'[w] = x
    BY <1>1, <1>3, <1>4, <2>1, <2>3, <2>4, QueueKept
  <2>6. /\ x.pc = "flip" => r.status = "delivering" /\ (job[w].force \/ PeersConfirmed(r))
        /\ x.pc = "confirm" => r.status = "awaiting_target" /\ (job[w].force \/ TargetConfirmed(r))
    BY <1>1, <1>3, <1>4, <1>7, AtRowTyped
  <2>7. PeersConfirmed(r)' = PeersConfirmed(r) /\ TargetConfirmed(r)' = TargetConfirmed(r)
    BY <1>1 DEF PeersConfirmed, TargetConfirmed
  <2>8. StageInv(w)'
    BY <1>1, <1>5, <2>1, <2>5, <2>6, <2>7 DEF StageInv
  <2>9. JobInv'
    BY <1>3, <2>3, <2>5, <2>8, SweepInOrder
  <2> QED
    BY <1>2, <2>9 DEF IInv
<1> QED
  BY <1>6, <1>7

(* flipTarget and cleanupPeerOverlap read what they then write.              *)
LEMMA LoadsSafely ==
    ASSUME OneWorker, TypeInv, TypeInv', IInv, NEW w \in Workers,
           FlipLoad(w) \/ \E b \in Agents : CleanLoad(w, b)
    PROVE  IInv'
<1>1. /\ UNCHANGED <<minted, live, bundle, dev, report, rows, forced>>
      /\ job[w].pc \in AtRowPcs
  BY DEF FlipLoad, CleanLoad, history, AtRowPcs, Late
<1>2. RowsInv' /\ \A a \in Agents : AgentInv(a)'
  BY <1>1, TablesKept, AllUntouched
<1>3. PICK r \in Rows : r = Current(w)
  BY <1>1, RowInTable
<1>4. ASSUME FlipLoad(w) PROVE JobInv'
  <2>1. PICK x \in Jobs :
                /\ Goto(w, x) /\ x.pc = "flipWrite"
                /\ x.force = job[w].force /\ x.queue = job[w].queue /\ x.seen = bundle[r.agent]
    BY <1>3, <1>4, FlipLoadMoves
  <2>2. job[w].pc = "flip" /\ x.pc \in AtRowPcs /\ x.pc \notin Late /\ job[w].pc \notin Late
    BY <1>4, <2>1 DEF FlipLoad, AtRowPcs, Late
  <2>3. rows'[r.id] = r
    BY <1>1, <1>3, <2>2, RowInTable
  <2>4. QueueInv(w)' /\ Current(w)' = r /\ job'[w] = x
    BY <1>1, <1>3, <2>1, <2>2, <2>3, QueueKept
  <2>5. r.status = "delivering" /\ (r.agent \notin forced => PeersConfirmed(r))
    BY <1>3, <2>2 DEF IInv, JobInv, StageInv
  <2>6. PeersConfirmed(r)' = PeersConfirmed(r)
    BY <1>1 DEF PeersConfirmed
  <2>7. StageInv(w)'
    BY <1>1, <2>1, <2>4, <2>5, <2>6 DEF StageInv
  <2> QED
    BY <2>1, <2>2, <2>4, <2>7, SweepInOrder
<1>5. ASSUME NEW b \in Agents, CleanLoad(w, b) PROVE JobInv'
  <2>1. PICK x \in Jobs :
                /\ Goto(w, x) /\ x.force = job[w].force /\ x.queue = job[w].queue
                /\ \/ x.pc = "clean"
                   \/ x.pc = "cleanWrite" /\ x.peer = b /\ x.seen = bundle[b]
    BY <1>5, CleanLoadMoves
  <2>2. x.pc \in AtRowPcs /\ x.pc \in Late /\ job[w].pc \in Late
    BY <1>5, <2>1 DEF CleanLoad, AtRowPcs, Late
  <2>3. rows'[r.id] = [r EXCEPT !.status = "awaiting_revoke"]
    BY <1>1, <1>3, <2>2, RowInTable
  <2>4. QueueInv(w)' /\ Current(w)' = r /\ job'[w] = x
    BY <1>1, <1>3, <2>1, <2>2, <2>3, QueueKept
  <2>5. StageInv(w)'
    BY <1>1, <2>1, <2>4 DEF StageInv
  <2> QED
    BY <2>1, <2>2, <2>4, <2>5, SweepInOrder
<1> QED
  BY <1>2, <1>4, <1>5 DEF IInv

(* The flip: every peer that is reported to have applied its delivery has    *)
(* the new key beside the old one.                                           *)
LEMMA FlipsSafely ==
    ASSUME OneWorker, TypeInv, TypeInv', IInv, NEW w \in Workers, FlipWrite(w)
    PROVE  IInv'
<1>1. /\ UNCHANGED <<minted, live, dev, report, rows, forced>>
      /\ job[w].pc = "flipWrite" /\ job[w].pc \in AtRowPcs /\ job[w].pc \notin Late
  BY DEF FlipWrite, history, AtRowPcs, Late
<1>2. PICK r \in Rows : r = Current(w)
  BY <1>1, RowInTable
<1>3. PICK a \in Agents, k \in Nat : a = r.agent /\ k = r.id
  BY <1>1, <1>2, RowInTable, RowFields
<1>4. k \in OpenIds /\ rows[k] = r /\ RowInv(k) /\ HasOpenRow(a)
  BY <1>1, <1>2, <1>3, RowInTable
<1>5. PICK x \in Jobs :
                /\ Goto(w, x) /\ x.pc = "flipMark"
                /\ x.force = job[w].force /\ x.queue = job[w].queue
                /\ x.version = bundle'[a].v
                /\ RotateBundle(a, Flipped(job[w].seen, r))
  BY <1>2, <1>3, FlipWriteMoves
<1>6. /\ r.status = "delivering" /\ (a \notin forced => PeersConfirmed(r))
      /\ job[w].seen = bundle[a]
  BY <1>1, <1>2, <1>3 DEF IInv, JobInv, StageInv
<1>7. /\ bundle'[a].v = bundle[a].v + 1 /\ bundle'[a].id = r.new
      /\ bundle'[a].tok = bundle[a].tok /\ bundle'[a].ov = bundle[a].ov
      /\ \A c \in Agents \ {a} : bundle'[c] = bundle[c]
  <2>1. bundle[a] \in Bundles
    BY Numbers
  <2>2. PICK y \in Bundles : /\ y = Flipped(bundle[a], r) /\ y.id = r.new
                             /\ y.tok = bundle[a].tok /\ y.ov = bundle[a].ov
    BY <2>1, FlipRendering
  <2>3. RotateBundle(a, y)
    BY <1>5, <1>6, <2>2
  <2> QED
    BY <2>2, <2>3, BundleWritten
<1>8. \A c \in Agents : bundle'[c].tok = bundle[c].tok /\ bundle'[c].ov = bundle[c].ov
  BY <1>7
<1>9. ASSUME NEW c \in Peers(a) PROVE Untouched(c)
  <2>1. c \in Agents /\ minted[c] \in Nat /\ bundle[c].v \in Nat /\ bundle'[c] = bundle[c]
    BY <1>7, Numbers DEF Peers
  <2> QED
    BY <1>1, <1>8, <2>1 DEF Untouched
<1>10. /\ r.old # NoKey /\ r.old <= minted[a]
       /\ r.new # NoKey /\ r.new <= minted[a] /\ r.old # r.new /\ r.new \in live[a]
       /\ r.ledger[a] = 0 /\ \A b \in Peers(a) : r.ledger[b] # 0
       /\ Delivering(r)
  BY <1>3, <1>4 DEF RowInv
<1>11. ASSUME a \notin forced, NEW b \in Peers(a) PROVE Overlaps(dev[b], a, r.old, r.new)
  <2>1. /\ b \in Agents /\ report[b] \in Nat /\ dev[b].v \in Nat /\ r.ledger[b] \in Nat
    BY Numbers, RowFields DEF Peers, Version
  <2>2. report[b] >= r.ledger[b] /\ report[b] <= dev[b].v
    BY <1>6, <1>10, <1>11, <2>1 DEF PeersConfirmed, IInv, AgentInv
  <2>3. dev[b].v >= r.ledger[b]
    BY <2>1, <2>2
  <2> QED
    BY <1>3, <1>6, <1>10, <2>3 DEF Delivering
<1>12. Delivering(r)'
  <2>1. \A b \in Peers(a) : /\ Overlaps(bundle'[b], a, r.old, r.new)
                            /\ dev[b].v >= r.ledger[b] => Overlaps(dev[b], a, r.old, r.new)
    BY <1>3, <1>6, <1>8, <1>10 DEF Delivering, Overlaps, Peers
  <2>2. a \notin forced => /\ dev[a].id \in {r.old, r.new}
                           /\ \A b \in Peers(a) : r.old \in Accepted(dev[b], a)
    BY <1>3, <1>6, <1>10 DEF Delivering
  <2>3. r.old \in live[a]
    BY <1>3, <1>6, <1>10 DEF Delivering
  <2> QED
    BY <1>1, <1>3, <1>7, <1>10, <1>11, <2>1, <2>2, <2>3 DEF Delivering
<1>13. AwaitingTarget(r)' /\ AwaitingRevoke(r)'
  BY <1>6 DEF AwaitingTarget, AwaitingRevoke
<1>14. RowInv(k)'
  BY <1>1, <1>3, <1>4, <1>10, <1>12, <1>13 DEF RowInv
<1>15. AgentInv(a)'
  <2>1. AgentInv(a) /\ dev[a].v \in Nat /\ bundle[a].v \in Nat
    BY Numbers DEF IInv
  <2>2. HasOpenRow(a)'
    BY <1>1, <1>4 DEF HasOpenRow
  <2>3. dev[a].v <= bundle'[a].v
    BY <1>7, <2>1 DEF AgentInv
  <2> QED
    BY <1>1, <1>7, <1>8, <1>10, <2>1, <2>2, <2>3 DEF AgentInv, RestInv, Peers
<1>16. RowsInv' /\ \A c \in Agents : AgentInv(c)'
  BY <1>1, <1>3, <1>4, <1>9, <1>14, <1>15, RowStep
<1>17. x.pc \in AtRowPcs /\ x.pc \notin Late
  BY <1>5 DEF AtRowPcs, Late
<1>18. QueueInv(w)' /\ Current(w)' = r /\ job'[w] = x
  BY <1>1, <1>2, <1>3, <1>4, <1>5, <1>17, QueueKept
<1>19. x.version # 0 /\ ~(dev[a].v >= x.version)
  <2>1. dev[a].v \in Nat /\ bundle[a].v \in Nat /\ dev[a].v <= bundle[a].v
    BY Numbers DEF IInv, AgentInv
  <2> QED
    BY <1>5, <1>7, <2>1
<1>20. StageInv(w)'
  BY <1>1, <1>3, <1>5, <1>6, <1>7, <1>18, <1>19 DEF StageInv
<1> QED
  BY <1>5, <1>16, <1>17, <1>18, <1>20, SweepInOrder DEF IInv

(* The row is marked with the version that carries the new key.              *)
LEMMA MarksSafely ==
    ASSUME OneWorker, TypeInv, TypeInv', IInv, NEW w \in Workers, FlipMark(w)
    PROVE  IInv'
<1>1. /\ UNCHANGED <<minted, live, bundle, dev, report, forced>> /\ Goto(w, NextRow(w))
      /\ job[w].pc = "flipMark" /\ job[w].pc \in AtRowPcs /\ job[w].pc \notin Late
  BY DEF FlipMark, history, AtRowPcs, Late
<1>2. PICK r \in Rows : r = Current(w)
  BY <1>1, RowInTable
<1>3. PICK a \in Agents, k \in Nat : a = r.agent /\ k = r.id
  BY <1>1, <1>2, RowInTable, RowFields
<1>4. k \in OpenIds /\ k \in DOMAIN rows /\ rows[k] = r /\ RowInv(k) /\ HasOpenRow(a)
  BY <1>1, <1>2, <1>3, RowInTable DEF OpenIds
<1>5. PICK s \in Rows : /\ rows' = [rows EXCEPT ![k] = s] /\ s.id = k
                        /\ s = [r EXCEPT !.status = "awaiting_target", !.nbv = job[w].version]
  <2>1. PICK s \in Rows :
                  /\ rows' = [rows EXCEPT ![Current(w).id] = s]
                  /\ s = [rows[Current(w).id] EXCEPT !.status = "awaiting_target",
                                                     !.nbv = job[w].version]
                  /\ s.id = Current(w).id
    BY SweepWrites
  <2>2. Current(w).id = k /\ rows[Current(w).id] = r
    BY <1>2, <1>3, <1>4
  <2> QED
    BY <2>1, <2>2
<1>6. /\ s.agent = a /\ s.status = "awaiting_target" /\ s.nbv = job[w].version
      /\ s.old = r.old /\ s.new = r.new /\ s.ledger = r.ledger
  BY <1>3, <1>5 DEF Rows
<1>7. /\ DOMAIN rows' = DOMAIN rows /\ rows'[k] = s
      /\ \A i \in DOMAIN rows : i # k => rows'[i] = rows[i]
  BY <1>4, <1>5, RowWritten
<1>8. /\ r.status = "delivering" /\ bundle[a].id = r.new /\ job[w].version # 0
      /\ dev[a].v >= job[w].version => dev[a].id = r.new
  BY <1>1, <1>2, <1>3 DEF IInv, JobInv, StageInv
<1>9. AwaitingTarget(s)'
  <2>1. Delivering(r)
    BY <1>4 DEF RowInv
  <2>2. /\ r.old \in live[a]
        /\ \A b \in Peers(a) : Overlaps(bundle[b], a, r.old, r.new)
        /\ a \notin forced => /\ dev[a].id \in {r.old, r.new}
                              /\ \A b \in Peers(a) : Overlaps(dev[b], a, r.old, r.new)
    BY <1>3, <1>8, <2>1 DEF Delivering
  <2> QED
    BY <1>1, <1>6, <1>8, <2>2 DEF AwaitingTarget
<1>10. Delivering(s)' /\ AwaitingRevoke(s)'
  BY <1>6 DEF Delivering, AwaitingRevoke
<1>11. RowInv(k)'
  BY <1>1, <1>3, <1>4, <1>6, <1>7, <1>9, <1>10 DEF RowInv
<1>12. AgentInv(a)'
  <2>1. HasOpenRow(a)'
    BY <1>4, <1>6, <1>7 DEF HasOpenRow, Open, Statuses
  <2> QED
    BY <1>1, <2>1 DEF IInv, AgentInv, RestInv
<1>13. \A c \in Peers(a) : Untouched(c)
  BY <1>1, AllUntouched DEF Peers
<1>14. RowsInv' /\ \A c \in Agents : AgentInv(c)'
  BY <1>1, <1>3, <1>4, <1>6, <1>7, <1>11, <1>12, <1>13, RowStep
<1>15. JobInv'
  BY <1>1, <1>2, <1>3, <1>7, NextRowInOrder
<1> QED
  BY <1>14, <1>15 DEF IInv

(* The confirmation: the target has reported the version that carries the    *)
(* new key, so its volume holds it.                                          *)
LEMMA ConfirmsSafely ==
    ASSUME OneWorker, TypeInv, TypeInv', IInv, NEW w \in Workers, Confirm(w)
    PROVE  IInv'
<1>1. /\ UNCHANGED <<minted, live, bundle, dev, report, forced>> /\ Goto(w, AtRow(w, "revoke"))
      /\ job[w].pc = "confirm" /\ job[w].pc \in AtRowPcs /\ job[w].pc \notin Late
  BY DEF Confirm, history, AtRowPcs, Late
<1>2. PICK r \in Rows : r = Current(w)
  BY <1>1, RowInTable
<1>3. PICK a \in Agents, k \in Nat : a = r.agent /\ k = r.id
  BY <1>1, <1>2, RowInTable, RowFields
<1>4. k \in OpenIds /\ k \in DOMAIN rows /\ rows[k] = r /\ RowInv(k) /\ HasOpenRow(a)
  BY <1>1, <1>2, <1>3, RowInTable DEF OpenIds
<1>5. PICK s \in Rows : /\ rows' = [rows EXCEPT ![k] = s] /\ s.id = k
                        /\ s = [r EXCEPT !.status = "awaiting_revoke"]
  <2>1. PICK s \in Rows :
                  /\ rows' = [rows EXCEPT ![Current(w).id] = s]
                  /\ s = [rows[Current(w).id] EXCEPT !.status = "awaiting_revoke"]
                  /\ s.id = Current(w).id
    BY SweepWrites
  <2>2. Current(w).id = k /\ rows[Current(w).id] = r
    BY <1>2, <1>3, <1>4
  <2> QED
    BY <2>1, <2>2
<1>6. /\ s.agent = a /\ s.status = "awaiting_revoke"
      /\ s.old = r.old /\ s.new = r.new /\ s.ledger = r.ledger
  BY <1>3, <1>5 DEF Rows
<1>7. /\ DOMAIN rows' = DOMAIN rows /\ rows'[k] = s
      /\ \A i \in DOMAIN rows : i # k => rows'[i] = rows[i]
  BY <1>4, <1>5, RowWritten
<1>8. r.status = "awaiting_target" /\ (a \notin forced => TargetConfirmed(r))
  BY <1>1, <1>2, <1>3 DEF IInv, JobInv, StageInv
<1>9. AwaitingRevoke(s)'
  <2>1. AwaitingTarget(r)
    BY <1>4 DEF RowInv
  <2>2. /\ bundle[a].id = r.new /\ (dev[a].v >= r.nbv => dev[a].id = r.new)
        /\ \A b \in Peers(a) : Overlaps(bundle[b], a, r.old, r.new)
        /\ a \notin forced => \A b \in Peers(a) : Overlaps(dev[b], a, r.old, r.new)
    BY <1>3, <1>8, <2>1 DEF AwaitingTarget
  <2>3. a \notin forced => dev[a].v >= r.nbv
    <3>1. report[a] \in Nat /\ dev[a].v \in Nat /\ r.nbv \in Nat /\ report[a] <= dev[a].v
      BY Numbers, RowFields DEF IInv, AgentInv, Version
    <3>2. a \notin forced => report[a] >= r.nbv
      BY <1>3, <1>8 DEF TargetConfirmed
    <3> QED
      BY <3>1, <3>2
  <2> QED
    BY <1>1, <1>6, <2>2, <2>3 DEF AwaitingRevoke, Overlaps
<1>10. Delivering(s)' /\ AwaitingTarget(s)'
  BY <1>6 DEF Delivering, AwaitingTarget
<1>11. RowInv(k)'
  BY <1>1, <1>3, <1>4, <1>6, <1>7, <1>9, <1>10 DEF RowInv
<1>12. AgentInv(a)'
  <2>1. HasOpenRow(a)'
    BY <1>4, <1>6, <1>7 DEF HasOpenRow, Open, Statuses
  <2> QED
    BY <1>1, <2>1 DEF IInv, AgentInv, RestInv
<1>13. \A c \in Peers(a) : Untouched(c)
  BY <1>1, AllUntouched DEF Peers
<1>14. RowsInv' /\ \A c \in Agents : AgentInv(c)'
  BY <1>1, <1>3, <1>4, <1>6, <1>7, <1>11, <1>12, <1>13, RowStep
<1>15. PICK x \in Jobs : /\ x = AtRow(w, "revoke") /\ x.pc = "revoke" /\ x.queue = job[w].queue
                         /\ x.force = job[w].force
  BY <1>1, AtRowTyped
<1>16. x.pc \in AtRowPcs /\ x.pc \in Late
  BY <1>15 DEF AtRowPcs, Late
<1>17. QueueInv(w)' /\ job'[w] = x
  BY <1>1, <1>2, <1>3, <1>5, <1>7, <1>15, <1>16, QueueKept
<1>18. StageInv(w)'
  BY <1>15, <1>17 DEF StageInv
<1> QED
  BY <1>1, <1>14, <1>15, <1>16, <1>17, <1>18, SweepInOrder DEF IInv

(* The revocation takes the old key away, which nobody holds any more.       *)
LEMMA RevokesSafely ==
    ASSUME OneWorker, TypeInv, TypeInv', IInv, NEW w \in Workers, Revoke(w) \/ RevokeFails(w)
    PROVE  IInv'
<1>1. /\ UNCHANGED <<minted, bundle, dev, report, rows, forced>>
      /\ job[w].pc = "revoke" /\ job[w].pc \in AtRowPcs /\ job[w].pc \in Late
  BY DEF Revoke, RevokeFails, NoteFailure, history, AtRowPcs, Late
<1>2. PICK r \in Rows : r = Current(w)
  BY <1>1, RowInTable
<1>3. PICK a \in Agents, k \in Nat : a = r.agent /\ k = r.id
  BY <1>1, <1>2, RowInTable, RowFields
<1>4. PICK s \in Rows : s = rows[k]
  BY <1>1, <1>2, <1>3, RowInTable, RowAt DEF OpenIds
<1>5. /\ k \in OpenIds /\ k \in DOMAIN rows /\ RowInv(k) /\ HasOpenRow(a)
      /\ s = [r EXCEPT !.status = "awaiting_revoke"]
  BY <1>1, <1>2, <1>3, <1>4, RowInTable DEF OpenIds
<1>6. s.agent = a /\ s.status = "awaiting_revoke" /\ s.old = r.old /\ s.new = r.new
  BY <1>3, <1>5 DEF Rows
<1>7. /\ live' \in {live, [live EXCEPT ![a] = @ \ {s.old}]}
      /\ live \in [Agents -> SUBSET Key]
  BY <1>2, <1>3, <1>6 DEF Revoke, RevokeFails, TypeInv, TypeOK
<1>8. /\ \A c \in Peers(a) : live'[c] = live[c]
      /\ live[a] \ {s.old} \subseteq live'[a]
  BY <1>7 DEF Peers
<1>9. ASSUME NEW c \in Peers(a) PROVE Untouched(c)
  <2>1. c \in Agents /\ minted[c] \in Nat /\ bundle[c].v \in Nat
    BY Numbers DEF Peers
  <2> QED
    BY <1>1, <1>8, <2>1 DEF Untouched
<1>10. /\ s.old # s.new /\ s.new \in live[a] /\ AwaitingRevoke(s)
       /\ s.old # NoKey /\ s.old <= minted[a] /\ s.new # NoKey /\ s.new <= minted[a]
       /\ s.ledger[a] = 0 /\ \A b \in Peers(a) : s.ledger[b] # 0
  BY <1>4, <1>5, <1>6 DEF RowInv
<1>11. AwaitingRevoke(s)' /\ Delivering(s)' /\ AwaitingTarget(s)'
  <2>1. AwaitingRevoke(s)'
    BY <1>1, <1>10 DEF AwaitingRevoke
  <2>2. Delivering(s)' /\ AwaitingTarget(s)'
    BY <1>6 DEF Delivering, AwaitingTarget
  <2> QED
    BY <2>1, <2>2
<1>12. RowInv(k)'
  BY <1>1, <1>4, <1>6, <1>8, <1>10, <1>11 DEF RowInv
<1>13. AgentInv(a)'
  <2>1. HasOpenRow(a)'
    BY <1>1, <1>5 DEF HasOpenRow
  <2> QED
    BY <1>1, <2>1 DEF IInv, AgentInv, RestInv
<1>14. RowsInv' /\ \A c \in Agents : AgentInv(c)'
  BY <1>1, <1>4, <1>5, <1>6, <1>9, <1>12, <1>13, RowStep
<1>15. ASSUME Revoke(w) PROVE JobInv'
  <2>1. PICK x \in Jobs : /\ Goto(w, x) /\ x.pc = "clean"
                          /\ x.force = job[w].force /\ x.queue = job[w].queue
    BY <1>15, RevokeMoves
  <2>2. x.pc \in AtRowPcs /\ x.pc \in Late
    BY <2>1 DEF AtRowPcs, Late
  <2>3. rows'[r.id] = [r EXCEPT !.status = "awaiting_revoke"]
    BY <1>1, <1>3, <1>4, <1>5
  <2>4. QueueInv(w)' /\ job'[w] = x
    BY <1>1, <1>2, <2>1, <2>2, <2>3, QueueKept
  <2>5. StageInv(w)'
    BY <2>1, <2>4 DEF StageInv
  <2> QED
    BY <2>1, <2>2, <2>4, <2>5, SweepInOrder
<1>16. ASSUME RevokeFails(w) PROVE JobInv'
  <2>1. Goto(w, NextRow(w))
    BY <1>16 DEF RevokeFails, NoteFailure
  <2> QED
    BY <1>1, <2>1, NextRowInOrder
<1> QED
  BY <1>14, <1>15, <1>16 DEF IInv

(* The cleanup takes the overlap entry away and leaves the new key.          *)
LEMMA CleansSafely ==
    ASSUME OneWorker, TypeInv, TypeInv', IInv, NEW w \in Workers, CleanWrite(w)
    PROVE  IInv'
<1>1. /\ UNCHANGED <<minted, live, dev, report, rows, forced>>
      /\ job[w].pc = "cleanWrite" /\ job[w].pc \in AtRowPcs /\ job[w].pc \in Late
  BY DEF CleanWrite, history, AtRowPcs, Late
<1>2. PICK r \in Rows : r = Current(w)
  BY <1>1, RowInTable
<1>3. PICK a \in Agents, k \in Nat : a = r.agent /\ k = r.id
  BY <1>1, <1>2, RowInTable, RowFields
<1>4. PICK s \in Rows : s = rows[k]
  BY <1>1, <1>2, <1>3, RowInTable, RowAt DEF OpenIds
<1>5. /\ k \in OpenIds /\ k \in DOMAIN rows /\ RowInv(k) /\ HasOpenRow(a)
      /\ s = [r EXCEPT !.status = "awaiting_revoke"]
  BY <1>1, <1>2, <1>3, <1>4, RowInTable DEF OpenIds
<1>6. s.agent = a /\ s.status = "awaiting_revoke" /\ s.old = r.old /\ s.new = r.new
  BY <1>3, <1>5 DEF Rows
<1>7. PICK x \in Jobs :
                /\ Goto(w, x) /\ x.pc = "clean" /\ job[w] \in WriteJobs
                /\ x.force = job[w].force /\ x.queue = job[w].queue
                /\ RotateBundle(job[w].peer, [job[w].seen EXCEPT !.ov[a] = NoKey])
  BY <1>2, <1>3, CleanWriteMoves
<1>8. PICK p \in Agents : p = job[w].peer
  BY <1>7 DEF WriteJobs
<1>9. job[w].seen = bundle[p]
  BY <1>1, <1>8 DEF IInv, JobInv, StageInv
<1>10. /\ bundle'[p].v = bundle[p].v + 1 /\ bundle'[p].id = bundle[p].id
       /\ bundle'[p].tok = bundle[p].tok /\ bundle'[p].ov = [bundle[p].ov EXCEPT ![a] = NoKey]
       /\ \A c \in Agents \ {p} : bundle'[c] = bundle[c]
  <2>1. bundle[p] \in Bundles
    BY Numbers
  <2>2. PICK y \in Bundles : /\ y = [bundle[p] EXCEPT !.ov[a] = NoKey] /\ y.id = bundle[p].id
                             /\ y.tok = bundle[p].tok
                             /\ y.ov = [bundle[p].ov EXCEPT ![a] = NoKey]
    BY <2>1, CleanRendering
  <2>3. RotateBundle(p, y)
    BY <1>7, <1>8, <1>9, <2>2
  <2> QED
    BY <2>2, <2>3, BundleWritten
<1>11. \A c \in Agents : /\ bundle'[c].tok = bundle[c].tok /\ bundle'[c].id = bundle[c].id
                         /\ bundle'[c].v >= bundle[c].v
  <2>1. \A c \in Agents : bundle[c].v \in Nat
    BY Numbers
  <2> QED
    BY <1>10, <2>1
<1>12. /\ \A c \in Agents, d \in Peers(a) : bundle'[c].ov[d] = bundle[c].ov[d]
       /\ bundle'[a].ov[a] \in {bundle[a].ov[a], NoKey}
  <2>1. bundle[p].ov \in [Agents -> KeyOrNone]
    BY Numbers DEF Bundles
  <2> QED
    BY <1>10, <2>1 DEF Peers
<1>13. ASSUME NEW c \in Peers(a) PROVE Untouched(c)
  <2>1. c \in Agents /\ minted[c] \in Nat
    BY Numbers DEF Peers
  <2> QED
    BY <1>1, <1>11, <1>12, <2>1 DEF Untouched
<1>14. AwaitingRevoke(s) /\ s.old # s.new /\ s.new \in live[a]
  BY <1>4, <1>5, <1>6 DEF RowInv
<1>15. AwaitingRevoke(s)' /\ Delivering(s)' /\ AwaitingTarget(s)'
  <2>1. AwaitingRevoke(s)'
    BY <1>1, <1>6, <1>11, <1>14 DEF AwaitingRevoke, Peers
  <2>2. Delivering(s)' /\ AwaitingTarget(s)'
    BY <1>6 DEF Delivering, AwaitingTarget
  <2> QED
    BY <2>1, <2>2
<1>16. RowInv(k)'
  BY <1>1, <1>4, <1>5, <1>15 DEF RowInv
<1>17. AgentInv(a)'
  <2>1. HasOpenRow(a)'
    BY <1>1, <1>5 DEF HasOpenRow
  <2>2. AgentInv(a) /\ dev[a].v \in Nat /\ bundle[a].v \in Nat /\ bundle'[a].v \in Nat
    BY <1>10, Numbers DEF IInv
  <2>3. dev[a].v <= bundle'[a].v
    BY <1>11, <2>2 DEF AgentInv
  <2> QED
    BY <1>1, <1>11, <1>12, <2>1, <2>2, <2>3 DEF AgentInv, RestInv, Peers
<1>18. RowsInv' /\ \A c \in Agents : AgentInv(c)'
  BY <1>1, <1>4, <1>5, <1>6, <1>13, <1>16, <1>17, RowStep
<1>19. x.pc \in AtRowPcs /\ x.pc \in Late
  BY <1>7 DEF AtRowPcs, Late
<1>20. rows'[r.id] = [r EXCEPT !.status = "awaiting_revoke"]
  BY <1>1, <1>3, <1>4, <1>5
<1>21. QueueInv(w)' /\ job'[w] = x
  BY <1>1, <1>2, <1>7, <1>19, <1>20, QueueKept
<1>22. StageInv(w)'
  BY <1>7, <1>21 DEF StageInv
<1> QED
  BY <1>7, <1>18, <1>19, <1>21, <1>22, SweepInOrder DEF IInv

(* The rotation is completed: the agent rests with its new key.              *)
LEMMA CompletesSafely ==
    ASSUME OneWorker, TypeInv, TypeInv', IInv, NEW w \in Workers, Complete(w)
    PROVE  IInv'
<1>1. /\ UNCHANGED <<minted, live, bundle, dev, report, forced>> /\ Goto(w, NextRow(w))
      /\ job[w].pc = "clean" /\ job[w].pc \in AtRowPcs /\ job[w].pc \in Late
  BY DEF Complete, history, AtRowPcs, Late
<1>2. PICK r \in Rows : r = Current(w)
  BY <1>1, RowInTable
<1>3. PICK a \in Agents, k \in Nat : a = r.agent /\ k = r.id
  BY <1>1, <1>2, RowInTable, RowFields
<1>4. PICK s \in Rows : s = rows[k]
  BY <1>1, <1>2, <1>3, RowInTable, RowAt DEF OpenIds
<1>5. /\ k \in OpenIds /\ k \in DOMAIN rows /\ RowInv(k)
      /\ s = [r EXCEPT !.status = "awaiting_revoke"]
  BY <1>1, <1>2, <1>3, <1>4, RowInTable DEF OpenIds
<1>6. s.agent = a /\ s.status = "awaiting_revoke"
  BY <1>3, <1>5 DEF Rows
<1>7. PICK t \in Rows : /\ rows' = [rows EXCEPT ![k] = t] /\ t.id = k
                        /\ t = [s EXCEPT !.status = "completed", !.old = NoKey, !.new = NoKey]
  <2>1. PICK t \in Rows :
                  /\ rows' = [rows EXCEPT ![Current(w).id] = t]
                  /\ t = [rows[Current(w).id] EXCEPT !.status = "completed", !.old = NoKey,
                                                     !.new = NoKey]
                  /\ t.id = Current(w).id
    BY SweepWrites
  <2>2. Current(w).id = k /\ rows[Current(w).id] = s
    BY <1>2, <1>3, <1>4
  <2> QED
    BY <2>1, <2>2
<1>8. t.agent = a /\ t.status \notin Open
  BY <1>6, <1>7 DEF Rows, Open
<1>9. /\ DOMAIN rows' = DOMAIN rows /\ rows'[k] = t
      /\ \A i \in DOMAIN rows : i # k => rows'[i] = rows[i]
  BY <1>5, <1>7, RowWritten
<1>10. AwaitingRevoke(s) /\ s.new \in live[a]
  BY <1>4, <1>5, <1>6 DEF RowInv
<1>11. AgentInv(a)'
  <2>1. /\ bundle[a].id \in live[a] /\ bundle[a].id = s.new
        /\ \A b \in Peers(a) : bundle[b].tok[a] = s.new
        /\ a \notin forced => /\ dev[a].id = s.new
                              /\ \A b \in Peers(a) : dev[b].tok[a] = s.new
    BY <1>6, <1>10 DEF AwaitingRevoke
  <2>2. RestInv(a)'
    BY <1>1, <2>1 DEF RestInv, Accepted
  <2> QED
    BY <1>1, <2>2 DEF IInv, AgentInv
<1>12. \A c \in Peers(a) : Untouched(c)
  BY <1>1, AllUntouched DEF Peers
<1>13. RowsInv' /\ \A c \in Agents : AgentInv(c)'
  BY <1>1, <1>4, <1>5, <1>6, <1>8, <1>9, <1>11, <1>12, RowStep
<1>14. JobInv'
  BY <1>1, <1>2, <1>3, <1>9, NextRowInOrder
<1> QED
  BY <1>13, <1>14 DEF IInv

-----------------------------------------------------------------------------
(* The devices, and the theorems.                                            *)

(* A device fetches what its bundle holds, at any time.                      *)
LEMMA FetchesSafely ==
    ASSUME OneWorker, TypeInv, TypeInv', IInv, NEW p \in Agents, Fetch(p)
    PROVE  IInv'
<1>1. UNCHANGED <<minted, live, bundle, report, rows, job, forced>>
  BY DEF Fetch, history
<1>2. /\ dev'[p] = bundle[p] /\ \A c \in Agents \ {p} : dev'[c] = dev[c]
  BY DEF Fetch, TypeInv, TypeOK
<1>3. OpenIds' = OpenIds /\ \A a \in Agents : HasOpenRow(a)' = HasOpenRow(a)
  BY <1>1 DEF OpenIds, HasOpenRow
<1>4. ASSUME NEW i \in OpenIds PROVE RowInv(i)'
  <2>1. PICK r \in Rows : r = rows[i]
    BY RowAt DEF OpenIds
  <2>2. PICK a \in Agents : a = r.agent
    BY RowFields
  <2>3. /\ r.old # NoKey /\ r.old <= minted[a]
        /\ r.new # NoKey /\ r.new <= minted[a] /\ r.old # r.new /\ r.new \in live[a]
        /\ r.ledger[a] = 0 /\ \A b \in Peers(a) : r.ledger[b] # 0
        /\ Delivering(r) /\ AwaitingTarget(r) /\ AwaitingRevoke(r)
    BY <2>1, <2>2 DEF IInv, RowsInv, RowInv
  <2>4. Delivering(r)'
    BY <1>1, <1>2, <2>2, <2>3 DEF Delivering, Overlaps, Accepted, Peers
  <2>5. AwaitingTarget(r)'
    BY <1>1, <1>2, <2>2, <2>3 DEF AwaitingTarget, Overlaps, Peers
  <2>6. AwaitingRevoke(r)'
    BY <1>1, <1>2, <2>2, <2>3 DEF AwaitingRevoke, Peers
  <2> QED
    BY <1>1, <2>1, <2>2, <2>3, <2>4, <2>5, <2>6 DEF RowInv
<1>5. RowsInv'
  BY <1>1, <1>3, <1>4 DEF IInv, RowsInv
<1>6. ASSUME NEW a \in Agents PROVE AgentInv(a)'
  <2>1. /\ AgentInv(a) /\ bundle[a].v \in Nat /\ dev[a].v \in Nat /\ report[a] \in Nat
    BY Numbers DEF IInv
  <2>2. report[a] <= dev'[a].v /\ dev'[a].v <= bundle[a].v
    <3>1. dev'[a] \in {dev[a], bundle[a]}
      BY <1>2
    <3>2. report[a] <= dev[a].v /\ dev[a].v <= bundle[a].v
      BY <2>1 DEF AgentInv
    <3> QED
      BY <2>1, <3>1, <3>2
  <2>3. RestInv(a)'
    <3>1. RestInv(a)
      BY <2>1 DEF AgentInv
    <3> QED
      BY <1>1, <1>2, <1>3, <3>1 DEF RestInv, Accepted, Peers
  <2> QED
    BY <1>1, <2>1, <2>2, <2>3 DEF AgentInv
<1>7. ASSUME NEW w \in Workers
      PROVE  QueueInv(w)' /\ ForceInv(w)' /\ StageInv(w)' /\ StartInv(w)'
  <2>1. QueueInv(w) /\ ForceInv(w) /\ StageInv(w) /\ StartInv(w)
    BY DEF IInv, JobInv
  <2>2. Current(w)' = Current(w)
    BY <1>1 DEF Current
  <2>3. QueueInv(w)' /\ ForceInv(w)'
    BY <1>1, <2>1, <2>2 DEF QueueInv, ForceInv, AsTable
  <2>4. StageInv(w)'
    <3>1. job[w].pc \in AtRowPcs => Current(w).agent \in Agents
      BY RowInTable
    <3>2. \A r \in Rows : PeersConfirmed(r)' = PeersConfirmed(r)
                          /\ TargetConfirmed(r)' = TargetConfirmed(r)
      BY <1>1 DEF PeersConfirmed, TargetConfirmed
    <3>3. job[w].pc \in AtRowPcs => Current(w) \in Rows
      BY RowInTable
    <3>4. job[w].pc \in {"flip", "flipWrite", "flipMark", "confirm", "cleanWrite"}
            => job[w].pc \in AtRowPcs
      BY DEF AtRowPcs, Late
    <3>5. job[w].pc = "flipMark" => dev'[Current(w).agent] \in {dev[Current(w).agent],
                                                                bundle[Current(w).agent]}
      BY <1>2, <3>1, <3>4
    <3> QED
      BY <1>1, <2>1, <2>2, <3>2, <3>3, <3>4, <3>5 DEF StageInv
  <2>5. StartInv(w)'
    <3>1. CASE job[w].pc \in Starting
      <4>1. job[w] \in Jobs
        BY DEF TypeInv
      <4>2. PICK a \in Agents : a = job[w].agent
        BY <3>1, <4>1, JobShape DEF Starting, StartJobs, ScanJobs, DeliverJobs
      <4>3. HasOpenRow(a)' = HasOpenRow(a)
        BY <1>3
      <4>4. ASSUME NEW b \in Agents \ (job[w].todo \union {a}), job[w].pc = "deliver"
            PROVE  dev'[b].v >= job[w].ledger[b]
                       => Overlaps(dev'[b], a, job[w].old, job[w].new)
        BY <1>2, <2>1, <3>1, <4>2, <4>4 DEF StartInv
      <4> QED
        BY <1>1, <2>1, <3>1, <4>2, <4>3, <4>4 DEF StartInv
    <3> QED
      BY <1>1, <3>1 DEF StartInv
  <2> QED
    BY <2>3, <2>4, <2>5
<1> QED
  BY <1>5, <1>6, <1>7 DEF IInv, JobInv

(* Every step keeps the inductive invariant.                                 *)
LEMMA NextSafe == OneWorker /\ TypeInv /\ TypeInv' /\ IInv /\ [Next]_vars => IInv'
<1> SUFFICES ASSUME OneWorker, TypeInv, TypeInv', IInv, [Next]_vars PROVE IInv'
  OBVIOUS
<1>1. CASE UNCHANGED vars
  <2>1. UNCHANGED <<minted, live, bundle, dev, report, rows, job, forced>>
    BY <1>1 DEF vars, history
  <2>2. RowsInv' /\ \A a \in Agents : AgentInv(a)'
    BY <2>1, TablesKept, AllUntouched
  <2>3. ASSUME NEW w \in Workers
        PROVE  QueueInv(w)' /\ ForceInv(w)' /\ StageInv(w)' /\ StartInv(w)'
    <3>1. QueueInv(w) /\ ForceInv(w) /\ StageInv(w) /\ StartInv(w)
      BY DEF IInv, JobInv
    <3>2. Current(w)' = Current(w)
      BY <2>1 DEF Current
    <3>3. QueueInv(w)' /\ ForceInv(w)'
      BY <2>1, <3>1, <3>2 DEF QueueInv, ForceInv, AsTable
    <3>4. StageInv(w)'
      BY <2>1, <3>1, <3>2 DEF StageInv, PeersConfirmed, TargetConfirmed
    <3>5. StartInv(w)'
      BY <2>1, <3>1 DEF StartInv, HasOpenRow
    <3> QED
      BY <3>3, <3>4, <3>5
  <2> QED
    BY <2>2, <2>3 DEF IInv, JobInv
<1>2. ASSUME NEW w \in Workers, Step(w) PROVE IInv'
  BY <1>2, StartsSafely, MintsSafely, ScansSafely, DeliversSafely, InsertsSafely, SweepsSafely,
     ChoosesSafely, LoadsSafely, FlipsSafely, MarksSafely, ConfirmsSafely, RevokesSafely,
     CleansSafely, CompletesSafely DEF Step
<1>3. ASSUME NEW w \in Workers, Crash(w) PROVE IInv'
  BY <1>3, StartsSafely
<1>4. ASSUME NEW w \in Workers, NEW a \in Agents, StartLoad(w, a) \/ Report(w, a) PROVE IInv'
  BY <1>4, StartsSafely, ReportsSafely
<1>5. ASSUME NEW w \in Workers, NEW id \in DOMAIN rows, NEW force \in BOOLEAN,
             Reconcile(w, id, force)
      PROVE  IInv'
  BY <1>5, ReconcilesSafely
<1>6. ASSUME NEW a \in Agents, Fetch(a) PROVE IInv'
  BY <1>6, FetchesSafely
<1> QED
  BY <1>1, <1>2, <1>3, <1>4, <1>5, <1>6 DEF Next

(* Enrolment leaves every agent at rest with its first key.                  *)
LEMMA InitSafe == Init => IInv
<1> SUFFICES ASSUME Init PROVE IInv
  OBVIOUS
<1>1. /\ DOMAIN rows = {} /\ \A w \in Workers : job[w].pc = "idle"
  BY DEF Init, Idle
<1>2. JobInv
  BY <1>1 DEF JobInv, QueueInv, ForceInv, StageInv, StartInv, Starting, AtRowPcs, Late
<1>3. RowsInv
  BY <1>1 DEF RowsInv, OpenIds
<1>4. ASSUME NEW a \in Agents PROVE AgentInv(a)
  <2>1. /\ minted[a] = 1 /\ live[a] = {1} /\ report[a] = 0 /\ dev = bundle
        /\ bundle[a].v = 1 /\ bundle[a].id = 1 /\ bundle[a].ov[a] = NoKey
    BY DEF Init
  <2>2. \A b \in Peers(a) : bundle[b].tok[a] = 1
    BY DEF Init, Peers
  <2>3. RestInv(a)
    BY <2>1, <2>2 DEF RestInv, Accepted
  <2> QED
    BY <2>1, <2>2, <2>3 DEF AgentInv, NoKey
<1> QED
  BY <1>2, <1>3, <1>4 DEF IInv

(* The stages of an open row, or the rest after the last one, say what the   *)
(* devices hold.                                                             *)
LEMMA Delivered ==
    ASSUME TypeInv, IInv, NEW a \in Agents \ forced
    PROVE  /\ dev[a].id \in live[a]
           /\ \A b \in Peers(a) : dev[a].id \in Accepted(dev[b], a)
<1>1. CASE HasOpenRow(a)
  <2>1. PICK i \in OpenIds : rows[i].agent = a
    BY <1>1 DEF HasOpenRow, OpenIds
  <2>2. PICK r \in Rows : r = rows[i] /\ r.agent = a /\ r.status \in Open
    BY <2>1, RowAt DEF OpenIds
  <2>3. r.new \in live[a] /\ Delivering(r) /\ AwaitingTarget(r) /\ AwaitingRevoke(r)
    BY <2>1, <2>2 DEF IInv, RowsInv, RowInv
  <2>4. CASE r.status = "delivering"
    BY <2>2, <2>3, <2>4 DEF Delivering, Overlaps, Accepted
  <2>5. CASE r.status = "awaiting_target"
    BY <2>2, <2>3, <2>5 DEF AwaitingTarget, Overlaps, Accepted
  <2>6. CASE r.status = "awaiting_revoke"
    BY <2>2, <2>3, <2>6 DEF AwaitingRevoke, Accepted
  <2> QED
    BY <2>2, <2>4, <2>5, <2>6 DEF Open, Statuses
<1>2. CASE ~HasOpenRow(a)
  BY <1>2 DEF IInv, AgentInv, RestInv
<1> QED
  BY <1>1, <1>2

(* Deliver-then-revoke: while the registrar serves one start or sweep at a   *)
(* time, no device holds an identity key the gateway has deleted, whatever   *)
(* dies, fails or reports late, but for agents the owner force-revoked.      *)
THEOREM NeverLocksOut == ASSUME OneWorker PROVE Spec => []AppliedKeyLive
<1>1. TypeInv /\ IInv => AppliedKeyLive
  BY Delivered DEF AppliedKeyLive
<1> QED
  BY <1>1, InitTyped, NextTyped, InitSafe, NextSafe, PTL DEF Spec

(* Under the same condition every peer accepts the key a target's volume     *)
(* holds, canonical or as overlap, whatever mixture of bundles is applied.   *)
THEOREM PeersAlwaysAccept == ASSUME OneWorker PROVE Spec => []PeersAccept
<1>1. TypeInv /\ IInv => PeersAccept
  BY Delivered DEF PeersAccept, Peers
<1> QED
  BY <1>1, InitTyped, NextTyped, InitSafe, NextSafe, PTL DEF Spec

-----------------------------------------------------------------------------
(* The keys are told of, and a completed rotation leaves nothing behind.     *)

(* The rows of an agent can be counted.                                      *)
LEMMA RowsCounted ==
    ASSUME TypeInv, NEW a
    PROVE  IsFiniteSet(RowsOf(a)) /\ Cardinality(RowsOf(a)) \in Nat
<1>1. DOMAIN rows = 1..Len(rows) /\ Len(rows) \in Nat
  BY DEF TypeInv
<1>2. IsFiniteSet(1..Len(rows))
  BY <1>1, FS_Interval
<1>3. RowsOf(a) \subseteq 1..Len(rows)
  BY <1>1 DEF RowsOf
<1> QED
  BY <1>2, <1>3, FS_Subset, FS_CardinalityType

(* An agent that neither a start nor a cleanup is about stays tidy: keys     *)
(* may go, and the bundle may change while a row is open.                    *)
LEMMA TidyAside ==
    ASSUME TypeInv, NEW c \in Agents, TidyInv(c), minted'[c] = minted[c], live'[c] \subseteq live[c],
           bundle'[c].id = bundle[c].id \/ HasOpenRow(c)',
           \A b \in Agents : bundle'[b].ov[c] = bundle[b].ov[c],
           RowsOf(c)' = RowsOf(c), HasOpenRow(c)' = HasOpenRow(c),
           \A i \in OpenIds' : rows'[i].agent = c =>
                /\ i \in OpenIds /\ rows[i].agent = c
                /\ rows'[i].old = rows[i].old /\ rows'[i].new = rows[i].new,
           ~UnderWay(c)', \A w \in Workers : ~CleanupOf(w, c)'
    PROVE  TidyInv(c)'
<1>1. Cardinality(RowsOf(c)) \in Nat /\ minted[c] \in Nat
  BY RowsCounted, Numbers
<1>2. Told(c)' = Cardinality(RowsOf(c)) + 1
  BY <1>1 DEF Told
<1>3. CASE UnderWay(c)
  <2>1. Told(c) = Cardinality(RowsOf(c)) + 2
    BY <1>1, <1>3 DEF Told
  <2> QED
    BY <1>1, <1>2, <2>1 DEF TidyInv
<1>4. CASE ~UnderWay(c)
  <2>1. Told(c)' = Told(c)
    BY <1>1, <1>2, <1>4 DEF Told
  <2>2. ASSUME Tidy(c) PROVE Tidy(c)'
    <3>1. \A w \in Workers : ~StartOf(w, c) /\ ~StartOf(w, c)'
      BY <1>4 DEF UnderWay
    <3>2. ~HasOpenRow(c)' => /\ \A key \in live'[c] : key = bundle'[c].id
                             /\ NoOverlap(c)'
      BY <1>4, <2>2, <3>1 DEF Tidy, NoOverlap
    <3>3. \A i \in OpenIds' : rows'[i].agent = c => live'[c] \subseteq {rows'[i].old, rows'[i].new}
      BY <2>2 DEF Tidy
    <3> QED
      BY <3>1, <3>2, <3>3 DEF Tidy
  <2> QED
    BY <2>1, <2>2 DEF TidyInv
<1> QED
  BY <1>3, <1>4

(* The same where no row is written.                                         *)
LEMMA TidyRowsKept ==
    ASSUME TypeInv, NEW c \in Agents, TidyInv(c), minted'[c] = minted[c], live'[c] \subseteq live[c],
           bundle'[c].id = bundle[c].id \/ HasOpenRow(c),
           \A b \in Agents : bundle'[b].ov[c] = bundle[b].ov[c], rows' = rows,
           ~UnderWay(c)', \A w \in Workers : ~CleanupOf(w, c)'
    PROVE  TidyInv(c)'
<1>1. RowsOf(c)' = RowsOf(c) /\ HasOpenRow(c)' = HasOpenRow(c) /\ OpenIds' = OpenIds
  BY DEF RowsOf, HasOpenRow, OpenIds
<1>2. \A i \in OpenIds' : rows'[i].agent = c =>
                /\ i \in OpenIds /\ rows[i].agent = c
                /\ rows'[i].old = rows[i].old /\ rows'[i].new = rows[i].new
  BY <1>1
<1>3. bundle'[c].id = bundle[c].id \/ HasOpenRow(c)'
  BY <1>1
<1> QED
  BY <1>1, <1>2, <1>3, TidyAside

(* A request that is neither delivering a new key nor cleaning up.           *)
LEMMA Quiet ==
    ASSUME OneWorker, TypeInv, NEW w \in Workers, NEW x \in Jobs, Goto(w, x),
           x.pc \notin {"scan", "deliver", "clean", "cleanWrite"}, NEW c \in Agents
    PROVE  ~UnderWay(c)' /\ \A v \in Workers : ~CleanupOf(v, c)'
<1>1. job'[w] = x /\ \A v \in Workers : v = w
  BY OnlyRequest
<1> QED
  BY <1>1 DEF UnderWay, StartOf, CleanupOf

(* Steps that write nothing but the request.                                 *)
LEMMA QuietlyTidy ==
    ASSUME OneWorker, TypeInv, NEW w \in Workers, NEW x \in Jobs, Goto(w, x),
           x.pc \notin {"scan", "deliver", "clean", "cleanWrite"},
           UNCHANGED <<minted, live, bundle, rows>>, \A c \in Agents : TidyInv(c)
    PROVE  \A c \in Agents : TidyInv(c)'
<1> SUFFICES ASSUME NEW c \in Agents PROVE TidyInv(c)'
  OBVIOUS
<1>1. ~UnderWay(c)' /\ \A v \in Workers : ~CleanupOf(v, c)'
  BY Quiet
<1> QED
  BY <1>1, TidyRowsKept

(* Reads, gates, reports, refusals and crashes leave the agents tidy.        *)
LEMMA ReadsTidily ==
    ASSUME OneWorker, TypeInv, \A c \in Agents : TidyInv(c), NEW w \in Workers,
           \/ \E a \in Agents : StartLoad(w, a)
           \/ StartCheck(w) \/ StartMintFails(w) \/ Crash(w)
           \/ \E a \in Agents : Report(w, a)
           \/ \E id \in DOMAIN rows, force \in BOOLEAN : Reconcile(w, id, force)
           \/ SweepRead(w) \/ SweepRow(w) \/ FlipLoad(w)
    PROVE  \A c \in Agents : TidyInv(c)'
<1>0. UNCHANGED <<minted, live, bundle, rows>>
  BY DEF StartLoad, StartCheck, StartMintFails, Crash, Report, Reconcile, SweepRead, SweepRow,
     FlipLoad
<1>i. Idle \in Jobs /\ Idle.pc = "idle"
  BY DEF Jobs, Idle
<1> DEFINE Q == \E x \in Jobs : Goto(w, x) /\ x.pc \notin {"scan", "deliver", "clean", "cleanWrite"}
<1>1. ASSUME NEW a \in Agents, StartLoad(w, a) PROVE Q
  <2>1. PICK x \in Jobs : Goto(w, x) /\ x.pc = "check"
    BY <1>1, StartMoves
  <2> QED
    BY <2>1
<1>2. ASSUME StartCheck(w) PROVE Q
  <2>1. PICK x \in Jobs : Goto(w, x) /\ (x = Idle \/ x.pc = "mint")
    BY <1>2, StartMoves
  <2> QED
    BY <1>i, <2>1
<1>3. ASSUME StartMintFails(w) \/ Crash(w) PROVE Q
  <2>1. Goto(w, Idle)
    BY <1>3, StartMoves
  <2> QED
    BY <1>i, <2>1
<1>4. ASSUME NEW a \in Agents, Report(w, a) PROVE Q
  <2>1. PICK x \in Jobs : Goto(w, x) /\ x.pc = "sweep"
    BY <1>4, ReportMoves
  <2> QED
    BY <2>1
<1>5. ASSUME NEW id \in DOMAIN rows, NEW force \in BOOLEAN, Reconcile(w, id, force) PROVE Q
  <2>1. PICK x \in Jobs : Goto(w, x) /\ x.pc = "sweep"
    BY <1>5, ReconcileMoves
  <2> QED
    BY <2>1
<1>6. ASSUME SweepRead(w) PROVE Q
  <2>1. PICK x \in Jobs : Goto(w, x) /\ (x = Idle \/ x.pc = "row")
    BY <1>6, SweepReadMoves
  <2> QED
    BY <1>i, <2>1
<1>7. ASSUME SweepRow(w) PROVE Q
  <2>1. PICK x \in Jobs :
          /\ Goto(w, x) /\ job[w].pc \in AtRowPcs
          /\ \/ x = NextRow(w) \/ x = AtRow(w, "flip")
             \/ x = AtRow(w, "confirm") \/ x = AtRow(w, "revoke")
    BY <1>7, SweepRowMoves
  <2>2. x.pc \in {"idle", "row", "flip", "confirm", "revoke"}
    BY <1>i, <2>1, NextRowTyped, AtRowTyped
  <2> QED
    BY <2>1, <2>2
<1>8. ASSUME FlipLoad(w) PROVE Q
  <2>1. PICK x \in Jobs : Goto(w, x) /\ x.pc = "flipWrite"
    BY <1>8, FlipLoadMoves
  <2> QED
    BY <2>1
<1>9. PICK x \in Jobs : Goto(w, x) /\ x.pc \notin {"scan", "deliver", "clean", "cleanWrite"}
  BY <1>1, <1>2, <1>3, <1>4, <1>5, <1>6, <1>7, <1>8
<1> QED
  BY <1>0, <1>9, QuietlyTidy

(* The writes of a sweep that keep the row open.                             *)
LEMMA WritesTidily ==
    ASSUME OneWorker, TypeInv, IInv, \A c \in Agents : TidyInv(c), NEW w \in Workers,
           FlipWrite(w) \/ FlipMark(w) \/ Confirm(w) \/ RevokeFails(w)
    PROVE  \A c \in Agents : TidyInv(c)'
<1> SUFFICES ASSUME NEW c \in Agents PROVE TidyInv(c)'
  OBVIOUS
<1>0. job[w].pc \in AtRowPcs /\ minted' = minted
  BY DEF FlipWrite, FlipMark, Confirm, RevokeFails, AtRowPcs, Late
<1>i. Idle \in Jobs /\ Idle.pc = "idle" /\ NextRow(w) \in Jobs /\ NextRow(w).pc \in {"idle", "row"}
  BY <1>0, NextRowTyped DEF Jobs, Idle
<1>r. PICK r \in Rows : /\ r = Current(w) /\ r.id \in OpenIds /\ r.agent \in Agents
                        /\ rows[r.id].agent = r.agent /\ HasOpenRow(r.agent)
  BY <1>0, RowInTable
<1>1. CASE FlipWrite(w)
  <2>1. PICK x \in Jobs :
                /\ Goto(w, x) /\ x.pc = "flipMark"
                /\ RotateBundle(r.agent, Flipped(job[w].seen, r))
                /\ Flipped(job[w].seen, r) \in Bundles /\ job[w] \in FlipJobs
    BY <1>1, <1>r, FlipWriteMoves
  <2>2. job[w].seen = bundle[r.agent] /\ job[w].seen \in Bundles
    BY <1>1, <1>r, <2>1 DEF FlipWrite, IInv, JobInv, StageInv, FlipJobs
  <2>3. /\ \A b \in Agents : bundle'[b].ov = bundle[b].ov
        /\ c # r.agent => bundle'[c] = bundle[c]
    <3>1. Flipped(job[w].seen, r).ov = bundle[r.agent].ov
      BY <2>2, FlipRendering
    <3> QED
      BY <1>r, <2>1, <3>1, BundleWritten
  <2>4. live' = live /\ rows' = rows
    BY <1>1 DEF FlipWrite
  <2>5. ~UnderWay(c)' /\ \A v \in Workers : ~CleanupOf(v, c)'
    BY <2>1, Quiet
  <2>6. bundle'[c].id = bundle[c].id \/ HasOpenRow(c)
    BY <1>r, <2>3
  <2> QED
    BY <1>0, <2>3, <2>4, <2>5, <2>6, TidyRowsKept
<1>2. CASE RevokeFails(w)
  <2>1. Goto(w, NextRow(w)) /\ rows' = rows /\ bundle' = bundle
    BY <1>2 DEF RevokeFails, NoteFailure
  <2>2. live'[c] \subseteq live[c]
    BY <1>2 DEF RevokeFails, TypeInv, TypeOK
  <2>3. ~UnderWay(c)' /\ \A v \in Workers : ~CleanupOf(v, c)'
    BY <1>i, <2>1, Quiet
  <2> QED
    BY <1>0, <2>1, <2>2, <2>3, TidyRowsKept
<1>3. CASE FlipMark(w) \/ Confirm(w)
  <2>1. PICK x \in Jobs : Goto(w, x) /\ x.pc \in {"idle", "row", "revoke"}
    <3>1. CASE FlipMark(w)
      BY <1>i, <3>1 DEF FlipMark
    <3>2. CASE Confirm(w)
      BY <1>0, <3>2, AtRowTyped DEF Confirm
    <3> QED
      BY <1>3, <3>1, <3>2
  <2>2. PICK s \in Rows : /\ rows' = [rows EXCEPT ![r.id] = s] /\ s.id = r.id
                          /\ s.agent = r.agent /\ s.status \in Open
                          /\ s.old = rows[r.id].old /\ s.new = rows[r.id].new
    <3>1. rows[r.id] \in Rows
      BY <1>r, RowAt DEF OpenIds
    <3>2. CASE FlipMark(w)
      <4>1. PICK s \in Rows :
                  /\ rows' = [rows EXCEPT ![Current(w).id] = s]
                  /\ s = [rows[Current(w).id] EXCEPT !.status = "awaiting_target",
                                                     !.nbv = job[w].version]
                  /\ s.id = Current(w).id
        BY <3>2, SweepWrites
      <4>2. s = [rows[r.id] EXCEPT !.status = "awaiting_target", !.nbv = job[w].version]
        BY <1>r, <4>1
      <4>3. /\ s.agent = rows[r.id].agent /\ s.status = "awaiting_target"
            /\ s.old = rows[r.id].old /\ s.new = rows[r.id].new
        BY <3>1, <4>2 DEF Rows
      <4> QED
        BY <1>r, <4>1, <4>3 DEF Open, Statuses
    <3>3. CASE Confirm(w)
      <4>1. PICK s \in Rows :
                  /\ rows' = [rows EXCEPT ![Current(w).id] = s]
                  /\ s = [rows[Current(w).id] EXCEPT !.status = "awaiting_revoke"]
                  /\ s.id = Current(w).id
        BY <3>3, SweepWrites
      <4>2. s = [rows[r.id] EXCEPT !.status = "awaiting_revoke"]
        BY <1>r, <4>1
      <4>3. /\ s.agent = rows[r.id].agent /\ s.status = "awaiting_revoke"
            /\ s.old = rows[r.id].old /\ s.new = rows[r.id].new
        BY <3>1, <4>2 DEF Rows
      <4> QED
        BY <1>r, <4>1, <4>3 DEF Open, Statuses
    <3> QED
      BY <1>3, <3>2, <3>3
  <2>3. /\ DOMAIN rows' = DOMAIN rows /\ rows'[r.id] = s /\ r.id \in DOMAIN rows
        /\ \A i \in DOMAIN rows : i # r.id => rows'[i] = rows[i]
    BY <1>r, <2>2, RowWritten DEF OpenIds
  <2>4. \A i \in DOMAIN rows : /\ rows'[i].agent = rows[i].agent
                               /\ rows'[i].status \in Open <=> rows[i].status \in Open
                               /\ rows'[i].old = rows[i].old /\ rows'[i].new = rows[i].new
    BY <1>r, <2>2, <2>3 DEF OpenIds
  <2>5. RowsOf(c)' = RowsOf(c) /\ OpenIds' = OpenIds
    BY <2>3, <2>4 DEF RowsOf, OpenIds
  <2>6. HasOpenRow(c)' = HasOpenRow(c)
    BY <2>3, <2>4 DEF HasOpenRow
  <2>7. ~UnderWay(c)' /\ \A v \in Workers : ~CleanupOf(v, c)'
    BY <2>1, Quiet
  <2>8. live' = live /\ bundle' = bundle
    BY <1>3 DEF FlipMark, Confirm
  <2>9. \A i \in OpenIds' : rows'[i].agent = c =>
                /\ i \in OpenIds /\ rows[i].agent = c
                /\ rows'[i].old = rows[i].old /\ rows'[i].new = rows[i].new
    BY <2>4, <2>5 DEF OpenIds
  <2> QED
    BY <1>0, <2>5, <2>6, <2>7, <2>8, <2>9, TidyAside
<1> QED
  BY <1>1, <1>2, <1>3

(* The mint: the key and the start it belongs to.                            *)
LEMMA MintsTidily ==
    ASSUME OneWorker, TypeInv, IInv, \A c \in Agents : TidyInv(c), NEW w \in Workers, StartMint(w)
    PROVE  \A c \in Agents : TidyInv(c)'
<1>1. PICK x \in Jobs : /\ Goto(w, x) /\ job[w] \in StartJobs /\ x.pc = "scan"
                        /\ x.agent = job[w].agent /\ x.new = minted[job[w].agent] + 1
  BY StartMoves
<1>2. PICK a \in Agents : a = job[w].agent
  BY <1>1 DEF StartJobs
<1>3. /\ minted' = [minted EXCEPT ![a] = minted[a] + 1]
      /\ live' = [live EXCEPT ![a] = @ \union {minted[a] + 1}]
      /\ UNCHANGED <<bundle, rows>> /\ job[w].pc = "mint"
      /\ minted \in [Agents -> Key] /\ live \in [Agents -> SUBSET Key]
  BY <1>2 DEF StartMint, FreshMeshAlias, TypeInv, TypeOK
<1>4. job'[w] = x /\ \A v \in Workers : v = w
  BY <1>1, OnlyRequest
<1>5. ASSUME NEW c \in Agents, c # a PROVE TidyInv(c)'
  <2>1. ~UnderWay(c)' /\ \A v \in Workers : ~CleanupOf(v, c)'
    BY <1>1, <1>2, <1>4, <1>5 DEF UnderWay, StartOf, CleanupOf
  <2>2. minted'[c] = minted[c] /\ live'[c] = live[c]
    BY <1>3, <1>5
  <2> QED
    BY <1>3, <2>1, <2>2, TidyRowsKept
<1>6. TidyInv(a)'
  <2>1. ~HasOpenRow(a)
    BY <1>2, <1>3 DEF IInv, JobInv, StartInv, Starting
  <2>2. RowsOf(a)' = RowsOf(a) /\ HasOpenRow(a)' = HasOpenRow(a) /\ OpenIds' = OpenIds
    BY <1>3 DEF RowsOf, HasOpenRow, OpenIds
  <2>3. \A v \in Workers : /\ ~StartOf(v, a) /\ ~CleanupOf(v, a)'
                           /\ StartOf(v, a)'
    BY <1>1, <1>2, <1>3, <1>4 DEF StartOf, CleanupOf
  <2>4. ~UnderWay(a) /\ UnderWay(a)'
    BY <2>3 DEF UnderWay
  <2>5. Cardinality(RowsOf(a)) \in Nat /\ minted[a] \in Nat
    BY RowsCounted, Numbers
  <2>6. Told(a) = Cardinality(RowsOf(a)) + 1 /\ Told(a)' = Cardinality(RowsOf(a)) + 2
    BY <2>2, <2>4, <2>5 DEF Told
  <2>7. minted'[a] = minted[a] + 1 /\ live'[a] = live[a] \union {minted[a] + 1}
    BY <1>3
  <2>8. ASSUME Tidy(a) PROVE Tidy(a)'
    <3>1. NoOverlap(a)' /\ \A key \in live[a] : key = bundle[a].id
      BY <1>3, <2>1, <2>3, <2>4, <2>8 DEF Tidy, NoOverlap
    <3>2. \A key \in live'[a] : \/ key = bundle'[a].id
                                \/ StartOf(w, a)' /\ key = job'[w].new
      BY <1>1, <1>2, <1>3, <1>4, <2>3, <2>7, <3>1
    <3>3. \A i \in OpenIds : rows[i].agent # a
      BY <2>1 DEF HasOpenRow, OpenIds
    <3> QED
      BY <1>3, <2>2, <2>3, <2>4, <3>1, <3>2, <3>3 DEF Tidy
  <2> QED
    BY <2>5, <2>6, <2>7, <2>8 DEF TidyInv
<1> QED
  BY <1>5, <1>6

(* The deliveries of a start: the overlap comes while it is under way.       *)
LEMMA DeliversTidily ==
    ASSUME OneWorker, TypeInv, IInv, \A c \in Agents : TidyInv(c), NEW w \in Workers,
           StartScan(w) \/ StartDeliver(w)
    PROVE  \A c \in Agents : TidyInv(c)'
<1>1. /\ UNCHANGED <<minted, live, rows>> /\ job[w].pc \in {"scan", "deliver"}
  BY DEF StartScan, StartDeliver
<1>2. PICK a \in Agents : a = job[w].agent
  BY <1>1, JobShape DEF TypeInv, ScanJobs, DeliverJobs
<1>3. PICK x \in Jobs : Goto(w, x) /\ x.pc = "deliver" /\ x.agent = a /\ x.new = job[w].new
  <2>1. CASE StartScan(w)
    BY <1>2, <2>1, StartMoves
  <2>2. CASE StartDeliver(w)
    BY <1>2, <2>2, DeliverMoves
  <2> QED
    BY <2>1, <2>2
<1>4. /\ \A c \in Agents : bundle'[c].id = bundle[c].id
      /\ \A b \in Agents, c \in Peers(a) : bundle'[b].ov[c] = bundle[b].ov[c]
  <2>1. CASE StartScan(w)
    BY <2>1 DEF StartScan
  <2>2. CASE StartDeliver(w)
    <3>1. PICK old \in KeyOrNone, new \in KeyOrNone : old = job[w].old /\ new = job[w].new
      BY <2>2, DeliverMoves DEF DeliverJobs, Key, KeyOrNone
    <3>2. PICK p \in job[w].todo :
            p \in Agents /\ RotateBundle(p, WithOverlap(job[w].seen[p], a, old, new))
      BY <1>2, <2>2, <3>1, DeliverMoves
    <3>3. job[w].seen[p] = bundle[p]
      BY <2>2, <3>2 DEF IInv, JobInv, StartInv, StartDeliver, Starting
    <3>4. /\ bundle'[p].v = bundle[p].v + 1 /\ bundle'[p].id = bundle[p].id
          /\ bundle'[p].tok = [bundle[p].tok EXCEPT ![a] = new]
          /\ bundle'[p].ov = [bundle[p].ov EXCEPT ![a] = old]
          /\ \A c \in Agents \ {p} : bundle'[c] = bundle[c]
      <4>1. p \in Agents /\ RotateBundle(p, WithOverlap(bundle[p], a, old, new))
        BY <3>2, <3>3
      <4> QED
        BY <4>1, OverlapWritten
    <3>5. bundle[p].ov \in [Agents -> KeyOrNone]
      BY <3>2, Numbers DEF Bundles
    <3> QED
      BY <3>4, <3>5 DEF Peers
  <2> QED
    BY <2>1, <2>2
<1>5. job'[w] = x /\ \A v \in Workers : v = w
  BY <1>3, OnlyRequest
<1>6. ASSUME NEW c \in Agents, c # a PROVE TidyInv(c)'
  <2>1. ~UnderWay(c)' /\ \A v \in Workers : ~CleanupOf(v, c)'
    BY <1>3, <1>5, <1>6 DEF UnderWay, StartOf, CleanupOf
  <2>2. bundle'[c].id = bundle[c].id /\ \A b \in Agents : bundle'[b].ov[c] = bundle[b].ov[c]
    BY <1>4, <1>6 DEF Peers
  <2> QED
    BY <1>1, <2>1, <2>2, TidyRowsKept
<1>7. TidyInv(a)'
  <2>1. RowsOf(a)' = RowsOf(a) /\ HasOpenRow(a)' = HasOpenRow(a) /\ OpenIds' = OpenIds
    BY <1>1 DEF RowsOf, HasOpenRow, OpenIds
  <2>2. \A v \in Workers : /\ StartOf(v, a) /\ StartOf(v, a)' /\ job'[v].pc = "deliver"
                           /\ ~CleanupOf(v, a)' /\ job'[v].new = job[v].new
    BY <1>1, <1>2, <1>3, <1>5 DEF StartOf, CleanupOf
  <2>3. UnderWay(a) /\ UnderWay(a)'
    BY <2>2 DEF UnderWay
  <2>4. Told(a)' = Told(a)
    BY <2>1, <2>3 DEF Told
  <2>5. ASSUME Tidy(a) PROVE Tidy(a)'
    <3>1. ~HasOpenRow(a)' => \A key \in live'[a] : \/ key = bundle'[a].id
                                \/ \E v \in Workers : StartOf(v, a)' /\ key = job'[v].new
      BY <1>1, <1>4, <2>1, <2>2, <2>5 DEF Tidy
    <3>2. \A i \in OpenIds' : rows'[i].agent = a => live'[a] \subseteq {rows'[i].old, rows'[i].new}
      BY <1>1, <2>1, <2>5 DEF Tidy
    <3> QED
      BY <2>2, <2>3, <3>1, <3>2 DEF Tidy
  <2> QED
    BY <1>1, <2>4, <2>5 DEF TidyInv
<1> QED
  BY <1>6, <1>7

(* The row takes over the key of the start.                                  *)
LEMMA InsertsTidily ==
    ASSUME OneWorker, TypeInv, IInv, \A c \in Agents : TidyInv(c), NEW w \in Workers, StartInsert(w)
    PROVE  \A c \in Agents : TidyInv(c)'
<1>1. job[w] \in DeliverJobs /\ Goto(w, Idle) /\ job[w].pc = "deliver"
  BY InsertMoves DEF StartInsert
<1>2. PICK a \in Agents : a = job[w].agent
  BY <1>1 DEF DeliverJobs
<1>3. PICK k : k = Len(rows) + 1
  OBVIOUS
<1>4. /\ DOMAIN rows' = DOMAIN rows \union {k} /\ k \notin DOMAIN rows
      /\ \A i \in DOMAIN rows : rows'[i] = rows[i]
  BY <1>3, InsertMoves
<1>5. PICK r \in Rows : /\ rows'[k] = r /\ r.agent = a /\ r.status = "delivering"
                        /\ r.old = job[w].old /\ r.new = job[w].new
  BY <1>2, <1>3, InsertMoves
<1>6. UNCHANGED <<minted, live, bundle>>
  BY DEF StartInsert
<1>7. Idle \in Jobs /\ Idle.pc = "idle"
  BY DEF Jobs, Idle
<1>8. \A v \in Workers : v = w
  BY DEF OneWorker
<1>9. ASSUME NEW c \in Agents PROVE ~UnderWay(c)' /\ \A v \in Workers : ~CleanupOf(v, c)'
  BY <1>1, <1>7, Quiet
<1>10. ASSUME NEW c \in Agents, c # a PROVE TidyInv(c)'
  <2>1. RowsOf(c)' = RowsOf(c)
    BY <1>4, <1>5, <1>10 DEF RowsOf
  <2>2. \A i \in OpenIds' : rows'[i].agent = c =>
                /\ i \in OpenIds /\ rows[i].agent = c
                /\ rows'[i].old = rows[i].old /\ rows'[i].new = rows[i].new
    BY <1>4, <1>5, <1>10 DEF OpenIds
  <2>3. HasOpenRow(c)' = HasOpenRow(c)
    <3>1. HasOpenRow(c) => HasOpenRow(c)'
      BY <1>4 DEF HasOpenRow
    <3>2. HasOpenRow(c)' => HasOpenRow(c)
      BY <1>4, <1>5, <1>10 DEF HasOpenRow
    <3> QED
      BY <3>1, <3>2 DEF HasOpenRow
  <2> QED
    BY <1>6, <1>9, <2>1, <2>2, <2>3, TidyAside
<1>11. TidyInv(a)'
  <2>1. job[w].old = bundle[a].id /\ ~HasOpenRow(a)
    BY <1>1, <1>2 DEF IInv, JobInv, StartInv, Starting
  <2>2. RowsOf(a)' = RowsOf(a) \union {k} /\ k \notin RowsOf(a)
    BY <1>4, <1>5 DEF RowsOf
  <2>3. IsFiniteSet(RowsOf(a)) /\ Cardinality(RowsOf(a)) \in Nat
    BY RowsCounted
  <2>4. Cardinality(RowsOf(a)') = Cardinality(RowsOf(a)) + 1
    BY <2>2, <2>3, FS_AddElement
  <2>5. UnderWay(a) /\ ~UnderWay(a)'
    BY <1>1, <1>2, <1>9 DEF UnderWay, StartOf
  <2>6. Told(a)' = Told(a)
    BY <2>3, <2>4, <2>5 DEF Told
  <2>7. HasOpenRow(a)'
    BY <1>4, <1>5 DEF HasOpenRow, Open, Statuses
  <2>8. \A i \in OpenIds' : rows'[i].agent = a => i = k
    BY <1>4, <2>1 DEF OpenIds, HasOpenRow
  <2>9. ASSUME Tidy(a) PROVE Tidy(a)'
    <3>1. live[a] \subseteq {r.old, r.new}
      BY <1>5, <1>8, <2>1, <2>9 DEF Tidy
    <3>2. \A v \in Workers : ~StartOf(v, a)'
      BY <2>5 DEF UnderWay
    <3> QED
      BY <1>5, <1>6, <1>9, <2>7, <2>8, <3>1, <3>2 DEF Tidy
  <2> QED
    BY <1>6, <2>6, <2>9 DEF TidyInv
<1> QED
  BY <1>10, <1>11

(* The revocation: the old key is gone, and all ledger peers are to be       *)
(* cleaned up.                                                               *)
LEMMA RevokesTidily ==
    ASSUME OneWorker, TypeInv, IInv, \A c \in Agents : TidyInv(c), NEW w \in Workers, Revoke(w)
    PROVE  \A c \in Agents : TidyInv(c)'
<1>1. /\ UNCHANGED <<minted, bundle, rows>> /\ job[w].pc = "revoke"
      /\ job[w].pc \in AtRowPcs /\ job[w].pc \in Late
  BY DEF Revoke, AtRowPcs, Late
<1>2. PICK r \in Rows : r = Current(w)
  BY <1>1, RowInTable
<1>3. PICK a \in Agents, k \in Nat : a = r.agent /\ k = r.id
  BY <1>1, <1>2, RowInTable, RowFields
<1>4. /\ k \in OpenIds /\ RowInv(k) /\ HasOpenRow(a) /\ rows[k].agent = a
      /\ rows[k] = [r EXCEPT !.status = "awaiting_revoke"]
  BY <1>1, <1>2, <1>3, RowInTable
<1>5. rows[k].ledger = r.ledger
  BY <1>4 DEF Rows
<1>6. PICK x \in Jobs : /\ Goto(w, x) /\ x.pc = "clean" /\ x.queue = job[w].queue
                        /\ x.todo = {b \in Agents : r.ledger[b] # 0}
  BY <1>2, RevokeMoves
<1>7. job'[w] = x /\ \A v \in Workers : v = w
  BY <1>6, OnlyRequest
<1>8. Current(w)' = r
  BY <1>2, <1>6, <1>7, CurrentIsFirst
<1>9. /\ live' = [live EXCEPT ![a] = @ \ {r.old}] /\ live \in [Agents -> SUBSET Key]
  BY <1>2, <1>3 DEF Revoke, TypeInv, TypeOK
<1>10. ASSUME NEW c \in Agents, c # a PROVE TidyInv(c)'
  <2>1. ~UnderWay(c)' /\ \A v \in Workers : ~CleanupOf(v, c)'
    BY <1>3, <1>6, <1>7, <1>8, <1>10 DEF UnderWay, StartOf, CleanupOf
  <2>2. live'[c] = live[c]
    BY <1>9, <1>10
  <2> QED
    BY <1>1, <2>1, <2>2, TidyRowsKept
<1>11. TidyInv(a)'
  <2>1. RowsOf(a)' = RowsOf(a) /\ HasOpenRow(a)' /\ OpenIds' = OpenIds
    BY <1>1, <1>4 DEF RowsOf, HasOpenRow, OpenIds
  <2>2. \A v \in Workers : ~StartOf(v, a) /\ ~StartOf(v, a)'
    BY <1>1, <1>6, <1>7 DEF StartOf
  <2>3. Told(a)' = Told(a)
    BY <2>1, <2>2 DEF Told, UnderWay
  <2>4. live'[a] = live[a] \ {r.old}
    BY <1>9
  <2>5. ASSUME NEW b \in Agents \ x.todo PROVE bundle[b].ov[a] = NoKey
    <3>1. r.ledger[b] = 0
      BY <1>6
    <3>2. b = a
      BY <1>4, <1>5, <3>1 DEF RowInv, Peers
    <3> QED
      BY <3>2 DEF IInv, AgentInv
  <2>6. ASSUME Tidy(a) PROVE Tidy(a)'
    <3>1. \A i \in OpenIds' : rows'[i].agent = a => live'[a] \subseteq {rows'[i].old, rows'[i].new}
      BY <1>1, <2>1, <2>4, <2>6 DEF Tidy
    <3>2. \A v \in Workers : CleanupOf(v, a)' =>
            /\ Current(v).old' \notin live'[a]
            /\ \A b \in Agents \ job'[v].todo : bundle'[b].ov[a] = NoKey
      BY <1>1, <1>7, <1>8, <2>4, <2>5
    <3> QED
      BY <2>1, <2>2, <3>1, <3>2 DEF Tidy
  <2> QED
    BY <1>1, <2>3, <2>6 DEF TidyInv
<1> QED
  BY <1>10, <1>11

(* The cleanup of a peer: its overlap is found gone, or is on the way out.   *)
LEMMA LoadsTidily ==
    ASSUME OneWorker, TypeInv, IInv, \A c \in Agents : TidyInv(c), NEW w \in Workers,
           NEW p \in Agents, CleanLoad(w, p)
    PROVE  \A c \in Agents : TidyInv(c)'
<1>1. /\ UNCHANGED <<minted, live, bundle, rows>> /\ job[w].pc = "clean"
      /\ job[w].pc \in AtRowPcs /\ job[w].pc \in Late
  BY DEF CleanLoad, AtRowPcs, Late
<1>2. PICK r \in Rows : r = Current(w)
  BY <1>1, RowInTable
<1>3. PICK a \in Agents : a = r.agent
  BY <1>1, <1>2, RowInTable
<1>4. PICK x \in Jobs :
                /\ Goto(w, x) /\ x.queue = job[w].queue /\ x.todo = job[w].todo \ {p}
                /\ \/ x.pc = "clean" /\ bundle[p].ov[a] = NoKey
                   \/ x.pc = "cleanWrite" /\ x.peer = p
  BY <1>2, <1>3, CleanLoadMoves
<1>5. job'[w] = x /\ \A v \in Workers : v = w
  BY <1>4, OnlyRequest
<1>6. Current(w)' = r
  BY <1>2, <1>4, <1>5, CurrentIsFirst
<1>7. ASSUME NEW c \in Agents, c # a PROVE TidyInv(c)'
  <2>1. ~UnderWay(c)' /\ \A v \in Workers : ~CleanupOf(v, c)'
    BY <1>3, <1>4, <1>5, <1>6, <1>7 DEF UnderWay, StartOf, CleanupOf
  <2> QED
    BY <1>1, <2>1, TidyRowsKept
<1>8. TidyInv(a)'
  <2>1. RowsOf(a)' = RowsOf(a) /\ HasOpenRow(a)' = HasOpenRow(a) /\ OpenIds' = OpenIds
    BY <1>1 DEF RowsOf, HasOpenRow, OpenIds
  <2>2. \A v \in Workers : ~StartOf(v, a) /\ ~StartOf(v, a)'
    BY <1>1, <1>4, <1>5 DEF StartOf
  <2>3. Told(a)' = Told(a)
    BY <2>1, <2>2 DEF Told, UnderWay
  <2>4. ASSUME Tidy(a) PROVE Tidy(a)'
    <3>1. CleanupOf(w, a)
      BY <1>1, <1>2, <1>3 DEF CleanupOf
    <3>2. r.old \notin live[a] /\ \A b \in Agents \ job[w].todo : bundle[b].ov[a] = NoKey
      BY <1>1, <1>2, <2>4, <3>1 DEF Tidy
    <3>3. \A b \in Agents \ x.todo : \/ x.pc = "cleanWrite" /\ b = x.peer
                                     \/ bundle[b].ov[a] = NoKey
      BY <1>4, <3>2
    <3>4. \A v \in Workers : CleanupOf(v, a)' =>
            /\ Current(v).old' \notin live'[a]
            /\ \A b \in Agents \ job'[v].todo : \/ job'[v].pc = "cleanWrite" /\ b = job'[v].peer
                                                \/ bundle'[b].ov[a] = NoKey
      BY <1>1, <1>5, <1>6, <3>2, <3>3
    <3>5. ~HasOpenRow(a)' => /\ \A key \in live'[a] : key = bundle'[a].id
                             /\ NoOverlap(a)'
      BY <1>1, <2>1, <2>2, <2>4 DEF Tidy, NoOverlap, UnderWay
    <3>6. \A i \in OpenIds' : rows'[i].agent = a => live'[a] \subseteq {rows'[i].old, rows'[i].new}
      BY <1>1, <2>1, <2>4 DEF Tidy
    <3> QED
      BY <2>2, <3>4, <3>5, <3>6 DEF Tidy
  <2> QED
    BY <1>1, <2>3, <2>4 DEF TidyInv
<1> QED
  BY <1>7, <1>8

(* The cleanup of a peer, written.                                           *)
LEMMA CleansTidily ==
    ASSUME OneWorker, TypeInv, IInv, \A c \in Agents : TidyInv(c), NEW w \in Workers, CleanWrite(w)
    PROVE  \A c \in Agents : TidyInv(c)'
<1>1. /\ UNCHANGED <<minted, live, rows>> /\ job[w].pc = "cleanWrite"
      /\ job[w].pc \in AtRowPcs /\ job[w].pc \in Late
  BY DEF CleanWrite, AtRowPcs, Late
<1>2. PICK r \in Rows : r = Current(w)
  BY <1>1, RowInTable
<1>3. PICK a \in Agents : a = r.agent
  BY <1>1, <1>2, RowInTable
<1>4. PICK x \in Jobs :
                /\ Goto(w, x) /\ x.pc = "clean" /\ job[w] \in WriteJobs
                /\ x.queue = job[w].queue /\ x.todo = job[w].todo
                /\ RotateBundle(job[w].peer, [job[w].seen EXCEPT !.ov[a] = NoKey])
  BY <1>2, <1>3, CleanWriteMoves
<1>5. PICK p \in Agents : p = job[w].peer
  BY <1>4 DEF WriteJobs
<1>6. job[w].seen = bundle[p]
  BY <1>1, <1>5 DEF IInv, JobInv, StageInv
<1>7. /\ bundle'[p].id = bundle[p].id /\ bundle'[p].ov = [bundle[p].ov EXCEPT ![a] = NoKey]
      /\ \A c \in Agents \ {p} : bundle'[c] = bundle[c]
  <2>1. bundle[p] \in Bundles
    BY Numbers
  <2>2. PICK y \in Bundles : /\ y = [bundle[p] EXCEPT !.ov[a] = NoKey] /\ y.id = bundle[p].id
                             /\ y.ov = [bundle[p].ov EXCEPT ![a] = NoKey]
    BY <2>1, CleanRendering
  <2>3. RotateBundle(p, y)
    BY <1>4, <1>5, <1>6, <2>2
  <2> QED
    BY <2>2, <2>3, BundleWritten
<1>8. /\ \A c \in Agents : bundle'[c].id = bundle[c].id
      /\ \A b \in Agents, c \in Peers(a) : bundle'[b].ov[c] = bundle[b].ov[c]
      /\ bundle'[p].ov[a] = NoKey /\ \A b \in Agents \ {p} : bundle'[b].ov[a] = bundle[b].ov[a]
  <2>1. bundle[p].ov \in [Agents -> KeyOrNone]
    BY Numbers DEF Bundles
  <2> QED
    BY <1>7, <2>1 DEF Peers
<1>9. job'[w] = x /\ \A v \in Workers : v = w
  BY <1>4, OnlyRequest
<1>10. Current(w)' = r
  BY <1>2, <1>4, <1>9, CurrentIsFirst
<1>11. ASSUME NEW c \in Agents, c # a PROVE TidyInv(c)'
  <2>1. ~UnderWay(c)' /\ \A v \in Workers : ~CleanupOf(v, c)'
    BY <1>3, <1>4, <1>9, <1>10, <1>11 DEF UnderWay, StartOf, CleanupOf
  <2>2. bundle'[c].id = bundle[c].id /\ \A b \in Agents : bundle'[b].ov[c] = bundle[b].ov[c]
    BY <1>8, <1>11 DEF Peers
  <2> QED
    BY <1>1, <2>1, <2>2, TidyRowsKept
<1>12. TidyInv(a)'
  <2>1. RowsOf(a)' = RowsOf(a) /\ HasOpenRow(a)' = HasOpenRow(a) /\ OpenIds' = OpenIds
    BY <1>1 DEF RowsOf, HasOpenRow, OpenIds
  <2>2. \A v \in Workers : ~StartOf(v, a) /\ ~StartOf(v, a)'
    BY <1>1, <1>4, <1>9 DEF StartOf
  <2>3. Told(a)' = Told(a)
    BY <2>1, <2>2 DEF Told, UnderWay
  <2>4. HasOpenRow(a)
    BY <1>1, <1>2, <1>3, RowInTable
  <2>5. ASSUME Tidy(a) PROVE Tidy(a)'
    <3>1. CleanupOf(w, a)
      BY <1>1, <1>2, <1>3 DEF CleanupOf
    <3>2. /\ r.old \notin live[a]
          /\ \A b \in Agents \ job[w].todo : b = p \/ bundle[b].ov[a] = NoKey
      BY <1>1, <1>2, <1>5, <2>5, <3>1 DEF Tidy
    <3>3. \A b \in Agents \ x.todo : bundle'[b].ov[a] = NoKey
      BY <1>4, <1>8, <3>2
    <3>4. \A v \in Workers : CleanupOf(v, a)' =>
            /\ Current(v).old' \notin live'[a]
            /\ \A b \in Agents \ job'[v].todo : bundle'[b].ov[a] = NoKey
      BY <1>1, <1>9, <1>10, <3>2, <3>3
    <3>5. \A i \in OpenIds' : rows'[i].agent = a => live'[a] \subseteq {rows'[i].old, rows'[i].new}
      BY <1>1, <2>1, <2>5 DEF Tidy
    <3> QED
      BY <2>1, <2>2, <2>4, <3>4, <3>5 DEF Tidy
  <2> QED
    BY <1>1, <2>3, <2>5 DEF TidyInv
<1> QED
  BY <1>11, <1>12

(* The completion: the old key and every overlap are gone.                   *)
LEMMA CompletesTidily ==
    ASSUME OneWorker, TypeInv, IInv, \A c \in Agents : TidyInv(c), NEW w \in Workers, Complete(w)
    PROVE  \A c \in Agents : TidyInv(c)'
<1>1. /\ UNCHANGED <<minted, live, bundle>> /\ Goto(w, NextRow(w))
      /\ job[w].pc = "clean" /\ job[w].todo = {} /\ job[w].pc \in AtRowPcs /\ job[w].pc \in Late
  BY DEF Complete, AtRowPcs, Late
<1>2. PICK r \in Rows : r = Current(w)
  BY <1>1, RowInTable
<1>3. PICK a \in Agents, k \in Nat : a = r.agent /\ k = r.id
  BY <1>1, <1>2, RowInTable, RowFields
<1>4. PICK s \in Rows : s = rows[k]
  BY <1>1, <1>2, <1>3, RowInTable, RowAt DEF OpenIds
<1>5. /\ k \in OpenIds /\ k \in DOMAIN rows /\ RowInv(k)
      /\ s = [r EXCEPT !.status = "awaiting_revoke"]
  BY <1>1, <1>2, <1>3, <1>4, RowInTable DEF OpenIds
<1>6. s.agent = a /\ s.status = "awaiting_revoke" /\ s.old = r.old
  BY <1>3, <1>5 DEF Rows
<1>7. PICK t \in Rows : /\ rows' = [rows EXCEPT ![k] = t] /\ t.id = k
                        /\ t = [s EXCEPT !.status = "completed", !.old = NoKey, !.new = NoKey]
  <2>1. PICK t \in Rows :
                  /\ rows' = [rows EXCEPT ![Current(w).id] = t]
                  /\ t = [rows[Current(w).id] EXCEPT !.status = "completed", !.old = NoKey,
                                                     !.new = NoKey]
                  /\ t.id = Current(w).id
    BY SweepWrites
  <2>2. Current(w).id = k /\ rows[Current(w).id] = s
    BY <1>2, <1>3, <1>4
  <2> QED
    BY <2>1, <2>2
<1>8. t.agent = a /\ t.status \notin Open
  BY <1>6, <1>7 DEF Rows, Open
<1>9. /\ DOMAIN rows' = DOMAIN rows /\ rows'[k] = t
      /\ \A i \in DOMAIN rows : i # k => rows'[i] = rows[i]
  BY <1>5, <1>7, RowWritten
<1>10. NextRow(w) \in Jobs /\ NextRow(w).pc \in {"idle", "row"}
  BY <1>1, NextRowTyped DEF Idle
<1>11. ASSUME NEW c \in Agents
       PROVE  /\ ~UnderWay(c)' /\ \A v \in Workers : ~CleanupOf(v, c)'
              /\ RowsOf(c)' = RowsOf(c)
  <2>1. ~UnderWay(c)' /\ \A v \in Workers : ~CleanupOf(v, c)'
    BY <1>1, <1>10, Quiet
  <2>2. RowsOf(c)' = RowsOf(c)
    BY <1>4, <1>6, <1>8, <1>9 DEF RowsOf
  <2> QED
    BY <2>1, <2>2
<1>12. ASSUME NEW c \in Agents, c # a PROVE TidyInv(c)'
  <2>1. \A i \in OpenIds' : rows'[i].agent = c =>
                /\ i \in OpenIds /\ rows[i].agent = c
                /\ rows'[i].old = rows[i].old /\ rows'[i].new = rows[i].new
    BY <1>8, <1>9, <1>12 DEF OpenIds
  <2>2. HasOpenRow(c)' = HasOpenRow(c)
    <3>1. HasOpenRow(c) => HasOpenRow(c)'
      BY <1>4, <1>6, <1>9, <1>12 DEF HasOpenRow
    <3>2. HasOpenRow(c)' => HasOpenRow(c)
      BY <1>8, <1>9, <1>12 DEF HasOpenRow
    <3> QED
      BY <3>1, <3>2 DEF HasOpenRow
  <2> QED
    BY <1>1, <1>11, <2>1, <2>2, TidyAside
<1>13. TidyInv(a)'
  <2>1. \A v \in Workers : ~StartOf(v, a) /\ ~StartOf(v, a)' /\ ~CleanupOf(v, a)'
    BY <1>1, <1>11 DEF StartOf, UnderWay, OneWorker
  <2>2. Told(a)' = Told(a)
    BY <1>11, <2>1 DEF Told, UnderWay
  <2>3. ASSUME NEW i \in OpenIds' PROVE rows'[i].agent # a
    <3>1. i # k /\ i \in OpenIds /\ rows'[i] = rows[i]
      BY <1>8, <1>9 DEF OpenIds
    <3> QED
      BY <1>4, <1>5, <1>6, <3>1 DEF IInv, RowsInv
  <2>4. bundle[a].id = s.new
    BY <1>4, <1>5, <1>6 DEF RowInv, AwaitingRevoke
  <2>5. ASSUME Tidy(a) PROVE Tidy(a)'
    <3>1. CleanupOf(w, a)
      BY <1>1, <1>2, <1>3 DEF CleanupOf
    <3>2. r.old \notin live[a] /\ \A b \in Agents : bundle[b].ov[a] = NoKey
      BY <1>1, <1>2, <2>5, <3>1 DEF Tidy
    <3>3. live[a] \subseteq {s.old, s.new}
      BY <1>4, <1>5, <1>6, <2>5 DEF Tidy
    <3>4. \A key \in live'[a] : key = bundle'[a].id
      BY <1>1, <1>6, <2>4, <3>2, <3>3
    <3>5. NoOverlap(a)'
      BY <1>1, <3>2 DEF NoOverlap
    <3> QED
      BY <2>1, <2>3, <3>4, <3>5 DEF Tidy
  <2> QED
    BY <1>1, <2>2, <2>5 DEF TidyInv
<1> QED
  BY <1>12, <1>13

(* Every step leaves the agents tidy.                                        *)
LEMMA NextTidy ==
    OneWorker /\ TypeInv /\ IInv /\ (\A c \in Agents : TidyInv(c)) /\ [Next]_vars
      => (\A c \in Agents : TidyInv(c))'
<1> SUFFICES ASSUME OneWorker, TypeInv, IInv, \A c \in Agents : TidyInv(c), [Next]_vars
             PROVE  \A c \in Agents : TidyInv(c)'
  OBVIOUS
<1>1. ASSUME UNCHANGED <<minted, live, bundle, rows, job>>, NEW c \in Agents PROVE TidyInv(c)'
  <2>1. TidyInv(c)
    OBVIOUS
  <2>2. \A w \in Workers : /\ StartOf(w, c)' = StartOf(w, c) /\ CleanupOf(w, c)' = CleanupOf(w, c)
                           /\ Current(w)' = Current(w)
    BY <1>1 DEF StartOf, CleanupOf, Current
  <2>3. /\ UnderWay(c)' = UnderWay(c) /\ RowsOf(c)' = RowsOf(c) /\ NoOverlap(c)' = NoOverlap(c)
        /\ OpenIds' = OpenIds /\ HasOpenRow(c)' = HasOpenRow(c)
    BY <1>1 DEF UnderWay, StartOf, RowsOf, NoOverlap, OpenIds, HasOpenRow
  <2>4. Told(c)' = Told(c)
    BY <2>3 DEF Told
  <2>5. ASSUME Tidy(c) PROVE Tidy(c)'
    BY <1>1, <2>2, <2>3, <2>5 DEF Tidy
  <2> QED
    BY <1>1, <2>1, <2>4, <2>5 DEF TidyInv
<1>2. ASSUME UNCHANGED vars \/ \E a \in Agents : Fetch(a)
      PROVE  \A c \in Agents : TidyInv(c)'
  <2>1. UNCHANGED <<minted, live, bundle, rows, job>>
    BY <1>2 DEF vars, Fetch
  <2> QED
    BY <1>1, <2>1
<1>3. ASSUME NEW w \in Workers, Step(w) PROVE \A c \in Agents : TidyInv(c)'
  BY <1>3, ReadsTidily, MintsTidily, DeliversTidily, InsertsTidily, WritesTidily, RevokesTidily,
     LoadsTidily, CleansTidily, CompletesTidily DEF Step
<1>4. ASSUME NEW w \in Workers,
             \/ Crash(w) \/ \E a \in Agents : StartLoad(w, a) \/ Report(w, a)
             \/ \E id \in DOMAIN rows, force \in BOOLEAN : Reconcile(w, id, force)
      PROVE  \A c \in Agents : TidyInv(c)'
  BY <1>4, ReadsTidily
<1> QED
  BY <1>2, <1>3, <1>4 DEF Next

(* Enrolment: one key each, and no overlap.                                  *)
LEMMA InitTidy == Init => \A c \in Agents : TidyInv(c)
<1> SUFFICES ASSUME Init, NEW c \in Agents PROVE TidyInv(c)
  OBVIOUS
<1>1. /\ DOMAIN rows = {} /\ \A w \in Workers : job[w].pc = "idle"
  BY DEF Init, Idle
<1>2. /\ minted[c] = 1 /\ live[c] = {1} /\ bundle[c].id = 1 /\ NoOverlap(c)
  BY DEF Init, NoOverlap
<1>3. RowsOf(c) = {} /\ OpenIds = {} /\ \A w \in Workers : ~StartOf(w, c) /\ ~CleanupOf(w, c)
  BY <1>1 DEF RowsOf, OpenIds, StartOf, CleanupOf
<1>4. Cardinality(RowsOf(c)) = 0
  BY <1>3, FS_EmptySet
<1>5. Told(c) = 1
  BY <1>3, <1>4 DEF Told, UnderWay
<1>6. Tidy(c)
  BY <1>2, <1>3 DEF Tidy
<1> QED
  BY <1>2, <1>5, <1>6 DEF TidyInv

(* While the registrar serves one start or sweep at a time, a completed      *)
(* rotation leaves nothing behind, if no start of the agent died between its *)
(* mint and its row: the bundle's key is the only live one, and no ledger    *)
(* peer's bundle keeps an overlap entry.                                     *)
THEOREM NothingLeftBehind == ASSUME OneWorker PROVE Spec => []CompletedIsClean
<1> DEFINE Inv == TypeInv /\ IInv /\ \A c \in Agents : TidyInv(c)
<1>1. Inv => CompletedIsClean
  <2> SUFFICES ASSUME Inv, NEW i \in DOMAIN rows, rows[i].status = "completed",
                      \A w \in Workers : job[w].pc = "idle",
                      minted[rows[i].agent] = Cardinality(RowsOf(rows[i].agent)) + 1,
                      ~HasOpenRow(rows[i].agent)
               PROVE  /\ live[rows[i].agent] = {bundle[rows[i].agent].id}
                      /\ \A b \in Agents : bundle[b].ov[rows[i].agent] = NoKey
    BY DEF CompletedIsClean
  <2>1. PICK a \in Agents : a = rows[i].agent
    BY RowAt, RowFields
  <2>2. \A w \in Workers : ~StartOf(w, a)
    BY DEF StartOf
  <2>3. Cardinality(RowsOf(a)) \in Nat
    BY RowsCounted
  <2>4. minted[a] = Told(a)
    BY <2>1, <2>2, <2>3 DEF Told, UnderWay
  <2>5. Tidy(a) /\ AgentInv(a)
    BY <2>4 DEF TidyInv, IInv
  <2>6. (\A key \in live[a] : key = bundle[a].id) /\ NoOverlap(a)
    BY <2>1, <2>2, <2>5 DEF Tidy, UnderWay
  <2>7. bundle[a].id \in live[a]
    BY <2>1, <2>5 DEF AgentInv, RestInv
  <2>8. live[a] = {bundle[a].id} /\ \A b \in Agents : bundle[b].ov[a] = NoKey
    BY <2>6, <2>7 DEF NoOverlap
  <2> QED
    BY <2>1, <2>8
<1>2. Init => Inv
  BY InitTyped, InitSafe, InitTidy
<1>3. Inv /\ [Next]_vars => Inv'
  BY NextTyped, NextSafe, NextTidy
<1> QED
  BY <1>1, <1>2, <1>3, PTL DEF Spec

=============================================================================
