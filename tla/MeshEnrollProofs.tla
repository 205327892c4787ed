-------------------------- MODULE MeshEnrollProofs --------------------------
(* Proofs about MeshEnroll, the enrolment and key-registry requests of the  *)
(* registrar, for every number of agents, requests at a time, keys and      *)
(* requests.                                                                *)
(*                                                                          *)
(* All four results are about a2a.json files that a request read before     *)
(* others wrote.  The invariants therefore speak of what the requests in    *)
(* flight hold as well as of what the bundles carry: GrantInv of public     *)
(* keys, LiveInv of identity keys, CleanInv of an undisturbed resync, and   *)
(* MutualInv of the enrolments that count.                                  *)
EXTENDS MeshEnroll, TLAPS

(* The states of a request.                                                 *)
Urls == Hosts \union {"own", "none"}

Reports == {NoReport} \union [agent: Agents, fit: BOOLEAN]

RenderJobs == [pc: {"render"}, report: Reports, strict: BOOLEAN, members: SUBSET Agents,
               todo: SUBSET Agents, seen: [Agents -> A2a], keys: [Agents -> Pub]]

EnrollJobs == [pc: {"find", "mint", "card", "peers"}, agent: Agents, origin: Urls,
               public: Urls, console: BOOLEAN, own: A2a, key: Key]

MergeJobs == [pc: {"own", "merge"}, agent: Agents, next: [Agents -> A2a], peers: SUBSET Agents]

Jobs == [pc: {"idle", "strict"}] \union [pc: {"resync"}, report: Reports]
            \union [pc: {"report"}, report: [agent: Agents, fit: BOOLEAN]]
            \union RenderJobs \union EnrollJobs \union MergeJobs

Enrolling == {"find", "mint", "card", "peers"}
Merging == {"own", "merge"}

TypeInv ==
    /\ TypeOK
    /\ job \in [Workers -> Jobs]
    /\ \A a \in Agents : pub[a].status # "none" => pub[a].key # None

-----------------------------------------------------------------------------
(* Public keys: what is active was granted, and so was every key that a     *)
(* request in flight may still write.                                       *)
HeldGranted(x) ==
    /\ x.pc = "render" => \A p \in Agents : x.keys[p] \in granted[p] \union {None}
    /\ x.pc \in Enrolling => \A p \in Agents : x.own.pk[p] \in granted[p] \union {None}
    /\ x.pc \in Merging =>
         \A d, p \in Agents : x.next[d].pk[p] \in granted[p] \union {None}

GrantInv ==
    /\ OnlyGrantedKeys
    /\ \A a \in Agents : pub[a].status = "active" => pub[a].key \in granted[a]
    /\ \A w \in Workers : HeldGranted(job[w])

-----------------------------------------------------------------------------
(* Identity keys: the ones that are live and will outlive the rotation that *)
(* is open.                                                                 *)
Safe(a) == {k \in Live(a) : rot[a].stage = "flipped" => k # rot[a].old}

HeldLive(x) ==
    /\ x.pc = "render" => \A d \in x.todo : x.seen[d].id \in Safe(d) /\ bundle[d].id # None
    /\ (x.pc = "find" /\ x.own.id # None) => x.own.id \in Safe(x.agent)
    /\ x.pc \in {"card", "peers"} => x.key \in Safe(x.agent)
    /\ x.pc = "own" => x.next[x.agent].id \in Safe(x.agent)
    /\ x.pc \in Merging => \A p \in x.peers : x.next[p].id \in Safe(p) /\ bundle[p].id # None

(* No key is there before it is minted; a rotation's new key is live.       *)
KeysInOrder(a) ==
    /\ base[a] <= minted[a]
    /\ \A k \in versions[a] : k <= minted[a]
    /\ rot[a].stage # "none" =>
         /\ rot[a].new \in versions[a]
         /\ rot[a].old # rot[a].new
         /\ rot[a].old <= minted[a]

LiveInv ==
    /\ \A a \in Agents : KeysInOrder(a)
    /\ \A a \in Agents : bundle[a].id # None => bundle[a].id \in Safe(a)
    /\ \A a \in Agents : rot[a].stage # "none" => bundle[a].id # None
    /\ \A w \in Workers : HeldLive(job[w])

-----------------------------------------------------------------------------
(* A resync that nothing has disturbed holds what is there, and the bundles *)
(* it is through with follow the registry.                                  *)
InStep(d) ==
    \A p \in bundle[d].trusted \ {d} :
        /\ bundle[d].pk[p] = ActiveKeys(Enrolled, pub)[p]
        /\ bundle[d].pk[p] # None =>
             /\ bundle[d].strict = (IF strict THEN "on" ELSE "off")
             /\ strict => bundle[d].tok[p] = None
        /\ (~strict /\ p \in Enrolled) => bundle[d].tok[p] # None

Current(x) ==
    /\ x.pc = "render"
    /\ x.strict = strict
    /\ x.members = Enrolled
    /\ x.todo \subseteq Enrolled
    /\ x.keys = ActiveKeys(Enrolled, pub)
    /\ \A d \in Enrolled : x.seen[d].id = bundle[d].id
    /\ \A d \in x.todo : x.seen[d] = bundle[d]
    /\ \A d \in Enrolled \ x.todo : InStep(d)

CleanInv ==
    /\ clean = "settled" => \A d \in Enrolled : InStep(d)
    /\ \A w \in Workers : clean = w => Current(job[w])

-----------------------------------------------------------------------------
(* The members whose last enrolment counts; what such a member's identity   *)
(* id is, r being its rotation; and what a fellow's a2a.json x must hold of *)
(* it, on being the switch.                                                 *)
Good == {a \in active : outcome[a] = "ok"}

Presents(id, r) ==
    /\ id # None
    /\ r.stage = "delivering" => id \in {r.old, r.new}
    /\ r.stage = "flipped" => id = r.new

Wired(a, x, id, r, on) ==
    /\ a \in x.trusted
    /\ r.stage = "none" => x.tok[a] = None \/ id \in {x.tok[a], x.ov[a]}
    /\ r.stage = "delivering" =>
         x.ov[a] = r.old /\ (x.tok[a] = r.new \/ (on /\ x.tok[a] = None))
    /\ r.stage = "flipped" => x.tok[a] \in {None, r.new}

(* Any two of them are wired both ways.                                     *)
FleetWired ==
    /\ \A a \in Good : Presents(bundle[a].id, rot[a])
    /\ \A a \in Good : \A c \in Good \ {a} :
         Wired(c, bundle[a], bundle[c].id, rot[c], strict)

(* Every merge in flight keeps the members wired that it does not enrol.    *)
KeepsWired(x) ==
    x.pc \in Merging =>
        /\ x.agent \notin x.peers
        /\ \A p \in x.peers \intersect Good :
             /\ x.next[p].id = bundle[p].id
             /\ \A c \in Good \ {p} : Wired(c, x.next[p], bundle[c].id, rot[c], strict)

(* An enrolment that still counts wires both sides.                         *)
BringsOwn(x) ==
    x.pc = "own" =>
        /\ Presents(x.next[x.agent].id, rot[x.agent])
        /\ \A c \in Good : Wired(c, x.next[x.agent], bundle[c].id, rot[c], strict)
        /\ \A c \in Good : /\ c \in x.peers
                            /\ Wired(x.agent, x.next[c], x.next[x.agent].id, rot[x.agent], strict)

BringsPeers(x) ==
    x.pc = "merge" =>
        /\ Presents(bundle[x.agent].id, rot[x.agent])
        /\ \A c \in Good : Wired(c, bundle[x.agent], bundle[c].id, rot[c], strict)
        /\ \A c \in Good : Wired(x.agent, IF c \in x.peers THEN x.next[c] ELSE bundle[c],
                                 bundle[x.agent].id, rot[x.agent], strict)

(* Such an enrolment is the only one.                                       *)
Enrolment(w) == job[w].pc \in Enrolling \union Merging

Counts(w) ==
    /\ outcome[job[w].agent] # "ok"
    /\ outcome[job[w].agent] = "running" =>
         /\ \A v \in Workers : Enrolment(v) => v = w
         /\ BringsOwn(job[w])
         /\ BringsPeers(job[w])

MutualInv ==
    /\ outcome \in [Agents -> {"no", "running", "ok"}]
    /\ \A a \in Agents : outcome[a] = "running" =>
         \E w \in Workers : Enrolment(w) /\ job[w].agent = a
    /\ FleetWired
    /\ \A w \in Workers : KeepsWired(job[w])
    /\ \A w \in Workers : Enrolment(w) => Counts(w)

IInv == TypeInv /\ GrantInv /\ LiveInv /\ CleanInv /\ MutualInv

-----------------------------------------------------------------------------
(* The requests' states and how a step moves one of them.                   *)

(* A request may learn that its report is out of date; nothing else of what *)
(* it holds changes behind its back.                                        *)
Same(x, y) ==
    /\ x.pc = y.pc
    /\ x.pc = "render" =>
         /\ x.strict = y.strict
         /\ x.members = y.members
         /\ x.todo = y.todo
         /\ x.seen = y.seen
         /\ x.keys = y.keys
    /\ x.pc \in Enrolling \union Merging => x = y

Moves(w, x) ==
    /\ job' \in [Workers -> Jobs]
    /\ Same(job'[w], x)
    /\ \A v \in Workers \ {w} : Same(job'[v], job[v])

(* What a request is doing tells which fields it has.                       *)
LEMMA JobShape ==
    ASSUME NEW x \in Jobs
    PROVE  /\ x.pc \in {"idle", "strict", "resync", "report", "render"}
                       \union Enrolling \union Merging
           /\ x.pc = "render" => x \in RenderJobs
           /\ x.pc \in Enrolling => x \in EnrollJobs
           /\ x.pc \in Merging => x \in MergeJobs
           /\ x.pc = "resync" => x \in [pc: {"resync"}, report: Reports]
           /\ x.pc = "report" => x \in [pc: {"report"}, report: [agent: Agents, fit: BOOLEAN]]
           /\ ("agent" \in DOMAIN x) <=> x.pc \in Enrolling \union Merging
           /\ ("report" \in DOMAIN x) <=> x.pc \in {"resync", "report", "render"}
<1>1. CASE x \in [pc: {"idle", "strict"}]
  BY <1>1 DEF Enrolling, Merging
<1>2. CASE x \in [pc: {"resync"}, report: Reports]
  BY <1>2 DEF Enrolling, Merging
<1>3. CASE x \in [pc: {"report"}, report: [agent: Agents, fit: BOOLEAN]]
  BY <1>3 DEF Enrolling, Merging
<1>4. CASE x \in RenderJobs
  BY <1>4 DEF Enrolling, Merging, RenderJobs
<1>5. CASE x \in EnrollJobs
  BY <1>5 DEF Enrolling, Merging, EnrollJobs
<1>6. CASE x \in MergeJobs
  BY <1>6 DEF Enrolling, Merging, MergeJobs
<1> QED
  BY <1>1, <1>2, <1>3, <1>4, <1>5, <1>6 DEF Jobs

(* A new bundle version marks the reports on their way to its device.       *)
LEMMA OutdatedSame ==
    ASSUME NEW js \in [Workers -> Jobs], NEW a \in Agents
    PROVE  /\ Outdated(js, a) \in [Workers -> Jobs]
           /\ \A w \in Workers : Same(Outdated(js, a)[w], js[w])
<1> SUFFICES ASSUME NEW w \in Workers
             PROVE  Outdated(js, a)[w] \in Jobs /\ Same(Outdated(js, a)[w], js[w])
  BY DEF Outdated
<1> PICK x \in Jobs : x = js[w]
  OBVIOUS
<1>1. CASE "report" \in DOMAIN x /\ x.report.agent = a
  <2> DEFINE y == [x EXCEPT !.report.fit = FALSE]
  <2>1. Outdated(js, a)[w] = y
    BY <1>1 DEF Outdated
  <2>2. x.pc \in {"resync", "report", "render"}
    BY <1>1, JobShape
  <2>3. CASE x.pc = "resync"
    <3>1. x \in [pc: {"resync"}, report: Reports]
      BY <2>3, JobShape
    <3>2. y \in [pc: {"resync"}, report: Reports] /\ y.pc = "resync"
      BY <3>1, <1>1 DEF Reports, NoReport
    <3> QED
      BY <3>2, <2>1, <2>3 DEF Same, Jobs, Enrolling, Merging
  <2>4. CASE x.pc = "report"
    <3>1. x \in [pc: {"report"}, report: [agent: Agents, fit: BOOLEAN]]
      BY <2>4, JobShape
    <3>2. y \in [pc: {"report"}, report: [agent: Agents, fit: BOOLEAN]] /\ y.pc = "report"
      BY <3>1
    <3> QED
      BY <3>2, <2>1, <2>4 DEF Same, Jobs, Enrolling, Merging
  <2>5. CASE x.pc = "render"
    <3>1. x \in RenderJobs
      BY <2>5, JobShape
    <3>2. [x.report EXCEPT !.fit = FALSE] \in Reports
      BY <3>1, <1>1 DEF Reports, NoReport, RenderJobs
    <3>3. y \in RenderJobs /\ Same(y, x)
      BY <3>1, <3>2 DEF RenderJobs, Same, Enrolling, Merging
    <3> QED
      BY <3>3, <2>1 DEF Jobs
  <2> QED
    BY <2>2, <2>3, <2>4, <2>5
<1>2. CASE ~("report" \in DOMAIN x /\ x.report.agent = a)
  BY <1>2 DEF Outdated, Same
<1> QED
  BY <1>1, <1>2

(* One request goes on, the others stay where they are.                     *)
LEMMA GotoMoves ==
    ASSUME TypeInv, NEW w \in Workers, NEW x \in Jobs, Goto(w, x)
    PROVE  Moves(w, x) /\ job'[w] = x /\ \A v \in Workers \ {w} : job'[v] = job[v]
  BY DEF TypeInv, Goto, Moves, Same

(* One request goes on after it has written a bundle.                       *)
LEMMA OutdatedMoves ==
    ASSUME TypeInv, NEW w \in Workers, NEW x \in Jobs, NEW d \in Agents,
           job' = Outdated([job EXCEPT ![w] = x], d)
    PROVE  Moves(w, x)
<1>1. [job EXCEPT ![w] = x] \in [Workers -> Jobs]
  BY DEF TypeInv
<1> QED
  BY <1>1, OutdatedSame DEF Moves, TypeInv

-----------------------------------------------------------------------------
(* What the renderings make of an a2a.json.                                 *)

(* No key, and no public key, is an admissible entry of a file.             *)
LEMMA NoneTyped == None \in Key /\ None \in Pub
  BY KeysAssumption DEF None, Key, Pub

(* resyncMeshKeys touches peer_keys, strict and peer_tokens only.           *)
LEMMA RenderedFields ==
    ASSUME NEW r \in RenderJobs, NEW d \in Agents
    PROVE  /\ Rendered(d, r) \in A2a
           /\ Rendered(d, r).id = r.seen[d].id
           /\ Rendered(d, r).trusted = r.seen[d].trusted
           /\ Rendered(d, r).ov = r.seen[d].ov
           /\ \A p \in Agents : Rendered(d, r).pk[p] =
                IF p \in r.seen[d].trusted \ {d} THEN r.keys[p] ELSE None
           /\ \A p \in Agents : Rendered(d, r).pk[p] # None =>
                Rendered(d, r).strict = IF r.strict THEN "on" ELSE "off"
           /\ \A p \in Agents : Rendered(d, r).tok[p] =
                IF p \notin r.seen[d].trusted \ {d} THEN r.seen[d].tok[p]
                ELSE IF r.strict /\ Rendered(d, r).pk[p] # None THEN None
                ELSE IF ~r.strict /\ r.seen[d].tok[p] = None
                     THEN IF p \in r.members THEN r.seen[p].id ELSE None
                ELSE r.seen[d].tok[p]
<1> DEFINE s == r.seen[d]
           trusted == s.trusted \ {d}
           pks == [p \in Agents |-> IF p \in trusted THEN r.keys[p] ELSE None]
           ids == [p \in Agents |-> IF p \in r.members THEN r.seen[p].id ELSE None]
           toks == Tokens(s, trusted, pks, ids, r.strict)
           mode == IF \A p \in Agents : pks[p] = None THEN "absent"
                   ELSE IF r.strict THEN "on" ELSE "off"
<1>1. s \in A2a /\ \A p \in Agents : r.seen[p].id \in Key /\ r.keys[p] \in Pub
  BY DEF RenderJobs, A2a
<1>2. pks \in [Agents -> Pub] /\ ids \in [Agents -> Key]
  BY <1>1, NoneTyped
<1>3. toks \in [Agents -> Key]
  <2>1. \A p \in Agents : s.tok[p] \in Key /\ ids[p] \in Key
    BY <1>1, <1>2 DEF A2a
  <2> QED
    BY <2>1, NoneTyped DEF Tokens
<1>4. mode \in {"absent", "off", "on"}
  OBVIOUS
<1>5. Rendered(d, r) = [s EXCEPT !.pk = pks, !.strict = mode, !.tok = toks]
  BY DEF Rendered
<1> HIDE DEF mode, toks, pks
<1>6. /\ Rendered(d, r) \in A2a
      /\ Rendered(d, r).id = s.id
      /\ Rendered(d, r).trusted = s.trusted
      /\ Rendered(d, r).ov = s.ov
      /\ Rendered(d, r).pk = pks
      /\ Rendered(d, r).strict = mode
      /\ Rendered(d, r).tok = toks
  BY <1>1, <1>2, <1>3, <1>4, <1>5 DEF A2a
<1> QED
  BY <1>6 DEF mode, toks, pks, Tokens

(* renderA2aJson for the agent that is enrolled.                            *)
LEMMA TargetFields ==
    ASSUME NEW s \in A2a, NEW key \in Key, NEW host \in Urls, NEW peers \in SUBSET Agents,
           NEW seen \in [Agents -> A2a], NEW rots \in [Agents -> Rotations]
    PROVE  /\ TargetA2a(s, key, host, peers, seen, rots) \in A2a
           /\ TargetA2a(s, key, host, peers, seen, rots).id = key
           /\ TargetA2a(s, key, host, peers, seen, rots).pk = s.pk
<1> DEFINE toks == [p \in Agents |-> IF p \in peers THEN PeerToken(p, seen, rots) ELSE s.tok[p]]
           ovs == [p \in Agents |-> IF p \in peers THEN PeerOverlap(p, s.ov[p], rots) ELSE s.ov[p]]
           all == s.trusted \union peers
<1>1. toks \in [Agents -> Key] /\ ovs \in [Agents -> Key] /\ all \in SUBSET Agents
  BY DEF A2a, PeerToken, PeerOverlap, Rotations
<1>2. TargetA2a(s, key, host, peers, seen, rots) =
        [s EXCEPT !.id = key, !.url = host, !.trusted = all, !.tok = toks, !.ov = ovs]
  BY DEF TargetA2a, A2a
<1> HIDE DEF toks, ovs, all
<1> QED
  BY <1>1, <1>2 DEF A2a, Urls

(* Its tokens are the peers'.                                               *)
LEMMA TargetTokens ==
    ASSUME NEW s \in A2a, NEW key \in Key, NEW host \in Urls, NEW peers \in SUBSET Agents,
           NEW seen \in [Agents -> A2a], NEW rots \in [Agents -> Rotations]
    PROVE  /\ TargetA2a(s, key, host, peers, seen, rots).tok =
                [p \in Agents |-> IF p \in peers THEN PeerToken(p, seen, rots) ELSE s.tok[p]]
           /\ TargetA2a(s, key, host, peers, seen, rots).ov =
                [p \in Agents |-> IF p \in peers THEN PeerOverlap(p, s.ov[p], rots) ELSE s.ov[p]]
  BY DEF TargetA2a, A2a

(* It trusts every peer.                                                    *)
LEMMA TargetTrusts ==
    ASSUME NEW s \in A2a, NEW key \in Key, NEW host \in Urls, NEW peers \in SUBSET Agents,
           NEW seen \in [Agents -> A2a], NEW rots \in [Agents -> Rotations]
    PROVE  \A p \in peers : p \in TargetA2a(s, key, host, peers, seen, rots).trusted
  BY DEF TargetA2a, A2a

(* The same for a peer: only what it holds of the enrolled agent changes.   *)
LEMMA PeerFields ==
    ASSUME NEW s \in A2a, NEW a \in Agents, NEW key \in Key, NEW rots \in [Agents -> Rotations]
    PROVE  /\ PeerA2a(s, a, key, rots) \in A2a
           /\ PeerA2a(s, a, key, rots).id = s.id
           /\ \A p \in Agents : p \in PeerA2a(s, a, key, rots).trusted <=> p \in s.trusted \/ p = a
           /\ PeerA2a(s, a, key, rots).pk = s.pk
           /\ PeerA2a(s, a, key, rots).tok[a] = IF rots[a].stage # "none" THEN rots[a].new ELSE key
           /\ PeerA2a(s, a, key, rots).ov[a] = IF rots[a].stage # "none" THEN rots[a].old ELSE s.ov[a]
           /\ \A c \in Agents \ {a} : /\ PeerA2a(s, a, key, rots).tok[c] = s.tok[c]
                                      /\ PeerA2a(s, a, key, rots).ov[c] = s.ov[c]
<1> DEFINE k == IF rots[a].stage # "none" THEN rots[a].new ELSE key
           o == IF rots[a].stage # "none" THEN rots[a].old ELSE s.ov[a]
           toks == [s.tok EXCEPT ![a] = k]
           ovs == [s.ov EXCEPT ![a] = o]
           all == s.trusted \union {a}
<1>1. k \in Key /\ o \in Key /\ all \in SUBSET Agents
  BY DEF Rotations, A2a
<1>2. PeerA2a(s, a, key, rots) = [s EXCEPT !.trusted = all, !.tok = toks, !.ov = ovs]
  BY DEF PeerA2a, A2a
<1> HIDE DEF k, o
<1>3. toks \in [Agents -> Key] /\ ovs \in [Agents -> Key]
  BY <1>1 DEF A2a
<1>4. /\ toks[a] = k /\ ovs[a] = o
      /\ \A c \in Agents \ {a} : toks[c] = s.tok[c] /\ ovs[c] = s.ov[c]
  BY DEF A2a
<1> HIDE DEF toks, ovs, all
<1>5. /\ PeerA2a(s, a, key, rots) \in A2a
      /\ PeerA2a(s, a, key, rots).id = s.id
      /\ PeerA2a(s, a, key, rots).trusted = all
      /\ PeerA2a(s, a, key, rots).pk = s.pk
      /\ PeerA2a(s, a, key, rots).tok = toks
      /\ PeerA2a(s, a, key, rots).ov = ovs
  BY <1>1, <1>2, <1>3 DEF A2a
<1> QED
  BY <1>4, <1>5 DEF k, o, all

-----------------------------------------------------------------------------
(* Where each step leaves its request.                                      *)

Resting == {"idle", "strict", "resync", "report"}

Rests(w) ==
    /\ job' \in [Workers -> Jobs]
    /\ job'[w].pc \in Resting
    /\ \A v \in Workers \ {w} : Same(job'[v], job[v])

(* What a request at rest may hold: nothing, the strict switch it will set,*)
(* a report to save, or a resync to come.                                  *)
LEMMA RestingJobs ==
    /\ Idle \in Jobs /\ Idle.pc = "idle"
    /\ [pc |-> "strict"] \in Jobs
    /\ \A r \in Reports : ResyncJob(r) \in Jobs /\ ResyncJob(r).pc = "resync"
    /\ \A r \in [agent: Agents, fit: BOOLEAN] :
         [pc |-> "report", report |-> r] \in Jobs /\ r \in Reports
    /\ NoReport \in Reports
  BY DEF Jobs, Idle, ResyncJob, Reports

(* A step that jumps to one of them leaves the request at rest.            *)
LEMMA GotoRests ==
    ASSUME TypeInv, NEW w \in Workers, NEW x \in Jobs, x.pc \in Resting, Goto(w, x)
    PROVE  Rests(w)
  BY GotoMoves DEF Rests, Moves

(* The key requests that leave nothing in flight but a resync to come.      *)
LEMMA KeyRests ==
    ASSUME TypeInv, NEW w \in Workers
    PROVE  /\ ResyncEnd(w) => Rests(w)
           /\ ReportGuardStatus(w) => Rests(w)
           /\ \A on \in BOOLEAN : SetStrict(w, on) => Rests(w)
           /\ StrictCheck(w) => Rests(w)
           /\ \A a \in Agents : ConsoleKeyVerb(w, a) => Rests(w)
           /\ \A a \in Agents, fit, approval \in BOOLEAN : ReportKey(w, a, fit, approval) => Rests(w)
<1>1. ASSUME ResyncEnd(w) PROVE Rests(w)
  <2>1. job[w] \in RenderJobs
    BY <1>1, JobShape DEF ResyncEnd, TypeInv
  <2>2. job[w].report # NoReport => job[w].report \in [agent: Agents, fit: BOOLEAN]
    BY <2>1 DEF RenderJobs, Reports
  <2> DEFINE x == IF job[w].report = NoReport THEN Idle ELSE [pc |-> "report", report |-> job[w].report]
  <2>3. x \in Jobs /\ x.pc \in Resting
    BY <2>2, RestingJobs DEF Resting
  <2> QED
    BY <1>1, <2>3, GotoRests DEF ResyncEnd
<1>2. ASSUME ReportGuardStatus(w) PROVE Rests(w)
  BY <1>2, RestingJobs, GotoRests DEF ReportGuardStatus, Resting
<1>3. ASSUME NEW on \in BOOLEAN, SetStrict(w, on) PROVE Rests(w)
  BY <1>3, RestingJobs, GotoRests DEF SetStrict, Resting
<1>4. ASSUME StrictCheck(w) PROVE Rests(w)
  BY <1>4, RestingJobs, GotoRests DEF StrictCheck, Resting
<1>5. ASSUME NEW a \in Agents, ConsoleKeyVerb(w, a) PROVE Rests(w)
  <2>1. CASE ApproveDeviceKey(w, a)
    BY <2>1, RestingJobs, GotoRests DEF ApproveDeviceKey, Resting
  <2>2. CASE RejectConflict(w, a)
    BY <2>2 DEF RejectConflict, Arrives, Rests, Resting, Same, TypeInv
  <2>3. CASE RevokeDeviceKey(w, a)
    BY <2>3, RestingJobs, GotoRests DEF RevokeDeviceKey, Resting
  <2> QED
    BY <1>5, <2>1, <2>2, <2>3 DEF ConsoleKeyVerb
<1>6. ASSUME NEW a \in Agents, NEW fit \in BOOLEAN, NEW approval \in BOOLEAN,
             ReportKey(w, a, fit, approval)
      PROVE  Rests(w)
  <2> DEFINE r == [agent |-> a, fit |-> fit]
             x == IF pub[a].status = "none" /\ ~approval THEN ResyncJob(r)
                  ELSE [pc |-> "report", report |-> r]
  <2>1. r \in [agent: Agents, fit: BOOLEAN]
    OBVIOUS
  <2>2. x \in Jobs /\ x.pc \in Resting
    BY <2>1, RestingJobs DEF Resting
  <2>3. Goto(w, x)
    BY <1>6 DEF ReportKey
  <2> QED
    BY <2>2, <2>3, GotoRests
<1> QED
  BY <1>1, <1>2, <1>3, <1>4, <1>5, <1>6

(* The enrolment steps after which no enrolment is left.                    *)
LEMMA EnrolRests ==
    ASSUME TypeInv, NEW w \in Workers
    PROVE  /\ Fail(w) => Rests(w)
           /\ EnrollDone(w) => Rests(w)
  BY RestingJobs, GotoRests DEF Fail, EnrollDone, Resting

(* A resync's reads, and its write of one member.                           *)
LEMMA ResyncMoves ==
    ASSUME TypeInv, NEW w \in Workers
    PROVE  /\ ResyncRead(w) =>
                Moves(w, [pc |-> "render", report |-> job[w].report, strict |-> strict,
                          members |-> Enrolled, todo |-> Enrolled, seen |-> bundle,
                          keys |-> ActiveKeys(Enrolled, pub)])
           /\ \A d \in Agents : ResyncWrite(w, d) =>
                Moves(w, [job[w] EXCEPT !.todo = @ \ {d}]) /\ job[w] \in RenderJobs
<1>1. ASSUME ResyncRead(w)
      PROVE  [pc |-> "render", report |-> job[w].report, strict |-> strict, members |-> Enrolled,
              todo |-> Enrolled, seen |-> bundle, keys |-> ActiveKeys(Enrolled, pub)] \in Jobs
  <2>1. job[w].report \in Reports
    BY <1>1, JobShape DEF ResyncRead, TypeInv
  <2>2. ActiveKeys(Enrolled, pub) \in [Agents -> Pub]
    BY NoneTyped DEF TypeInv, TypeOK, KeysTypeOK, ActiveKeys, Row
  <2>3. Enrolled \in SUBSET Agents
    BY DEF Enrolled, TypeInv, TypeOK, KeysTypeOK
  <2> QED
    BY <2>1, <2>2, <2>3 DEF RenderJobs, Jobs, TypeInv, TypeOK, KeysTypeOK
<1>2. ASSUME NEW d \in Agents, ResyncWrite(w, d)
      PROVE  Moves(w, [job[w] EXCEPT !.todo = @ \ {d}]) /\ job[w] \in RenderJobs
  <2>1. job[w] \in RenderJobs
    BY <1>2, JobShape DEF ResyncWrite, TypeInv
  <2> DEFINE x == [job[w] EXCEPT !.todo = job[w].todo \ {d}]
  <2>2. x \in Jobs
    BY <2>1 DEF RenderJobs, Jobs
  <2>3. CASE Goto(w, x)
    BY <2>1, <2>2, <2>3, GotoMoves
  <2>4. CASE job' = Outdated([job EXCEPT ![w] = x], d)
    BY <2>1, <2>2, <2>4, OutdatedMoves
  <2> QED
    BY <1>2, <2>3, <2>4 DEF ResyncWrite
<1> QED
  BY <1>1, <1>2, GotoMoves DEF ResyncRead

(* Keys are numbered from one.                                              *)
LEMMA MintTyped ==
    ASSUME TypeInv, NEW a \in Agents
    PROVE  /\ minted[a] \in Nat
           /\ minted[a] < MaxKey => minted[a] + 1 \in 1..MaxKey /\ minted[a] + 1 \in Key
<1>1. minted[a] \in 0..MaxKey /\ MaxKey \in Nat
  BY KeysAssumption DEF TypeInv, TypeOK, Key
<1> QED
  BY <1>1 DEF Key

(* The enrolment steps up to the renderings.                                *)
LEMMA EnrolMoves ==
    ASSUME TypeInv, NEW w \in Workers
    PROVE  /\ \A a \in Agents, origin, public \in Urls, console \in BOOLEAN :
                EnrollAgent(w, a, origin, public, console) =>
                  Moves(w, [pc |-> "find", agent |-> a, origin |-> origin, public |-> public,
                            console |-> console, own |-> bundle[a], key |-> None])
           /\ job[w].pc = "find" =>
                /\ Goto(w, [job[w] EXCEPT !.pc = "mint", !.console = FALSE]) =>
                     Moves(w, [job[w] EXCEPT !.pc = "mint", !.console = FALSE])
                /\ Goto(w, [job[w] EXCEPT !.pc = "card", !.console = FALSE, !.key = job[w].own.id]) =>
                     Moves(w, [job[w] EXCEPT !.pc = "card", !.console = FALSE, !.key = job[w].own.id])
           /\ MintMeshKey(w) =>
                Moves(w, [job[w] EXCEPT !.pc = "card", !.key = minted[job[w].agent] + 1])
           /\ RegisterAgentRow(w) => Moves(w, [job[w] EXCEPT !.pc = "peers"])
<1>1. ASSUME NEW a \in Agents, NEW origin \in Urls, NEW public \in Urls,
             NEW console \in BOOLEAN, EnrollAgent(w, a, origin, public, console)
      PROVE  Moves(w, [pc |-> "find", agent |-> a, origin |-> origin, public |-> public,
                       console |-> console, own |-> bundle[a], key |-> None])
  <2>1. bundle[a] \in A2a
    BY DEF TypeInv, TypeOK, KeysTypeOK
  <2> DEFINE x == [pc |-> "find", agent |-> a, origin |-> origin, public |-> public,
                   console |-> console, own |-> bundle[a], key |-> None]
  <2>2. x \in Jobs
    BY <2>1, NoneTyped DEF Jobs, EnrollJobs
  <2> QED
    BY <1>1, <2>2, GotoMoves DEF EnrollAgent
<1>2. ASSUME job[w].pc \in Enrolling
      PROVE  /\ job[w] \in EnrollJobs
             /\ [job[w] EXCEPT !.pc = "mint", !.console = FALSE] \in Jobs
             /\ \A k \in Key : [job[w] EXCEPT !.pc = "card", !.console = FALSE, !.key = k] \in Jobs
             /\ \A k \in Key : [job[w] EXCEPT !.pc = "card", !.key = k] \in Jobs
             /\ [job[w] EXCEPT !.pc = "peers"] \in Jobs
  <2> PICK r : r = job[w]
    OBVIOUS
  <2>1. r \in EnrollJobs
    BY <1>2, JobShape DEF TypeInv
  <2>2. [r EXCEPT !.pc = "mint", !.console = FALSE] \in EnrollJobs
    BY <2>1 DEF EnrollJobs
  <2>3. \A k \in Key : [r EXCEPT !.pc = "card", !.console = FALSE, !.key = k] \in EnrollJobs
    BY <2>1 DEF EnrollJobs
  <2>4. \A k \in Key : [r EXCEPT !.pc = "card", !.key = k] \in EnrollJobs
    BY <2>1 DEF EnrollJobs
  <2>5. [r EXCEPT !.pc = "peers"] \in EnrollJobs
    BY <2>1 DEF EnrollJobs
  <2> QED
    BY <2>1, <2>2, <2>3, <2>4, <2>5 DEF Jobs
<1>3. job[w].pc = "find" => job[w].own.id \in Key
  BY <1>2 DEF Enrolling, EnrollJobs, A2a
<1>4. MintMeshKey(w) => minted[job[w].agent] + 1 \in Key
  <2> SUFFICES ASSUME MintMeshKey(w) PROVE minted[job[w].agent] + 1 \in Key
    OBVIOUS
  <2>1. job[w].agent \in Agents
    BY <1>2 DEF MintMeshKey, Enrolling, EnrollJobs
  <2> QED
    BY <2>1, MintTyped DEF MintMeshKey, CanMint
<1> QED
  BY <1>1, <1>2, <1>3, <1>4, GotoMoves DEF MintMeshKey, RegisterAgentRow, Enrolling

(* The rendering of both sides, and the writes.                             *)
NextFile(w, p) ==
    IF p = job[w].agent
    THEN TargetA2a(job[w].own, job[w].key, job[w].public, Enrolled \ {job[w].agent}, bundle, rot)
    ELSE PeerA2a(bundle[p], job[w].agent, job[w].key, rot)

(* resolveMeshPeers renders every file at once from what it reads; each of *)
(* the merges that follow writes one of those files.                       *)
LEMMA MergeMoves ==
    ASSUME TypeInv, NEW w \in Workers
    PROVE  /\ ResolveMeshPeers(w) =>
                /\ job[w] \in EnrollJobs
                /\ Moves(w, [pc |-> "own", agent |-> job[w].agent,
                             next |-> [p \in Agents |-> NextFile(w, p)],
                             peers |-> Enrolled \ {job[w].agent}])
           /\ MergeOwn(w) => job[w] \in MergeJobs /\ Moves(w, [job[w] EXCEPT !.pc = "merge"])
           /\ \A p \in Agents : MergePeer(w, p) =>
                job[w] \in MergeJobs /\ Moves(w, [job[w] EXCEPT !.peers = @ \ {p}])
<1>1. ASSUME ResolveMeshPeers(w)
      PROVE  /\ job[w] \in EnrollJobs
             /\ Moves(w, [pc |-> "own", agent |-> job[w].agent,
                          next |-> [p \in Agents |-> NextFile(w, p)],
                          peers |-> Enrolled \ {job[w].agent}])
  <2>1. job[w] \in EnrollJobs
    BY <1>1, JobShape DEF ResolveMeshPeers, Enrolling, TypeInv
  <2>2. /\ job[w].own \in A2a /\ job[w].key \in Key /\ job[w].public \in Urls
        /\ job[w].agent \in Agents
    BY <2>1 DEF EnrollJobs
  <2>3. Enrolled \ {job[w].agent} \in SUBSET Agents
    BY DEF Enrolled, TypeInv, TypeOK, KeysTypeOK
  <2>4. bundle \in [Agents -> A2a] /\ rot \in [Agents -> Rotations]
    BY DEF TypeInv, TypeOK, KeysTypeOK
  <2>5. \A p \in Agents : NextFile(w, p) \in A2a
    BY <2>2, <2>3, <2>4, TargetFields, PeerFields DEF NextFile
  <2> DEFINE x == [pc |-> "own", agent |-> job[w].agent,
                   next |-> [p \in Agents |-> NextFile(w, p)], peers |-> Enrolled \ {job[w].agent}]
  <2>6. x \in Jobs
    BY <2>2, <2>3, <2>5 DEF MergeJobs, Jobs
  <2>7. Goto(w, x)
    BY <1>1 DEF ResolveMeshPeers, NextFile
  <2> QED
    BY <2>1, <2>6, <2>7, GotoMoves
<1>2. ASSUME job[w].pc \in Merging
      PROVE  /\ job[w] \in MergeJobs
             /\ [job[w] EXCEPT !.pc = "merge"] \in Jobs
             /\ \A p \in Agents : [job[w] EXCEPT !.peers = @ \ {p}] \in Jobs
             /\ job[w].agent \in Agents
  <2>1. job[w] \in MergeJobs
    BY <1>2, JobShape DEF TypeInv
  <2> QED
    BY <2>1 DEF MergeJobs, Jobs
<1> QED
  BY <1>1, <1>2, OutdatedMoves DEF MergeOwn, MergePeer, Merge, Merging

-----------------------------------------------------------------------------
(* Types.                                                                   *)

(* A row of a2a_public_keys and what the table's constraints say of it.     *)
RowOK(row) ==
    /\ row \in Row
    /\ row.conflict # None => row.status # "none" /\ row.conflict # row.key
    /\ row.status # "none" => row.key # None

(* Every way of the registry to change a row of a2a_public_keys keeps it   *)
(* well formed: a conflict only beside a registered key it differs from.   *)
LEMMA RowKeeps ==
    ASSUME NEW row, RowOK(row)
    PROVE  /\ \A fit \in BOOLEAN : RowOK([row EXCEPT !.fit = fit])
           /\ RowOK([row EXCEPT !.conflict = None])
           /\ RowOK(NoRow)
           /\ row.status # "none" => RowOK(Approved(row)) /\ Approved(row).key \in 1..PubKeys
           /\ \A k \in 1..PubKeys, approval \in BOOLEAN :
                RowOK(RegisterDeviceKey(row, k, approval))
<1>1. \A fit \in BOOLEAN : RowOK([row EXCEPT !.fit = fit])
  BY DEF RowOK, Row
<1>2. RowOK([row EXCEPT !.conflict = None])
  BY NoneTyped DEF RowOK, Row
<1>3. RowOK(NoRow)
  BY NoneTyped DEF RowOK, Row, NoRow
<1>4. ASSUME row.status # "none"
      PROVE  RowOK(Approved(row)) /\ Approved(row).key \in 1..PubKeys
  <2> DEFINE k == IF row.conflict # None THEN row.conflict ELSE row.key
  <2>1. k \in Pub /\ k # None
    BY <1>4 DEF RowOK, Row
  <2>2. Approved(row) = [row EXCEPT !.key = k, !.status = "active", !.conflict = None]
    BY DEF Approved
  <2>3. k \in 1..PubKeys
    BY <2>1, KeysAssumption DEF Pub, None
  <2> HIDE DEF k
  <2> QED
    BY <2>1, <2>2, <2>3, NoneTyped DEF RowOK, Row
<1>5. ASSUME NEW k \in 1..PubKeys, NEW approval \in BOOLEAN
      PROVE  RowOK(RegisterDeviceKey(row, k, approval))
  <2>1. k \in Pub /\ k # None
    BY KeysAssumption DEF Pub, None
  <2>2. CASE row.status = "none"
    BY <2>1, <2>2, NoneTyped DEF RegisterDeviceKey, RowOK, Row, NoRow
  <2>3. CASE row.status # "none" /\ row.key = k
    BY <2>3 DEF RegisterDeviceKey
  <2>4. CASE row.status # "none" /\ row.key # k
    BY <2>1, <2>4 DEF RegisterDeviceKey, RowOK, Row
  <2> QED
    BY <2>2, <2>3, <2>4
<1> QED
  BY <1>1, <1>2, <1>3, <1>4, <1>5

(* The tables a step may write, apart from the requests' states.            *)
TablesOK ==
    /\ bundle \in [Agents -> A2a]
    /\ pub \in [Agents -> Row]
    /\ \A a \in Agents : RowOK(pub[a])

(* The type invariant, regrouped by who writes the tables.                 *)
LEMMA TypeParts ==
    TypeInv <=> /\ TablesOK
                /\ active \subseteq Agents
                /\ devKey \in [Agents -> 1..PubKeys]
                /\ strict \in BOOLEAN
                /\ budget \in Nat
                /\ clean \in Workers \union {"settled", "dirty"}
                /\ granted \in [Agents -> SUBSET (1..PubKeys)]
                /\ minted \in [Agents -> Key]
                /\ base \in [Agents -> Key]
                /\ versions \in [Agents -> SUBSET (1..MaxKey)]
                /\ rot \in [Agents -> Rotations]
                /\ job \in [Workers -> Jobs]
  BY DEF TypeInv, TypeOK, KeysTypeOK, TablesOK, RowOK

(* The same of the state after a step.                                      *)
LEMMA TypePartsNext ==
    ASSUME TablesOK',
           (active \subseteq Agents)',
           (devKey \in [Agents -> 1..PubKeys])',
           (strict \in BOOLEAN)',
           (budget \in Nat)',
           (clean \in Workers \union {"settled", "dirty"})',
           (granted \in [Agents -> SUBSET (1..PubKeys)])',
           (minted \in [Agents -> Key])',
           (base \in [Agents -> Key])',
           (versions \in [Agents -> SUBSET (1..MaxKey)])',
           (rot \in [Agents -> Rotations])',
           (job \in [Workers -> Jobs])'
    PROVE  TypeInv'
  BY DEF TypeInv, TypeOK, KeysTypeOK, TablesOK, RowOK

(* rotateBundle, of a well-formed a2a.json.                                 *)
LEMMA RotateTyped ==
    ASSUME TypeInv, NEW d \in Agents, NEW x \in A2a, RotateBundle(d, x)
    PROVE  /\ TablesOK'
           /\ bundle'[d] = x
           /\ \A b \in Agents \ {d} : bundle'[b] = bundle[b]
           /\ \A b \in Agents : pub'[b].key = pub[b].key /\ pub'[b].status = pub[b].status
<1>1. TablesOK
  BY TypeParts
<1>2. \A b \in Agents : RowOK([pub[b] EXCEPT !.fit = FALSE])
  BY <1>1, RowKeeps DEF TablesOK
<1>3. \A b \in Agents : pub'[b] = IF b = d THEN [pub[b] EXCEPT !.fit = FALSE] ELSE pub[b]
  BY <1>1 DEF RotateBundle, TablesOK
<1>4. \A b \in Agents : [pub[b] EXCEPT !.fit = FALSE] \in Row
  BY <1>2 DEF RowOK
<1>5. pub' \in [Agents -> Row]
  BY <1>1, <1>4 DEF RotateBundle, TablesOK
<1>6. \A b \in Agents : pub'[b].key = pub[b].key /\ pub'[b].status = pub[b].status
  BY <1>1, <1>3 DEF TablesOK, Row
<1>7. bundle' \in [Agents -> A2a] /\ bundle'[d] = x /\ \A b \in Agents \ {d} : bundle'[b] = bundle[b]
  BY <1>1 DEF RotateBundle, TablesOK
<1>8. \A b \in Agents : RowOK(pub'[b])
  BY <1>1, <1>2, <1>3 DEF TablesOK
<1> QED
  BY <1>5, <1>6, <1>7, <1>8 DEF TablesOK

(* What an enrolment renders from what it has read.                         *)
LEMMA NextFields ==
    ASSUME TypeInv, NEW w \in Workers, job[w] \in EnrollJobs,
           NEW a, a = job[w].agent, NEW key, key = job[w].key
    PROVE  /\ a \in Agents /\ key \in Key
           /\ NextFile(w, a).id = key
           /\ \A p \in Enrolled \ {a} : p \in NextFile(w, a).trusted
           /\ NextFile(w, a).pk = job[w].own.pk
           /\ \A p \in Enrolled \ {a} :
                /\ NextFile(w, a).tok[p] = PeerToken(p, bundle, rot)
                /\ NextFile(w, a).ov[p] = PeerOverlap(p, job[w].own.ov[p], rot)
           /\ \A p \in Agents \ {a} :
                /\ NextFile(w, p).id = bundle[p].id
                /\ \A c \in Agents : c \in NextFile(w, p).trusted <=> c \in bundle[p].trusted \/ c = a
                /\ NextFile(w, p).pk = bundle[p].pk
                /\ NextFile(w, p).tok[a] = IF rot[a].stage # "none" THEN rot[a].new ELSE key
                /\ rot[a].stage # "none" => NextFile(w, p).ov[a] = rot[a].old
                /\ \A c \in Agents \ {a} : /\ NextFile(w, p).tok[c] = bundle[p].tok[c]
                                           /\ NextFile(w, p).ov[c] = bundle[p].ov[c]
<1>1. /\ a \in Agents /\ key \in Key
      /\ job[w].own \in A2a /\ job[w].public \in Urls
  BY DEF EnrollJobs
<1>2. bundle \in [Agents -> A2a] /\ rot \in [Agents -> Rotations]
  BY TypeParts DEF TablesOK
<1>3. Enrolled \ {a} \in SUBSET Agents
  BY TypeParts DEF Enrolled
<1>4. /\ NextFile(w, a) = TargetA2a(job[w].own, key, job[w].public, Enrolled \ {a}, bundle, rot)
      /\ \A p \in Agents \ {a} : NextFile(w, p) = PeerA2a(bundle[p], a, key, rot)
  BY DEF NextFile
<1>5. /\ NextFile(w, a).id = key
      /\ \A p \in Enrolled \ {a} : p \in NextFile(w, a).trusted
      /\ NextFile(w, a).pk = job[w].own.pk
      /\ \A p \in Enrolled \ {a} :
           /\ NextFile(w, a).tok[p] = PeerToken(p, bundle, rot)
           /\ NextFile(w, a).ov[p] = PeerOverlap(p, job[w].own.ov[p], rot)
  <2>1. PICK peers \in SUBSET Agents : peers = Enrolled \ {a}
    BY <1>3
  <2>2. PICK own \in A2a, host \in Urls : own = job[w].own /\ host = job[w].public
    BY <1>1
  <2> DEFINE t == TargetA2a(own, key, host, peers, bundle, rot)
  <2>3. /\ t.id = key /\ t.pk = own.pk
        /\ \A p \in peers : p \in t.trusted
        /\ \A p \in peers : /\ t.tok[p] = PeerToken(p, bundle, rot)
                            /\ t.ov[p] = PeerOverlap(p, own.ov[p], rot)
    <3>1. t.id = key /\ t.pk = own.pk
      BY <1>1, <1>2, TargetFields
    <3>2. \A p \in peers : p \in t.trusted
      BY <1>1, <1>2, TargetTrusts
    <3>3. /\ t.tok = [p \in Agents |-> IF p \in peers THEN PeerToken(p, bundle, rot) ELSE own.tok[p]]
          /\ t.ov = [p \in Agents |-> IF p \in peers THEN PeerOverlap(p, own.ov[p], rot) ELSE own.ov[p]]
      BY <1>1, <1>2, TargetTokens
    <3> HIDE DEF t
    <3> QED
      BY <3>1, <3>2, <3>3
  <2>4. NextFile(w, a) = t
    BY <1>4, <2>1, <2>2
  <2> HIDE DEF t
  <2> QED
    BY <2>1, <2>2, <2>3, <2>4
<1>6. ASSUME NEW p \in Agents \ {a}
      PROVE  /\ NextFile(w, p).id = bundle[p].id
             /\ \A c \in Agents : c \in NextFile(w, p).trusted <=> c \in bundle[p].trusted \/ c = a
             /\ NextFile(w, p).pk = bundle[p].pk
             /\ NextFile(w, p).tok[a] = IF rot[a].stage # "none" THEN rot[a].new ELSE key
             /\ rot[a].stage # "none" => NextFile(w, p).ov[a] = rot[a].old
             /\ \A c \in Agents \ {a} : /\ NextFile(w, p).tok[c] = bundle[p].tok[c]
                                        /\ NextFile(w, p).ov[c] = bundle[p].ov[c]
  BY <1>1, <1>2, <1>4, PeerFields
<1> QED
  BY <1>1, <1>5, <1>6

(* One row is written.                                                      *)
LEMMA RowTyped ==
    ASSUME TypeInv, NEW a \in Agents, NEW row, RowOK(row), pub' = [pub EXCEPT ![a] = row],
           UNCHANGED bundle
    PROVE  TablesOK'
<1>1. TablesOK /\ row \in Row
  BY TypeParts DEF RowOK
<1>2. pub' \in [Agents -> Row] /\ \A b \in Agents : pub'[b] = IF b = a THEN row ELSE pub[b]
  BY <1>1 DEF TablesOK
<1> QED
  BY <1>1, <1>2 DEF TablesOK

(* The reports of several devices are out of date.                          *)
LEMMA UnreportedTyped ==
    ASSUME TypeInv, NEW S, pub' = Unreported(S), bundle' \in [Agents -> A2a]
    PROVE  /\ TablesOK'
           /\ \A b \in Agents : pub'[b].key = pub[b].key /\ pub'[b].status = pub[b].status
<1>1. TablesOK
  BY TypeParts
<1>2. \A b \in Agents : RowOK([pub[b] EXCEPT !.fit = FALSE])
  BY <1>1, RowKeeps DEF TablesOK
<1>3. \A b \in Agents : pub'[b] = IF b \in S THEN [pub[b] EXCEPT !.fit = FALSE] ELSE pub[b]
  BY DEF Unreported
<1>4. \A b \in Agents : RowOK(pub'[b])
  BY <1>1, <1>2, <1>3 DEF TablesOK
<1>5. pub' \in [Agents -> Row]
  BY <1>4 DEF Unreported, RowOK
<1>6. \A b \in Agents : pub'[b].key = pub[b].key /\ pub'[b].status = pub[b].status
  BY <1>1, <1>3 DEF TablesOK, Row
<1> QED
  BY <1>4, <1>5, <1>6 DEF TablesOK

(* The key registry's steps keep the types.                                 *)
LEMMA KeyTyped ==
    ASSUME TypeInv, NEW w \in Workers, KeyStep(w) \/ KeyRequest(w), UNCHANGED <<gateway, rot>>
    PROVE  TypeInv'
<1>1. /\ minted' \in [Agents -> Key] /\ base' \in [Agents -> Key]
      /\ versions' \in [Agents -> SUBSET (1..MaxKey)] /\ rot' \in [Agents -> Rotations]
  BY TypeParts, TypePartsNext DEF gateway
<1>2. \A a \in Agents : RowOK(pub[a]) /\ pub[a].status \in {"none", "pending", "active"}
  BY TypeParts, TypePartsNext DEF TablesOK, Row
<1>3. budget > 0 => budget - 1 \in Nat
  BY TypeParts
<1>4. CASE ResyncRead(w)
  <2>1. job' \in [Workers -> Jobs]
    BY <1>4, ResyncMoves DEF Moves
  <2> QED
    BY <1>1, <1>4, <2>1, TypeParts, TypePartsNext DEF ResyncRead, TablesOK
<1>5. ASSUME NEW d \in Agents, ResyncWrite(w, d) PROVE TypeInv'
  <2>1. job' \in [Workers -> Jobs] /\ job[w] \in RenderJobs
    BY <1>5, ResyncMoves DEF Moves
  <2>2. Rendered(d, job[w]) \in A2a
    BY <2>1, RenderedFields
  <2>3. TablesOK' /\ clean' \in Workers \union {"settled", "dirty"}
    <3>1. CASE UNCHANGED <<bundle, pub, clean>>
      BY <3>1, TypeParts, TypePartsNext DEF TablesOK
    <3>2. CASE RotateBundle(d, Rendered(d, job[w])) /\ Disturbs(w)
      BY <3>2, <2>2, RotateTyped DEF Disturbs
    <3> QED
      BY <1>5, <3>1, <3>2 DEF ResyncWrite
  <2> QED
    BY <1>1, <1>5, <2>1, <2>3, TypeParts, TypePartsNext DEF ResyncWrite
<1>6. CASE ResyncEnd(w)
  <2>1. job' \in [Workers -> Jobs]
    BY <1>6, KeyRests DEF Rests
  <2> QED
    BY <1>1, <1>6, <2>1, TypeParts, TypePartsNext DEF ResyncEnd, TablesOK
<1>7. CASE ReportGuardStatus(w)
  <2>1. job' \in [Workers -> Jobs]
    BY <1>7, KeyRests DEF Rests
  <2>2. job[w].report \in [agent: Agents, fit: BOOLEAN]
    BY <1>7, JobShape DEF ReportGuardStatus, TypeInv
  <2>3. PICK a \in Agents, fit \in BOOLEAN : job[w].report = [agent |-> a, fit |-> fit]
    BY <2>2
  <2>4. pub' = pub \/ pub' = [pub EXCEPT ![a] = [pub[a] EXCEPT !.fit = fit]]
    BY <1>7, <2>3 DEF ReportGuardStatus
  <2>5. TablesOK'
    <3>1. CASE pub' = pub
      BY <1>7, <3>1, TypeParts, TypePartsNext DEF TablesOK, ReportGuardStatus
    <3>2. CASE pub' = [pub EXCEPT ![a] = [pub[a] EXCEPT !.fit = fit]]
      <4>1. RowOK([pub[a] EXCEPT !.fit = fit])
        BY <1>2, RowKeeps
      <4> QED
        BY <1>7, <3>2, <4>1, RowTyped DEF ReportGuardStatus
    <3> QED
      BY <2>4, <3>1, <3>2
  <2> QED
    BY <1>1, <1>7, <2>1, <2>5, TypeParts, TypePartsNext DEF ReportGuardStatus
<1>8. ASSUME NEW on \in BOOLEAN, SetStrict(w, on) PROVE TypeInv'
  <2>1. job' \in [Workers -> Jobs]
    BY <1>8, KeyRests DEF Rests
  <2>2. budget' \in Nat
    BY <1>3, <1>8, TypeParts, TypePartsNext DEF SetStrict, Arrives, Spend
  <2> QED
    BY <1>1, <1>8, <2>1, <2>2, TypeParts, TypePartsNext DEF SetStrict, TablesOK
<1>9. CASE StrictCheck(w)
  <2>1. job' \in [Workers -> Jobs]
    BY <1>9, KeyRests DEF Rests
  <2> QED
    BY <1>1, <1>3, <1>9, <2>1, TypeParts, TypePartsNext DEF StrictCheck, TablesOK, Arrives, Spend
<1>10. ASSUME NEW a \in Agents, ConsoleKeyVerb(w, a) PROVE TypeInv'
  <2>1. job' \in [Workers -> Jobs]
    BY <1>10, KeyRests DEF Rests
  <2>2. CASE ApproveDeviceKey(w, a)
    <3>1. RowOK(Approved(pub[a])) /\ Approved(pub[a]).key \in 1..PubKeys
      BY <1>2, <2>2, RowKeeps DEF ApproveDeviceKey
    <3>2. TablesOK'
      BY <2>2, <3>1, RowTyped DEF ApproveDeviceKey
    <3>3. granted' \in [Agents -> SUBSET (1..PubKeys)]
      BY <2>2, <3>1, TypeParts, TypePartsNext DEF ApproveDeviceKey
    <3> QED
      BY <1>1, <1>3, <2>1, <2>2, <3>2, <3>3, TypeParts, TypePartsNext DEF ApproveDeviceKey, Arrives, Spend
  <2>3. CASE RejectConflict(w, a)
    <3>1. TablesOK'
      BY <1>2, <2>3, RowKeeps, RowTyped DEF RejectConflict
    <3> QED
      BY <1>1, <1>3, <2>1, <2>3, <3>1, TypeParts, TypePartsNext DEF RejectConflict, Arrives, Spend
  <2>4. CASE RevokeDeviceKey(w, a)
    <3>1. TablesOK'
      BY <1>2, <2>4, RowKeeps, RowTyped DEF RevokeDeviceKey
    <3> QED
      BY <1>1, <1>3, <2>1, <2>4, <3>1, TypeParts, TypePartsNext DEF RevokeDeviceKey, Arrives, Spend
  <2> QED
    BY <1>10, <2>2, <2>3, <2>4 DEF ConsoleKeyVerb
<1>11. ASSUME NEW a \in Agents, NEW fit \in BOOLEAN, NEW approval \in BOOLEAN,
              ReportKey(w, a, fit, approval)
       PROVE  TypeInv'
  <2>1. job' \in [Workers -> Jobs]
    BY <1>11, KeyRests DEF Rests
  <2>2. devKey[a] \in 1..PubKeys
    BY TypeParts
  <2>3. TablesOK'
    BY <1>2, <1>11, <2>2, RowKeeps, RowTyped DEF ReportKey
  <2>4. /\ granted' \in [Agents -> SUBSET (1..PubKeys)]
        /\ clean' \in Workers \union {"settled", "dirty"}
    BY <1>11, <2>2, TypeParts, TypePartsNext DEF ReportKey
  <2> QED
    BY <1>1, <1>3, <1>11, <2>1, <2>3, <2>4, TypeParts, TypePartsNext DEF ReportKey, Arrives, Spend
<1> QED
  BY <1>4, <1>5, <1>6, <1>7, <1>8, <1>9, <1>10, <1>11
     DEF KeyStep, KeyRequest, ConsoleStrict

(* The enrolment's steps keep the types.                                    *)
LEMMA EnrolTyped ==
    ASSUME TypeInv, NEW w \in Workers, EnrollStep(w)
    PROVE  TypeInv'
<1>1. CASE FindKeyRow(w)
  <2>1. job[w].pc = "find"
    BY <1>1 DEF FindKeyRow
  <2>2. job' \in [Workers -> Jobs]
    BY <1>1, <2>1, EnrolMoves, EnrolRests DEF FindKeyRow, Moves, Rests
  <2> QED
    BY <1>1, <2>2, TypeParts, TypePartsNext DEF FindKeyRow, TablesOK, gateway
<1>2. ASSUME NEW a \in Agents, CanMint(a), Mints(a)
      PROVE  minted' \in [Agents -> Key] /\ base' \in [Agents -> Key]
  BY <1>2, MintTyped, TypeParts DEF CanMint, Mints
<1>3. CASE MintMeshKey(w)
  <2>1. job[w].agent \in Agents
    BY <1>3, JobShape DEF MintMeshKey, Enrolling, EnrollJobs, TypeInv
  <2>2. job' \in [Workers -> Jobs]
    BY <1>3, EnrolMoves DEF Moves
  <2> QED
    BY <1>2, <1>3, <2>1, <2>2, TypeParts, TypePartsNext DEF MintMeshKey, TablesOK
<1>4. CASE RegisterAgentRow(w)
  <2>1. job' \in [Workers -> Jobs]
    BY <1>4, EnrolMoves DEF Moves
  <2> QED
    BY <1>4, <2>1, TypeParts, TypePartsNext DEF RegisterAgentRow, TablesOK
<1>5. CASE GatewayCallFails(w)
  <2>1. job[w].agent \in Agents
    BY <1>5, JobShape DEF GatewayCallFails, Enrolling, EnrollJobs, TypeInv
  <2>2. job' \in [Workers -> Jobs]
    BY <1>5, EnrolRests DEF GatewayCallFails, Rests
  <2>3. minted' \in [Agents -> Key] /\ base' \in [Agents -> Key]
    BY <1>2, <1>5, <2>1, TypeParts DEF GatewayCallFails
  <2> QED
    BY <1>5, <2>2, <2>3, TypeParts, TypePartsNext DEF GatewayCallFails, TablesOK
<1>6. CASE ResolveMeshPeers(w)
  <2>1. job' \in [Workers -> Jobs]
    BY <1>6, MergeMoves DEF Moves
  <2> QED
    BY <1>6, <2>1, TypeParts, TypePartsNext DEF ResolveMeshPeers, TablesOK, gateway
<1>7. ASSUME NEW b \in Agents, NEW next, Merge(w, b, next), job[w] \in MergeJobs,
             job' \in [Workers -> Jobs]
      PROVE  TypeInv'
  <2>1. job[w].next[b] \in A2a
    BY <1>7 DEF MergeJobs
  <2>2. TablesOK' /\ clean' \in Workers \union {"settled", "dirty"}
    BY <1>7, <2>1, RotateTyped DEF Merge, Disturbs
  <2> QED
    BY <1>7, <2>2, TypeParts, TypePartsNext DEF Merge, meshVars, gateway
<1>8. CASE MergeOwn(w)
  <2>1. job[w] \in MergeJobs /\ job' \in [Workers -> Jobs]
    BY <1>8, MergeMoves DEF Moves
  <2> QED
    BY <1>7, <1>8, <2>1 DEF MergeOwn, MergeJobs
<1>9. ASSUME NEW p \in Agents, MergePeer(w, p) PROVE TypeInv'
  <2>1. job[w] \in MergeJobs /\ job' \in [Workers -> Jobs]
    BY <1>9, MergeMoves DEF Moves
  <2> QED
    BY <1>7, <1>9, <2>1 DEF MergePeer
<1>10. CASE MergeFails(w)
  <2>1. job' \in [Workers -> Jobs]
    BY <1>10, EnrolRests DEF MergeFails, Rests
  <2> QED
    BY <1>10, <2>1, TypeParts, TypePartsNext DEF MergeFails, TablesOK, gateway
<1>11. CASE EnrollDone(w)
  <2>1. job' \in [Workers -> Jobs]
    BY <1>11, EnrolRests DEF Rests
  <2> QED
    BY <1>11, <2>1, TypeParts, TypePartsNext DEF EnrollDone, TablesOK, gateway
<1> QED
  BY <1>1, <1>3, <1>4, <1>5, <1>6, <1>8, <1>9, <1>10, <1>11 DEF EnrollStep

(* An enrolment comes in, from a machine or from the console.               *)
LEMMA EnrollRequest ==
    ASSUME NEW w \in Workers, NEW a \in Agents, NEW origin \in Hosts, NEW public \in Hosts,
           MachineEnroll(w, a, origin, public) \/ ConsoleEnroll(w, a, origin, public)
    PROVE  \E o, u \in Urls, console \in BOOLEAN : EnrollAgent(w, a, o, u, console)
<1>1. CASE MachineEnroll(w, a, origin, public)
  BY <1>1 DEF MachineEnroll, Urls
<1>2. CASE ConsoleEnroll(w, a, origin, public)
  <2> DEFINE o == IF origin = "empty" THEN "own" ELSE origin
             u == IF public = "empty" THEN "own" ELSE public
  <2>1. o \in Urls /\ u \in Urls
    BY DEF Urls
  <2>2. EnrollAgent(w, a, o, u, TRUE)
    BY <1>2 DEF ConsoleEnroll
  <2> HIDE DEF o, u
  <2> QED
    BY <2>1, <2>2
<1> QED
  BY <1>1, <1>2

(* The rest keeps the types: arrivals, the owner, the devices, a crash, and *)
(* the stages of a rotation.                                                *)
LEMMA OwnerTyped ==
    ASSUME TypeInv
    PROVE  /\ \A w \in Workers, a \in Agents, o, u \in Urls, c \in BOOLEAN :
                EnrollAgent(w, a, o, u, c) => TypeInv'
           /\ \A a \in Agents : NewDeviceKey(a) /\ UNCHANGED meshVars => TypeInv'
           /\ Crash => TypeInv'
           /\ \A a \in Agents : RevokeAlias(a) \/ SetStatus(a) => TypeInv'
<1>1. budget > 0 => budget - 1 \in Nat
  BY TypeParts
<1>2. ASSUME NEW w \in Workers, NEW a \in Agents, NEW o \in Urls, NEW u \in Urls,
             NEW c \in BOOLEAN, EnrollAgent(w, a, o, u, c)
      PROVE  TypeInv'
  <2>1. job' \in [Workers -> Jobs]
    BY <1>2, EnrolMoves DEF Moves
  <2> QED
    BY <1>1, <1>2, <2>1, TypeParts, TypePartsNext
       DEF EnrollAgent, Arrives, Spend, TablesOK, gateway
<1>3. ASSUME NEW a \in Agents, NewDeviceKey(a), UNCHANGED meshVars PROVE TypeInv'
  <2>1. devKey' \in [Agents -> 1..PubKeys]
    BY <1>3, TypeParts, KeysAssumption DEF NewDeviceKey
  <2> QED
    BY <1>1, <1>3, <2>1, TypeParts, TypePartsNext
       DEF NewDeviceKey, Spend, TablesOK, meshVars, gateway
<1>4. CASE Crash
  <2>1. job' \in [Workers -> Jobs]
    BY <1>4, RestingJobs DEF Crash
  <2> QED
    BY <1>4, <2>1, TypeParts, TypePartsNext DEF Crash, TablesOK, gateway
<1>5. ASSUME NEW a \in Agents, RevokeAlias(a) PROVE TypeInv'
  <2>1. base' \in [Agents -> Key]
    BY <1>5, NoneTyped, TypeParts DEF RevokeAlias
  <2> QED
    BY <1>1, <1>5, <2>1, TypeParts, TypePartsNext DEF RevokeAlias, Spend, TablesOK
<1>6. ASSUME NEW a \in Agents, SetStatus(a) PROVE TypeInv'
  BY <1>1, <1>6, TypeParts, TypePartsNext DEF SetStatus, Spend, TablesOK, gateway
<1> QED
  BY <1>2, <1>3, <1>4, <1>5, <1>6

(* One entry of peer_tokens, and of the overlap, is set.                    *)
WithPair(s, a, k, o) == [s EXCEPT !.tok[a] = k, !.ov[a] = o]

(* It stays a bundle, and nothing but that entry of the two maps changes.  *)
LEMMA PairFields ==
    ASSUME NEW s \in A2a, NEW a \in Agents, NEW k \in Key, NEW o \in Key
    PROVE  /\ WithPair(s, a, k, o) \in A2a
           /\ WithPair(s, a, k, o).id = s.id
           /\ WithPair(s, a, k, o).trusted = s.trusted
           /\ WithPair(s, a, k, o).pk = s.pk
           /\ WithPair(s, a, k, o).strict = s.strict
           /\ WithPair(s, a, k, o).tok[a] = k
           /\ WithPair(s, a, k, o).ov[a] = o
           /\ \A c \in Agents \ {a} : /\ WithPair(s, a, k, o).tok[c] = s.tok[c]
                                      /\ WithPair(s, a, k, o).ov[c] = s.ov[c]
<1> DEFINE toks == [s.tok EXCEPT ![a] = k]
           ovs == [s.ov EXCEPT ![a] = o]
           x == WithPair(s, a, k, o)
<1>1. x = [s EXCEPT !.tok = toks, !.ov = ovs]
  BY DEF A2a, WithPair
<1>2. /\ toks \in [Agents -> Key] /\ ovs \in [Agents -> Key]
      /\ toks[a] = k /\ ovs[a] = o
      /\ \A c \in Agents \ {a} : toks[c] = s.tok[c] /\ ovs[c] = s.ov[c]
  BY DEF A2a
<1> HIDE DEF toks, ovs
<1>3. /\ x \in A2a /\ x.id = s.id /\ x.trusted = s.trusted /\ x.pk = s.pk
      /\ x.strict = s.strict /\ x.tok = toks /\ x.ov = ovs
  BY <1>1, <1>2 DEF A2a
<1> QED
  BY <1>2, <1>3

(* One entry of the overlap is dropped.                                     *)
WithoutOverlap(s, a) == [s EXCEPT !.ov[a] = None]

(* It stays a bundle, and nothing but that entry of the overlap changes.   *)
LEMMA OverlapFields ==
    ASSUME NEW s \in A2a, NEW a \in Agents
    PROVE  /\ WithoutOverlap(s, a) \in A2a
           /\ WithoutOverlap(s, a).id = s.id
           /\ WithoutOverlap(s, a).trusted = s.trusted
           /\ WithoutOverlap(s, a).pk = s.pk
           /\ WithoutOverlap(s, a).strict = s.strict
           /\ WithoutOverlap(s, a).tok = s.tok
           /\ \A c \in Agents \ {a} : WithoutOverlap(s, a).ov[c] = s.ov[c]
<1> DEFINE ovs == [s.ov EXCEPT ![a] = None]
           x == WithoutOverlap(s, a)
<1>1. x = [s EXCEPT !.ov = ovs]
  BY DEF A2a, WithoutOverlap
<1>2. ovs \in [Agents -> Key] /\ \A c \in Agents \ {a} : ovs[c] = s.ov[c]
  BY NoneTyped DEF A2a
<1> HIDE DEF ovs
<1>3. /\ x \in A2a /\ x.id = s.id /\ x.trusted = s.trusted /\ x.pk = s.pk
      /\ x.strict = s.strict /\ x.tok = s.tok /\ x.ov = ovs
  BY <1>1, <1>2 DEF A2a
<1> QED
  BY <1>2, <1>3

(* Who holds a token or the trust of an agent.                              *)
Refs(a) == {b \in Agents \ {a} : bundle[b].tok[a] # None \/ a \in bundle[b].trusted}

(* What the start of a rotation writes into the bundles.                    *)
LEMMA StartEffect ==
    ASSUME TypeInv, NEW a \in Agents, RotationStart(a)
    PROVE  /\ minted[a] + 1 \in 1..MaxKey /\ minted[a] + 1 \in Key
           /\ bundle' \in [Agents -> A2a]
           /\ \A b \in Agents :
                /\ bundle'[b].id = bundle[b].id
                /\ bundle'[b].trusted = bundle[b].trusted
                /\ bundle'[b].pk = bundle[b].pk
                /\ bundle'[b].strict = bundle[b].strict
                /\ \A c \in Agents \ {a} : /\ bundle'[b].tok[c] = bundle[b].tok[c]
                                           /\ bundle'[b].ov[c] = bundle[b].ov[c]
           /\ \A b \in Refs(a) : /\ bundle'[b].tok[a] = minted[a] + 1
                                 /\ bundle'[b].ov[a] = bundle[a].id
           /\ pub' = Unreported(Refs(a))
<1>a. PICK k : k = minted[a] + 1
  OBVIOUS
<1>b. PICK o : o = bundle[a].id
  OBVIOUS
<1>1. k \in 1..MaxKey /\ k \in Key
  BY <1>a, MintTyped DEF RotationStart
<1>2. \A b \in Agents : bundle[b] \in A2a /\ bundle[b].id \in Key
  BY TypeParts DEF TablesOK, A2a
<1>3. bundle' = [b \in Agents |-> IF b \in Refs(a) THEN WithPair(bundle[b], a, k, o) ELSE bundle[b]]
  BY <1>a, <1>b DEF RotationStart, Refs, WithPair
<1>4. o \in Key
  BY <1>b, <1>2
<1>5. \A b \in Agents : bundle'[b] \in A2a
  BY <1>1, <1>2, <1>3, <1>4, PairFields
<1>6. bundle' \in [Agents -> A2a]
  BY <1>3, <1>5
<1>7. pub' = Unreported(Refs(a))
  BY DEF RotationStart, Refs
<1>8. ASSUME NEW b \in Agents
      PROVE  /\ bundle'[b].id = bundle[b].id
             /\ bundle'[b].trusted = bundle[b].trusted
             /\ bundle'[b].pk = bundle[b].pk
             /\ bundle'[b].strict = bundle[b].strict
             /\ \A c \in Agents \ {a} : /\ bundle'[b].tok[c] = bundle[b].tok[c]
                                        /\ bundle'[b].ov[c] = bundle[b].ov[c]
             /\ b \in Refs(a) => bundle'[b].tok[a] = k /\ bundle'[b].ov[a] = o
  BY <1>1, <1>2, <1>3, <1>4, PairFields
<1> QED
  BY <1>a, <1>b, <1>1, <1>6, <1>7, <1>8 DEF Refs

(* What its completion writes.                                              *)
LEMMA CompleteEffect ==
    ASSUME TypeInv, NEW a \in Agents, RotationComplete(a)
    PROVE  /\ TablesOK'
           /\ \A b \in Agents : pub'[b].key = pub[b].key /\ pub'[b].status = pub[b].status
           /\ \A b \in Agents :
                /\ bundle'[b].id = bundle[b].id
                /\ bundle'[b].trusted = bundle[b].trusted
                /\ bundle'[b].pk = bundle[b].pk
                /\ bundle'[b].strict = bundle[b].strict
                /\ bundle'[b].tok = bundle[b].tok
                /\ \A c \in Agents \ {a} : bundle'[b].ov[c] = bundle[b].ov[c]
<1> PICK S : S = {b \in rot[a].ledger : bundle[b].ov[a] # None}
  OBVIOUS
<1>1. \A b \in Agents : bundle[b] \in A2a
  BY TypeParts DEF TablesOK
<1>2. /\ bundle' = [b \in Agents |-> IF b \in S THEN WithoutOverlap(bundle[b], a) ELSE bundle[b]]
      /\ pub' = Unreported(S)
  BY DEF RotationComplete, WithoutOverlap
<1>3. \A b \in Agents : bundle'[b] \in A2a
  BY <1>1, <1>2, OverlapFields
<1>4. bundle' \in [Agents -> A2a]
  BY <1>2, <1>3
<1>5. ASSUME NEW b \in Agents
      PROVE  /\ bundle'[b].id = bundle[b].id
             /\ bundle'[b].trusted = bundle[b].trusted
             /\ bundle'[b].pk = bundle[b].pk
             /\ bundle'[b].strict = bundle[b].strict
             /\ bundle'[b].tok = bundle[b].tok
             /\ \A c \in Agents \ {a} : bundle'[b].ov[c] = bundle[b].ov[c]
  BY <1>1, <1>2, OverlapFields
<1> QED
  BY <1>2, <1>4, <1>5, UnreportedTyped

(* What the flip writes.                                                    *)
LEMMA FlipEffect ==
    ASSUME TypeInv, NEW a \in Agents, RotationFlip(a)
    PROVE  /\ TablesOK'
           /\ \A b \in Agents : pub'[b].key = pub[b].key /\ pub'[b].status = pub[b].status
           /\ \A b \in Agents :
                /\ bundle'[b].id = IF b = a THEN rot[a].new ELSE bundle[b].id
                /\ bundle'[b].trusted = bundle[b].trusted
                /\ bundle'[b].pk = bundle[b].pk
                /\ bundle'[b].strict = bundle[b].strict
                /\ bundle'[b].tok = bundle[b].tok
                /\ bundle'[b].ov = bundle[b].ov
<1> PICK x : x = [bundle[a] EXCEPT !.id = rot[a].new]
  OBVIOUS
<1>1. bundle[a] \in A2a /\ rot[a].new \in Key
  BY TypeParts DEF TablesOK, Rotations
<1>2. /\ x \in A2a /\ x.id = rot[a].new /\ x.trusted = bundle[a].trusted /\ x.pk = bundle[a].pk
      /\ x.strict = bundle[a].strict /\ x.tok = bundle[a].tok /\ x.ov = bundle[a].ov
  BY <1>1 DEF A2a
<1>3. RotateBundle(a, x)
  BY DEF RotationFlip
<1> QED
  BY <1>2, <1>3, RotateTyped

(* The stages of a rotation keep the types.                                 *)
LEMMA RotationTyped ==
    ASSUME TypeInv, NEW a \in Agents
    PROVE  RotationStart(a) \/ RotationFlip(a) \/ RotationComplete(a) => TypeInv'
<1>1. budget > 0 => budget - 1 \in Nat
  BY TypeParts
<1>2. CASE RotationStart(a)
  <2>1. bundle[a].id \in Key
    BY TypeParts DEF TablesOK, A2a
  <2>2. TablesOK'
    BY <1>2, StartEffect, UnreportedTyped
  <2>3. minted[a] + 1 \in 1..MaxKey /\ minted[a] + 1 \in Key
    BY <1>2, StartEffect
  <2> DEFINE new == minted[a] + 1
             row == [stage |-> "delivering", old |-> bundle[a].id, new |-> new, ledger |-> Refs(a)]
  <2>4. row \in Rotations
    BY <2>1, <2>3 DEF Rotations, Refs
  <2>5. rot' = [rot EXCEPT ![a] = row]
    BY <1>2 DEF RotationStart, Refs
  <2> HIDE DEF row
  <2>6. rot' \in [Agents -> Rotations]
    BY <2>4, <2>5, TypeParts
  <2>7. minted' \in [Agents -> Key] /\ versions' \in [Agents -> SUBSET (1..MaxKey)]
    BY <1>2, <2>3, TypeParts DEF RotationStart
  <2> QED
    BY <1>1, <1>2, <2>2, <2>6, <2>7, TypeParts, TypePartsNext DEF RotationStart, Spend
<1>3. CASE RotationFlip(a)
  <2>1. rot' \in [Agents -> Rotations]
    BY <1>3, TypeParts DEF RotationFlip, Rotations
  <2> QED
    BY <1>3, <2>1, FlipEffect, TypeParts, TypePartsNext DEF RotationFlip, gateway
<1>4. CASE RotationComplete(a)
  <2>1. NoRotation \in Rotations
    BY NoneTyped DEF NoRotation, Rotations
  <2>2. rot' \in [Agents -> Rotations]
    BY <1>4, <2>1, TypeParts DEF RotationComplete
  <2>3. base' \in [Agents -> Key] /\ versions' \in [Agents -> SUBSET (1..MaxKey)]
    BY <1>4, NoneTyped, TypeParts DEF RotationComplete
  <2> QED
    BY <1>4, <2>2, <2>3, CompleteEffect, TypeParts, TypePartsNext DEF RotationComplete
<1> QED
  BY <1>2, <1>3, <1>4

(* The fleet that the first enrolments have left has the types.             *)
LEMMA InitTyped == Init => TypeInv
<1> SUFFICES ASSUME Init PROVE TypeInv
  OBVIOUS
<1> PICK members \in SUBSET Agents, keyed \in SUBSET Agents :
        /\ keyed \subseteq members
        /\ strict \in {FALSE, keyed = members /\ members # {}}
        /\ bundle = [a \in Agents |-> Member(a, members, keyed, strict)]
        /\ pub = [a \in Agents |-> IF a \in keyed THEN [NoRow EXCEPT !.key = 1, !.status = "active",
                                                                  !.fit = TRUE]
                                   ELSE NoRow]
        /\ granted = [a \in Agents |-> IF a \in keyed THEN {1} ELSE {}]
        /\ minted = [a \in Agents |-> IF a \in members THEN 1 ELSE 0]
  BY DEF Init
<1>1. 1 \in Key /\ 1 \in Pub /\ 1 \in 1..PubKeys /\ 1 # None /\ 0 \in Key
  BY KeysAssumption DEF Key, Pub, None
<1>2. strict \in BOOLEAN
  OBVIOUS
<1>3. \A a \in Agents : Member(a, members, keyed, strict) \in A2a
  <2> SUFFICES ASSUME NEW a \in Agents PROVE Member(a, members, keyed, strict) \in A2a
    OBVIOUS
  <2> DEFINE none == [b \in Agents |-> None]
             toks == [b \in Agents |-> IF b \in members \ {a} /\ ~strict THEN 1 ELSE None]
             pks == [b \in Agents |-> IF b \in keyed \ {a} THEN 1 ELSE None]
  <2>1. none \in [Agents -> Key] /\ none \in [Agents -> Pub]
    BY NoneTyped
  <2>2. toks \in [Agents -> Key] /\ pks \in [Agents -> Pub]
    BY <1>1, NoneTyped
  <2>3. members \ {a} \in SUBSET Agents /\ {} \in SUBSET Agents
    OBVIOUS
  <2>4. CASE a \notin members
    <3>1. Member(a, members, keyed, strict) =
            [id |-> None, trusted |-> {}, tok |-> none, ov |-> none, pk |-> none,
             strict |-> "absent", url |-> "none"]
      BY <2>4 DEF Member
    <3> HIDE DEF none
    <3> QED
      BY <2>1, <2>3, <3>1, NoneTyped DEF A2a
  <2>5. CASE a \in members
    <3> DEFINE mode == IF keyed \subseteq {a} THEN "absent" ELSE IF strict THEN "on" ELSE "off"
    <3>1. Member(a, members, keyed, strict) =
            [id |-> 1, trusted |-> members \ {a}, tok |-> toks, ov |-> none, pk |-> pks,
             strict |-> mode, url |-> "own"]
      BY <2>5 DEF Member
    <3>2. mode \in {"absent", "off", "on"}
      OBVIOUS
    <3> HIDE DEF none, toks, pks, mode
    <3> QED
      BY <1>1, <2>1, <2>2, <2>3, <3>1, <3>2 DEF A2a
  <2> QED
    BY <2>4, <2>5
<1>4. \A a \in Agents : RowOK(pub[a])
  BY <1>1, NoneTyped DEF RowOK, Row, NoRow
<1>5. TablesOK
  BY <1>3, <1>4, NoneTyped, <1>1 DEF TablesOK, RowOK
<1>6. rot \in [Agents -> Rotations]
  BY NoneTyped DEF Init, NoRotation, Rotations
<1>7. minted \in [Agents -> Key] /\ base \in [Agents -> Key]
  BY <1>1 DEF Init
<1>8. job \in [Workers -> Jobs]
  BY RestingJobs DEF Init
<1>9. /\ devKey \in [Agents -> 1..PubKeys]
      /\ granted \in [Agents -> SUBSET (1..PubKeys)]
      /\ versions \in [Agents -> SUBSET (1..MaxKey)]
      /\ active \subseteq Agents
      /\ budget \in Nat
      /\ clean \in Workers \union {"settled", "dirty"}
  BY <1>1, MeshAssumption DEF Init
<1> QED
  BY <1>2, <1>5, <1>6, <1>7, <1>8, <1>9, TypeParts

(* Every step keeps the types.                                              *)
LEMMA NextTyped ==
    ASSUME TypeInv, [Next]_vars
    PROVE  TypeInv'
<1>1. CASE UNCHANGED vars
  BY <1>1 DEF vars, keyVars, meshVars, gateway, TypeInv, TypeOK, KeysTypeOK
<1>2. ASSUME NEW w \in Workers, KeyStep(w) \/ KeyRequest(w), UNCHANGED <<gateway, rot>>
      PROVE  TypeInv'
  BY <1>2, KeyTyped
<1>3. ASSUME NEW w \in Workers, EnrollStep(w) PROVE TypeInv'
  BY <1>3, EnrolTyped
<1>4. ASSUME NEW w \in Workers, NEW a \in Agents, NEW origin \in Hosts, NEW public \in Hosts,
             MachineEnroll(w, a, origin, public) \/ ConsoleEnroll(w, a, origin, public)
      PROVE  TypeInv'
  BY <1>4, EnrollRequest, OwnerTyped
<1> QED
  BY <1>1, <1>2, <1>3, <1>4, OwnerTyped, RotationTyped DEF Next

-----------------------------------------------------------------------------
(* Public keys.                                                             *)

(* What a step must show: the rows, the bundles and the requests in flight *)
(* hold granted keys only, and no grant is taken back.                     *)
LEMMA GrantKeeps ==
    ASSUME GrantInv,
           \A v \in Workers : Same(job'[v], job[v]) \/ HeldGranted(job[v])',
           \A p \in Agents : granted[p] \subseteq granted'[p],
           \A a \in Agents : pub'[a].status = "active" => pub'[a].key \in granted'[a],
           \A d, p \in Agents : bundle'[d].pk[p] \in granted'[p] \union {None}
    PROVE  GrantInv'
<1>1. ASSUME NEW v \in Workers PROVE HeldGranted(job[v])'
  <2>1. HeldGranted(job[v])
    BY DEF GrantInv
  <2>2. CASE Same(job'[v], job[v])
    BY <2>1, <2>2 DEF HeldGranted, Same
  <2> QED
    BY <2>2
<1> QED
  BY <1>1 DEF GrantInv, OnlyGrantedKeys

(* A request at rest holds no public key.                                  *)
LEMMA RestsGranted ==
    ASSUME NEW w \in Workers, Rests(w)
    PROVE  \A v \in Workers : Same(job'[v], job[v]) \/ HeldGranted(job[v])'
  BY DEF Rests, Resting, HeldGranted, Enrolling, Merging

(* The resync writes the keys it read as active, nothing else.              *)
LEMMA KeyGranted ==
    ASSUME TypeInv, GrantInv, NEW w \in Workers, KeyStep(w) \/ KeyRequest(w)
    PROVE  GrantInv'
<1>1. /\ \A a \in Agents : pub[a].status = "active" => pub[a].key \in granted[a]
      /\ \A d, p \in Agents : bundle[d].pk[p] \in granted[p] \union {None}
      /\ HeldGranted(job[w])
  BY DEF GrantInv, OnlyGrantedKeys
<1>2. CASE ResyncRead(w)
  <2>1. \A p \in Agents : ActiveKeys(Enrolled, pub)[p] \in granted[p] \union {None}
    BY <1>1 DEF ActiveKeys
  <2>2. Moves(w, [pc |-> "render", report |-> job[w].report, strict |-> strict,
                  members |-> Enrolled, todo |-> Enrolled, seen |-> bundle,
                  keys |-> ActiveKeys(Enrolled, pub)])
    BY <1>2, ResyncMoves
  <2>3. job'[w].pc = "render" /\ job'[w].keys = ActiveKeys(Enrolled, pub)
    BY <2>2 DEF Moves, Same
  <2>4. granted' = granted /\ pub' = pub /\ bundle' = bundle
    BY <1>2 DEF ResyncRead
  <2>5. HeldGranted(job[w])'
    BY <2>1, <2>3, <2>4 DEF HeldGranted, Enrolling, Merging
  <2> QED
    BY <1>1, <2>2, <2>4, <2>5, GrantKeeps DEF Moves
<1>3. ASSUME NEW d \in Agents, ResyncWrite(w, d) PROVE GrantInv'
  <2>1. job[w] \in RenderJobs /\ Moves(w, [job[w] EXCEPT !.todo = @ \ {d}])
    BY <1>3, ResyncMoves
  <2>2. job[w].pc = "render" /\ granted' = granted
    BY <1>3 DEF ResyncWrite
  <2>3. job'[w].pc = "render" /\ job'[w].keys = job[w].keys
    BY <2>1, <2>2 DEF Moves, Same, RenderJobs
  <2>4. HeldGranted(job[w])'
    BY <1>1, <2>2, <2>3 DEF HeldGranted, Enrolling, Merging
  <2>5. \A p \in Agents : Rendered(d, job[w]).pk[p] \in granted[p] \union {None}
    BY <1>1, <2>1, <2>2, RenderedFields DEF HeldGranted
  <2>6. /\ \A a \in Agents : pub'[a].key = pub[a].key /\ pub'[a].status = pub[a].status
        /\ \A a, p \in Agents : bundle'[a].pk[p] \in granted[p] \union {None}
    <3>1. CASE UNCHANGED <<bundle, pub, clean>>
      BY <1>1, <3>1
    <3>2. CASE RotateBundle(d, Rendered(d, job[w]))
      BY <1>1, <2>1, <2>5, <3>2, RenderedFields, RotateTyped
    <3> QED
      BY <1>3, <3>1, <3>2 DEF ResyncWrite
  <2> QED
    BY <1>1, <2>1, <2>2, <2>4, <2>6, GrantKeeps DEF Moves
<1>4. ASSUME Rests(w),
             \A p \in Agents : granted[p] \subseteq granted'[p],
             \A a \in Agents : pub'[a].status = "active" => pub'[a].key \in granted'[a],
             bundle' = bundle
      PROVE  GrantInv'
  <2>1. \A d, p \in Agents : bundle'[d].pk[p] \in granted'[p] \union {None}
    BY <1>1, <1>4
  <2> QED
    BY <1>4, <2>1, GrantKeeps, RestsGranted
<1>5. CASE ResyncEnd(w) \/ StrictCheck(w) \/ SetStrict(w, TRUE) \/ SetStrict(w, FALSE)
  <2>1. Rests(w) /\ granted' = granted /\ pub' = pub /\ bundle' = bundle
    BY <1>5, KeyRests DEF ResyncEnd, StrictCheck, SetStrict
  <2> QED
    BY <1>1, <1>4, <2>1
<1>6. CASE ReportGuardStatus(w)
  <2>1. Rests(w) /\ granted' = granted /\ bundle' = bundle
    BY <1>6, KeyRests DEF ReportGuardStatus
  <2>2. \A a \in Agents : pub'[a].key = pub[a].key /\ pub'[a].status = pub[a].status
    BY <1>6, TypeParts DEF ReportGuardStatus, TablesOK, Row
  <2> QED
    BY <1>1, <1>4, <2>1, <2>2
<1>7. ASSUME NEW a \in Agents, ConsoleKeyVerb(w, a) PROVE GrantInv'
  <2>1. Rests(w) /\ pub[a] \in Row
    BY <1>7, KeyRests, TypeParts DEF TablesOK
  <2>2. CASE ApproveDeviceKey(w, a)
    <3>1. /\ bundle' = bundle
          /\ \A b \in Agents : granted'[b] = IF b = a THEN granted[a] \union {Approved(pub[a]).key}
                                             ELSE granted[b]
          /\ \A b \in Agents : pub'[b] = IF b = a THEN Approved(pub[a]) ELSE pub[b]
      BY <2>2, TypeParts DEF ApproveDeviceKey, TablesOK
    <3> QED
      BY <1>1, <1>4, <2>1, <3>1
  <2>3. CASE RejectConflict(w, a)
    <3>1. /\ bundle' = bundle /\ granted' = granted
          /\ \A b \in Agents : pub'[b].key = pub[b].key /\ pub'[b].status = pub[b].status
      BY <2>3, TypeParts DEF RejectConflict, TablesOK, Row
    <3> QED
      BY <1>1, <1>4, <2>1, <3>1
  <2>4. CASE RevokeDeviceKey(w, a)
    <3>1. /\ bundle' = bundle /\ granted' = granted
          /\ \A b \in Agents : pub'[b] = IF b = a THEN NoRow ELSE pub[b]
      BY <2>4, TypeParts DEF RevokeDeviceKey, TablesOK
    <3> QED
      BY <1>1, <1>4, <2>1, <3>1 DEF NoRow
  <2> QED
    BY <1>7, <2>2, <2>3, <2>4 DEF ConsoleKeyVerb
<1>8. ASSUME NEW a \in Agents, NEW fit \in BOOLEAN, NEW approval \in BOOLEAN,
             ReportKey(w, a, fit, approval)
      PROVE  GrantInv'
  <2>1. Rests(w) /\ pub[a] \in Row /\ bundle' = bundle
    BY <1>8, KeyRests, TypeParts DEF TablesOK, ReportKey
  <2>2. \A b \in Agents : pub'[b] = IF b = a THEN RegisterDeviceKey(pub[a], devKey[a], approval)
                                    ELSE pub[b]
    BY <1>8, TypeParts DEF ReportKey, TablesOK
  <2>3. /\ \A b \in Agents : granted[b] \subseteq granted'[b]
        /\ pub[a].status = "none" /\ ~approval => devKey[a] \in granted'[a]
    BY <1>8, TypeParts DEF ReportKey
  <2>4. pub'[a].status = "active" => pub'[a].key \in granted'[a]
    <3>1. CASE pub[a].status = "none"
      BY <2>2, <2>3, <3>1 DEF RegisterDeviceKey, NoRow
    <3>2. CASE pub[a].status # "none"
      BY <1>1, <2>1, <2>2, <2>3, <3>2 DEF RegisterDeviceKey, Row
    <3> QED
      BY <3>1, <3>2
  <2> QED
    BY <1>1, <1>4, <2>1, <2>2, <2>3, <2>4
<1> QED
  BY <1>2, <1>3, <1>5, <1>6, <1>7, <1>8 DEF KeyStep, KeyRequest, ConsoleStrict

(* An enrolment copies the keys it finds in the bundles.                    *)
LEMMA EnrolGranted ==
    ASSUME TypeInv, GrantInv, NEW w \in Workers, EnrollStep(w)
    PROVE  GrantInv'
<1>1. /\ \A a \in Agents : pub[a].status = "active" => pub[a].key \in granted[a]
      /\ \A d, p \in Agents : bundle[d].pk[p] \in granted[p] \union {None}
      /\ HeldGranted(job[w])
  BY DEF GrantInv, OnlyGrantedKeys
<1>2. ASSUME granted' = granted, pub' = pub, bundle' = bundle,
             \A v \in Workers : Same(job'[v], job[v]) \/ HeldGranted(job[v])'
      PROVE  GrantInv'
  BY <1>1, <1>2, GrantKeeps
<1>3. ASSUME NEW x, Moves(w, x), x.pc \in Enrolling, granted' = granted,
             job[w].pc \in Enrolling, x.own = job[w].own
      PROVE  \A v \in Workers : Same(job'[v], job[v]) \/ HeldGranted(job[v])'
  BY <1>1, <1>3 DEF Moves, Same, HeldGranted, Enrolling, Merging
<1>4. CASE FindKeyRow(w)
  <2>1. job[w].pc = "find" /\ job[w] \in EnrollJobs
    BY <1>4, JobShape DEF FindKeyRow, Enrolling, TypeInv
  <2>2. granted' = granted /\ pub' = pub /\ bundle' = bundle
    BY <1>4 DEF FindKeyRow
  <2> DEFINE x == [job[w] EXCEPT !.pc = "mint", !.console = FALSE]
             y == [job[w] EXCEPT !.pc = "card", !.console = FALSE, !.key = job[w].own.id]
  <2>3. x.pc = "mint" /\ x.own = job[w].own /\ y.pc = "card" /\ y.own = job[w].own
    BY <2>1 DEF EnrollJobs
  <2>4. Rests(w) \/ Moves(w, x) \/ Moves(w, y)
    BY <1>4, <2>1, EnrolMoves, EnrolRests DEF FindKeyRow
  <2> HIDE DEF x, y
  <2>5. \A v \in Workers : Same(job'[v], job[v]) \/ HeldGranted(job[v])'
    <3>1. CASE Rests(w)
      BY <3>1, RestsGranted
    <3>2. CASE Moves(w, x)
      BY <1>3, <2>1, <2>2, <2>3, <3>2 DEF Enrolling
    <3>3. CASE Moves(w, y)
      BY <1>3, <2>1, <2>2, <2>3, <3>3 DEF Enrolling
    <3> QED
      BY <2>4, <3>1, <3>2, <3>3
  <2> QED
    BY <1>2, <2>2, <2>5
<1>5. CASE MintMeshKey(w)
  <2>1. job[w].pc = "mint" /\ job[w] \in EnrollJobs
    BY <1>5, JobShape DEF MintMeshKey, Enrolling, TypeInv
  <2>2. granted' = granted /\ pub' = pub /\ bundle' = bundle
    BY <1>5 DEF MintMeshKey
  <2> DEFINE x == [job[w] EXCEPT !.pc = "card", !.key = minted[job[w].agent] + 1]
  <2>3. x.pc = "card" /\ x.own = job[w].own
    BY <2>1 DEF EnrollJobs
  <2>4. Moves(w, x)
    BY <1>5, EnrolMoves
  <2> HIDE DEF x
  <2> QED
    BY <1>2, <1>3, <2>1, <2>2, <2>3, <2>4 DEF Enrolling
<1>6. CASE RegisterAgentRow(w)
  <2>1. job[w].pc = "card" /\ job[w] \in EnrollJobs
    BY <1>6, JobShape DEF RegisterAgentRow, Enrolling, TypeInv
  <2>2. granted' = granted /\ pub' = pub /\ bundle' = bundle
    BY <1>6 DEF RegisterAgentRow
  <2> DEFINE x == [job[w] EXCEPT !.pc = "peers"]
  <2>3. x.pc = "peers" /\ x.own = job[w].own
    BY <2>1 DEF EnrollJobs
  <2>4. Moves(w, x)
    BY <1>6, EnrolMoves
  <2> HIDE DEF x
  <2> QED
    BY <1>2, <1>3, <2>1, <2>2, <2>3, <2>4 DEF Enrolling
<1>7. CASE GatewayCallFails(w) \/ MergeFails(w) \/ EnrollDone(w)
  <2>1. Rests(w) /\ granted' = granted /\ pub' = pub /\ bundle' = bundle
    BY <1>7, EnrolRests DEF GatewayCallFails, MergeFails, EnrollDone
  <2> QED
    BY <1>2, <2>1, RestsGranted
<1>8. CASE ResolveMeshPeers(w)
  <2>1. /\ job[w] \in EnrollJobs
        /\ Moves(w, [pc |-> "own", agent |-> job[w].agent,
                     next |-> [p \in Agents |-> NextFile(w, p)],
                     peers |-> Enrolled \ {job[w].agent}])
    BY <1>8, MergeMoves
  <2>2. granted' = granted /\ pub' = pub /\ bundle' = bundle /\ job[w].pc = "peers"
    BY <1>8 DEF ResolveMeshPeers
  <2>3. \A d, p \in Agents : NextFile(w, d).pk[p] \in granted[p] \union {None}
    <3>1. \A d \in Agents : NextFile(w, d).pk = IF d = job[w].agent THEN job[w].own.pk ELSE bundle[d].pk
      BY <2>1, NextFields
    <3> QED
      BY <1>1, <2>2, <3>1 DEF HeldGranted, Enrolling
  <2>4. job'[w].pc = "own" /\ job'[w].next = [p \in Agents |-> NextFile(w, p)]
    BY <2>1 DEF Moves, Same, Enrolling, Merging
  <2>5. HeldGranted(job[w])'
    BY <2>2, <2>3, <2>4 DEF HeldGranted, Enrolling, Merging
  <2> QED
    BY <1>2, <2>1, <2>2, <2>5 DEF Moves
<1>9. ASSUME NEW b \in Agents, NEW next, Merge(w, b, next), job[w] \in MergeJobs,
             NEW x, Moves(w, x), x.pc \in Merging, x.next = job[w].next, job[w].pc \in Merging
      PROVE  GrantInv'
  <2>1. granted' = granted
    BY <1>9 DEF Merge
  <2>2. job[w].next[b] \in A2a /\ \A p \in Agents : job[w].next[b].pk[p] \in granted[p] \union {None}
    BY <1>1, <1>9 DEF MergeJobs, HeldGranted
  <2>3. /\ \A a \in Agents : pub'[a].key = pub[a].key /\ pub'[a].status = pub[a].status
        /\ \A a, p \in Agents : bundle'[a].pk[p] \in granted[p] \union {None}
    BY <1>1, <1>9, <2>2, RotateTyped DEF Merge
  <2>4. HeldGranted(job[w])'
    BY <1>1, <1>9, <2>1 DEF Moves, Same, HeldGranted, Enrolling, Merging
  <2> QED
    BY <1>1, <1>9, <2>1, <2>3, <2>4, GrantKeeps DEF Moves
<1>10. CASE MergeOwn(w)
  <2>1. job[w] \in MergeJobs /\ Moves(w, [job[w] EXCEPT !.pc = "merge"]) /\ job[w].pc = "own"
    BY <1>10, MergeMoves DEF MergeOwn
  <2> DEFINE x == [job[w] EXCEPT !.pc = "merge"]
  <2>2. x.pc = "merge" /\ x.next = job[w].next /\ job[w].agent \in Agents
    BY <2>1 DEF MergeJobs
  <2> HIDE DEF x
  <2>3. Merge(w, job[w].agent, x)
    BY <1>10 DEF MergeOwn, x
  <2>4. Moves(w, x)
    BY <2>1 DEF x
  <2> QED
    BY <1>9, <2>1, <2>2, <2>3, <2>4 DEF Merging
<1>11. ASSUME NEW p \in Agents, MergePeer(w, p) PROVE GrantInv'
  <2> DEFINE x == [job[w] EXCEPT !.peers = job[w].peers \ {p}]
  <2>1. job[w] \in MergeJobs /\ Moves(w, x) /\ job[w].pc = "merge" /\ Merge(w, p, x)
    BY <1>11, MergeMoves DEF MergePeer
  <2>2. x.pc = "merge" /\ x.next = job[w].next
    BY <2>1 DEF MergeJobs
  <2> HIDE DEF x
  <2> QED
    BY <1>9, <2>1, <2>2 DEF Merging
<1> QED
  BY <1>4, <1>5, <1>6, <1>7, <1>8, <1>10, <1>11 DEF EnrollStep

(* No other step brings a key anywhere.                                     *)
LEMMA NextGranted ==
    ASSUME TypeInv, GrantInv, [Next]_vars
    PROVE  GrantInv'
<1>1. /\ \A a \in Agents : pub[a].status = "active" => pub[a].key \in granted[a]
      /\ \A d, p \in Agents : bundle[d].pk[p] \in granted[p] \union {None}
  BY DEF GrantInv, OnlyGrantedKeys
<1>2. ASSUME granted' = granted, job' = job,
             \A a \in Agents : pub'[a].key = pub[a].key /\ pub'[a].status = pub[a].status,
             \A b \in Agents : bundle'[b].pk = bundle[b].pk
      PROVE  GrantInv'
  <2>1. \A v \in Workers : Same(job'[v], job[v])
    BY <1>2 DEF Same
  <2> QED
    BY <1>1, <1>2, <2>1, GrantKeeps
<1>3. CASE UNCHANGED vars
  BY <1>2, <1>3 DEF vars, keyVars
<1>4. ASSUME NEW w \in Workers, KeyStep(w) \/ KeyRequest(w) PROVE GrantInv'
  BY <1>4, KeyGranted
<1>5. ASSUME NEW w \in Workers, EnrollStep(w) PROVE GrantInv'
  BY <1>5, EnrolGranted
<1>6. ASSUME NEW w \in Workers, NEW a \in Agents, NEW o \in Urls, NEW u \in Urls,
             NEW c \in BOOLEAN, EnrollAgent(w, a, o, u, c)
      PROVE  GrantInv'
  <2>1. Moves(w, [pc |-> "find", agent |-> a, origin |-> o, public |-> u,
                  console |-> c, own |-> bundle[a], key |-> None])
    BY <1>6, EnrolMoves
  <2>2. job'[w].pc = "find" /\ job'[w].own = bundle[a]
    BY <2>1 DEF Moves, Same, Enrolling
  <2>3. granted' = granted /\ pub' = pub /\ bundle' = bundle
    BY <1>6 DEF EnrollAgent
  <2>4. HeldGranted(job[w])'
    BY <1>1, <2>2, <2>3 DEF HeldGranted, Enrolling, Merging
  <2> QED
    BY <1>1, <2>1, <2>3, <2>4, GrantKeeps DEF Moves
<1>7. ASSUME NEW w \in Workers, NEW a \in Agents, NEW origin \in Hosts, NEW public \in Hosts,
             MachineEnroll(w, a, origin, public) \/ ConsoleEnroll(w, a, origin, public)
      PROVE  GrantInv'
  BY <1>6, <1>7, EnrollRequest
<1>8. ASSUME NEW a \in Agents, NewDeviceKey(a) \/ RevokeAlias(a) \/ SetStatus(a) PROVE GrantInv'
  BY <1>2, <1>8 DEF NewDeviceKey, RevokeAlias, SetStatus
<1>9. CASE Crash
  <2>1. granted' = granted /\ pub' = pub /\ bundle' = bundle /\ \A v \in Workers : job'[v] = Idle
    BY <1>9 DEF Crash
  <2>2. \A v \in Workers : HeldGranted(job[v])'
    BY <2>1 DEF HeldGranted, Idle, Enrolling, Merging
  <2> QED
    BY <1>1, <2>1, <2>2, GrantKeeps
<1>10. ASSUME NEW a \in Agents, RotationStart(a) PROVE GrantInv'
  BY <1>2, <1>10, StartEffect, UnreportedTyped DEF RotationStart
<1>11. ASSUME NEW a \in Agents, RotationFlip(a) PROVE GrantInv'
  BY <1>2, <1>11, FlipEffect DEF RotationFlip
<1>12. ASSUME NEW a \in Agents, RotationComplete(a) PROVE GrantInv'
  BY <1>2, <1>12, CompleteEffect DEF RotationComplete
<1> QED
  BY <1>3, <1>4, <1>5, <1>7, <1>8, <1>9, <1>10, <1>11, <1>12 DEF Next

(* A fleet starts with keys that were bound on first use.                   *)
LEMMA InitGranted == Init => GrantInv
<1> SUFFICES ASSUME Init PROVE GrantInv
  OBVIOUS
<1> PICK members \in SUBSET Agents, keyed \in SUBSET Agents :
        /\ bundle = [a \in Agents |-> Member(a, members, keyed, strict)]
        /\ pub = [a \in Agents |-> IF a \in keyed THEN [NoRow EXCEPT !.key = 1, !.status = "active",
                                                                  !.fit = TRUE]
                                   ELSE NoRow]
        /\ granted = [a \in Agents |-> IF a \in keyed THEN {1} ELSE {}]
  BY SMTT(30) DEF Init
<1>1. \A d, p \in Agents : bundle[d].pk[p] \in granted[p] \union {None}
  BY DEF Member
<1>2. \A a \in Agents : pub[a].status = "active" => pub[a].key \in granted[a]
  BY DEF NoRow
<1>3. \A w \in Workers : HeldGranted(job[w])
  BY DEF Init, Idle, HeldGranted, Enrolling, Merging
<1> QED
  BY <1>1, <1>2, <1>3 DEF GrantInv, OnlyGrantedKeys

(* The trust anchor of the mesh: whatever requests run beside each other,   *)
(* fail or die half-way, no bundle ever carries a public key that was       *)
(* neither bound on first use nor approved by the owner                     *)
(* (a2a-keys.ts registerDeviceKey, approveDeviceKey, resyncMeshKeys).       *)
THEOREM NoUngrantedKey == Spec => []OnlyGrantedKeys
<1>1. TypeInv /\ GrantInv /\ [Next]_vars => (TypeInv /\ GrantInv)'
  BY NextTyped, NextGranted
<1>2. GrantInv => OnlyGrantedKeys
  BY DEF GrantInv
<1> QED
  BY <1>1, <1>2, InitTyped, InitGranted, PTL DEF Spec

(* Every table of the registrar and of the gateway keeps its shape.         *)
THEOREM TypeCorrect == Spec => []TypeOK
<1>1. TypeInv => TypeOK
  BY DEF TypeInv
<1> QED
  BY <1>1, InitTyped, NextTyped, PTL DEF Spec

-----------------------------------------------------------------------------
(* Identity keys.                                                           *)

(* What a request in flight holds stays good as long as no key it may have  *)
(* read dies and no member loses its identity.                              *)
LEMMA LiveKeeps ==
    ASSUME LiveInv,
           \A v \in Workers : Same(job'[v], job[v]) \/ HeldLive(job[v])',
           \A a \in Agents : Safe(a) \subseteq Safe(a)',
           \A a \in Agents : bundle[a].id # None => bundle'[a].id # None,
           \A a \in Agents : bundle'[a].id # None => bundle'[a].id \in Safe(a)',
           \A a \in Agents : KeysInOrder(a)',
           rot' = rot, job \in [Workers -> Jobs]
    PROVE  LiveInv'
<1>1. ASSUME NEW v \in Workers PROVE HeldLive(job[v])'
  <2>1. HeldLive(job[v]) /\ job[v] \in Jobs
    BY DEF LiveInv
  <2>2. CASE Same(job'[v], job[v])
    <3>1. CASE job[v].pc = "render"
      <4>1. \A d \in job[v].todo : d \in Agents
        BY <2>1, <3>1, JobShape DEF RenderJobs
      <4>2. job'[v].pc = "render" /\ job'[v].todo = job[v].todo /\ job'[v].seen = job[v].seen
        BY <2>2, <3>1 DEF Same
      <4> QED
        BY <2>1, <3>1, <4>1, <4>2 DEF HeldLive, Merging
    <3>2. CASE job[v].pc \in Enrolling
      <4>1. job[v].agent \in Agents /\ job'[v] = job[v]
        BY <2>1, <2>2, <3>2, JobShape DEF EnrollJobs, Same
      <4> QED
        BY <2>1, <3>2, <4>1 DEF HeldLive, Enrolling, Merging
    <3>3. CASE job[v].pc \in Merging
      <4>1. job[v].agent \in Agents /\ job'[v] = job[v] /\ \A p \in job[v].peers : p \in Agents
        BY <2>1, <2>2, <3>3, JobShape DEF MergeJobs, Same
      <4> QED
        BY <2>1, <3>3, <4>1 DEF HeldLive, Enrolling, Merging
    <3>4. CASE job[v].pc \in Resting
      BY <2>2, <3>4 DEF HeldLive, Same, Resting, Merging
    <3> QED
      BY <2>1, <3>1, <3>2, <3>3, <3>4, JobShape DEF Resting
  <2> QED
    BY <2>2
<1> QED
  BY <1>1 DEF LiveInv

(* A step that leaves the gateway and the rotations alone kills no key.     *)
LEMMA SafeStays ==
    ASSUME LiveInv, UNCHANGED <<minted, base, versions, rot>>
    PROVE  /\ \A a \in Agents : Safe(a)' = Safe(a)
           /\ \A a \in Agents : KeysInOrder(a)'
  BY DEF LiveInv, KeysInOrder, Safe, Live

(* A request at rest holds no gateway key.                                 *)
LEMMA RestsLive ==
    ASSUME NEW w \in Workers, Rests(w)
    PROVE  \A v \in Workers : Same(job'[v], job[v]) \/ HeldLive(job[v])'
  BY DEF Rests, Resting, HeldLive, Enrolling, Merging

(* A live key is not None.                                                  *)
LEMMA SafeIsKey ==
    ASSUME TypeInv, NEW a \in Agents, NEW k \in Safe(a)
    PROVE  k # None /\ k \in Key
<1>1. versions[a] \subseteq 1..MaxKey /\ base[a] \in Key
  BY DEF TypeInv, TypeOK
<1>2. \A i \in 1..MaxKey : i # None /\ i \in Key
  BY KeysAssumption DEF None, Key
<1> QED
  BY <1>1, <1>2 DEF Safe, Live

(* A resync writes the identities it has read.                              *)
LEMMA KeyLive ==
    ASSUME TypeInv, LiveInv, NEW w \in Workers, KeyStep(w) \/ KeyRequest(w),
           UNCHANGED <<gateway, rot>>
    PROVE  LiveInv'
<1>1. /\ \A a \in Agents : Safe(a)' = Safe(a)
      /\ \A a \in Agents : KeysInOrder(a)'
  BY SafeStays DEF gateway
<1>2. /\ \A a \in Agents : bundle[a].id # None => bundle[a].id \in Safe(a)
      /\ HeldLive(job[w]) /\ job \in [Workers -> Jobs]
  BY DEF LiveInv, TypeInv
<1>3. CASE ResyncRead(w)
  <2>1. Moves(w, [pc |-> "render", report |-> job[w].report, strict |-> strict,
                  members |-> Enrolled, todo |-> Enrolled, seen |-> bundle,
                  keys |-> ActiveKeys(Enrolled, pub)])
    BY <1>3, ResyncMoves
  <2>2. job'[w].pc = "render" /\ job'[w].todo = Enrolled /\ job'[w].seen = bundle
    BY <2>1 DEF Moves, Same
  <2>3. bundle' = bundle
    BY <1>3 DEF ResyncRead
  <2>4. \A d \in Enrolled : d \in Agents /\ bundle[d].id # None
    BY TypeParts DEF Enrolled
  <2>5. HeldLive(job[w])'
    BY <1>1, <1>2, <2>2, <2>3, <2>4 DEF HeldLive, Merging
  <2> QED
    BY <1>1, <1>2, <2>1, <2>3, <2>5, LiveKeeps DEF Moves
<1>4. ASSUME NEW d \in Agents, ResyncWrite(w, d) PROVE LiveInv'
  <2>1. job[w] \in RenderJobs /\ Moves(w, [job[w] EXCEPT !.todo = @ \ {d}])
    BY <1>4, ResyncMoves
  <2>2. job[w].pc = "render" /\ d \in job[w].todo
    BY <1>4 DEF ResyncWrite
  <2>3. /\ job'[w].pc = "render" /\ job'[w].seen = job[w].seen
        /\ job'[w].todo = job[w].todo \ {d} /\ job[w].todo \subseteq Agents
    BY <2>1, <2>2 DEF Moves, Same, RenderJobs
  <2>4. job[w].seen[d].id \in Safe(d) /\ job[w].seen[d].id # None
    BY <1>2, <2>2, SafeIsKey DEF HeldLive
  <2>5. \A b \in Agents : bundle'[b].id = bundle[b].id \/ (b = d /\ bundle'[b].id = job[w].seen[d].id)
    <3>1. CASE UNCHANGED <<bundle, pub, clean>>
      BY <3>1
    <3>2. CASE RotateBundle(d, Rendered(d, job[w]))
      BY <2>1, <3>2, RenderedFields, RotateTyped
    <3> QED
      BY <1>4, <3>1, <3>2 DEF ResyncWrite
  <2>6. HeldLive(job[w])'
    BY <1>1, <1>2, <2>2, <2>3, <2>4, <2>5 DEF HeldLive, Merging
  <2> QED
    BY <1>1, <1>2, <2>1, <2>4, <2>5, <2>6, LiveKeeps DEF Moves
<1>5. ASSUME Rests(w), bundle' = bundle PROVE LiveInv'
  BY <1>1, <1>2, <1>5, RestsLive, LiveKeeps
<1>6. CASE ResyncEnd(w) \/ StrictCheck(w) \/ SetStrict(w, TRUE) \/ SetStrict(w, FALSE)
           \/ ReportGuardStatus(w)
  BY <1>5, <1>6, KeyRests DEF ResyncEnd, StrictCheck, SetStrict, ReportGuardStatus
<1>7. ASSUME NEW a \in Agents, ConsoleKeyVerb(w, a) PROVE LiveInv'
  BY <1>5, <1>7, KeyRests DEF ConsoleKeyVerb, ApproveDeviceKey, RejectConflict, RevokeDeviceKey
<1>8. ASSUME NEW a \in Agents, NEW fit \in BOOLEAN, NEW approval \in BOOLEAN,
             ReportKey(w, a, fit, approval)
      PROVE  LiveInv'
  BY <1>5, <1>8, KeyRests DEF ReportKey
<1> QED
  BY <1>3, <1>4, <1>6, <1>7, <1>8 DEF KeyStep, KeyRequest, ConsoleStrict

(* A minted key is new: no rotation is about to retire it.                  *)
LEMMA MintLive ==
    ASSUME TypeInv, LiveInv, NEW a \in Agents, CanMint(a), Mints(a), UNCHANGED <<versions, rot>>
    PROVE  /\ \A b \in Agents : Safe(b) \subseteq Safe(b)'
           /\ \A b \in Agents : KeysInOrder(b)'
           /\ minted[a] + 1 \in Safe(a)'
<1>1. /\ minted[a] \in Nat /\ base[a] = None
      /\ minted[a] + 1 # None
      /\ rot[a].stage # "none" => rot[a].old \in Nat /\ rot[a].old <= minted[a]
      /\ \A k \in versions[a] : k \in Nat /\ k <= minted[a]
  BY MintTyped, TypeParts, KeysAssumption
     DEF LiveInv, KeysInOrder, CanMint, None, Rotations, Key
<1>2. \A b \in Agents : /\ base'[b] = IF b = a THEN minted[a] + 1 ELSE base[b]
                        /\ minted'[b] = IF b = a THEN minted[a] + 1 ELSE minted[b]
  BY TypeParts DEF Mints
<1>3. /\ minted[a] + 1 <= minted[a] + 1
      /\ \A k \in Nat : k <= minted[a] => k <= minted[a] + 1 /\ k # minted[a] + 1
  BY <1>1
<1>4. KeysInOrder(a)'
  BY <1>1, <1>2, <1>3 DEF LiveInv, KeysInOrder
<1>5. \A b \in Agents \ {a} : KeysInOrder(b)'
  BY <1>2 DEF LiveInv, KeysInOrder
<1>6. minted[a] + 1 \in Safe(a)'
  BY <1>1, <1>2, <1>3 DEF Safe, Live
<1>7. \A b \in Agents : Safe(b) \subseteq Safe(b)'
  BY <1>1, <1>2 DEF Safe, Live
<1> QED
  BY <1>4, <1>5, <1>6, <1>7

(* An enrolment writes the key it has read or minted, and the identities of *)
(* the peers that it has read.                                              *)
LEMMA EnrolLive ==
    ASSUME TypeInv, LiveInv, NEW w \in Workers, EnrollStep(w)
    PROVE  LiveInv'
<1>1. /\ \A a \in Agents : bundle[a].id # None => bundle[a].id \in Safe(a)
      /\ HeldLive(job[w]) /\ job \in [Workers -> Jobs]
  BY DEF LiveInv, TypeInv
<1>2. ASSUME \A a \in Agents : Safe(a) \subseteq Safe(a)', \A a \in Agents : KeysInOrder(a)',
             bundle' = bundle, rot' = rot,
             \A v \in Workers : Same(job'[v], job[v]) \/ HeldLive(job[v])'
      PROVE  LiveInv'
  BY <1>1, <1>2, LiveKeeps
<1>3. ASSUME UNCHANGED <<minted, base, versions, rot>>
      PROVE  /\ \A a \in Agents : Safe(a) = Safe(a)' /\ Safe(a) \subseteq Safe(a)'
             /\ \A a \in Agents : KeysInOrder(a)'
  BY <1>3, SafeStays
<1>4. ASSUME NEW x, NEW a \in Agents, Moves(w, x), x.pc \in {"card", "peers"}, x.agent = a,
             x.key \in Safe(a)'
      PROVE  \A v \in Workers : Same(job'[v], job[v]) \/ HeldLive(job[v])'
  BY <1>4 DEF Moves, Same, HeldLive, Enrolling, Merging
<1>5. ASSUME job[w].pc \in Enrolling PROVE job[w] \in EnrollJobs /\ job[w].agent \in Agents
  BY <1>5, JobShape DEF TypeInv, EnrollJobs
<1>6. CASE FindKeyRow(w)
  <2>1. job[w].pc = "find" /\ job[w] \in EnrollJobs /\ job[w].agent \in Agents
    BY <1>5, <1>6 DEF FindKeyRow, Enrolling
  <2>2. bundle' = bundle /\ UNCHANGED <<minted, base, versions, rot>>
    BY <1>6 DEF FindKeyRow, gateway
  <2> DEFINE x == [job[w] EXCEPT !.pc = "mint", !.console = FALSE]
             y == [job[w] EXCEPT !.pc = "card", !.console = FALSE, !.key = job[w].own.id]
  <2>3. x.pc = "mint" /\ y.pc = "card" /\ y.agent = job[w].agent /\ y.key = job[w].own.id
    BY <2>1 DEF EnrollJobs
  <2>4. Rests(w) \/ Moves(w, x) \/ (Moves(w, y) /\ job[w].own.id # None)
    BY <1>6, <2>1, EnrolMoves, EnrolRests DEF FindKeyRow, Decision, MintAllowed
  <2> HIDE DEF x, y
  <2>5. \A v \in Workers : Same(job'[v], job[v]) \/ HeldLive(job[v])'
    <3>1. CASE Rests(w)
      BY <3>1, RestsLive
    <3>2. CASE Moves(w, x)
      BY <2>3, <3>2 DEF Moves, Same, HeldLive, Enrolling, Merging
    <3>3. CASE Moves(w, y) /\ job[w].own.id # None
      <4>1. PICK a \in Agents : a = job[w].agent
        BY <2>1
      <4>2. y.key \in Safe(a)'
        BY <1>1, <1>3, <2>1, <2>2, <2>3, <3>3, <4>1 DEF HeldLive
      <4> QED
        BY <1>4, <2>3, <3>3, <4>1, <4>2
    <3> QED
      BY <2>4, <3>1, <3>2, <3>3
  <2> QED
    BY <1>2, <1>3, <2>2, <2>5
<1>7. CASE MintMeshKey(w)
  <2>1. job[w].pc = "mint" /\ job[w] \in EnrollJobs /\ job[w].agent \in Agents
    BY <1>5, <1>7 DEF MintMeshKey, Enrolling
  <2>2. /\ bundle' = bundle /\ UNCHANGED <<versions, rot>>
        /\ CanMint(job[w].agent) /\ Mints(job[w].agent)
    BY <1>7 DEF MintMeshKey
  <2> DEFINE x == [job[w] EXCEPT !.pc = "card", !.key = minted[job[w].agent] + 1]
  <2>3. x.pc = "card" /\ x.agent = job[w].agent /\ x.key = minted[job[w].agent] + 1
    BY <2>1 DEF EnrollJobs
  <2>4. Moves(w, x)
    BY <1>7, EnrolMoves
  <2> HIDE DEF x
  <2>5. PICK a \in Agents : a = job[w].agent
    BY <2>1
  <2>6. x.key \in Safe(a)'
    BY <2>2, <2>3, <2>5, MintLive
  <2> QED
    BY <1>2, <1>4, <2>2, <2>3, <2>4, <2>5, <2>6, MintLive
<1>8. CASE RegisterAgentRow(w)
  <2>1. job[w].pc = "card" /\ job[w] \in EnrollJobs /\ job[w].agent \in Agents
    BY <1>5, <1>8 DEF RegisterAgentRow, Enrolling
  <2>2. bundle' = bundle /\ UNCHANGED <<minted, base, versions, rot>>
    BY <1>8 DEF RegisterAgentRow
  <2> DEFINE x == [job[w] EXCEPT !.pc = "peers"]
  <2>3. x.pc = "peers" /\ x.agent = job[w].agent /\ x.key = job[w].key
    BY <2>1 DEF EnrollJobs
  <2>4. Moves(w, x)
    BY <1>8, EnrolMoves
  <2> HIDE DEF x
  <2>5. PICK a \in Agents : a = job[w].agent
    BY <2>1
  <2>6. x.key \in Safe(a)'
    BY <1>1, <1>3, <2>1, <2>2, <2>3, <2>5 DEF HeldLive
  <2> QED
    BY <1>2, <1>3, <1>4, <2>2, <2>3, <2>4, <2>5, <2>6
<1>9. CASE GatewayCallFails(w)
  <2>1. Rests(w) /\ bundle' = bundle /\ UNCHANGED <<versions, rot>> /\ job[w].agent \in Agents
    BY <1>5, <1>9, EnrolRests DEF GatewayCallFails, Enrolling
  <2>2. CASE UNCHANGED <<minted, base>>
    BY <1>2, <1>3, <2>1, <2>2, RestsLive
  <2>3. CASE CanMint(job[w].agent) /\ Mints(job[w].agent)
    BY <1>2, <2>1, <2>3, RestsLive, MintLive
  <2> QED
    BY <1>9, <2>2, <2>3 DEF GatewayCallFails
<1>10. CASE MergeFails(w) \/ EnrollDone(w)
  <2>1. Rests(w) /\ bundle' = bundle /\ UNCHANGED <<minted, base, versions, rot>>
    BY <1>10, EnrolRests DEF MergeFails, EnrollDone, gateway
  <2> QED
    BY <1>2, <1>3, <2>1, RestsLive
<1>11. CASE ResolveMeshPeers(w)
  <2>1. /\ job[w] \in EnrollJobs
        /\ Moves(w, [pc |-> "own", agent |-> job[w].agent,
                     next |-> [p \in Agents |-> NextFile(w, p)],
                     peers |-> Enrolled \ {job[w].agent}])
    BY <1>11, MergeMoves
  <2>2. /\ job[w].pc = "peers" /\ job[w].agent \in Agents
        /\ bundle' = bundle /\ UNCHANGED <<minted, base, versions, rot>>
    BY <1>11, <2>1 DEF ResolveMeshPeers, EnrollJobs, gateway
  <2>3. \A p \in Agents : NextFile(w, p).id = IF p = job[w].agent THEN job[w].key ELSE bundle[p].id
    BY <2>1, NextFields
  <2>4. /\ job'[w].pc = "own" /\ job'[w].agent = job[w].agent
        /\ job'[w].next = [p \in Agents |-> NextFile(w, p)]
        /\ job'[w].peers = Enrolled \ {job[w].agent}
    BY <2>1 DEF Moves, Same, Enrolling, Merging
  <2>5. \A p \in Enrolled : p \in Agents /\ bundle[p].id # None
    BY TypeParts DEF Enrolled
  <2>6. job[w].key \in Safe(job[w].agent)
    BY <1>1, <2>2 DEF HeldLive
  <2>7. HeldLive(job[w])'
    BY <1>1, <1>3, <2>2, <2>3, <2>4, <2>5, <2>6 DEF HeldLive, Merging
  <2> QED
    BY <1>2, <1>3, <2>1, <2>2, <2>7 DEF Moves
<1>12. ASSUME NEW b \in Agents, NEW next, Merge(w, b, next), job[w] \in MergeJobs,
              job[w].next[b].id \in Safe(b),
              NEW x, Moves(w, x), x.pc = "merge", x.next = job[w].next,
              x.peers \subseteq job[w].peers, job[w].pc \in Merging
       PROVE  LiveInv'
  <2>1. UNCHANGED <<minted, base, versions, rot>>
    BY <1>12 DEF Merge, meshVars, gateway
  <2>2. job[w].next[b] \in A2a /\ job[w].next[b].id # None /\ job[w].peers \subseteq Agents
    BY <1>12, SafeIsKey DEF MergeJobs
  <2>3. \A a \in Agents : bundle'[a].id = IF a = b THEN job[w].next[b].id ELSE bundle[a].id
    BY <1>12, <2>2, RotateTyped DEF Merge
  <2>4. job'[w].pc = "merge" /\ job'[w].next = job[w].next /\ job'[w].peers \subseteq job[w].peers
    BY <1>12 DEF Moves, Same, Enrolling, Merging
  <2>5. HeldLive(job[w])'
    BY <1>1, <1>3, <1>12, <2>1, <2>2, <2>3, <2>4 DEF HeldLive, Merging
  <2> QED
    BY <1>1, <1>3, <1>12, <2>1, <2>2, <2>3, <2>5, LiveKeeps DEF Moves
<1>13. CASE MergeOwn(w)
  <2>1. job[w] \in MergeJobs /\ Moves(w, [job[w] EXCEPT !.pc = "merge"]) /\ job[w].pc = "own"
    BY <1>13, MergeMoves DEF MergeOwn
  <2> DEFINE x == [job[w] EXCEPT !.pc = "merge"]
  <2>2. x.pc = "merge" /\ x.next = job[w].next /\ x.peers = job[w].peers /\ job[w].agent \in Agents
    BY <2>1 DEF MergeJobs
  <2> HIDE DEF x
  <2>3. Merge(w, job[w].agent, x) /\ Moves(w, x)
    BY <1>13, <2>1 DEF MergeOwn, x
  <2>4. job[w].next[job[w].agent].id \in Safe(job[w].agent)
    BY <1>1, <2>1 DEF HeldLive
  <2> QED
    BY <1>12, <2>1, <2>2, <2>3, <2>4 DEF Merging
<1>14. ASSUME NEW p \in Agents, MergePeer(w, p) PROVE LiveInv'
  <2> DEFINE x == [job[w] EXCEPT !.peers = job[w].peers \ {p}]
  <2>1. job[w] \in MergeJobs /\ Moves(w, x) /\ job[w].pc = "merge" /\ Merge(w, p, x)
    BY <1>14, MergeMoves DEF MergePeer
  <2>2. x.pc = "merge" /\ x.next = job[w].next /\ x.peers \subseteq job[w].peers
    BY <2>1 DEF MergeJobs
  <2> HIDE DEF x
  <2>3. job[w].next[p].id \in Safe(p)
    BY <1>1, <1>14, <2>1 DEF HeldLive, MergePeer, Merging
  <2> QED
    BY <1>12, <2>1, <2>2, <2>3 DEF Merging
<1> QED
  BY <1>6, <1>7, <1>8, <1>9, <1>10, <1>11, <1>13, <1>14 DEF EnrollStep

(* The owner revokes an alias only when nobody holds the agent's keys.      *)
LEMMA RevokeLive ==
    ASSUME TypeInv, LiveInv, NEW a \in Agents, RevokeAlias(a)
    PROVE  LiveInv'
<1>1. /\ bundle' = bundle /\ job' = job /\ UNCHANGED <<minted, versions, rot>>
      /\ \A b \in Agents : base'[b] = IF b = a THEN None ELSE base[b]
      /\ bundle[a].id = None
      /\ \A w \in Workers : Enrols(w) => job[w].agent # a
  BY TypeParts DEF RevokeAlias
<1>2. \A b \in Agents \ {a} : Safe(b)' = Safe(b)
  BY <1>1 DEF Safe, Live
<1>3. None <= minted[a]
  BY MintTyped DEF None
<1>4. \A b \in Agents : KeysInOrder(b)'
  BY <1>1, <1>3 DEF KeysInOrder, LiveInv
<1>5. ASSUME NEW w \in Workers PROVE HeldLive(job[w])'
  <2>1. HeldLive(job[w]) /\ job[w] \in Jobs
    BY DEF LiveInv, TypeInv
  <2>2. /\ job[w].pc = "render" => job[w].todo \subseteq Agents
        /\ job[w].pc \in Enrolling \union Merging => job[w].agent \in Agents \ {a}
        /\ job[w].pc \in Merging => job[w].peers \subseteq Agents
    BY <1>1, <2>1, JobShape DEF Enrols, RenderJobs, EnrollJobs, MergeJobs
  <2> QED
    BY <1>1, <1>2, <2>1, <2>2 DEF HeldLive, Enrolling, Merging
<1> QED
  BY <1>1, <1>2, <1>4, <1>5 DEF LiveInv

(* In a quiet registrar no request holds anything.                          *)
LEMMA QuietLive ==
    ASSUME Quiet, job' = job,
           \A a \in Agents : KeysInOrder(a)',
           \A a \in Agents : bundle'[a].id # None => bundle'[a].id \in Safe(a)',
           \A a \in Agents : rot'[a].stage # "none" => bundle'[a].id # None
    PROVE  LiveInv'
  BY DEF Quiet, LiveInv, HeldLive, Merging

(* A rotation retires the old key only after the identity has moved on.     *)
LEMMA RotationLive ==
    ASSUME TypeInv, LiveInv, NEW a \in Agents
    PROVE  RotationStart(a) \/ RotationFlip(a) \/ RotationComplete(a) => LiveInv'
<1>1. /\ \A b \in Agents : KeysInOrder(b)
      /\ \A b \in Agents : bundle[b].id # None => bundle[b].id \in Safe(b)
      /\ \A b \in Agents : rot[b].stage # "none" => bundle[b].id # None
  BY DEF LiveInv
<1>2. /\ minted[a] \in Nat /\ base[a] \in Nat
      /\ \A k \in versions[a] : k \in Nat
      /\ \A k \in Nat : k <= minted[a] => k <= minted[a] + 1 /\ k # minted[a] + 1
  BY MintTyped, TypeParts DEF Key
<1>3. CASE RotationStart(a)
  <2>1. /\ Quiet /\ job' = job /\ bundle[a].id # None
        /\ \A b \in Agents : minted'[b] = IF b = a THEN minted[a] + 1 ELSE minted[b]
        /\ \A b \in Agents : versions'[b] = IF b = a THEN versions[a] \union {minted[a] + 1}
                                            ELSE versions[b]
        /\ base' = base
        /\ \A b \in Agents \ {a} : rot'[b] = rot[b]
        /\ rot'[a].stage = "delivering" /\ rot'[a].old = bundle[a].id /\ rot'[a].new = minted[a] + 1
    BY <1>3, TypeParts DEF RotationStart
  <2>2. \A b \in Agents : bundle'[b].id = bundle[b].id
    BY <1>3, StartEffect
  <2>3. bundle[a].id \in Nat /\ bundle[a].id <= minted[a]
    BY <1>1, <1>2, <2>1 DEF KeysInOrder, Safe, Live
  <2>4. KeysInOrder(a)'
    <3>1. base'[a] <= minted'[a]
      BY <1>1, <1>2, <2>1 DEF KeysInOrder
    <3>2. \A k \in versions'[a] : k <= minted'[a]
      BY <1>1, <1>2, <2>1 DEF KeysInOrder
    <3>3. /\ rot'[a].new \in versions'[a] /\ rot'[a].old # rot'[a].new
          /\ rot'[a].old <= minted'[a]
      BY <1>2, <2>1, <2>3
    <3> QED
      BY <3>1, <3>2, <3>3 DEF KeysInOrder
  <2>5. \A b \in Agents \ {a} : KeysInOrder(b)'
    BY <1>1, <2>1 DEF KeysInOrder
  <2>6. \A b \in Agents : Safe(b) \subseteq Safe(b)'
    BY <2>1 DEF Safe, Live
  <2> QED
    BY <1>1, <2>1, <2>2, <2>4, <2>5, <2>6, QuietLive
<1>4. CASE RotationFlip(a)
  <2>1. /\ Quiet /\ job' = job /\ UNCHANGED <<minted, base, versions>>
        /\ rot[a].stage = "delivering"
        /\ \A b \in Agents \ {a} : rot'[b] = rot[b]
        /\ rot'[a].stage = "flipped" /\ rot'[a].old = rot[a].old /\ rot'[a].new = rot[a].new
    BY <1>4, TypeParts DEF RotationFlip, gateway, Rotations
  <2>2. \A b \in Agents : bundle'[b].id = IF b = a THEN rot[a].new ELSE bundle[b].id
    BY <1>4, FlipEffect
  <2>3. \A b \in Agents : KeysInOrder(b)'
    BY <1>1, <2>1 DEF KeysInOrder
  <2>4. rot[a].new \in Safe(a)'
    BY <1>1, <2>1 DEF KeysInOrder, Safe, Live
  <2>5. \A b \in Agents \ {a} : Safe(b)' = Safe(b)
    BY <2>1 DEF Safe, Live
  <2>6. rot[a].new # None
    <3>1. rot[a].new \in Safe(a)
      BY <1>1, <2>1 DEF KeysInOrder, Safe, Live
    <3> QED
      BY <3>1, SafeIsKey
  <2> QED
    BY <1>1, <2>1, <2>2, <2>3, <2>4, <2>5, <2>6, QuietLive
<1>5. CASE RotationComplete(a)
  <2>1. /\ Quiet /\ job' = job /\ minted' = minted
        /\ rot[a].stage = "flipped"
        /\ \A b \in Agents : rot'[b] = IF b = a THEN NoRotation ELSE rot[b]
        /\ \A b \in Agents : versions'[b] = IF b = a THEN versions[a] \ {rot[a].old} ELSE versions[b]
        /\ \A b \in Agents : base'[b] = IF b = a /\ base[a] = rot[a].old THEN None ELSE base[b]
    BY <1>5, TypeParts DEF RotationComplete
  <2>2. \A b \in Agents : bundle'[b].id = bundle[b].id
    BY <1>5, CompleteEffect
  <2>3. None <= minted[a]
    BY <1>2 DEF None
  <2>4. \A b \in Agents : KeysInOrder(b)'
    BY <1>1, <2>1, <2>3 DEF KeysInOrder, NoRotation
  <2>5. \A b \in Agents : Safe(b) \subseteq Safe(b)'
    BY <2>1 DEF Safe, Live, NoRotation
  <2>6. \A b \in Agents : rot'[b].stage # "none" => rot[b].stage # "none"
    BY <2>1 DEF NoRotation
  <2> QED
    BY <1>1, <2>1, <2>2, <2>4, <2>5, <2>6, QuietLive
<1> QED
  BY <1>3, <1>4, <1>5

(* No step leaves a dead key in a bundle or in the hands of a request.      *)
LEMMA NextLive ==
    ASSUME TypeInv, LiveInv, [Next]_vars
    PROVE  LiveInv'
<1>1. /\ \A a \in Agents : bundle[a].id # None => bundle[a].id \in Safe(a)
      /\ job \in [Workers -> Jobs]
  BY DEF LiveInv, TypeInv
<1>2. ASSUME bundle' = bundle, UNCHANGED <<minted, base, versions, rot>>,
             \A v \in Workers : Same(job'[v], job[v]) \/ HeldLive(job[v])'
      PROVE  LiveInv'
  BY <1>1, <1>2, SafeStays, LiveKeeps
<1>3. ASSUME job' = job PROVE \A v \in Workers : Same(job'[v], job[v]) \/ HeldLive(job[v])'
  BY <1>3 DEF Same
<1>4. CASE UNCHANGED vars
  BY <1>2, <1>3, <1>4 DEF vars, keyVars, meshVars, gateway
<1>5. ASSUME NEW w \in Workers, KeyStep(w) \/ KeyRequest(w), UNCHANGED <<gateway, rot>>
      PROVE  LiveInv'
  BY <1>5, KeyLive
<1>6. ASSUME NEW w \in Workers, EnrollStep(w) PROVE LiveInv'
  BY <1>6, EnrolLive
<1>7. ASSUME NEW w \in Workers, NEW a \in Agents, NEW o \in Urls, NEW u \in Urls,
             NEW c \in BOOLEAN, EnrollAgent(w, a, o, u, c)
      PROVE  LiveInv'
  <2>1. Moves(w, [pc |-> "find", agent |-> a, origin |-> o, public |-> u,
                  console |-> c, own |-> bundle[a], key |-> None])
    BY <1>7, EnrolMoves
  <2>2. job'[w].pc = "find" /\ job'[w].own = bundle[a] /\ job'[w].agent = a
    BY <2>1 DEF Moves, Same, Enrolling
  <2>3. bundle' = bundle /\ UNCHANGED <<minted, base, versions, rot>>
    BY <1>7 DEF EnrollAgent, gateway
  <2>4. Safe(a)' = Safe(a)
    BY <2>3, SafeStays
  <2>5. HeldLive(job[w])'
    BY <1>1, <2>2, <2>4 DEF HeldLive, Merging
  <2> QED
    BY <1>2, <2>1, <2>3, <2>5 DEF Moves
<1>8. ASSUME NEW w \in Workers, NEW a \in Agents, NEW origin \in Hosts, NEW public \in Hosts,
             MachineEnroll(w, a, origin, public) \/ ConsoleEnroll(w, a, origin, public)
      PROVE  LiveInv'
  BY <1>7, <1>8, EnrollRequest
<1>9. ASSUME NEW a \in Agents, (NewDeviceKey(a) /\ UNCHANGED meshVars) \/ SetStatus(a) PROVE LiveInv'
  BY <1>2, <1>3, <1>9 DEF NewDeviceKey, SetStatus, meshVars, gateway
<1>10. CASE Crash
  <2>1. /\ bundle' = bundle /\ UNCHANGED <<minted, base, versions, rot>>
        /\ \A v \in Workers : job'[v] = Idle
    BY <1>10 DEF Crash, gateway
  <2>2. \A v \in Workers : HeldLive(job[v])'
    BY <2>1 DEF HeldLive, Idle, Merging
  <2> QED
    BY <1>2, <2>1, <2>2
<1> QED
  BY <1>4, <1>5, <1>6, <1>8, <1>9, <1>10, RevokeLive, RotationLive DEF Next

(* A fleet starts with its first keys under the base aliases.               *)
LEMMA InitLive == Init => LiveInv
<1> SUFFICES ASSUME Init PROVE LiveInv
  OBVIOUS
<1> PICK members \in SUBSET Agents, keyed \in SUBSET Agents :
        /\ bundle = [a \in Agents |-> Member(a, members, keyed, strict)]
        /\ minted = [a \in Agents |-> IF a \in members THEN 1 ELSE 0]
        /\ base = minted
        /\ versions = [a \in Agents |-> {}]
        /\ rot = [a \in Agents |-> NoRotation]
  BY DEF Init
<1>1. \A a \in Agents : KeysInOrder(a)
  <2>1. \A a \in Agents : minted[a] \in Nat
    OBVIOUS
  <2> QED
    BY <2>1 DEF KeysInOrder, NoRotation
<1>2. \A a \in Agents : bundle[a].id # None => bundle[a].id \in Safe(a)
  BY DEF Member, Safe, Live, NoRotation, None
<1>3. \A w \in Workers : HeldLive(job[w])
  BY DEF Init, Idle, HeldLive, Enrolling, Merging
<1>4. \A a \in Agents : rot[a].stage = "none"
  BY DEF NoRotation
<1> QED
  BY <1>1, <1>2, <1>3, <1>4 DEF LiveInv

(* A half-done enrolment, an overtaken one, a resync that writes what it    *)
(* read before, and a rotation at any stage may lose a key; none of them    *)
(* leaves an identity key in a bundle that the gateway does not know        *)
(* (mesh-enroll.ts enrollAgent, credential-rotation.ts).                    *)
THEOREM NoDeadIdentity == Spec => []BundleKeyLive
<1>1. TypeInv /\ LiveInv /\ [Next]_vars => (TypeInv /\ LiveInv)'
  BY NextTyped, NextLive
<1>2. LiveInv => BundleKeyLive
  BY DEF LiveInv, BundleKeyLive, Safe
<1> QED
  BY <1>1, <1>2, InitTyped, InitLive, PTL DEF Spec

-----------------------------------------------------------------------------
(* The resync that nothing disturbs.                                        *)

(* After any other write there is nothing to show.                          *)
LEMMA DirtyClean ==
    ASSUME clean' = "dirty"
    PROVE  CleanInv'
  BY KeysAssumption DEF CleanInv

(* A step that writes nothing the rendering depends on, and does not touch  *)
(* the resync that counts.                                                  *)
LEMMA CleanKeeps ==
    ASSUME CleanInv, clean' = clean, strict' = strict, active' = active, bundle' = bundle,
           \A S : ActiveKeys(S, pub)' = ActiveKeys(S, pub),
           \A v \in Workers : Same(job'[v], job[v]) \/ clean # v
    PROVE  CleanInv'
<1>1. Enrolled' = Enrolled
  BY DEF Enrolled
<1>2. \A d : InStep(d)' <=> InStep(d)
  BY <1>1 DEF InStep
<1>3. ASSUME NEW w \in Workers, clean' = w PROVE Current(job[w])'
  <2>1. Current(job[w]) /\ Same(job'[w], job[w])
    BY <1>3 DEF CleanInv
  <2> QED
    BY <1>1, <1>2, <2>1 DEF Current, Same
<1> QED
  BY <1>1, <1>2, <1>3 DEF CleanInv

(* The active keys are the keys of the active rows.                         *)
LEMMA ActiveSame ==
    ASSUME \A a \in Agents : pub'[a].status = "active" <=> pub[a].status = "active",
           \A a \in Agents : pub[a].status = "active" => pub'[a].key = pub[a].key
    PROVE  \A S : ActiveKeys(S, pub)' = ActiveKeys(S, pub)
  BY DEF ActiveKeys

(* A member whose a2a.json a resync has rendered from current reads is in   *)
(* step with the registry.                                                  *)
LEMMA RenderedInStep ==
    ASSUME TypeInv, NEW w \in Workers, job[w] \in RenderJobs, Current(job[w]),
           NEW d \in Agents, d \in job[w].todo
    PROVE  /\ Rendered(d, job[w]).id = bundle[d].id
           /\ \A p \in Rendered(d, job[w]).trusted \ {d} :
                /\ Rendered(d, job[w]).pk[p] = ActiveKeys(Enrolled, pub)[p]
                /\ Rendered(d, job[w]).pk[p] # None =>
                     /\ Rendered(d, job[w]).strict = (IF strict THEN "on" ELSE "off")
                     /\ strict => Rendered(d, job[w]).tok[p] = None
                /\ (~strict /\ p \in Enrolled) => Rendered(d, job[w]).tok[p] # None
<1> PICK r \in RenderJobs : r = job[w]
  OBVIOUS
<1> PICK x \in A2a : x = Rendered(d, r)
  BY RenderedFields
<1>1. /\ r.strict = strict /\ r.members = Enrolled /\ r.keys = ActiveKeys(Enrolled, pub)
      /\ \A p \in Enrolled : r.seen[p].id = bundle[p].id
      /\ r.seen[d] = bundle[d]
  BY DEF Current
<1>2. \A p \in Enrolled : bundle[p].id # None
  BY DEF Enrolled
<1>3. /\ x.id = bundle[d].id
      /\ x.trusted = bundle[d].trusted
      /\ \A p \in Agents : x.pk[p] = IF p \in x.trusted \ {d} THEN r.keys[p] ELSE None
      /\ \A p \in Agents : x.pk[p] # None => x.strict = IF strict THEN "on" ELSE "off"
      /\ \A p \in Agents : x.tok[p] =
           IF p \notin x.trusted \ {d} THEN bundle[d].tok[p]
           ELSE IF strict /\ x.pk[p] # None THEN None
           ELSE IF ~strict /\ bundle[d].tok[p] = None
                THEN IF p \in Enrolled THEN r.seen[p].id ELSE None
           ELSE bundle[d].tok[p]
  BY <1>1, RenderedFields
<1>4. x.trusted \subseteq Agents
  BY DEF A2a
<1> QED
  BY <1>1, <1>2, <1>3, <1>4

(* The requests about keys.                                                 *)
LEMMA KeyClean ==
    ASSUME TypeInv, CleanInv, NEW w \in Workers, KeyStep(w) \/ KeyRequest(w)
    PROVE  CleanInv'
<1>1. /\ clean = w => Current(job[w])
      /\ w # "settled" /\ w # "dirty"
  BY KeysAssumption DEF CleanInv
<1>2. ASSUME Rests(w), job[w].pc # "render", clean' = clean, strict' = strict, active' = active,
             bundle' = bundle, \A S : ActiveKeys(S, pub)' = ActiveKeys(S, pub)
      PROVE  CleanInv'
  <2>1. \A v \in Workers : Same(job'[v], job[v]) \/ clean # v
    BY <1>1, <1>2 DEF Rests, Current
  <2> QED
    BY <1>2, <2>1, CleanKeeps
<1>3. CASE ResyncRead(w)
  <2>1. Moves(w, [pc |-> "render", report |-> job[w].report, strict |-> strict,
                  members |-> Enrolled, todo |-> Enrolled, seen |-> bundle,
                  keys |-> ActiveKeys(Enrolled, pub)])
    BY <1>3, ResyncMoves
  <2>2. /\ job'[w].pc = "render" /\ job'[w].todo = Enrolled /\ job'[w].seen = bundle
        /\ job'[w].strict = strict /\ job'[w].members = Enrolled
        /\ job'[w].keys = ActiveKeys(Enrolled, pub)
    BY <2>1 DEF Moves, Same
  <2>3. bundle' = bundle /\ strict' = strict /\ pub' = pub /\ active' = active /\ clean' = w
    BY <1>3 DEF ResyncRead
  <2>4. Enrolled' = Enrolled /\ ActiveKeys(Enrolled, pub)' = ActiveKeys(Enrolled, pub)
    BY <2>3 DEF Enrolled, ActiveKeys
  <2>5. Current(job[w])'
    BY <2>2, <2>3, <2>4 DEF Current
  <2> QED
    BY <1>1, <2>3, <2>5 DEF CleanInv
<1>4. ASSUME NEW d \in Agents, ResyncWrite(w, d) PROVE CleanInv'
  <2>1. job[w] \in RenderJobs /\ Moves(w, [job[w] EXCEPT !.todo = @ \ {d}])
    BY <1>4, ResyncMoves
  <2>2. job[w].pc = "render" /\ d \in job[w].todo /\ strict' = strict /\ active' = active
    BY <1>4 DEF ResyncWrite
  <2>3. /\ job'[w].pc = "render" /\ job'[w].seen = job[w].seen /\ job'[w].strict = job[w].strict
        /\ job'[w].members = job[w].members /\ job'[w].keys = job[w].keys
        /\ job'[w].todo = job[w].todo \ {d}
    BY <2>1, <2>2 DEF Moves, Same, RenderJobs
  <2>4. CASE clean # w
    <3>1. CASE UNCHANGED <<bundle, pub, clean>>
      <4>1. \A S : ActiveKeys(S, pub)' = ActiveKeys(S, pub)
        BY <3>1 DEF ActiveKeys
      <4> QED
        BY <2>1, <2>2, <2>4, <3>1, <4>1, CleanKeeps DEF Moves
    <3>2. CASE Disturbs(w)
      BY <2>4, <3>2, DirtyClean DEF Disturbs
    <3> QED
      BY <1>4, <3>1, <3>2 DEF ResyncWrite
  <2>5. CASE clean = w
    <3>1. Current(job[w]) /\ clean' = w
      BY <1>1, <1>4, <2>5 DEF ResyncWrite, Disturbs
    <3>2. /\ \A b \in Agents \ {d} : bundle'[b] = bundle[b]
          /\ bundle'[d] = Rendered(d, job[w])
          /\ \A b \in Agents : pub'[b].key = pub[b].key /\ pub'[b].status = pub[b].status
      <4>1. CASE Rendered(d, job[w]) = job[w].seen[d] /\ UNCHANGED <<bundle, pub, clean>>
        BY <2>2, <3>1, <4>1 DEF Current
      <4>2. CASE RotateBundle(d, Rendered(d, job[w]))
        BY <2>1, <4>2, RenderedFields, RotateTyped
      <4> QED
        BY <1>4, <4>1, <4>2 DEF ResyncWrite
    <3>3. bundle'[d].id = bundle[d].id
      BY <2>1, <2>2, <3>1, <3>2, RenderedInStep
    <3>4. Enrolled' = Enrolled /\ Enrolled \subseteq Agents
      BY <2>2, <3>2, <3>3, TypeParts DEF Enrolled
    <3>5. ActiveKeys(Enrolled, pub)' = ActiveKeys(Enrolled, pub)
      BY <3>2, <3>4 DEF ActiveKeys
    <3>6. InStep(d)'
      BY <2>1, <2>2, <3>1, <3>2, <3>4, <3>5, RenderedInStep DEF InStep
    <3>7. \A e \in Enrolled \ job[w].todo : InStep(e)'
      BY <2>2, <3>1, <3>2, <3>4, <3>5 DEF Current, InStep
    <3>8. Current(job[w])'
      BY <2>2, <2>3, <3>1, <3>2, <3>3, <3>4, <3>5, <3>6, <3>7 DEF Current
    <3> QED
      BY <1>1, <3>1, <3>8 DEF CleanInv
  <2> QED
    BY <2>4, <2>5
<1>5. CASE ResyncEnd(w)
  <2>1. Rests(w) /\ bundle' = bundle /\ strict' = strict /\ pub' = pub /\ active' = active
    BY <1>5, KeyRests DEF ResyncEnd
  <2>2. CASE clean = w
    <3>1. clean' = "settled" /\ \A d \in Enrolled : InStep(d)
      BY <1>1, <1>5, <2>2 DEF ResyncEnd, Current
    <3>2. Enrolled' = Enrolled /\ ActiveKeys(Enrolled, pub)' = ActiveKeys(Enrolled, pub)
      BY <2>1 DEF Enrolled, ActiveKeys
    <3>3. \A d \in Enrolled' : InStep(d)'
      BY <2>1, <3>1, <3>2 DEF InStep
    <3> QED
      BY <3>1, <3>3, KeysAssumption DEF CleanInv
  <2>3. CASE clean # w
    <3>1. clean' = clean /\ \A S : ActiveKeys(S, pub)' = ActiveKeys(S, pub)
      BY <1>5, <2>1, <2>3 DEF ResyncEnd, ActiveKeys
    <3>2. \A v \in Workers : Same(job'[v], job[v]) \/ clean # v
      BY <2>1, <2>3 DEF Rests
    <3> QED
      BY <2>1, <3>1, <3>2, CleanKeeps
  <2> QED
    BY <2>2, <2>3
<1>6. CASE ReportGuardStatus(w)
  <2>1. /\ Rests(w) /\ bundle' = bundle /\ strict' = strict /\ active' = active /\ clean' = clean
        /\ job[w].pc = "report"
    BY <1>6, KeyRests DEF ReportGuardStatus
  <2>2. \A a \in Agents : pub'[a].key = pub[a].key /\ pub'[a].status = pub[a].status
    BY <1>6, TypeParts DEF ReportGuardStatus, TablesOK, Row
  <2> QED
    BY <1>2, <2>1, <2>2, ActiveSame
<1>7. CASE SetStrict(w, TRUE) \/ SetStrict(w, FALSE)
  BY <1>7, DirtyClean DEF SetStrict
<1>8. CASE StrictCheck(w)
  <2>1. /\ Rests(w) /\ bundle' = bundle /\ strict' = strict /\ active' = active /\ clean' = clean
        /\ pub' = pub /\ job[w].pc = "idle"
    BY <1>8, KeyRests DEF StrictCheck, Arrives
  <2> QED
    BY <1>2, <2>1, ActiveSame
<1>9. ASSUME NEW a \in Agents, ConsoleKeyVerb(w, a) PROVE CleanInv'
  <2>1. CASE ApproveDeviceKey(w, a) \/ RevokeDeviceKey(w, a)
    BY <2>1, DirtyClean DEF ApproveDeviceKey, RevokeDeviceKey
  <2>2. CASE RejectConflict(w, a)
    <3>1. /\ Rests(w) /\ bundle' = bundle /\ strict' = strict /\ active' = active /\ clean' = clean
          /\ job[w].pc = "idle"
      BY <1>9, <2>2, KeyRests DEF RejectConflict, Arrives
    <3>2. \A b \in Agents : pub'[b].key = pub[b].key /\ pub'[b].status = pub[b].status
      BY <2>2, TypeParts DEF RejectConflict, TablesOK, Row
    <3> QED
      BY <1>2, <3>1, <3>2, ActiveSame
  <2> QED
    BY <1>9, <2>1, <2>2 DEF ConsoleKeyVerb
<1>10. ASSUME NEW a \in Agents, NEW fit \in BOOLEAN, NEW approval \in BOOLEAN,
              ReportKey(w, a, fit, approval)
       PROVE  CleanInv'
  <2>1. CASE pub[a].status = "none" /\ ~approval
    BY <1>10, <2>1, DirtyClean DEF ReportKey
  <2>2. CASE ~(pub[a].status = "none" /\ ~approval)
    <3>1. /\ Rests(w) /\ bundle' = bundle /\ strict' = strict /\ active' = active /\ clean' = clean
          /\ job[w].pc = "idle"
      BY <1>10, <2>2, KeyRests DEF ReportKey, Arrives
    <3>2. \A b \in Agents : pub'[b] = IF b = a THEN RegisterDeviceKey(pub[a], devKey[a], approval)
                                      ELSE pub[b]
      BY <1>10, TypeParts DEF ReportKey, TablesOK
    <3>3. pub[a] \in Row
      BY TypeParts DEF TablesOK
    <3>4. /\ pub'[a].status = "active" <=> pub[a].status = "active"
          /\ pub[a].status = "active" => pub'[a].key = pub[a].key
      BY <2>2, <3>2, <3>3 DEF RegisterDeviceKey, Row, NoRow
    <3> QED
      BY <1>2, <3>1, <3>2, <3>4, ActiveSame
  <2> QED
    BY <2>1, <2>2
<1> QED
  BY <1>3, <1>4, <1>5, <1>6, <1>7, <1>8, <1>9, <1>10 DEF KeyStep, KeyRequest, ConsoleStrict

(* An enrolment is no resync, and its writes disturb one.                   *)
LEMMA EnrolClean ==
    ASSUME TypeInv, CleanInv, NEW w \in Workers, EnrollStep(w)
    PROVE  CleanInv'
<1>1. clean = w => job[w].pc = "render"
  BY DEF CleanInv, Current
<1>2. ASSUME job[w].pc # "render", clean' = clean, strict' = strict, active' = active,
             bundle' = bundle, pub' = pub, \A v \in Workers \ {w} : Same(job'[v], job[v])
      PROVE  CleanInv'
  <2>1. \A v \in Workers : Same(job'[v], job[v]) \/ clean # v
    BY <1>1, <1>2
  <2> QED
    BY <1>2, <2>1, ActiveSame, CleanKeeps
<1>3. CASE FindKeyRow(w)
  <2>1. job[w].pc = "find"
    BY <1>3 DEF FindKeyRow
  <2>2. \A v \in Workers \ {w} : Same(job'[v], job[v])
    BY <1>3, <2>1, EnrolMoves, EnrolRests DEF FindKeyRow, Moves, Rests
  <2> QED
    BY <1>2, <1>3, <2>1, <2>2 DEF FindKeyRow
<1>4. CASE MintMeshKey(w)
  <2>1. \A v \in Workers \ {w} : Same(job'[v], job[v])
    BY <1>4, EnrolMoves DEF Moves
  <2> QED
    BY <1>2, <1>4, <2>1 DEF MintMeshKey
<1>5. CASE RegisterAgentRow(w)
  <2>1. \A v \in Workers \ {w} : Same(job'[v], job[v])
    BY <1>5, EnrolMoves DEF Moves
  <2> QED
    BY <1>2, <1>5, <2>1 DEF RegisterAgentRow
<1>6. CASE GatewayCallFails(w)
  <2>1. \A v \in Workers \ {w} : Same(job'[v], job[v])
    BY <1>6, EnrolRests DEF GatewayCallFails, Rests
  <2> QED
    BY <1>2, <1>6, <2>1 DEF GatewayCallFails
<1>7. CASE ResolveMeshPeers(w)
  <2>1. \A v \in Workers \ {w} : Same(job'[v], job[v])
    BY <1>7, MergeMoves DEF Moves
  <2> QED
    BY <1>2, <1>7, <2>1 DEF ResolveMeshPeers
<1>8. CASE MergeOwn(w) \/ \E p \in Agents : MergePeer(w, p)
  BY <1>1, <1>8, DirtyClean DEF MergeOwn, MergePeer, Merge, Disturbs
<1>9. CASE MergeFails(w)
  <2>1. \A v \in Workers \ {w} : Same(job'[v], job[v])
    BY <1>9, EnrolRests DEF MergeFails, Rests
  <2> QED
    BY <1>2, <1>9, <2>1 DEF MergeFails
<1>10. CASE EnrollDone(w)
  <2>1. \A v \in Workers \ {w} : Same(job'[v], job[v])
    BY <1>10, EnrolRests DEF Rests
  <2> QED
    BY <1>2, <1>10, <2>1 DEF EnrollDone
<1> QED
  BY <1>3, <1>4, <1>5, <1>6, <1>7, <1>8, <1>9, <1>10 DEF EnrollStep

(* In a quiet registrar no resync is under way; what a rotation's flip and  *)
(* completion write is nothing the rendering depends on.                    *)
LEMMA QuietClean ==
    ASSUME CleanInv, Quiet, clean' = clean, strict' = strict, active' = active,
           \A b \in Agents :
             /\ bundle'[b].id # None <=> bundle[b].id # None
             /\ bundle'[b].trusted = bundle[b].trusted
             /\ bundle'[b].pk = bundle[b].pk
             /\ bundle'[b].strict = bundle[b].strict
             /\ bundle'[b].tok = bundle[b].tok,
           \A S : ActiveKeys(S, pub)' = ActiveKeys(S, pub),
           active \subseteq Agents
    PROVE  CleanInv'
<1>1. Enrolled' = Enrolled /\ Enrolled \subseteq Agents
  BY DEF Enrolled
<1>2. \A d \in Enrolled : InStep(d)' <=> InStep(d)
  BY <1>1 DEF InStep
<1>3. \A w \in Workers : clean # w
  BY DEF CleanInv, Current, Quiet
<1> QED
  BY <1>1, <1>2, <1>3 DEF CleanInv

(* No other step writes something unseen.                                   *)
LEMMA NextClean ==
    ASSUME TypeInv, LiveInv, CleanInv, [Next]_vars
    PROVE  CleanInv'
<1>1. ASSUME clean' = clean, strict' = strict, active' = active, bundle' = bundle, pub' = pub,
             \A v \in Workers : Same(job'[v], job[v]) \/ clean # v
      PROVE  CleanInv'
  BY <1>1, ActiveSame, CleanKeeps
<1>2. \A v \in Workers : Same(job[v], job[v])
  BY DEF Same
<1>3. CASE UNCHANGED vars
  BY <1>1, <1>2, <1>3 DEF vars, keyVars
<1>4. ASSUME NEW w \in Workers, KeyStep(w) \/ KeyRequest(w) PROVE CleanInv'
  BY <1>4, KeyClean
<1>5. ASSUME NEW w \in Workers, EnrollStep(w) PROVE CleanInv'
  BY <1>5, EnrolClean
<1>6. ASSUME NEW w \in Workers, NEW a \in Agents, NEW o \in Urls, NEW u \in Urls,
             NEW c \in BOOLEAN, EnrollAgent(w, a, o, u, c)
      PROVE  CleanInv'
  <2>1. Moves(w, [pc |-> "find", agent |-> a, origin |-> o, public |-> u,
                  console |-> c, own |-> bundle[a], key |-> None])
    BY <1>6, EnrolMoves
  <2>2. clean # w
    BY <1>6 DEF EnrollAgent, Arrives, CleanInv, Current
  <2> QED
    BY <1>1, <1>6, <2>1, <2>2 DEF EnrollAgent, Moves
<1>7. ASSUME NEW w \in Workers, NEW a \in Agents, NEW origin \in Hosts, NEW public \in Hosts,
             MachineEnroll(w, a, origin, public) \/ ConsoleEnroll(w, a, origin, public)
      PROVE  CleanInv'
  BY <1>6, <1>7, EnrollRequest
<1>8. ASSUME NEW a \in Agents, NewDeviceKey(a) \/ RevokeAlias(a) PROVE CleanInv'
  BY <1>1, <1>2, <1>8 DEF NewDeviceKey, RevokeAlias
<1>9. ASSUME NEW a \in Agents, SetStatus(a) \/ RotationStart(a) PROVE CleanInv'
  BY <1>9, DirtyClean DEF SetStatus, RotationStart
<1>10. CASE Crash
  <2>1. CASE clean \in Workers
    BY <1>10, <2>1, DirtyClean DEF Crash
  <2>2. CASE clean \notin Workers
    BY <1>1, <1>10, <2>2 DEF Crash
  <2> QED
    BY <2>1, <2>2
<1>11. ASSUME NEW a \in Agents, RotationFlip(a) PROVE CleanInv'
  <2>1. Quiet /\ clean' = clean /\ strict' = strict /\ active' = active /\ rot[a].stage = "delivering"
    BY <1>11 DEF RotationFlip
  <2>2. rot[a].new \in Safe(a)
    BY <2>1 DEF LiveInv, KeysInOrder, Safe, Live
  <2>3. bundle[a].id # None /\ rot[a].new # None
    BY <2>1, <2>2, SafeIsKey DEF LiveInv
  <2>4. \A S : ActiveKeys(S, pub)' = ActiveKeys(S, pub)
    BY <1>11, FlipEffect, ActiveSame
  <2> QED
    BY <1>11, <2>1, <2>3, <2>4, FlipEffect, QuietClean, TypeParts
<1>12. ASSUME NEW a \in Agents, RotationComplete(a) PROVE CleanInv'
  <2>1. Quiet /\ clean' = clean /\ strict' = strict /\ active' = active
    BY <1>12 DEF RotationComplete
  <2>2. \A S : ActiveKeys(S, pub)' = ActiveKeys(S, pub)
    BY <1>12, CompleteEffect, ActiveSame
  <2> QED
    BY <1>12, <2>1, <2>2, CompleteEffect, QuietClean, TypeParts
<1> QED
  BY <1>3, <1>4, <1>5, <1>7, <1>8, <1>9, <1>10, <1>11, <1>12 DEF Next

(* A fleet starts in step with the registry.                                *)
LEMMA InitClean == Init => CleanInv
<1> SUFFICES ASSUME Init PROVE CleanInv
  OBVIOUS
<1> PICK members \in SUBSET Agents, keyed \in SUBSET Agents :
        /\ keyed \subseteq members
        /\ strict \in {FALSE, keyed = members /\ members # {}}
        /\ bundle = [a \in Agents |-> Member(a, members, keyed, strict)]
        /\ pub = [a \in Agents |-> IF a \in keyed THEN [NoRow EXCEPT !.key = 1, !.status = "active",
                                                                  !.fit = TRUE]
                                   ELSE NoRow]
        /\ granted = [a \in Agents |-> IF a \in keyed THEN {1} ELSE {}]
        /\ minted = [a \in Agents |-> IF a \in members THEN 1 ELSE 0]
  BY DEF Init
<1>1. Enrolled = members
  <2>1. active = Agents
    BY DEF Init
  <2> QED
    BY <2>1 DEF Enrolled, Member, None
<1>2. ActiveKeys(Enrolled, pub) = [a \in Agents |-> IF a \in keyed THEN 1 ELSE None]
  BY <1>1 DEF ActiveKeys, NoRow
<1>3. ASSUME NEW d \in Enrolled PROVE InStep(d)
  <2>1. /\ bundle[d].trusted = members \ {d}
        /\ bundle[d].tok = [b \in Agents |-> IF b \in members \ {d} /\ ~strict THEN 1 ELSE None]
        /\ bundle[d].pk = [b \in Agents |-> IF b \in keyed \ {d} THEN 1 ELSE None]
        /\ bundle[d].strict = IF keyed \subseteq {d} THEN "absent" ELSE IF strict THEN "on" ELSE "off"
    BY <1>1, <1>3 DEF Member
  <2>2. ASSUME NEW p \in members \ {d}
        PROVE  /\ bundle[d].pk[p] = IF p \in keyed THEN 1 ELSE None
               /\ bundle[d].tok[p] = IF strict THEN None ELSE 1
               /\ p \in keyed => bundle[d].strict = IF strict THEN "on" ELSE "off"
    BY <2>1, <2>2
  <2>3. 1 # None
    BY DEF None
  <2>4. \A p \in members : ActiveKeys(Enrolled, pub)[p] = IF p \in keyed THEN 1 ELSE None
    BY <1>2
  <2> QED
    BY <2>1, <2>2, <2>3, <2>4 DEF InStep
<1>4. clean = "settled" /\ \A w \in Workers : clean # w
  BY KeysAssumption DEF Init
<1> QED
  BY <1>3, <1>4 DEF CleanInv

(* A resync that no other write fell into leaves every member's bundle in   *)
(* step with the registry and the switch, whichever of the reports,         *)
(* approvals, revocations, switches and enrolments came last and whatever   *)
(* died before it (a2a-keys.ts resyncMeshKeys).                             *)
THEOREM ResyncSettles == Spec => []BundlesFollowRegistry
<1>1. TypeInv /\ LiveInv /\ CleanInv /\ [Next]_vars => (TypeInv /\ LiveInv /\ CleanInv)'
  BY NextTyped, NextLive, NextClean
<1>2. CleanInv => BundlesFollowRegistry
  BY DEF CleanInv, BundlesFollowRegistry, InStep
<1> QED
  BY <1>1, <1>2, InitTyped, InitLive, InitClean, PTL DEF Spec

-----------------------------------------------------------------------------
(* The enrolments that count.                                               *)

(* The switch matters to the agents in rotation only.                       *)
LEMMA WiredSwitch ==
    ASSUME NEW a, NEW x, NEW id, NEW r, NEW on, NEW off,
           Wired(a, x, id, r, on), off = on \/ r.stage = "none"
    PROVE  Wired(a, x, id, r, off)
  BY DEF Wired

(* What a step must leave of an agent whose enrolment goes on counting: its *)
(* identity, and the wires to its fellows in its bundle.                    *)
Undisturbed(a) ==
    /\ outcome'[a] = outcome[a]
    /\ a \in active' => a \in active
    /\ strict' = strict \/ rot[a].stage = "none"
    /\ bundle'[a].id = bundle[a].id
    /\ \A c \in Agents \ {a} :
         (Presents(bundle[c].id, rot[c]) /\ Wired(c, bundle[a], bundle[c].id, rot[c], strict))
         => Wired(c, bundle'[a], bundle[c].id, rot[c], strict)

(* How a request may move meanwhile: not at all, on to a later gateway      *)
(* call, or out of its enrolment.                                           *)
Onward(v) ==
    \/ Same(job'[v], job[v])
    \/ /\ job'[v].pc \in Enrolling /\ job[v].pc \in Enrolling
       /\ job'[v].agent = job[v].agent
    \/ /\ job'[v].pc \notin Enrolling \union Merging
       /\ Enrolment(v) => outcome'[job[v].agent] # "running"

(* A step that leaves every counting enrolment undisturbed, and adds none, *)
(* keeps the pairs of enrolled agents wired to each other.                 *)
LEMMA MutualStays ==
    ASSUME TypeInv, TypeInv', MutualInv, rot' = rot,
           outcome' \in [Agents -> {"no", "running", "ok"}],
           \A a \in Agents : outcome'[a] # "no" => Undisturbed(a),
           \A v \in Workers : Onward(v)
    PROVE  MutualInv'
<1>1. Good \subseteq Agents /\ Good' \subseteq Good /\ \A a \in Good' : outcome'[a] = "ok"
  <2>1. active \subseteq Agents /\ active' \subseteq Agents
    BY DEF TypeInv, TypeOK, KeysTypeOK
  <2> QED
    BY <2>1 DEF Good, Undisturbed
<1>2. ASSUME NEW a \in Agents, NEW c \in Agents \ {a}, outcome'[a] # "no", outcome'[c] # "no",
             Presents(bundle[c].id, rot[c]), Wired(c, bundle[a], bundle[c].id, rot[c], strict)
      PROVE  Wired(c, bundle'[a], bundle'[c].id, rot'[c], strict')
  <2>1. /\ Wired(c, bundle'[a], bundle[c].id, rot[c], strict)
        /\ bundle'[c].id = bundle[c].id
        /\ strict' = strict \/ rot[c].stage = "none"
    BY <1>2 DEF Undisturbed
  <2> QED
    BY <2>1, WiredSwitch
<1>3. ASSUME NEW c \in Agents, outcome'[c] # "no", NEW x,
             Wired(c, x, bundle[c].id, rot[c], strict)
      PROVE  Wired(c, x, bundle'[c].id, rot'[c], strict')
  <2>1. bundle'[c].id = bundle[c].id /\ (strict' = strict \/ rot[c].stage = "none")
    BY <1>3 DEF Undisturbed
  <2> QED
    BY <1>3, <2>1, WiredSwitch
<1>4. FleetWired'
  <2>1. \A a \in Good' : Presents(bundle'[a].id, rot'[a])
    BY <1>1 DEF MutualInv, FleetWired, Undisturbed
  <2>2. ASSUME NEW a \in Good', NEW c \in Good' \ {a}
        PROVE  Wired(c, bundle'[a], bundle'[c].id, rot'[c], strict')
    <3>1. Presents(bundle[c].id, rot[c]) /\ Wired(c, bundle[a], bundle[c].id, rot[c], strict)
      BY <1>1, <2>2 DEF MutualInv, FleetWired
    <3>2. a \in Agents /\ c \in Agents \ {a} /\ outcome'[a] # "no" /\ outcome'[c] # "no"
      BY <1>1, <2>2
    <3> QED
      BY <1>2, <3>1, <3>2
  <2> QED
    BY <2>1, <2>2 DEF FleetWired
<1>5. ASSUME NEW v \in Workers PROVE KeepsWired(job[v])'
  <2>1. CASE job'[v].pc \in Merging
    <3>1. job'[v] = job[v]
      BY <2>1 DEF Onward, Same, Enrolling, Merging
    <3>2. PICK x : x = job[v]
      OBVIOUS
    <3>3. x.agent \notin x.peers
      BY <2>1, <3>1, <3>2 DEF MutualInv, KeepsWired
    <3>4. ASSUME NEW p \in x.peers, p \in Good'
          PROVE  /\ x.next[p].id = bundle'[p].id
                 /\ \A c \in Good' \ {p} : Wired(c, x.next[p], bundle'[c].id, rot'[c], strict')
      <4>1. /\ x.next[p].id = bundle[p].id
            /\ \A c \in Good \ {p} : Wired(c, x.next[p], bundle[c].id, rot[c], strict)
        BY <1>1, <2>1, <3>1, <3>2, <3>4 DEF MutualInv, KeepsWired
      <4>2. bundle'[p].id = bundle[p].id
        BY <1>1, <3>4 DEF Undisturbed
      <4> QED
        BY <1>1, <1>3, <4>1, <4>2
    <3> QED
      BY <3>1, <3>2, <3>3, <3>4 DEF KeepsWired
  <2>2. CASE job'[v].pc \notin Merging
    BY <2>2 DEF KeepsWired
  <2> QED
    BY <2>1, <2>2
<1>6. ASSUME NEW v \in Workers, Enrolment(v)'
      PROVE  Enrolment(v) /\ job'[v].agent = job[v].agent
  BY <1>6 DEF Onward, Same, Enrolment
<1>7. ASSUME NEW a \in Agents, outcome'[a] = "running"
      PROVE  \E w \in Workers : Enrolment(w)' /\ job'[w].agent = a
  <2>1. PICK w \in Workers : Enrolment(w) /\ job[w].agent = a
    BY <1>7 DEF MutualInv, Undisturbed
  <2> QED
    BY <1>7, <2>1 DEF Onward, Same, Enrolment
<1>8. ASSUME NEW v \in Workers, Enrolment(v)' PROVE Counts(v)'
  <2>1. PICK a \in Agents : a = job[v].agent
    <3>1. Enrolment(v) /\ job[v] \in Jobs
      BY <1>6, <1>8 DEF TypeInv
    <3> QED
      BY <3>1, JobShape DEF Enrolment, EnrollJobs, MergeJobs
  <2>2. job'[v].agent = a /\ Counts(v)
    BY <1>6, <1>8, <2>1 DEF MutualInv
  <2>3. outcome'[a] # "ok"
    BY <2>1, <2>2 DEF Counts, Undisturbed
  <2>4. ASSUME outcome'[a] = "running"
        PROVE  /\ \A u \in Workers : Enrolment(u)' => u = v
               /\ BringsOwn(job[v])'
               /\ BringsPeers(job[v])'
    <3>1. outcome[a] = "running" /\ bundle'[a].id = bundle[a].id
      BY <2>4 DEF Undisturbed
    <3>2. \A u \in Workers : Enrolment(u)' => u = v
      BY <1>6, <2>1, <2>2, <3>1 DEF Counts
    <3>3. BringsOwn(job[v]) /\ BringsPeers(job[v])
      BY <2>1, <2>2, <3>1 DEF Counts
    <3>4. \A c \in Good' : c \in Good /\ c \in Agents \ {a} /\ outcome'[c] # "no"
      BY <1>1, <2>4
    <3>5. PICK x : x = job[v]
      OBVIOUS
    <3>6. BringsOwn(job[v])'
      <4>1. CASE job'[v].pc = "own"
        <5>1. job'[v] = x /\ x.agent = a /\ x.pc = "own"
          BY <2>1, <3>5, <4>1 DEF Onward, Same, Enrolling, Merging
        <5>2. /\ Presents(x.next[a].id, rot[a])
              /\ \A c \in Good : Wired(c, x.next[a], bundle[c].id, rot[c], strict)
              /\ \A c \in Good : c \in x.peers /\ Wired(a, x.next[c], x.next[a].id, rot[a], strict)
          BY <3>3, <3>5, <5>1 DEF BringsOwn
        <5>3. \A c \in Good' : Wired(c, x.next[a], bundle'[c].id, rot'[c], strict')
          BY <1>3, <3>4, <5>2
        <5>4. \A c \in Good' : Wired(a, x.next[c], x.next[a].id, rot'[a], strict')
          <6>1. strict' = strict \/ rot[a].stage = "none"
            BY <2>4 DEF Undisturbed
          <6> QED
            BY <3>4, <5>2, <6>1, WiredSwitch
        <5> QED
          BY <3>4, <5>1, <5>2, <5>3, <5>4 DEF BringsOwn
      <4> QED
        BY <4>1 DEF BringsOwn
    <3>7. BringsPeers(job[v])'
      <4>1. CASE job'[v].pc = "merge"
        <5>1. job'[v] = x /\ x.agent = a /\ x.pc = "merge"
          BY <2>1, <3>5, <4>1 DEF Onward, Same, Enrolling, Merging
        <5>2. /\ Presents(bundle[a].id, rot[a])
              /\ \A c \in Good : Wired(c, bundle[a], bundle[c].id, rot[c], strict)
              /\ \A c \in Good : Wired(a, IF c \in x.peers THEN x.next[c] ELSE bundle[c],
                                       bundle[a].id, rot[a], strict)
          BY <3>3, <3>5, <5>1 DEF BringsPeers
        <5>3. \A c \in Good' : Wired(c, bundle'[a], bundle'[c].id, rot'[c], strict')
          <6>1. \A c \in Good' : Presents(bundle[c].id, rot[c])
            BY <1>1 DEF MutualInv, FleetWired
          <6> QED
            BY <1>2, <2>4, <3>4, <5>2, <6>1
        <5>4. ASSUME NEW c \in Good'
              PROVE  Wired(a, IF c \in x.peers THEN x.next[c] ELSE bundle'[c],
                           bundle'[a].id, rot'[a], strict')
          <6>1. CASE c \in x.peers
            BY <1>3, <2>4, <3>4, <5>2, <6>1
          <6>2. CASE c \notin x.peers
            <7>1. Wired(a, bundle[c], bundle[a].id, rot[a], strict)
              BY <3>4, <5>2, <6>2
            <7> QED
              BY <1>2, <2>4, <3>4, <5>2, <6>2, <7>1
          <6> QED
            BY <6>1, <6>2
        <5>5. Presents(bundle'[a].id, rot'[a])
          BY <3>1, <5>2
        <5> QED
          BY <5>1, <5>3, <5>4, <5>5 DEF BringsPeers
      <4> QED
        BY <4>1 DEF BringsPeers
    <3> QED
      BY <3>2, <3>6, <3>7
  <2> QED
    BY <2>2, <2>3, <2>4 DEF Counts
<1> QED
  BY <1>4, <1>5, <1>7, <1>8 DEF MutualInv

(* A rotation's new key is no blank.                                        *)
LEMMA NewIsKey ==
    ASSUME TypeInv, LiveInv, NEW a \in Agents, rot[a].stage # "none"
    PROVE  rot[a].new # None
<1>1. rot[a].new \in Safe(a)
  BY DEF LiveInv, KeysInOrder, Safe, Live
<1> QED
  BY <1>1, SafeIsKey

(* A resync from current reads keeps the wires: it drops raw tokens, or     *)
(* puts the fellow's identity where none was.                               *)
LEMMA RenderedWires ==
    ASSUME TypeInv, LiveInv, NEW w \in Workers, job[w] \in RenderJobs, Current(job[w]),
           NEW d \in Agents, d \in job[w].todo, NEW c \in Agents \ {d},
           Presents(bundle[c].id, rot[c]), Wired(c, bundle[d], bundle[c].id, rot[c], strict)
    PROVE  Wired(c, Rendered(d, job[w]), bundle[c].id, rot[c], strict)
<1> PICK r \in RenderJobs : r = job[w]
  OBVIOUS
<1> PICK x \in A2a : x = Rendered(d, r)
  BY RenderedFields
<1>1. /\ r.strict = strict /\ r.members = Enrolled
      /\ \A p \in Enrolled : r.seen[p].id = bundle[p].id
      /\ r.seen[d] = bundle[d]
  BY DEF Current
<1>2. x.trusted = bundle[d].trusted /\ x.ov = bundle[d].ov
  BY <1>1, RenderedFields
<1>3. x.tok[c] = IF c \notin bundle[d].trusted \ {d} THEN bundle[d].tok[c]
                 ELSE IF r.strict /\ x.pk[c] # None THEN None
                 ELSE IF ~r.strict /\ bundle[d].tok[c] = None
                      THEN IF c \in r.members THEN r.seen[c].id ELSE None
                 ELSE bundle[d].tok[c]
  BY <1>1, RenderedFields
<1>4. \/ x.tok[c] = bundle[d].tok[c]
      \/ strict /\ x.tok[c] = None
      \/ ~strict /\ bundle[d].tok[c] = None /\ x.tok[c] = bundle[c].id
  BY <1>1, <1>3
<1>5. rot[c].stage # "none" => rot[c].new # None
  BY NewIsKey
<1>6. rot[c].stage \in {"none", "delivering", "flipped"}
  BY TypeParts DEF Rotations
<1>7. CASE rot[c].stage = "none"
  BY <1>2, <1>4, <1>7 DEF Wired
<1>8. CASE rot[c].stage = "delivering"
  BY <1>2, <1>4, <1>5, <1>8 DEF Wired
<1>9. CASE rot[c].stage = "flipped"
  BY <1>2, <1>4, <1>9 DEF Wired, Presents
<1> QED
  BY <1>6, <1>7, <1>8, <1>9

(* Where the requests about keys leave the others and the bundles.          *)
LEMMA KeyLeaves ==
    ASSUME TypeInv, NEW w \in Workers, KeyStep(w) \/ KeyRequest(w)
    PROVE  /\ \A v \in Workers \ {w} : Same(job'[v], job[v])
           /\ ~Enrolment(w) /\ job'[w].pc \notin Enrolling \union Merging
           /\ active' = active
           /\ bundle' = bundle \/ \E d \in Agents : ResyncWrite(w, d)
<1>1. ASSUME Rests(w)
      PROVE  /\ \A v \in Workers \ {w} : Same(job'[v], job[v])
             /\ job'[w].pc \notin Enrolling \union Merging
  BY <1>1 DEF Rests, Resting, Enrolling, Merging
<1>2. CASE ResyncRead(w)
  <2>1. Moves(w, [pc |-> "render", report |-> job[w].report, strict |-> strict,
                  members |-> Enrolled, todo |-> Enrolled, seen |-> bundle,
                  keys |-> ActiveKeys(Enrolled, pub)])
    BY <1>2, ResyncMoves
  <2>2. job'[w].pc = "render" /\ \A v \in Workers \ {w} : Same(job'[v], job[v])
    BY <2>1 DEF Moves, Same
  <2> QED
    BY <1>2, <2>2 DEF ResyncRead, Enrolment, Enrolling, Merging
<1>3. ASSUME NEW d \in Agents, ResyncWrite(w, d)
      PROVE  /\ \A v \in Workers \ {w} : Same(job'[v], job[v])
             /\ ~Enrolment(w) /\ job'[w].pc \notin Enrolling \union Merging
             /\ active' = active
  <2>1. job[w] \in RenderJobs /\ Moves(w, [job[w] EXCEPT !.todo = @ \ {d}])
    BY <1>3, ResyncMoves
  <2>2. job[w].pc = "render"
    BY <1>3 DEF ResyncWrite
  <2>3. job'[w].pc = "render" /\ \A v \in Workers \ {w} : Same(job'[v], job[v])
    BY <2>1, <2>2 DEF Moves, Same, RenderJobs
  <2> QED
    BY <1>3, <2>2, <2>3 DEF ResyncWrite, Enrolment, Enrolling, Merging
<1>4. CASE ResyncEnd(w) \/ ReportGuardStatus(w)
  <2>1. Rests(w)
    BY <1>4, KeyRests
  <2> QED
    BY <1>1, <1>4, <2>1 DEF ResyncEnd, ReportGuardStatus, Enrolment, Enrolling, Merging
<1>5. CASE SetStrict(w, TRUE) \/ SetStrict(w, FALSE) \/ StrictCheck(w)
  <2>1. Rests(w)
    BY <1>5, KeyRests
  <2> QED
    BY <1>1, <1>5, <2>1 DEF SetStrict, StrictCheck, Arrives, Enrolment, Enrolling, Merging
<1>6. ASSUME NEW a \in Agents, ConsoleKeyVerb(w, a)
      PROVE  /\ Rests(w) /\ ~Enrolment(w) /\ active' = active /\ bundle' = bundle
  BY <1>6, KeyRests DEF ConsoleKeyVerb, ApproveDeviceKey, RejectConflict, RevokeDeviceKey,
                        Arrives, Enrolment, Enrolling, Merging
<1>7. ASSUME NEW a \in Agents, NEW fit \in BOOLEAN, NEW approval \in BOOLEAN,
             ReportKey(w, a, fit, approval)
      PROVE  /\ Rests(w) /\ ~Enrolment(w) /\ active' = active /\ bundle' = bundle
  BY <1>7, KeyRests DEF ReportKey, Arrives, Enrolment, Enrolling, Merging
<1> QED
  BY <1>1, <1>2, <1>3, <1>4, <1>5, <1>6, <1>7 DEF KeyStep, KeyRequest, ConsoleStrict

(* A request about keys keeps the wires of every agent that goes on         *)
(* counting: a resync whose reads are out of date stops the agent counting  *)
(* whose bundle it writes, a switch the ones in rotation.                   *)
LEMMA KeyMutual ==
    ASSUME TypeInv, TypeInv', LiveInv, CleanInv, MutualInv,
           NEW w \in Workers, KeyStep(w) \/ KeyRequest(w),
           outcome' = Crossed(Overwritten(w) \union
             {a \in Agents : strict' # strict /\ rot[a].stage # "none"}),
           UNCHANGED <<gateway, rot>>
    PROVE  MutualInv'
<1>1. \A a \in Agents : outcome'[a] = "no" \/
          (/\ outcome'[a] = outcome[a]
           /\ a \notin Overwritten(w)
           /\ strict' = strict \/ rot[a].stage = "none")
  BY DEF Crossed
<1>2. outcome' \in [Agents -> {"no", "running", "ok"}]
  BY DEF Crossed, MutualInv
<1>3. ASSUME NEW a \in Agents, outcome'[a] # "no" PROVE Undisturbed(a)
  <2>1. CASE bundle'[a] = bundle[a]
    BY <1>1, <1>3, <2>1, KeyLeaves DEF Undisturbed
  <2>2. CASE bundle'[a] # bundle[a]
    <3>1. PICK d \in Agents : ResyncWrite(w, d)
      BY <2>2, KeyLeaves
    <3>2. clean = w
      BY <1>1, <1>3, <2>2 DEF Overwritten
    <3>3. job[w] \in RenderJobs /\ Current(job[w]) /\ d \in job[w].todo
      BY <3>1, <3>2, ResyncMoves DEF CleanInv, ResyncWrite
    <3>4. a = d /\ bundle'[d] = Rendered(d, job[w])
      <4>1. RotateBundle(d, Rendered(d, job[w]))
        BY <2>2, <3>1 DEF ResyncWrite
      <4> QED
        BY <2>2, <3>3, <4>1, RenderedFields, RotateTyped
    <3>5. bundle'[d].id = bundle[d].id
      BY <3>3, <3>4, RenderedInStep
    <3>6. \A c \in Agents \ {d} :
            (Presents(bundle[c].id, rot[c]) /\ Wired(c, bundle[d], bundle[c].id, rot[c], strict))
            => Wired(c, bundle'[d], bundle[c].id, rot[c], strict)
      BY <3>3, <3>4, RenderedWires
    <3> QED
      BY <1>1, <1>3, <3>4, <3>5, <3>6, KeyLeaves DEF Undisturbed
  <2> QED
    BY <2>1, <2>2
<1>4. \A v \in Workers : Onward(v)
  BY KeyLeaves DEF Onward
<1> QED
  BY <1>2, <1>3, <1>4, MutualStays

(* An enrolment's agent is no fellow that counts, and one beside another    *)
(* does not count.                                                          *)
LEMMA EnrolmentFacts ==
    ASSUME TypeInv, MutualInv, NEW w \in Workers, Enrolment(w)
    PROVE  /\ job[w].agent \in Agents
           /\ outcome[job[w].agent] \in {"no", "running"}
           /\ job[w].agent \notin Good
           /\ \A v \in Workers \ {w} : Enrolment(v) =>
                job[v].agent \in Agents /\ outcome[job[v].agent] = "no"
<1>1. ASSUME NEW v \in Workers, Enrolment(v) PROVE job[v].agent \in Agents /\ Counts(v)
  BY <1>1, JobShape DEF Enrolment, EnrollJobs, MergeJobs, TypeInv, MutualInv
<1>2. outcome \in [Agents -> {"no", "running", "ok"}]
  BY DEF MutualInv
<1>3. job[w].agent \in Agents /\ outcome[job[w].agent] \in {"no", "running"}
  BY <1>1, <1>2 DEF Counts
<1>4. ASSUME NEW v \in Workers \ {w}, Enrolment(v)
      PROVE  job[v].agent \in Agents /\ outcome[job[v].agent] = "no"
  BY <1>1, <1>2, <1>4 DEF Counts
<1> QED
  BY <1>3, <1>4 DEF Good

(* An enrolment that fails or ends uncounted.                               *)
LEMMA EndMutual ==
    ASSUME TypeInv, TypeInv', MutualInv, NEW w \in Workers, Enrolment(w), Rests(w),
           NEW how, Ends(w, how), how = "no" \/ outcome[job[w].agent] = "no",
           bundle' = bundle, strict' = strict, active' = active, rot' = rot
    PROVE  MutualInv'
<1>1. PICK a \in Agents : a = job[w].agent
  BY EnrolmentFacts
<1>2. \A b \in Agents : outcome'[b] = IF b = a THEN "no" ELSE outcome[b]
  BY <1>1, EnrolmentFacts DEF Ends, MutualInv
<1>3. outcome' \in [Agents -> {"no", "running", "ok"}]
  <2>1. outcome' = [b \in Agents |-> outcome'[b]]
    BY DEF Ends, MutualInv
  <2> QED
    BY <1>2, <2>1 DEF MutualInv
<1>4. \A b \in Agents : outcome'[b] # "no" => Undisturbed(b)
  BY <1>2 DEF Undisturbed
<1>5. \A v \in Workers : Onward(v)
  BY <1>1, <1>2 DEF Onward, Rests, Resting, Enrolling, Merging
<1> QED
  BY <1>3, <1>4, <1>5, MutualStays

(* The gateway calls of an enrolment.                                       *)
LEMMA CallMutual ==
    ASSUME TypeInv, TypeInv', MutualInv, NEW w \in Workers, NEW x, Moves(w, x),
           x.pc \in Enrolling, job[w].pc \in Enrolling, x.agent = job[w].agent,
           outcome' = outcome, bundle' = bundle, strict' = strict, active' = active, rot' = rot
    PROVE  MutualInv'
<1>1. \A b \in Agents : Undisturbed(b)
  BY DEF Undisturbed
<1>2. \A v \in Workers : Onward(v)
  BY DEF Onward, Moves, Same
<1>3. outcome' \in [Agents -> {"no", "running", "ok"}]
  BY DEF MutualInv
<1> QED
  BY <1>1, <1>2, <1>3, MutualStays

(* The other merges in flight keep what they kept.                          *)
LEMMA OthersKeep ==
    ASSUME MutualInv, NEW w \in Workers, \A v \in Workers \ {w} : Same(job'[v], job[v]),
           Good' \subseteq Good, \A c \in Good : bundle'[c].id = bundle[c].id,
           rot' = rot, strict' = strict
    PROVE  \A v \in Workers \ {w} : KeepsWired(job[v])'
<1> SUFFICES ASSUME NEW v \in Workers \ {w} PROVE KeepsWired(job[v])'
  OBVIOUS
<1>1. CASE job'[v].pc \in Merging
  <2>1. job'[v] = job[v]
    BY <1>1 DEF Same
  <2>2. KeepsWired(job[v])
    BY DEF MutualInv
  <2> QED
    BY <1>1, <2>1, <2>2 DEF KeepsWired
<1>2. CASE job'[v].pc \notin Merging
  BY <1>2 DEF KeepsWired
<1> QED
  BY <1>1, <1>2

(* An enrolment goes on to its writes.                                      *)
LEMMA EnrolGoesOn ==
    ASSUME TypeInv, TypeInv', MutualInv, NEW w \in Workers, Enrolment(w), Enrolment(w)',
           NEW a \in Agents, job[w].agent = a, job'[w].agent = a,
           \A v \in Workers \ {w} : Same(job'[v], job[v]),
           rot' = rot, strict' = strict, active' = active,
           outcome' = outcome \/ outcome' = Crossed({a}),
           \A c \in Good : bundle'[c].id = bundle[c].id,
           FleetWired', KeepsWired(job[w])',
           outcome'[a] = "running" => BringsOwn(job[w])' /\ BringsPeers(job[w])'
    PROVE  MutualInv'
<1>1. /\ outcome' \in [Agents -> {"no", "running", "ok"}]
      /\ \A b \in Agents : outcome'[b] = outcome[b] \/ (b = a /\ outcome'[b] = "no")
  BY DEF Crossed, MutualInv
<1>2. Good' \subseteq Good
  <2>1. active \subseteq Agents
    BY TypeParts
  <2> QED
    BY <1>1, <2>1 DEF Good
<1>3. \A v \in Workers : KeepsWired(job[v])'
  BY <1>2, OthersKeep
<1>4. ASSUME NEW v \in Workers PROVE Enrolment(v)' <=> Enrolment(v)
  BY DEF Same, Enrolment
<1>5. ASSUME NEW b \in Agents, outcome'[b] = "running"
      PROVE  \E v \in Workers : Enrolment(v)' /\ job'[v].agent = b
  <2>1. PICK v \in Workers : Enrolment(v) /\ job[v].agent = b
    BY <1>1, <1>5 DEF MutualInv
  <2>2. Enrolment(v)' /\ job'[v].agent = b
    <3>1. CASE v = w
      BY <2>1, <3>1
    <3>2. CASE v # w
      BY <1>4, <2>1, <3>2 DEF Same, Enrolment
    <3> QED
      BY <3>1, <3>2
  <2> QED
    BY <2>2
<1>6. ASSUME NEW v \in Workers \ {w}, Enrolment(v)' PROVE Counts(v)'
  <2>1. Enrolment(v) /\ job'[v] = job[v]
    BY <1>6 DEF Same, Enrolment
  <2>2. job[v].agent \in Agents /\ outcome[job[v].agent] = "no"
    BY <2>1, EnrolmentFacts
  <2>3. outcome'[job'[v].agent] = "no"
    BY <1>1, <2>1, <2>2
  <2> QED
    BY <2>3 DEF Counts
<1>7. Counts(w)'
  <2>1. outcome'[a] # "ok"
    BY <1>1, EnrolmentFacts
  <2>2. ASSUME outcome'[a] = "running" PROVE \A v \in Workers : Enrolment(v)' => v = w
    <3>1. outcome[a] = "running" /\ Counts(w)
      BY <1>1, <2>2 DEF MutualInv
    <3> QED
      BY <1>4, <3>1 DEF Counts
  <2> QED
    BY <2>1, <2>2 DEF Counts
<1> QED
  BY <1>1, <1>3, <1>5, <1>6, <1>7 DEF MutualInv

(* The renderings wire the agent and every fellow that counts.              *)
LEMMA ResolveMutual ==
    ASSUME TypeInv, TypeInv', LiveInv, MutualInv, NEW w \in Workers, ResolveMeshPeers(w)
    PROVE  MutualInv'
<1>1. /\ job[w] \in EnrollJobs /\ job[w].pc = "peers" /\ Enrolment(w)
      /\ Moves(w, [pc |-> "own", agent |-> job[w].agent,
                   next |-> [p \in Agents |-> NextFile(w, p)],
                   peers |-> Enrolled \ {job[w].agent}])
  BY MergeMoves DEF ResolveMeshPeers, Enrolment, Enrolling
<1>2. PICK a \in Agents, key \in Key : a = job[w].agent /\ key = job[w].key
  BY <1>1 DEF EnrollJobs
<1>3. PICK next : next = [p \in Agents |-> NextFile(w, p)]
  OBVIOUS
<1>4. /\ job'[w].pc = "own" /\ job'[w].agent = a /\ job'[w].next = next
      /\ job'[w].peers = Enrolled \ {a}
      /\ \A v \in Workers \ {w} : Same(job'[v], job[v])
  BY <1>1, <1>2, <1>3 DEF Moves, Same, Enrolling, Merging
<1>5. /\ bundle' = bundle /\ active' = active /\ rot' = rot /\ strict' = strict
      /\ outcome' = IF rot[a].stage = "none" \/ key \in {rot[a].old, rot[a].new}
                    THEN outcome ELSE Crossed({a})
  BY <1>2 DEF ResolveMeshPeers
<1>6. a \notin Good /\ Good \subseteq Agents \ {a} /\ Good' = Good
  <2>1. a \notin Good /\ Good \subseteq Agents
    BY <1>1, <1>2, EnrolmentFacts, TypeParts DEF Good
  <2>2. outcome[a] # "ok" /\ \A b \in Agents \ {a} : outcome'[b] = outcome[b]
    BY <1>1, <1>2, <1>5, EnrolmentFacts DEF Crossed, MutualInv
  <2>3. outcome'[a] # "ok"
    BY <1>5, <2>2 DEF Crossed
  <2> QED
    BY <1>5, <2>1, <2>2, <2>3, TypeParts DEF Good
<1>7. Good \subseteq Enrolled \ {a}
  BY <1>6 DEF MutualInv, FleetWired, Presents, Enrolled, Good
<1>8. /\ next[a].id = key
      /\ \A p \in Enrolled \ {a} : p \in next[a].trusted
      /\ \A p \in Enrolled \ {a} :
           /\ next[a].tok[p] = PeerToken(p, bundle, rot)
           /\ next[a].ov[p] = PeerOverlap(p, job[w].own.ov[p], rot)
      /\ \A p \in Agents \ {a} :
           /\ next[p].id = bundle[p].id
           /\ \A c \in Agents : c \in next[p].trusted <=> c \in bundle[p].trusted \/ c = a
           /\ next[p].tok[a] = IF rot[a].stage # "none" THEN rot[a].new ELSE key
           /\ rot[a].stage # "none" => next[p].ov[a] = rot[a].old
           /\ \A c \in Agents \ {a} : /\ next[p].tok[c] = bundle[p].tok[c]
                                      /\ next[p].ov[c] = bundle[p].ov[c]
  BY <1>1, <1>2, <1>3, NextFields
<1>9. FleetWired'
  BY <1>5, <1>6 DEF FleetWired, MutualInv
<1>10. KeepsWired(job[w])'
  <2>1. ASSUME NEW p \in Good, NEW c \in Good \ {p}
        PROVE  Wired(c, next[p], bundle[c].id, rot[c], strict)
    <3>1. Wired(c, bundle[p], bundle[c].id, rot[c], strict)
      BY <2>1 DEF MutualInv, FleetWired
    <3>2. p \in Agents \ {a} /\ c \in Agents \ {a}
      BY <1>6, <2>1
    <3>3. c \in next[p].trusted /\ next[p].tok[c] = bundle[p].tok[c] /\ next[p].ov[c] = bundle[p].ov[c]
      BY <1>8, <3>1, <3>2 DEF Wired
    <3> QED
      BY <3>1, <3>3 DEF Wired
  <2>2. \A p \in Good : next[p].id = bundle[p].id
    BY <1>6, <1>8
  <2> QED
    BY <1>4, <1>5, <1>6, <2>1, <2>2 DEF KeepsWired
<1>11. ASSUME outcome'[a] = "running" PROVE BringsOwn(job[w])' /\ BringsPeers(job[w])'
  <2>1. rot[a].stage = "none" \/ key \in {rot[a].old, rot[a].new}
    BY <1>5, <1>11 DEF Crossed
  <2>2. key \in Safe(a)
    BY <1>1, <1>2 DEF LiveInv, HeldLive
  <2>3. Presents(key, rot[a])
    <3>1. key # None
      BY <2>2, SafeIsKey
    <3>2. rot[a].stage = "flipped" => key # rot[a].old
      BY <2>2 DEF Safe
    <3> QED
      BY <2>1, <3>1, <3>2 DEF Presents
  <2>4. ASSUME NEW c \in Good PROVE Wired(c, next[a], bundle[c].id, rot[c], strict)
    <3>1. c \in Enrolled \ {a}
      BY <1>7, <2>4
    <3>2. /\ c \in next[a].trusted
          /\ next[a].tok[c] = PeerToken(c, bundle, rot)
          /\ next[a].ov[c] = PeerOverlap(c, job[w].own.ov[c], rot)
      BY <1>8, <3>1
    <3> QED
      BY <3>2 DEF Wired, PeerToken, PeerOverlap
  <2>5. ASSUME NEW c \in Good PROVE Wired(a, next[c], key, rot[a], strict)
    <3>1. /\ a \in next[c].trusted
          /\ next[c].tok[a] = IF rot[a].stage # "none" THEN rot[a].new ELSE key
          /\ rot[a].stage # "none" => next[c].ov[a] = rot[a].old
      BY <1>6, <1>8, <2>5
    <3> QED
      BY <3>1 DEF Wired
  <2> QED
    BY <1>4, <1>5, <1>6, <1>7, <1>8, <2>3, <2>4, <2>5 DEF BringsOwn, BringsPeers
<1> QED
  BY <1>1, <1>2, <1>4, <1>5, <1>9, <1>10, <1>11, EnrolGoesOn DEF Enrolment, Merging

(* The write of the agent's own bundle.                                     *)
LEMMA MergeOwnMutual ==
    ASSUME TypeInv, TypeInv', MutualInv, NEW w \in Workers, MergeOwn(w)
    PROVE  MutualInv'
<1>1. job[w] \in MergeJobs /\ Moves(w, [job[w] EXCEPT !.pc = "merge"]) /\ job[w].pc = "own"
  BY MergeMoves DEF MergeOwn
<1>2. PICK x \in MergeJobs : x = job[w]
  BY <1>1
<1>3. PICK a \in Agents : a = x.agent
  BY DEF MergeJobs
<1>4. /\ job'[w].pc = "merge" /\ job'[w].agent = a /\ job'[w].next = x.next
      /\ job'[w].peers = x.peers
      /\ \A v \in Workers \ {w} : Same(job'[v], job[v])
  BY <1>1, <1>2, <1>3 DEF Moves, Same, Enrolling, Merging, MergeJobs
<1>5. /\ active' = active /\ rot' = rot /\ strict' = strict /\ outcome' = outcome
      /\ bundle'[a] = x.next[a]
      /\ \A b \in Agents \ {a} : bundle'[b] = bundle[b]
  <2>1. x.next[a] \in A2a
    BY DEF MergeJobs
  <2>2. RotateBundle(a, x.next[a])
    BY <1>2, <1>3 DEF MergeOwn, Merge
  <2>3. active' = active /\ rot' = rot /\ strict' = strict /\ outcome' = outcome
    BY DEF MergeOwn, Merge, meshVars
  <2> QED
    BY <2>1, <2>2, <2>3, RotateTyped
<1>6. /\ Enrolment(w) /\ Enrolment(w)'
      /\ Good' = Good /\ Good \subseteq Agents \ {a}
  BY <1>1, <1>2, <1>3, <1>4, <1>5, EnrolmentFacts, TypeParts DEF Enrolment, Merging, Good
<1>7. FleetWired'
  BY <1>5, <1>6 DEF FleetWired, MutualInv
<1>8. KeepsWired(job[w])'
  <2>1. KeepsWired(x) /\ x.pc = "own"
    BY <1>1, <1>2 DEF MutualInv
  <2> QED
    BY <1>3, <1>4, <1>5, <1>6, <2>1 DEF KeepsWired, Merging
<1>9. ASSUME outcome'[a] = "running" PROVE BringsOwn(job[w])' /\ BringsPeers(job[w])'
  <2>1. BringsOwn(x) /\ x.pc = "own"
    BY <1>1, <1>2, <1>3, <1>5, <1>6, <1>9 DEF MutualInv, Counts
  <2> QED
    BY <1>3, <1>4, <1>5, <1>6, <2>1 DEF BringsOwn, BringsPeers
<1> QED
  BY <1>2, <1>3, <1>4, <1>5, <1>6, <1>7, <1>8, <1>9, EnrolGoesOn

(* The write of a peer's bundle.                                            *)
LEMMA MergePeerMutual ==
    ASSUME TypeInv, TypeInv', MutualInv, NEW w \in Workers, NEW p \in Agents, MergePeer(w, p)
    PROVE  MutualInv'
<1>1. /\ job[w] \in MergeJobs /\ Moves(w, [job[w] EXCEPT !.peers = @ \ {p}])
      /\ job[w].pc = "merge" /\ p \in job[w].peers
  BY MergeMoves DEF MergePeer
<1>2. PICK x \in MergeJobs : x = job[w]
  BY <1>1
<1>3. PICK a \in Agents : a = x.agent
  BY DEF MergeJobs
<1>4. /\ job'[w].pc = "merge" /\ job'[w].agent = a /\ job'[w].next = x.next
      /\ job'[w].peers = x.peers \ {p}
      /\ \A v \in Workers \ {w} : Same(job'[v], job[v])
  BY <1>1, <1>2, <1>3 DEF Moves, Same, Enrolling, Merging, MergeJobs
<1>5. /\ active' = active /\ rot' = rot /\ strict' = strict /\ outcome' = outcome
      /\ bundle'[p] = x.next[p]
      /\ \A b \in Agents \ {p} : bundle'[b] = bundle[b]
  <2>1. x.next[p] \in A2a
    BY DEF MergeJobs
  <2>2. RotateBundle(p, x.next[p])
    BY <1>2 DEF MergePeer, Merge
  <2>3. active' = active /\ rot' = rot /\ strict' = strict /\ outcome' = outcome
    BY DEF MergePeer, Merge, meshVars
  <2> QED
    BY <2>1, <2>2, <2>3, RotateTyped
<1>6. /\ Enrolment(w) /\ Enrolment(w)'
      /\ Good' = Good /\ Good \subseteq Agents \ {a}
  BY <1>1, <1>2, <1>3, <1>4, <1>5, EnrolmentFacts, TypeParts DEF Enrolment, Merging, Good
<1>7. KeepsWired(x) /\ x.pc = "merge" /\ p \in x.peers /\ p # a
  BY <1>1, <1>2, <1>3 DEF MutualInv, KeepsWired, Merging
<1>8. \A c \in Good : bundle'[c].id = bundle[c].id
  BY <1>5, <1>6, <1>7 DEF KeepsWired, Merging
<1>9. FleetWired'
  <2>1. \A c \in Good : Presents(bundle'[c].id, rot'[c])
    BY <1>5, <1>8 DEF MutualInv, FleetWired
  <2>2. ASSUME NEW b \in Good, NEW c \in Good \ {b}
        PROVE  Wired(c, bundle'[b], bundle'[c].id, rot'[c], strict')
    <3>1. CASE b = p
      BY <1>5, <1>7, <1>8, <2>2, <3>1 DEF KeepsWired, Merging
    <3>2. CASE b # p
      BY <1>5, <1>6, <1>8, <2>2, <3>2 DEF MutualInv, FleetWired
    <3> QED
      BY <3>1, <3>2
  <2> QED
    BY <1>6, <2>1, <2>2 DEF FleetWired
<1>10. KeepsWired(job[w])'
  BY <1>3, <1>4, <1>5, <1>6, <1>7, <1>8 DEF KeepsWired, Merging
<1>11. ASSUME outcome'[a] = "running" PROVE BringsOwn(job[w])' /\ BringsPeers(job[w])'
  <2>1. BringsPeers(x)
    BY <1>1, <1>2, <1>3, <1>5, <1>6, <1>11 DEF MutualInv, Counts
  <2> QED
    BY <1>3, <1>4, <1>5, <1>6, <1>7, <1>8, <2>1 DEF BringsOwn, BringsPeers
<1> QED
  BY <1>2, <1>3, <1>4, <1>5, <1>6, <1>8, <1>9, <1>10, <1>11, EnrolGoesOn

(* The enrolment is through: if it still counts, its agent joins the fleet. *)
LEMMA DoneMutual ==
    ASSUME TypeInv, TypeInv', MutualInv, NEW w \in Workers, EnrollDone(w)
    PROVE  MutualInv'
<1>1. /\ Rests(w) /\ Ends(w, "ok") /\ job[w].pc = "merge" /\ job[w].peers = {} /\ Enrolment(w)
      /\ bundle' = bundle /\ strict' = strict /\ active' = active /\ rot' = rot
  BY EnrolRests DEF EnrollDone, Enrolment, Merging
<1>2. PICK a \in Agents : a = job[w].agent
  BY <1>1, EnrolmentFacts
<1>3. CASE outcome[a] = "no"
  BY <1>1, <1>2, <1>3, EndMutual
<1>4. CASE outcome[a] = "running"
  <2>1. \A b \in Agents : outcome'[b] = IF b = a THEN "ok" ELSE outcome[b]
    BY <1>1, <1>2, <1>4 DEF Ends, MutualInv
  <2>2. outcome' \in [Agents -> {"no", "running", "ok"}]
    <3>1. outcome' = [b \in Agents |-> outcome'[b]]
      BY <1>1 DEF Ends, MutualInv
    <3> QED
      BY <2>1, <3>1 DEF MutualInv
  <2>3. Counts(w)
    BY <1>1 DEF MutualInv
  <2>4. (\A v \in Workers : Enrolment(v) => v = w) /\ BringsPeers(job[w])
    BY <1>2, <1>4, <2>3 DEF Counts
  <2>5. \A v \in Workers : ~Enrolment(v)'
    <3>1. \A v \in Workers \ {w} : Enrolment(v)' => Enrolment(v)
      BY <1>1 DEF Rests, Same, Enrolment
    <3>2. ~Enrolment(w)'
      BY <1>1 DEF Rests, Resting, Enrolment, Enrolling, Merging
    <3> QED
      BY <2>4, <3>1, <3>2
  <2>6. \A b \in Agents : outcome'[b] # "running"
    BY <1>2, <2>1, <2>4 DEF MutualInv
  <2>7. /\ \A b \in Good' : b = a \/ b \in Good
        /\ Presents(bundle[a].id, rot[a])
        /\ \A c \in Good : Wired(c, bundle[a], bundle[c].id, rot[c], strict)
        /\ \A c \in Good : Wired(a, bundle[c], bundle[a].id, rot[a], strict)
    <3>1. \A b \in Good' : b = a \/ b \in Good
      BY <1>1, <2>1, TypeParts DEF Good
    <3> QED
      BY <1>1, <1>2, <2>4, <3>1 DEF BringsPeers
  <2>8. FleetWired'
    <3>1. \A b \in Good' : Presents(bundle'[b].id, rot'[b])
      BY <1>1, <2>7 DEF MutualInv, FleetWired
    <3>2. ASSUME NEW b \in Good', NEW c \in Good' \ {b}
          PROVE  Wired(c, bundle'[b], bundle'[c].id, rot'[c], strict')
      BY <1>1, <2>7, <3>2 DEF MutualInv, FleetWired
    <3> QED
      BY <3>1, <3>2 DEF FleetWired
  <2>9. \A v \in Workers : KeepsWired(job[v])'
    BY <2>5 DEF KeepsWired, Enrolment
  <2> QED
    BY <2>2, <2>5, <2>6, <2>8, <2>9 DEF MutualInv
<1> QED
  BY <1>1, <1>2, <1>3, <1>4, EnrolmentFacts

(* The steps of an enrolment.                                               *)
LEMMA EnrolMutual ==
    ASSUME TypeInv, TypeInv', LiveInv, MutualInv, NEW w \in Workers, EnrollStep(w)
    PROVE  MutualInv'
<1>1. CASE FindKeyRow(w)
  <2>1. job[w].pc = "find" /\ job[w] \in EnrollJobs /\ Enrolment(w)
    BY <1>1, JobShape DEF FindKeyRow, Enrolling, TypeInv, Enrolment
  <2>2. bundle' = bundle /\ strict' = strict /\ active' = active /\ rot' = rot
    BY <1>1 DEF FindKeyRow
  <2> DEFINE x == [job[w] EXCEPT !.pc = "mint", !.console = FALSE]
             y == [job[w] EXCEPT !.pc = "card", !.console = FALSE, !.key = job[w].own.id]
  <2>3. x.pc = "mint" /\ x.agent = job[w].agent /\ y.pc = "card" /\ y.agent = job[w].agent
    BY <2>1 DEF EnrollJobs
  <2>4. \/ Moves(w, x) /\ outcome' = outcome
        \/ Moves(w, y) /\ outcome' = outcome
        \/ Rests(w) /\ Ends(w, "no")
    BY <1>1, <2>1, EnrolMoves, EnrolRests DEF FindKeyRow, Fail
  <2> HIDE DEF x, y
  <2>5. CASE Moves(w, x) /\ outcome' = outcome
    BY <2>1, <2>2, <2>3, <2>5, CallMutual DEF Enrolling
  <2>6. CASE Moves(w, y) /\ outcome' = outcome
    BY <2>1, <2>2, <2>3, <2>6, CallMutual DEF Enrolling
  <2>7. CASE Rests(w) /\ Ends(w, "no")
    BY <2>1, <2>2, <2>7, EndMutual
  <2> QED
    BY <2>4, <2>5, <2>6, <2>7
<1>2. CASE MintMeshKey(w)
  <2>1. job[w].pc = "mint" /\ job[w] \in EnrollJobs
    BY <1>2, JobShape DEF MintMeshKey, Enrolling, TypeInv
  <2>2. bundle' = bundle /\ strict' = strict /\ active' = active /\ rot' = rot /\ outcome' = outcome
    BY <1>2 DEF MintMeshKey
  <2> DEFINE x == [job[w] EXCEPT !.pc = "card", !.key = minted[job[w].agent] + 1]
  <2>3. x.pc = "card" /\ x.agent = job[w].agent /\ Moves(w, x)
    BY <1>2, <2>1, EnrolMoves DEF EnrollJobs
  <2> HIDE DEF x
  <2> QED
    BY <2>1, <2>2, <2>3, CallMutual DEF Enrolling
<1>3. CASE RegisterAgentRow(w)
  <2>1. job[w].pc = "card" /\ job[w] \in EnrollJobs
    BY <1>3, JobShape DEF RegisterAgentRow, Enrolling, TypeInv
  <2>2. bundle' = bundle /\ strict' = strict /\ active' = active /\ rot' = rot /\ outcome' = outcome
    BY <1>3 DEF RegisterAgentRow
  <2> DEFINE x == [job[w] EXCEPT !.pc = "peers"]
  <2>3. x.pc = "peers" /\ x.agent = job[w].agent /\ Moves(w, x)
    BY <1>3, <2>1, EnrolMoves DEF EnrollJobs
  <2> HIDE DEF x
  <2> QED
    BY <2>1, <2>2, <2>3, CallMutual DEF Enrolling
<1>4. CASE GatewayCallFails(w) \/ MergeFails(w)
  <2>1. /\ Rests(w) /\ Ends(w, "no") /\ Enrolment(w)
        /\ bundle' = bundle /\ strict' = strict /\ active' = active /\ rot' = rot
    BY <1>4, EnrolRests DEF GatewayCallFails, MergeFails, Fail, Enrolment, Enrolling, Merging
  <2> QED
    BY <2>1, EndMutual
<1> QED
  BY <1>1, <1>2, <1>3, <1>4, ResolveMutual, MergeOwnMutual, MergePeerMutual, DoneMutual
     DEF EnrollStep

(* A new enrolment: only an undisturbed one counts from now on.             *)
LEMMA ArrivalMutual ==
    ASSUME TypeInv, TypeInv', MutualInv, NEW w \in Workers, NEW a \in Agents,
           NEW o \in Urls, NEW u \in Urls, NEW c \in BOOLEAN, EnrollAgent(w, a, o, u, c)
    PROVE  MutualInv'
<1>1. Moves(w, [pc |-> "find", agent |-> a, origin |-> o, public |-> u,
                console |-> c, own |-> bundle[a], key |-> None])
  BY EnrolMoves
<1>2. /\ job'[w].pc = "find" /\ job'[w].agent = a
      /\ \A v \in Workers \ {w} : Same(job'[v], job[v])
  BY <1>1 DEF Moves, Same, Enrolling
<1>3. /\ bundle' = bundle /\ active' = active /\ rot' = rot /\ strict' = strict
      /\ job[w].pc = "idle" /\ ~Enrolment(w)
  BY DEF EnrollAgent, Arrives, Enrolment, Enrolling, Merging
<1>4. PICK beside : beside = {job[v].agent : v \in {v \in Workers : Enrols(v)}}
  OBVIOUS
<1>5. outcome' = [b \in Agents |-> IF b \in beside \/ (b = a /\ beside # {}) THEN "no"
                                   ELSE IF b = a THEN "running" ELSE outcome[b]]
  BY <1>4 DEF EnrollAgent
<1>6. \A v \in Workers : Enrolment(v) => job[v].agent \in beside
  BY <1>4, JobShape DEF Enrols, Enrolment, TypeInv
<1>7. outcome' \in [Agents -> {"no", "running", "ok"}]
  BY <1>5 DEF MutualInv
<1>8. Good' \subseteq Good /\ Good \subseteq Agents
  BY <1>3, <1>5, TypeParts DEF Good
<1>9. FleetWired'
  BY <1>3, <1>8 DEF FleetWired, MutualInv
<1>10. \A v \in Workers : KeepsWired(job[v])'
  <2>1. KeepsWired(job[w])'
    BY <1>2 DEF KeepsWired, Merging
  <2> QED
    BY <1>2, <1>3, <1>8, <2>1, OthersKeep
<1>11. Enrolment(w)' /\ \A v \in Workers \ {w} : Enrolment(v)' => Enrolment(v) /\ job'[v] = job[v]
  BY <1>2 DEF Enrolment, Same, Enrolling
<1>12. ASSUME NEW b \in Agents, outcome'[b] = "running"
       PROVE  \E v \in Workers : Enrolment(v)' /\ job'[v].agent = b
  <2>1. CASE b = a
    BY <1>2, <1>11, <2>1
  <2>2. CASE b # a
    BY <1>5, <1>6, <1>12, <2>2 DEF MutualInv
  <2> QED
    BY <2>1, <2>2
<1>13. ASSUME NEW v \in Workers \ {w}, Enrolment(v)' PROVE Counts(v)'
  <2>1. job'[v].agent \in beside /\ job'[v].agent \in Agents
    <3>1. Enrolment(v) /\ job'[v] = job[v]
      BY <1>11, <1>13
    <3> QED
      BY <1>6, <3>1, EnrolmentFacts
  <2>2. outcome'[job'[v].agent] = "no"
    BY <1>5, <2>1
  <2> QED
    BY <2>2 DEF Counts
<1>14. Counts(w)'
  <2>1. outcome'[a] \in {"no", "running"} /\ (outcome'[a] = "running" => beside = {})
    BY <1>5
  <2>2. ASSUME beside = {} PROVE \A v \in Workers : Enrolment(v)' => v = w
    BY <1>6, <1>11, <2>2
  <2> QED
    BY <1>2, <2>1, <2>2 DEF Counts, BringsOwn, BringsPeers
<1> QED
  BY <1>7, <1>9, <1>10, <1>12, <1>13, <1>14 DEF MutualInv

(* In a quiet registrar only the fleet's wires are at stake.                *)
LEMMA QuietMutual ==
    ASSUME MutualInv, Quiet, job' = job,
           outcome' \in [Agents -> {"no", "running", "ok"}],
           \A b \in Agents : outcome'[b] = "running" => outcome[b] = "running",
           FleetWired'
    PROVE  MutualInv'
<1>1. \A v \in Workers : ~Enrolment(v)' /\ ~Enrolment(v)
  BY DEF Quiet, Enrolment, Enrolling, Merging
<1>2. \A v \in Workers : KeepsWired(job[v])'
  BY <1>1 DEF KeepsWired, Enrolment
<1>3. \A b \in Agents : outcome'[b] # "running"
  BY <1>1 DEF MutualInv
<1> QED
  BY <1>1, <1>2, <1>3 DEF MutualInv

(* Each stage of a rotation keeps the rotated agent wired: the pair first,  *)
(* then the new identity, then the end of the overlap.                      *)
LEMMA RotationMutual ==
    ASSUME TypeInv, TypeInv', LiveInv, MutualInv, NEW a \in Agents
    PROVE  RotationStart(a) \/ RotationFlip(a) \/ RotationComplete(a) => MutualInv'
<1>1. Good \subseteq Agents /\ active \subseteq Agents
  BY TypeParts DEF Good
<1>2. /\ \A b \in Good : Presents(bundle[b].id, rot[b])
      /\ \A b \in Good : \A c \in Good \ {b} : Wired(c, bundle[b], bundle[c].id, rot[c], strict)
      /\ outcome \in [Agents -> {"no", "running", "ok"}]
  BY DEF MutualInv, FleetWired
<1>3. CASE RotationStart(a)
  <2>1. /\ Quiet /\ job' = job /\ active' = active /\ strict' = strict
        /\ \A b \in Agents \ {a} : rot'[b] = rot[b]
        /\ rot'[a].stage = "delivering" /\ rot'[a].old = bundle[a].id /\ rot'[a].new = minted[a] + 1
        /\ bundle[a].id # None
        /\ outcome' = IF strict THEN Crossed({a}) ELSE outcome
    BY <1>3, TypeParts DEF RotationStart
  <2>2. /\ outcome' \in [Agents -> {"no", "running", "ok"}]
        /\ \A b \in Agents : outcome'[b] = outcome[b] \/ (b = a /\ outcome'[b] = "no")
        /\ strict => outcome'[a] = "no"
    BY <1>2, <2>1 DEF Crossed
  <2>3. Good' \subseteq Good /\ (a \in Good' => ~strict)
    BY <1>1, <2>1, <2>2 DEF Good
  <2>4. ASSUME NEW b \in Good' PROVE Presents(bundle'[b].id, rot'[b])
    <3>1. bundle'[b].id = bundle[b].id /\ b \in Good /\ b \in Agents
      BY <1>1, <1>3, <2>3, <2>4, StartEffect
    <3>2. CASE b = a
      BY <2>1, <3>1, <3>2 DEF Presents
    <3>3. CASE b # a
      BY <1>2, <2>1, <3>1, <3>3
    <3> QED
      BY <3>2, <3>3
  <2>5. ASSUME NEW b \in Good', NEW c \in Good' \ {b}
        PROVE  Wired(c, bundle'[b], bundle'[c].id, rot'[c], strict')
    <3>1. /\ b \in Agents /\ c \in Agents /\ b # c
          /\ Wired(c, bundle[b], bundle[c].id, rot[c], strict)
      BY <1>1, <1>2, <2>3, <2>5
    <3>2. bundle'[c].id = bundle[c].id /\ bundle'[b].trusted = bundle[b].trusted
      BY <1>3, <3>1, StartEffect
    <3>3. CASE c = a
      <4>1. b \in Refs(a)
        BY <3>1, <3>3 DEF Refs, Wired
      <4>2. bundle'[b].tok[a] = minted[a] + 1 /\ bundle'[b].ov[a] = bundle[a].id
        BY <1>3, <4>1, StartEffect
      <4> QED
        BY <2>1, <3>1, <3>2, <3>3, <4>2 DEF Wired
    <3>4. CASE c # a
      <4>1. bundle'[b].tok[c] = bundle[b].tok[c] /\ bundle'[b].ov[c] = bundle[b].ov[c]
        BY <1>3, <3>1, <3>4, StartEffect
      <4> QED
        BY <2>1, <3>1, <3>2, <3>4, <4>1 DEF Wired
    <3> QED
      BY <3>3, <3>4
  <2>6. FleetWired'
    BY <2>4, <2>5 DEF FleetWired
  <2> QED
    BY <2>1, <2>2, <2>6, QuietMutual
<1>4. CASE RotationFlip(a)
  <2>1. /\ Quiet /\ job' = job /\ active' = active /\ strict' = strict /\ outcome' = outcome
        /\ rot[a].stage = "delivering"
        /\ \A b \in Agents \ {a} : rot'[b] = rot[b]
        /\ rot'[a].stage = "flipped" /\ rot'[a].old = rot[a].old /\ rot'[a].new = rot[a].new
    BY <1>4, TypeParts DEF RotationFlip, Rotations
  <2>2. Good' = Good /\ rot[a].new # None
    BY <2>1, NewIsKey DEF Good
  <2>3. ASSUME NEW b \in Good PROVE Presents(bundle'[b].id, rot'[b])
    <3>1. bundle'[b].id = (IF b = a THEN rot[a].new ELSE bundle[b].id) /\ b \in Agents
      BY <1>1, <1>4, <2>3, FlipEffect
    <3> QED
      BY <1>2, <2>1, <2>2, <3>1 DEF Presents
  <2>4. ASSUME NEW b \in Good, NEW c \in Good \ {b}
        PROVE  Wired(c, bundle'[b], bundle'[c].id, rot'[c], strict')
    <3>1. /\ b \in Agents /\ c \in Agents
          /\ Wired(c, bundle[b], bundle[c].id, rot[c], strict)
      BY <1>1, <1>2, <2>4
    <3>2. /\ bundle'[c].id = IF c = a THEN rot[a].new ELSE bundle[c].id
          /\ bundle'[b].trusted = bundle[b].trusted /\ bundle'[b].tok = bundle[b].tok
          /\ bundle'[b].ov = bundle[b].ov
      BY <1>4, <3>1, FlipEffect
    <3>3. CASE c = a
      BY <2>1, <3>1, <3>2, <3>3 DEF Wired
    <3>4. CASE c # a
      BY <2>1, <3>1, <3>2, <3>4 DEF Wired
    <3> QED
      BY <3>3, <3>4
  <2>5. FleetWired'
    BY <2>2, <2>3, <2>4 DEF FleetWired
  <2> QED
    BY <1>2, <2>1, <2>5, QuietMutual
<1>5. CASE RotationComplete(a)
  <2>1. /\ Quiet /\ job' = job /\ active' = active /\ strict' = strict /\ outcome' = outcome
        /\ rot[a].stage = "flipped"
        /\ \A b \in Agents \ {a} : rot'[b] = rot[b]
        /\ rot'[a].stage = "none"
    BY <1>5, TypeParts DEF RotationComplete, NoRotation
  <2>2. Good' = Good
    BY <2>1 DEF Good
  <2>3. ASSUME NEW b \in Good PROVE Presents(bundle'[b].id, rot'[b])
    <3>1. bundle'[b].id = bundle[b].id /\ b \in Agents
      BY <1>1, <1>5, <2>3, CompleteEffect
    <3> QED
      BY <1>2, <2>1, <3>1 DEF Presents
  <2>4. ASSUME NEW b \in Good, NEW c \in Good \ {b}
        PROVE  Wired(c, bundle'[b], bundle'[c].id, rot'[c], strict')
    <3>1. /\ b \in Agents /\ c \in Agents
          /\ Wired(c, bundle[b], bundle[c].id, rot[c], strict) /\ Presents(bundle[c].id, rot[c])
      BY <1>1, <1>2, <2>4
    <3>2. /\ bundle'[c].id = bundle[c].id
          /\ bundle'[b].trusted = bundle[b].trusted /\ bundle'[b].tok = bundle[b].tok
          /\ c # a => bundle'[b].ov[c] = bundle[b].ov[c]
      BY <1>5, <3>1, CompleteEffect
    <3>3. CASE c = a
      BY <2>1, <3>1, <3>2, <3>3 DEF Wired, Presents
    <3>4. CASE c # a
      BY <2>1, <3>1, <3>2, <3>4 DEF Wired
    <3> QED
      BY <3>3, <3>4
  <2>5. FleetWired'
    BY <2>2, <2>3, <2>4 DEF FleetWired
  <2> QED
    BY <1>2, <2>1, <2>5, QuietMutual
<1> QED
  BY <1>3, <1>4, <1>5

(* No step cuts a wire between two agents that go on counting.              *)
LEMMA NextMutual ==
    ASSUME TypeInv, LiveInv, CleanInv, MutualInv, [Next]_vars
    PROVE  MutualInv'
<1>1. TypeInv'
  BY NextTyped
<1>2. outcome \in [Agents -> {"no", "running", "ok"}]
  BY DEF MutualInv
<1>3. ASSUME bundle' = bundle, strict' = strict, active' = active, rot' = rot,
             outcome' = outcome, job' = job
      PROVE  MutualInv'
  <2>1. (\A b \in Agents : Undisturbed(b)) /\ \A v \in Workers : Onward(v)
    BY <1>3 DEF Undisturbed, Onward, Same
  <2> QED
    BY <1>1, <1>2, <1>3, <2>1, MutualStays
<1>4. CASE UNCHANGED vars
  BY <1>3, <1>4 DEF vars, keyVars, meshVars
<1>5. ASSUME NEW w \in Workers, KeyStep(w) \/ KeyRequest(w),
             outcome' = Crossed(Overwritten(w) \union
               {a \in Agents : strict' # strict /\ rot[a].stage # "none"}),
             UNCHANGED <<gateway, rot>>
      PROVE  MutualInv'
  BY <1>1, <1>5, KeyMutual
<1>6. ASSUME NEW w \in Workers, EnrollStep(w) PROVE MutualInv'
  BY <1>1, <1>6, EnrolMutual
<1>7. ASSUME NEW w \in Workers, NEW a \in Agents, NEW origin \in Hosts, NEW public \in Hosts,
             MachineEnroll(w, a, origin, public) \/ ConsoleEnroll(w, a, origin, public)
      PROVE  MutualInv'
  BY <1>1, <1>7, EnrollRequest, ArrivalMutual
<1>8. ASSUME NEW a \in Agents, (NewDeviceKey(a) /\ UNCHANGED meshVars) \/ RevokeAlias(a)
      PROVE  MutualInv'
  BY <1>3, <1>8 DEF NewDeviceKey, RevokeAlias, meshVars
<1>9. ASSUME NEW a \in Agents, SetStatus(a) PROVE MutualInv'
  <2>1. /\ bundle' = bundle /\ strict' = strict /\ rot' = rot /\ job' = job
        /\ \A b \in Agents \ {a} : b \in active' => b \in active
        /\ outcome' = Crossed({a})
    BY <1>9 DEF SetStatus
  <2>2. /\ outcome' \in [Agents -> {"no", "running", "ok"}]
        /\ outcome'[a] = "no" /\ \A b \in Agents \ {a} : outcome'[b] = outcome[b]
    BY <1>2, <2>1 DEF Crossed
  <2>3. \A b \in Agents : outcome'[b] # "no" => Undisturbed(b)
    BY <2>1, <2>2 DEF Undisturbed
  <2>4. \A v \in Workers : Onward(v)
    BY <2>1 DEF Onward, Same
  <2> QED
    BY <1>1, <2>1, <2>2, <2>3, <2>4, MutualStays
<1>10. CASE Crash
  <2>1. /\ bundle' = bundle /\ strict' = strict /\ rot' = rot /\ active' = active
        /\ \A v \in Workers : job'[v] = Idle
        /\ outcome' = [a \in Agents |-> IF outcome[a] = "running" THEN "no" ELSE outcome[a]]
    BY <1>10 DEF Crash
  <2>2. /\ outcome' \in [Agents -> {"no", "running", "ok"}]
        /\ \A b \in Agents : outcome'[b] # "running" /\ (outcome'[b] # "no" => outcome'[b] = outcome[b])
    BY <1>2, <2>1
  <2>3. \A b \in Agents : outcome'[b] # "no" => Undisturbed(b)
    BY <2>1, <2>2 DEF Undisturbed
  <2>4. \A v \in Workers : Onward(v)
    BY <2>1, <2>2, EnrolmentFacts DEF Onward, Idle, Enrolling, Merging
  <2> QED
    BY <1>1, <2>1, <2>2, <2>3, <2>4, MutualStays
<1> QED
  BY <1>1, <1>4, <1>5, <1>6, <1>7, <1>8, <1>9, <1>10, RotationMutual DEF Next

(* A fleet starts wired.                                                    *)
LEMMA InitMutual == Init => MutualInv
<1> SUFFICES ASSUME Init PROVE MutualInv
  OBVIOUS
<1> PICK members \in SUBSET Agents, keyed \in SUBSET Agents :
        /\ keyed \subseteq members
        /\ bundle = [a \in Agents |-> Member(a, members, keyed, strict)]
        /\ minted = [a \in Agents |-> IF a \in members THEN 1 ELSE 0]
        /\ rot = [a \in Agents |-> NoRotation]
        /\ outcome = [a \in Agents |-> IF a \in members THEN "ok" ELSE "no"]
  BY DEF Init
<1>1. \A v \in Workers : job[v].pc = "idle"
  BY DEF Init, Idle
<1>2. \A v \in Workers : ~Enrolment(v) /\ KeepsWired(job[v])
  BY <1>1 DEF Enrolment, KeepsWired, Enrolling, Merging
<1>3. Good \subseteq members
  BY DEF Good, Init
<1>4. ASSUME NEW a \in members
      PROVE  /\ bundle[a].id = 1 /\ bundle[a].trusted = members \ {a}
             /\ \A b \in members \ {a} : bundle[a].tok[b] = 1 \/ bundle[a].tok[b] = None
             /\ rot[a].stage = "none"
  BY DEF Member, NoRotation
<1>5. FleetWired
  <2>1. 1 # None
    BY DEF None
  <2>2. \A a \in Good : Presents(bundle[a].id, rot[a])
    BY <1>3, <1>4, <2>1 DEF Presents
  <2>3. ASSUME NEW a \in Good, NEW c \in Good \ {a}
        PROVE  Wired(c, bundle[a], bundle[c].id, rot[c], strict)
    <3>1. a \in members /\ c \in members \ {a}
      BY <1>3
    <3>2. c \in bundle[a].trusted /\ (bundle[a].tok[c] = 1 \/ bundle[a].tok[c] = None)
      BY <1>4, <3>1
    <3>3. rot[c].stage = "none" /\ bundle[c].id = 1
      BY <1>4, <3>1
    <3> QED
      BY <3>2, <3>3 DEF Wired
  <2> QED
    BY <2>2, <2>3 DEF FleetWired
<1> QED
  BY <1>2, <1>5 DEF MutualInv

(* The four invariants together.                                            *)
LEMMA Invariance == Spec => []IInv
<1>1. Init => IInv
  BY InitTyped, InitGranted, InitLive, InitClean, InitMutual DEF IInv
<1>2. IInv /\ [Next]_vars => IInv'
  BY NextTyped, NextGranted, NextLive, NextClean, NextMutual DEF IInv
<1> QED
  BY <1>1, <1>2, PTL DEF Spec

(* Two members whose last enrolments counted hold each other's trust and a  *)
(* token the other presents as soon as the registry has settled, through    *)
(* resyncs, rotations and half-done enrolments of others (mesh-enroll.ts    *)
(* enrollAgent, renderA2aJson; a2a-keys.ts resyncMeshKeys).                 *)
THEOREM BothSidesEnrolled == Spec => []EnrolledMutually
<1>1. IInv => EnrolledMutually
  <2> SUFFICES ASSUME IInv, NEW a \in Agents, NEW b \in Agents,
                      a # b, clean = "settled", ~strict, {a, b} \subseteq active,
                      outcome[a] = "ok", outcome[b] = "ok"
               PROVE  /\ a \in bundle[b].trusted
                      /\ bundle[a].id \in {bundle[b].tok[a], bundle[b].ov[a]}
    BY DEF EnrolledMutually
  <2>1. /\ Presents(bundle[a].id, rot[a]) /\ Presents(bundle[b].id, rot[b])
        /\ Wired(a, bundle[b], bundle[a].id, rot[a], strict)
    BY DEF IInv, MutualInv, FleetWired, Good
  <2>2. a \in Enrolled /\ b \in Enrolled
    BY <2>1 DEF Enrolled, Presents
  <2>3. a \in bundle[b].trusted /\ bundle[b].tok[a] # None
    BY <2>1, <2>2 DEF IInv, CleanInv, InStep, Wired
  <2>4. rot[a].stage \in {"none", "delivering", "flipped"}
    BY TypeParts DEF IInv, Rotations
  <2> QED
    BY <2>1, <2>3, <2>4 DEF Presents, Wired
<1> QED
  BY <1>1, Invariance, PTL

=============================================================================
