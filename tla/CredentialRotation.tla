------------------------- MODULE CredentialRotation -------------------------
(* Tracked rotation of an agent's A2A identity key                          *)
(* (registrar/src/credential-rotation.ts, rotation-state.ts): the start     *)
(* mints a new key and delivers it to every referencing peer with the old   *)
(* one as overlap; sweeps then flip the target's bundle, revoke the old key *)
(* at the gateway and clean the overlap up, each stage gated on the bundle  *)
(* versions the devices report as applied.                                  *)
(*                                                                          *)
(* A worker is one HTTP request of the registrar (a console start, a device *)
(* report, a console reconcile).  Its database statements and gateway calls *)
(* are single steps and other workers run between them; the registrar may   *)
(* die between any two.  rotateBundle is one step here: BundleDelivery is   *)
(* about its inside.  An agent's keys are numbered in the order in which    *)
(* they are minted; what is kept of a bundle is its version and the         *)
(* identity_key, peer_tokens and peer_tokens_overlap of its a2a.json.       *)
(* gateway_error, timestamps, aliases and audit rows are left out: no guard *)
(* reads them.                                                              *)
EXTENDS Naturals, Sequences, FiniteSets

CONSTANTS
    Agents,      \* enrolled agents, each with one device and a bundle
    Rotators,    \* the agents the owner rotates
    Workers,     \* requests the registrar serves at a time
    MaxKey,      \* bound: keys minted for one agent, the enrolled one included
    MaxVersion,  \* bound: version of a bundle
    MaxRows,     \* bound: rotations started
    MaxCrash,    \* bound: requests the registrar dies in
    Forcible,    \* the agents for which the owner may tick "force revoke"
    GatewayFails \* whether /key/generate and /key/delete may fail

ASSUME BoundsAssumption ==
    /\ Rotators \subseteq Agents
    /\ MaxKey \in Nat \ {0}
    /\ MaxVersion \in Nat \ {0}
    /\ MaxRows \in Nat
    /\ MaxCrash \in Nat
    /\ Forcible \subseteq Agents
    /\ GatewayFails \in BOOLEAN

VARIABLES
    minted,  \* keys minted so far, per agent
    live,    \* keys the gateway knows, per agent
    bundle,  \* identity_blobs: the current bundle of each agent's device
    dev,     \* the bundle applied on each device's volume
    report,  \* bundle_reports.applied_version (0: never reported)
    rows,    \* credential_rotations, in order of id
    job,     \* what each worker is doing
    forced,  \* history: agents whose rotation was force-revoked
    crashes  \* history: how often the registrar died

history == <<forced, crashes>>
vars == <<minted, live, bundle, dev, report, rows, job, history>>

NoKey == 0
Key == 1..MaxKey
KeyOrNone == 0..MaxKey
Version == 0..MaxVersion
Bundles == [v: Version, id: KeyOrNone, tok: [Agents -> KeyOrNone], ov: [Agents -> KeyOrNone]]
Statuses == {"delivering", "awaiting_target", "awaiting_revoke", "completed"}
Open == Statuses \ {"completed"}
Ledgers == [Agents -> Version]           \* 0: the agent is not in the ledger
Rows == [id: Nat, agent: Agents, status: Statuses, old: KeyOrNone, new: KeyOrNone,
         nbv: Version, ledger: Ledgers]  \* nbv 0: new_bundle_version is null
Idle == [pc |-> "idle"]

Init ==
    /\ minted = [a \in Agents |-> 1]
    /\ live = [a \in Agents |-> {1}]
    /\ bundle = [a \in Agents |->
          [v |-> 1, id |-> 1,
           tok |-> [b \in Agents |-> IF b = a THEN NoKey ELSE 1],
           ov |-> [b \in Agents |-> NoKey]]]
    /\ dev = bundle
    /\ report = [a \in Agents |-> 0]
    /\ rows = <<>>
    /\ job = [w \in Workers |-> Idle]
    /\ forced = {}
    /\ crashes = 0

-----------------------------------------------------------------------------
(* Helpers.                                                                 *)

OpenRows == {rows[i] : i \in {j \in DOMAIN rows : rows[j].status \in Open}}

HasOpenRow(a) == \E i \in DOMAIN rows : rows[i].agent = a /\ rows[i].status \in Open

(* rotateBundle with a merge that replaces a2a.json by content rendered     *)
(* from an earlier read.                                                    *)
RotateBundle(a, a2a) ==
    /\ bundle[a].v < MaxVersion
    /\ bundle' = [bundle EXCEPT ![a] = [a2a EXCEPT !.v = bundle[a].v + 1]]

(* loadRotationTarget and loadBundle: the committed bundle, as of now.       *)
OldToken(a) == bundle[a].id

LoadBundle(a) == bundle[a]

References(b, a) == bundle[b].tok[a] # NoKey

PeersConfirmedOffByOne(row) ==
    \A b \in Agents : row.ledger[b] # 0 => report[b] + 1 >= row.ledger[b]

PeersConfirmed(row) ==
    \A b \in Agents : row.ledger[b] # 0 => report[b] >= row.ledger[b]

TargetConfirmedUnreported(row) == row.nbv # 0

TargetConfirmedStrict(row) == row.nbv # 0 /\ report[row.agent] > row.nbv

TargetConfirmed(row) ==
    /\ row.nbv # 0
    /\ report[row.agent] >= row.nbv

Goto(w, next) == job' = [job EXCEPT ![w] = next]

-----------------------------------------------------------------------------
(* startIdentityRotation.                                                   *)

StartLoad(w, a) ==
    /\ job[w].pc = "idle"
    /\ a \in Rotators
    /\ OldToken(a) # NoKey
    /\ Goto(w, [pc |-> "check", agent |-> a, old |-> OldToken(a)])
    /\ UNCHANGED <<minted, live, bundle, dev, report, rows, history>>

StartCheck(w) ==
    /\ job[w].pc = "check"
    /\ Goto(w, IF HasOpenRow(job[w].agent) THEN Idle ELSE [job[w] EXCEPT !.pc = "mint"])
    /\ UNCHANGED <<minted, live, bundle, dev, report, rows, history>>

(* freshMeshAlias: the next suffix no key of the agent has carried; keys are *)
(* numbered by it.                                                           *)
FreshMeshAlias(a) == minted[a] + 1

StartMint(w) ==
    /\ job[w].pc = "mint"
    /\ LET a == job[w].agent IN
         /\ minted[a] < MaxKey /\ Len(rows) < MaxRows
         /\ minted' = [minted EXCEPT ![a] = FreshMeshAlias(a)]
         /\ live' = [live EXCEPT ![a] = @ \union {minted'[a]}]
         /\ Goto(w, [pc |-> "scan", agent |-> a, old |-> job[w].old, new |-> minted'[a]])
    /\ UNCHANGED <<bundle, dev, report, rows, history>>

(* The mint is refused by the gateway or by the hourly mint limit: the      *)
(* start ends with an error page.                                           *)
StartMintFails(w) ==
    /\ job[w].pc = "mint"
    /\ GatewayFails \/ minted[job[w].agent] = MaxKey \/ Len(rows) = MaxRows
    /\ Goto(w, Idle)
    /\ UNCHANGED <<minted, live, bundle, dev, report, rows, history>>

(* referencingPeerDevices: one query reads every peer's bundle.             *)
StartScan(w) ==
    /\ job[w].pc = "scan"
    /\ LET a == job[w].agent IN
       Goto(w, [pc |-> "deliver", agent |-> a, old |-> job[w].old, new |-> job[w].new,
                seen |-> bundle,
                todo |-> {b \in Agents \ {a} : References(b, a)},
                ledger |-> [b \in Agents |-> 0]])
    /\ UNCHANGED <<minted, live, bundle, dev, report, rows, history>>

WithoutOverlap(a2a, a, old, new) == [a2a EXCEPT !.tok[a] = new]

WithOverlap(a2a, a, old, new) == [a2a EXCEPT !.tok[a] = new, !.ov[a] = old]

StartDeliver(w) ==
    /\ job[w].pc = "deliver"
    /\ \E b \in job[w].todo :
         /\ RotateBundle(b, WithOverlap(job[w].seen[b], job[w].agent, job[w].old, job[w].new))
         /\ Goto(w, [job[w] EXCEPT !.todo = @ \ {b}, !.ledger[b] = bundle'[b].v])
    /\ UNCHANGED <<minted, live, dev, report, rows, history>>

StartInsert(w) ==
    /\ job[w].pc = "deliver"
    /\ job[w].todo = {}
    /\ rows' = Append(rows, [id |-> Len(rows) + 1, agent |-> job[w].agent,
                             status |-> "delivering", old |-> job[w].old,
                             new |-> job[w].new, nbv |-> 0, ledger |-> job[w].ledger])
    /\ Goto(w, Idle)
    /\ UNCHANGED <<minted, live, bundle, dev, report, history>>

-----------------------------------------------------------------------------
(* The sweep, advanceRotations.  Its rows are read once, ordered by id;     *)
(* job[w].queue holds the copies still to be worked through.                *)

(* POST /v1/a2a-key: the applied version is recorded, then a sweep runs.    *)
Report(w, a) ==
    /\ job[w].pc = "idle"
    /\ report' = [report EXCEPT ![a] = dev[a].v]
    /\ Goto(w, [pc |-> "sweep", only |-> 0, force |-> FALSE])
    /\ UNCHANGED <<minted, live, bundle, dev, rows, history>>

(* POST /admin/rotations/:id/reconcile, with or without force.              *)
Reconcile(w, id, force) ==
    /\ job[w].pc = "idle"
    /\ force => rows[id].agent \in Forcible
    /\ Goto(w, [pc |-> "sweep", only |-> id, force |-> force])
    /\ forced' = IF force THEN forced \union {rows[id].agent} ELSE forced
    /\ UNCHANGED <<minted, live, bundle, dev, report, rows, crashes>>

SweepRead(w) ==
    /\ job[w].pc = "sweep"
    /\ LET wanted == {r \in OpenRows : job[w].only \in {0, r.id}} IN
       Goto(w, IF wanted = {} THEN Idle
               ELSE [pc |-> "row", force |-> job[w].force, queue |-> wanted])
    /\ UNCHANGED <<minted, live, bundle, dev, report, rows, history>>

Current(w) == CHOOSE r \in job[w].queue : \A s \in job[w].queue : r.id <= s.id

AtRow(w, pc) == [pc |-> pc, force |-> job[w].force, queue |-> job[w].queue]

NextRow(w) ==
    LET rest == job[w].queue \ {Current(w)}
    IN  IF rest = {} THEN Idle ELSE [pc |-> "row", force |-> job[w].force, queue |-> rest]

(* Which stage the copy of the row calls for, and whether its gate is open. *)
SweepRow(w) ==
    /\ job[w].pc = "row"
    /\ LET row == Current(w) IN
       Goto(w, CASE row.status = "delivering" ->
                      IF job[w].force \/ PeersConfirmed(row)
                      THEN AtRow(w, "flip") ELSE NextRow(w)
                 [] row.status = "awaiting_target" ->
                      IF job[w].force \/ TargetConfirmed(row)
                      THEN AtRow(w, "confirm") ELSE NextRow(w)
                 [] row.status = "awaiting_revoke" -> AtRow(w, "revoke"))
    /\ UNCHANGED <<minted, live, bundle, dev, report, rows, history>>

(* flipTarget: read the target's bundle, write it with the new key, mark    *)
(* the row.  The copy keeps its status, so the sweep goes on to the next    *)
(* row.                                                                     *)
FlipLoad(w) ==
    /\ job[w].pc = "flip"
    /\ Goto(w, [pc |-> "flipWrite", force |-> job[w].force, queue |-> job[w].queue,
                seen |-> LoadBundle(Current(w).agent)])
    /\ UNCHANGED <<minted, live, bundle, dev, report, rows, history>>

Flipped(a2a, row) == [a2a EXCEPT !.id = row.new]

FlipWrite(w) ==
    /\ job[w].pc = "flipWrite"
    /\ LET row == Current(w) IN
         /\ RotateBundle(row.agent, Flipped(job[w].seen, row))
         /\ Goto(w, [pc |-> "flipMark", force |-> job[w].force, queue |-> job[w].queue,
                     version |-> bundle'[row.agent].v])
    /\ UNCHANGED <<minted, live, dev, report, rows, history>>

FlipMark(w) ==
    /\ job[w].pc = "flipMark"
    /\ rows' = [rows EXCEPT ![Current(w).id].status = "awaiting_target",
                            ![Current(w).id].nbv = job[w].version]
    /\ Goto(w, NextRow(w))
    /\ UNCHANGED <<minted, live, bundle, dev, report, history>>

Confirm(w) ==
    /\ job[w].pc = "confirm"
    /\ rows' = [rows EXCEPT ![Current(w).id].status = "awaiting_revoke"]
    /\ Goto(w, AtRow(w, "revoke"))
    /\ UNCHANGED <<minted, live, bundle, dev, report, history>>

(* revokeMeshKey: 200 and 404 are both success.                             *)
Revoke(w) ==
    /\ job[w].pc = "revoke"
    /\ LET row == Current(w) IN
         /\ row.old # NoKey
         /\ live' = [live EXCEPT ![row.agent] = @ \ {row.old}]
         /\ Goto(w, [pc |-> "clean", force |-> job[w].force, queue |-> job[w].queue,
                     todo |-> {b \in Agents : row.ledger[b] # 0}])
    /\ UNCHANGED <<minted, bundle, dev, report, rows, history>>

(* noteFailure: the error text, which no guard reads; on to the next row.    *)
NoteFailure(w) == Goto(w, NextRow(w)) /\ UNCHANGED rows

(* No creator key, a lost old token, a refusal, or an answer lost after the *)
(* key was deleted: the row stays as it is.                                 *)
RevokeFails(w) ==
    /\ job[w].pc = "revoke"
    /\ LET row == Current(w) IN
         /\ row.old = NoKey \/ GatewayFails
         /\ live' \in {live, [live EXCEPT ![row.agent] = @ \ {row.old}]}
    /\ NoteFailure(w)
    /\ UNCHANGED <<minted, bundle, dev, report, history>>

(* cleanupPeerOverlap: the peers of the ledger, one after the other; one    *)
(* whose overlap entry is gone already is passed over.                      *)
CleanLoad(w, b) ==
    /\ job[w].pc = "clean"
    /\ b \in job[w].todo
    /\ LET rest == job[w].todo \ {b}
           base == [pc |-> "clean", force |-> job[w].force, queue |-> job[w].queue,
                    todo |-> rest]
       IN Goto(w, IF bundle[b].ov[Current(w).agent] = NoKey THEN base
                  ELSE [pc |-> "cleanWrite", force |-> job[w].force,
                        queue |-> job[w].queue, todo |-> rest,
                        peer |-> b, seen |-> LoadBundle(b)])
    /\ UNCHANGED <<minted, live, bundle, dev, report, rows, history>>

CleanWrite(w) ==
    /\ job[w].pc = "cleanWrite"
    /\ RotateBundle(job[w].peer, [job[w].seen EXCEPT !.ov[Current(w).agent] = NoKey])
    /\ Goto(w, [pc |-> "clean", force |-> job[w].force, queue |-> job[w].queue,
                todo |-> job[w].todo])
    /\ UNCHANGED <<minted, live, dev, report, rows, history>>

CompleteEarly(w) ==
    /\ job[w].pc = "clean"
    /\ rows' = [rows EXCEPT ![Current(w).id].status = "completed",
                            ![Current(w).id].old = NoKey,
                            ![Current(w).id].new = NoKey]
    /\ Goto(w, NextRow(w))
    /\ UNCHANGED <<minted, live, bundle, dev, report, history>>

Complete(w) ==
    /\ job[w].pc = "clean"
    /\ job[w].todo = {}
    /\ rows' = [rows EXCEPT ![Current(w).id].status = "completed",
                            ![Current(w).id].old = NoKey,
                            ![Current(w).id].new = NoKey]
    /\ Goto(w, NextRow(w))
    /\ UNCHANGED <<minted, live, bundle, dev, report, history>>

-----------------------------------------------------------------------------
(* Devices, and the registrar dying inside a request.                       *)

(* The registrant's watcher fetches and applies the current bundle.         *)
Fetch(a) ==
    /\ dev[a].v < bundle[a].v
    /\ dev' = [dev EXCEPT ![a] = bundle[a]]
    /\ UNCHANGED <<minted, live, bundle, report, rows, job, history>>

Crash(w) ==
    /\ crashes < MaxCrash
    /\ crashes' = crashes + 1
    /\ job[w].pc # "idle"
    /\ Goto(w, Idle)
    /\ UNCHANGED <<minted, live, bundle, dev, report, rows, forced>>

Step(w) ==
    \/ StartCheck(w) \/ StartMint(w) \/ StartMintFails(w) \/ StartScan(w)
    \/ StartDeliver(w) \/ StartInsert(w)
    \/ SweepRead(w) \/ SweepRow(w)
    \/ FlipLoad(w) \/ FlipWrite(w) \/ FlipMark(w)
    \/ Confirm(w) \/ Revoke(w) \/ RevokeFails(w)
    \/ (\E b \in Agents : CleanLoad(w, b)) \/ CleanWrite(w) \/ Complete(w)

Next ==
    \/ \E w \in Workers :
         \/ Step(w)
         \/ Crash(w)
         \/ \E a \in Agents : StartLoad(w, a) \/ Report(w, a)
         \/ \E id \in DOMAIN rows, force \in BOOLEAN : Reconcile(w, id, force)
    \/ \E a \in Agents : Fetch(a)

Spec == Init /\ [][Next]_vars

(* Requests run to their end unless the process dies, a device fetches what *)
(* is newer and reports on every watcher cycle, and a gateway that is asked *)
(* again and again in the end deletes the key.                              *)
Fairness ==
    /\ \A w \in Workers : WF_vars(Step(w)) /\ SF_vars(Revoke(w))
    /\ \A a \in Agents : WF_vars(Fetch(a)) /\ SF_vars(\E w \in Workers : Report(w, a))

LiveSpec == Spec /\ Fairness

-----------------------------------------------------------------------------
(* Rows, bundles, reports and gateway keys have the shape the schema and     *)
(* the a2a.json renderer give them, and ids are given in order.              *)
TypeOK ==
    /\ minted \in [Agents -> Key]
    /\ live \in [Agents -> SUBSET Key]
    /\ bundle \in [Agents -> Bundles]
    /\ dev \in [Agents -> Bundles]
    /\ report \in [Agents -> Version]
    /\ \A i \in DOMAIN rows : rows[i] \in Rows /\ rows[i].id = i
    /\ forced \subseteq Agents
    /\ crashes \in 0..MaxCrash

(* Deliver-then-revoke: an identity key on a device's volume is never one   *)
(* the gateway no longer knows, whatever dies or fails on the way           *)
(* (revokeMeshKey runs only behind the target's confirmation), unless the   *)
(* owner ticked force revoke for that agent.                                *)
AppliedKeyLive == \A a \in Agents \ forced : dev[a].id \in live[a]

(* The keys a2a.json makes a receiver accept from a, canonical and overlap. *)
Accepted(b2, a) == {b2.tok[a], b2.ov[a]}

(* Whatever mixture of old and new bundles the devices hold, every peer     *)
(* holds the key the target's volume holds, as canonical or as overlap: the *)
(* flip waits for the peers and the cleanup for the target.                 *)
PeersAccept ==
    \A a \in Agents \ forced, b \in Agents : a # b => dev[a].id \in Accepted(dev[b], a)

RowsOf(a) == {i \in DOMAIN rows : rows[i].agent = a}

(* A completed rotation left nothing behind: the target's bundle has a key  *)
(* that is live and no ledger peer's bundle keeps an overlap entry for it,  *)
(* unless a later start has begun.                                          *)
CompletedIsClean ==
    \A i \in DOMAIN rows :
        /\ rows[i].status = "completed"
        /\ \A w \in Workers : job[w].pc = "idle"
        /\ minted[rows[i].agent] = Cardinality(RowsOf(rows[i].agent)) + 1
        /\ ~HasOpenRow(rows[i].agent)
        => /\ live[rows[i].agent] = {bundle[rows[i].agent].id}
           /\ \A b \in Agents : rows[i].ledger[b] # 0 =>
                 bundle[b].ov[rows[i].agent] = NoKey

(* Every open rotation completes, through lost gateway answers and devices   *)
(* that report late: no gate of advanceRotations can stay shut for good.     *)
RotationsComplete == <>[](OpenRows = {})

=============================================================================
