----------------------------- MODULE MeshEnroll -----------------------------
(* A2A mesh enrolment (registrar/src/mesh-enroll.ts enrollAgent, and the    *)
(* /v1/mesh-enroll and console handlers that call it) over the public-key   *)
(* registry of A2aKeys, with the identity rotation of CredentialRotation as *)
(* whole handlers.                                                          *)
(*                                                                          *)
(* An enrolment looks the agent's key alias up at the gateway and mints,    *)
(* opens or refuses; registers the card row; renders both sides from what   *)
(* it has read; writes the target's bundle and then each peer's; and ends   *)
(* with a resync.  Each gateway call and each bundle write is a step, any   *)
(* of them may fail, and the registrar may die between two.  An agent's     *)
(* identity keys are numbered in the order of their minting.  A device      *)
(* without a bundle cannot be enrolled and is left out.                     *)
EXTENDS A2aKeys

CONSTANT
    MaxRequests  \* bound: requests, and what the owner and the devices do besides

ASSUME MeshAssumption == MaxRequests \in Nat

VARIABLES
    minted,   \* identity keys minted so far, per agent
    base,     \* gateway: the key under the alias vs-<agent>-a2a, or None
    versions, \* gateway: the keys under the versioned aliases of rotations
    card,     \* gateway: the URL host of the agent's card row
    rot,      \* the agent's open rotation
    outcome   \* history: how the agent's last enrolment ended; "no"
              \* for one that another enrolment ran beside, that brought a
              \* third key into an open rotation, or whose bundle a resync
              \* has overwritten from what it read before others wrote

gateway == <<minted, base, versions, card>>
meshVars == <<gateway, rot, outcome>>
vars == <<keyVars, meshVars>>

NoRotation == [stage |-> "none", old |-> None, new |-> None, ledger |-> {}]
Rotations == [stage: {"none", "delivering", "flipped"}, old: Key, new: Key, ledger: SUBSET Agents]

-----------------------------------------------------------------------------
(* assertNoLoopUrl, over the class of the URL's host: the enrollee's own    *)
(* serve name, a compose name, another tailnet name, the mesh edge, the     *)
(* gateway service, no URL at all or (a form field) nothing typed.          *)

NoLoopUrl(host) == host \notin {"empty", "invalid", "edge", "foreign", "litellm"}

(* renderA2aJson for the target: its own identity and URL, and every peer   *)
(* as trusted, with the peer's token.                                       *)
PeerToken(p, seen, rots) == IF rots[p].stage # "none" THEN rots[p].new ELSE seen[p].id

PeerOverlap(p, old, rots) == IF rots[p].stage # "none" THEN rots[p].old ELSE old

TargetA2a(a2a, key, host, peers, seen, rots) ==
    [a2a EXCEPT !.id = key, !.url = host, !.trusted = @ \union peers,
                !.tok = [p \in Agents |-> IF p \in peers THEN PeerToken(p, seen, rots) ELSE @[p]],
                !.ov = [p \in Agents |-> IF p \in peers THEN PeerOverlap(p, @[p], rots) ELSE @[p]]]

(* Mutant: the peer gains the token but not the trust.                      *)
PeerA2aUntrusted(a2a, a, key, rots) ==
    [a2a EXCEPT !.tok[a] = IF rots[a].stage # "none" THEN rots[a].new ELSE key]

(* The same for a peer: the target as trusted, with its token, or with the  *)
(* pair of its open rotation.                                               *)
PeerA2a(a2a, a, key, rots) ==
    [a2a EXCEPT !.trusted = @ \union {a},
                !.tok[a] = IF rots[a].stage # "none" THEN rots[a].new ELSE key,
                !.ov[a] = IF rots[a].stage # "none" THEN rots[a].old ELSE @]

-----------------------------------------------------------------------------
(* enrollAgent, from the machine path or the console.                       *)

Crossed(S) == [a \in Agents |-> IF a \in S THEN "no" ELSE outcome[a]]

Enrols(w) == "agent" \in DOMAIN job[w]

(* no_bundle, loop_url and not_configured are refused before any call.      *)
EnrollAgent(w, a, origin, public, console) ==
    /\ Arrives(w)
    /\ NoLoopUrl(origin)
    /\ NoLoopUrl(public)
    /\ LET beside == {job[v].agent : v \in {v \in Workers : Enrols(v)}}
       IN outcome' = [b \in Agents |-> IF b \in beside \/ (b = a /\ beside # {}) THEN "no"
                                      ELSE IF b = a THEN "running" ELSE outcome[b]]
    /\ Goto(w, [pc |-> "find", agent |-> a, origin |-> origin, public |-> public,
                console |-> console, own |-> bundle[a], key |-> None])
    /\ UNCHANGED <<bundle, active, devKey, pub, strict, clean, granted, gateway, rot>>

(* POST /v1/mesh-enroll, past its gate, with the URLs the caller sends.     *)
MachineEnroll(w, a, origin, public) == EnrollAgent(w, a, origin, public, FALSE)

(* The console's form: each URL as typed, or the enrollee's own serve name. *)
ConsoleEnroll(w, a, origin, public) ==
    EnrollAgent(w, a, IF origin = "empty" THEN "own" ELSE origin,
                IF public = "empty" THEN "own" ELSE public, TRUE)

(* The agent's outcome when its enrolment leaves the stage.                 *)
Ends(w, how) ==
    outcome' = [outcome EXCEPT ![job[w].agent] = IF @ = "running" THEN how ELSE @]

Fail(w) == Ends(w, "no") /\ Goto(w, Idle)

(* MeshMintRateLimiter: a mint within the window refuses the next one.      *)
(* Where the window and the restarts, which forget it, lie is left open.    *)
(* The console's handler makes a limiter of its own for each request.       *)
MintAllowed(a, console) == IF console \/ minted[a] = 0 THEN {"mint"} ELSE {"mint", "limited"}

(* The decision on what findKeyRow returned for the base alias.             *)
Decision(a, own, console) ==
    IF base[a] = None THEN MintAllowed(a, console)
    ELSE IF own.id # None THEN {"open"} ELSE {"alias_live"}

FindKeyRow(w) ==
    /\ job[w].pc = "find"
    /\ \E d \in Decision(job[w].agent, job[w].own, job[w].console) :
         \/ d = "mint" /\ Goto(w, [job[w] EXCEPT !.pc = "mint", !.console = FALSE]) /\ UNCHANGED outcome
         \/ d = "open" /\ Goto(w, [job[w] EXCEPT !.pc = "card", !.console = FALSE,
                                                      !.key = job[w].own.id])
                       /\ UNCHANGED outcome
         \/ d \in {"limited", "alias_live"} /\ Fail(w)
    /\ UNCHANGED <<bundle, active, devKey, pub, strict, budget, clean, granted, gateway, rot>>

(* /user/new and /key/generate: an alias is unique at the gateway.          *)
CanMint(a) == base[a] = None /\ minted[a] < MaxKey

Mints(a) ==
    /\ minted' = [minted EXCEPT ![a] = @ + 1]
    /\ base' = [base EXCEPT ![a] = minted[a] + 1]

MintMeshKey(w) ==
    /\ job[w].pc = "mint"
    /\ CanMint(job[w].agent)
    /\ Mints(job[w].agent)
    /\ Goto(w, [job[w] EXCEPT !.pc = "card", !.key = minted[job[w].agent] + 1])
    /\ UNCHANGED <<bundle, active, devKey, pub, strict, budget, clean, granted,
                   versions, card, rot, outcome>>

(* POST /v1/agents: a row that is there already stays as it is.             *)
RegisterAgentRow(w) ==
    /\ job[w].pc = "card"
    /\ card' = IF card[job[w].agent] = "none" THEN [card EXCEPT ![job[w].agent] = job[w].origin]
               ELSE card
    /\ Goto(w, [job[w] EXCEPT !.pc = "peers"])
    /\ UNCHANGED <<bundle, active, devKey, pub, strict, budget, clean, granted,
                   minted, base, versions, rot, outcome>>

(* A gateway call fails, or its answer is lost after the key was minted:    *)
(* the plaintext is gone with it.                                           *)
GatewayCallFails(w) ==
    /\ job[w].pc \in {"find", "mint", "card"}
    /\ \/ UNCHANGED <<minted, base>>
       \/ job[w].pc = "mint" /\ CanMint(job[w].agent) /\ Mints(job[w].agent)
    /\ Fail(w)
    /\ UNCHANGED <<bundle, active, devKey, pub, strict, budget, clean, granted,
                   versions, card, rot>>

(* resolveMeshPeers and both renderings: the last reads before the writes.  *)
(* The target's a2a.json is the one read at the start.                      *)
ResolveMeshPeers(w) ==
    /\ job[w].pc = "peers"
    /\ LET a == job[w].agent
           key == job[w].key
           peers == Enrolled \ {a}
       IN /\ Goto(w, [pc |-> "own", agent |-> a,
                      next |-> [p \in Agents |->
                          IF p = a THEN TargetA2a(job[w].own, key, job[w].public, peers, bundle, rot)
                          ELSE PeerA2a(bundle[p], a, key, rot)],
                      peers |-> peers])
          /\ outcome' = IF rot[a].stage = "none" \/ key \in {rot[a].old, rot[a].new}
                        THEN outcome ELSE Crossed({a})
    /\ UNCHANGED <<bundle, active, devKey, pub, strict, budget, clean, granted,
                   gateway, rot>>

(* The target's own bundle first, then each peer's.                         *)
Merge(w, b, next) ==
    /\ RotateBundle(b, job[w].next[b])
    /\ job' = Outdated([job EXCEPT ![w] = next], b)
    /\ Disturbs(w)
    /\ UNCHANGED <<active, devKey, strict, budget, granted, meshVars>>

MergeOwn(w) ==
    /\ job[w].pc = "own"
    /\ Merge(w, job[w].agent, [job[w] EXCEPT !.pc = "merge"])

MergePeer(w, p) ==
    /\ job[w].pc = "merge"
    /\ p \in job[w].peers
    /\ Merge(w, p, [job[w] EXCEPT !.peers = @ \ {p}])

MergeFails(w) ==
    /\ job[w].pc \in {"own", "merge"}
    /\ Fail(w)
    /\ UNCHANGED <<bundle, active, devKey, pub, strict, budget, clean, granted, gateway, rot>>

(* The enrolment is through; the handler goes on to resyncMeshKeys.         *)
EnrollDone(w) ==
    /\ job[w].pc = "merge"
    /\ job[w].peers = {}
    /\ Ends(w, "ok")
    /\ Goto(w, ResyncJob(NoReport))
    /\ UNCHANGED <<bundle, active, devKey, pub, strict, budget, clean, granted, gateway, rot>>

-----------------------------------------------------------------------------
(* The owner at the consoles.                                               *)

(* The recovery step the refusals name: the alias is revoked in the gateway *)
(* console, for an agent whose bundle carries no key.                       *)
RevokeAlias(a) ==
    /\ Spend
    /\ base[a] # None
    /\ bundle[a].id = None
    /\ ~\E w \in Workers : Enrols(w) /\ job[w].agent = a
    /\ base' = [base EXCEPT ![a] = None]
    /\ UNCHANGED <<bundle, active, devKey, pub, strict, job, clean, granted,
                   minted, versions, card, rot, outcome>>

(* The device is revoked or made active again; no resync follows.  An       *)
(* enrolment reaches active peers only, so what it wired counts no more.    *)
SetStatus(a) ==
    /\ Spend
    /\ active' = IF a \in active THEN active \ {a} ELSE active \union {a}
    /\ clean' = "dirty"
    /\ outcome' = Crossed({a})
    /\ UNCHANGED <<bundle, devKey, pub, strict, job, granted, gateway, rot>>

(* The registrar dies and restarts.                                         *)
Crash ==
    /\ \E w \in Workers : job[w].pc # "idle"
    /\ job' = [w \in Workers |-> Idle]
    /\ outcome' = [a \in Agents |-> IF outcome[a] = "running" THEN "no" ELSE outcome[a]]
    /\ clean' = IF clean \in Workers THEN "dirty" ELSE clean
    /\ UNCHANGED <<bundle, active, devKey, pub, strict, budget, granted, gateway, rot>>

-----------------------------------------------------------------------------
(* Identity rotation, each stage as one step of an otherwise idle registrar *)
(* (CredentialRotation has the stages in detail).                           *)

Quiet == \A w \in Workers : job[w].pc = "idle"

Unreported(S) == [b \in Agents |-> IF b \in S THEN [pub[b] EXCEPT !.fit = FALSE] ELSE pub[b]]

RotationStart(a) ==
    /\ Quiet /\ Spend
    /\ bundle[a].id # None
    /\ rot[a].stage = "none"
    /\ minted[a] < MaxKey
    /\ LET new == minted[a] + 1
           refs == {b \in Agents \ {a} : bundle[b].tok[a] # None \/ a \in bundle[b].trusted}
       IN /\ minted' = [minted EXCEPT ![a] = new]
          /\ versions' = [versions EXCEPT ![a] = @ \union {new}]
          /\ bundle' = [b \in Agents |-> IF b \in refs
                          THEN [bundle[b] EXCEPT !.tok[a] = new, !.ov[a] = bundle[a].id]
                          ELSE bundle[b]]
          /\ pub' = Unreported(refs)
          /\ rot' = [rot EXCEPT ![a] = [stage |-> "delivering", old |-> bundle[a].id,
                                        new |-> new, ledger |-> refs]]
    /\ clean' = "dirty"
    /\ outcome' = IF strict THEN Crossed({a}) ELSE outcome
    /\ UNCHANGED <<active, devKey, strict, job, granted, base, card>>

(* The peers' receipts are in.                                              *)
RotationFlip(a) ==
    /\ Quiet
    /\ rot[a].stage = "delivering"
    /\ RotateBundle(a, [bundle[a] EXCEPT !.id = rot[a].new])
    /\ rot' = [rot EXCEPT ![a].stage = "flipped"]
    /\ UNCHANGED <<active, devKey, strict, job, budget, clean, granted, gateway, outcome>>

(* Mutant: the old key is deleted before the target has been flipped.       *)
RotationCompleteEarly(a) ==
    /\ Quiet
    /\ rot[a].stage # "none"
    /\ base' = IF base[a] = rot[a].old THEN [base EXCEPT ![a] = None] ELSE base
    /\ versions' = [versions EXCEPT ![a] = @ \ {rot[a].old}]
    /\ rot' = [rot EXCEPT ![a] = NoRotation]
    /\ UNCHANGED <<keyVars, minted, card, outcome>>

(* The target's receipt is in: the old key is deleted wherever it lives and *)
(* the ledger's overlap entries are cleaned up.                             *)
RotationComplete(a) ==
    /\ Quiet
    /\ rot[a].stage = "flipped"
    /\ base' = IF base[a] = rot[a].old THEN [base EXCEPT ![a] = None] ELSE base
    /\ versions' = [versions EXCEPT ![a] = @ \ {rot[a].old}]
    /\ LET dirty == {b \in rot[a].ledger : bundle[b].ov[a] # None} IN
         /\ bundle' = [b \in Agents |-> IF b \in dirty THEN [bundle[b] EXCEPT !.ov[a] = None]
                                        ELSE bundle[b]]
         /\ pub' = Unreported(dirty)
    /\ rot' = [rot EXCEPT ![a] = NoRotation]
    /\ UNCHANGED <<active, devKey, strict, job, budget, clean, granted, minted, card, outcome>>

-----------------------------------------------------------------------------
(* The fleet some enrolments, reports and perhaps the strict switch have    *)
(* left, one after the other: members in the mesh, keyed ones with a bound  *)
(* public key.                                                              *)
Member(a, members, keyed, on) ==
    IF a \notin members
    THEN [id |-> None, trusted |-> {}, tok |-> [b \in Agents |-> None],
          ov |-> [b \in Agents |-> None], pk |-> [b \in Agents |-> None],
          strict |-> "absent", url |-> "none"]
    ELSE [id |-> 1, trusted |-> members \ {a},
          tok |-> [b \in Agents |-> IF b \in members \ {a} /\ ~on THEN 1 ELSE None],
          ov |-> [b \in Agents |-> None],
          pk |-> [b \in Agents |-> IF b \in keyed \ {a} THEN 1 ELSE None],
          strict |-> IF keyed \subseteq {a} THEN "absent" ELSE IF on THEN "on" ELSE "off",
          url |-> "own"]

Init ==
    \E members \in SUBSET Agents : \E keyed \in SUBSET members :
        /\ strict \in {FALSE, keyed = members /\ members # {}}
        /\ bundle = [a \in Agents |-> Member(a, members, keyed, strict)]
        /\ active = Agents
        /\ devKey = [a \in Agents |-> 1]
        /\ pub = [a \in Agents |-> IF a \in keyed THEN [NoRow EXCEPT !.key = 1, !.status = "active",
                                                                  !.fit = TRUE]
                                   ELSE NoRow]
        /\ job = [w \in Workers |-> Idle]
        /\ budget = MaxRequests
        /\ clean = "settled"
        /\ granted = [a \in Agents |-> IF a \in keyed THEN {1} ELSE {}]
        /\ minted = [a \in Agents |-> IF a \in members THEN 1 ELSE 0]
        /\ base = minted
        /\ versions = [a \in Agents |-> {}]
        /\ card = [a \in Agents |-> IF a \in members THEN "own" ELSE "none"]
        /\ rot = [a \in Agents |-> NoRotation]
        /\ outcome = [a \in Agents |-> IF a \in members THEN "ok" ELSE "no"]

(* The bundle a resync writes although others have written since its reads. *)
Overwritten(w) == {a \in Agents : clean # w /\ bundle'[a] # bundle[a]}

EnrollStep(w) ==
    \/ FindKeyRow(w) \/ MintMeshKey(w) \/ RegisterAgentRow(w) \/ GatewayCallFails(w)
    \/ ResolveMeshPeers(w) \/ MergeOwn(w) \/ MergeFails(w) \/ EnrollDone(w)
    \/ \E p \in Agents : MergePeer(w, p)

Next ==
    \/ \E w \in Workers :
         \/ /\ KeyStep(w) \/ KeyRequest(w)
            /\ outcome' = Crossed(Overwritten(w) \union
                 {a \in Agents : strict' # strict /\ rot[a].stage # "none"})
            /\ UNCHANGED <<gateway, rot>>
         \/ EnrollStep(w)
         \/ \E a \in Agents, origin, public \in Hosts :
              MachineEnroll(w, a, origin, public) \/ ConsoleEnroll(w, a, origin, public)
    \/ (\E a \in Agents : NewDeviceKey(a)) /\ UNCHANGED meshVars
    \/ Crash
    \/ \E a \in Agents :
         \/ RevokeAlias(a) \/ SetStatus(a)
         \/ RotationStart(a) \/ RotationFlip(a) \/ RotationComplete(a)

Spec == Init /\ [][Next]_vars

-----------------------------------------------------------------------------
(* The registry's and the gateway's rows have the shape the code gives them.*)
TypeOK ==
    /\ KeysTypeOK
    /\ minted \in [Agents -> Key]
    /\ base \in [Agents -> Key]
    /\ versions \in [Agents -> SUBSET (1..MaxKey)]
    /\ rot \in [Agents -> Rotations]

Live(a) == versions[a] \union ({base[a]} \ {None})

(* An enrolment merges "into BOTH sides of the mesh": two members whose     *)
(* last enrolments succeeded trust each other, each holding a token the     *)
(* other presents, as soon as the registry has settled, whatever half-done  *)
(* enrolments came before. An enrolment counts when nothing crossed it:     *)
(* another one, a resync that wrote over it what it had read before, the    *)
(* strict switch inside a rotation, a third key in an open rotation.        *)
EnrolledMutually ==
    \A a, b \in Agents :
        (/\ a # b /\ clean = "settled" /\ ~strict
         /\ {a, b} \subseteq active
         /\ outcome[a] = "ok" /\ outcome[b] = "ok")
        => /\ a \in bundle[b].trusted
           /\ bundle[a].id \in {bundle[b].tok[a], bundle[b].ov[a]}

(* A bundle's identity key is one the gateway knows: a half-done enrolment  *)
(* loses a key, it never delivers a dead one.                               *)
BundleKeyLive == \A a \in Agents : bundle[a].id # None => bundle[a].id \in Live(a)

=============================================================================
