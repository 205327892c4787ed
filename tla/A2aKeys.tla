------------------------------- MODULE A2aKeys -------------------------------
(* The registrar's registry of the agents' public A2A keys                  *)
(* (registrar/src/a2a-keys.ts): devices report their Ed25519 key, the owner *)
(* approves, rejects, revokes and flips the fleet's strict switch, and      *)
(* resyncMeshKeys renders peer_keys, strict and the raw peer_tokens into    *)
(* every mesh member's a2a.json.                                            *)
(*                                                                          *)
(* A worker is one HTTP request; a resync reads everything first and then   *)
(* rotates the bundles one by one, so a request may die, and others may run,*)
(* between two writes.  Of a bundle what is kept is its a2a.json.  Whether  *)
(* a device's last report is recent, healthy and about the bundle's latest  *)
(* version is one flag of its row.  Audit rows are left out.  MeshEnroll    *)
(* extends this module with the enrolment and closes the system.            *)
EXTENDS Naturals, FiniteSets

CONSTANTS
    Agents,      \* agents, each with one device row
    Workers,     \* requests served at a time
    MaxKey,      \* bound: mesh identity keys minted for one agent
    PubKeys,     \* bound: public keys a device may generate, numbered from 1
    Hosts        \* classes of URL hosts a caller of the enrolment sends

ASSUME KeysAssumption ==
    /\ MaxKey \in Nat \ {0}
    /\ PubKeys \in Nat \ {0}
    /\ Workers \intersect {"settled", "dirty"} = {}

VARIABLES
    bundle,   \* a2a.json of each agent's bundle
    active,   \* agents whose device row is active
    devKey,   \* the public key on each device's volume
    pub,      \* a2a_public_keys
    strict,   \* mesh_settings.strict
    job,      \* what each worker is doing
    budget,   \* bound: requests and interventions that may still come
    clean,    \* history: the worker whose resync nothing has disturbed yet,
              \* "settled" once it is through, "dirty" after any other write
    granted   \* history: keys bound on first use or approved by the owner

keyVars == <<bundle, active, devKey, pub, strict, job, budget, clean, granted>>

None == 0
Key == 0..MaxKey
Pub == 0..PubKeys
A2a == [id: Key, trusted: SUBSET Agents, tok: [Agents -> Key],
        ov: [Agents -> Key], pk: [Agents -> Pub], strict: {"absent", "off", "on"},
        url: Hosts \union {"own", "none"}]
Row == [key: Pub, status: {"none", "pending", "active"}, conflict: Pub,
        fit: BOOLEAN]
NoRow == [key |-> None, status |-> "none", conflict |-> None, fit |-> FALSE]
Idle == [pc |-> "idle"]

Goto(w, next) == job' = [job EXCEPT ![w] = next]

Spend == budget > 0 /\ budget' = budget - 1

(* A request comes in at an idle worker.                                    *)
Arrives(w) == job[w].pc = "idle" /\ Spend

(* Worker w writes something the rendering depends on.                      *)
Disturbs(w) == clean' = IF clean = w THEN w ELSE "dirty"

-----------------------------------------------------------------------------
(* enrolledDevices: active devices whose bundle carries an identity key.    *)
Enrolled == {a \in active : bundle[a].id # None}

(* readiness() of one device, from its row and its bundle's version.        *)
Ready(a) ==
    /\ pub[a].status = "active"
    /\ pub[a].conflict = None
    /\ pub[a].fit

(* rotateBundle with a merge of a2a.json: a new version that no device has  *)
(* reported yet, so a report on its way is out of date as well.             *)
RotateBundle(a, a2a) ==
    /\ bundle' = [bundle EXCEPT ![a] = a2a]
    /\ pub' = [pub EXCEPT ![a].fit = FALSE]

Outdated(jobs, a) ==
    [w \in Workers |-> IF "report" \in DOMAIN jobs[w] /\ jobs[w].report.agent = a
                       THEN [jobs[w] EXCEPT !.report.fit = FALSE] ELSE jobs[w]]

-----------------------------------------------------------------------------
(* resyncMeshKeys.  A device's request carries its report along, to be      *)
(* stored afterwards.                                                       *)

NoReport == [agent |-> "nobody", fit |-> FALSE]

ResyncJob(report) == [pc |-> "resync", report |-> report]

ActiveKeys(members, rows) ==
    [p \in Agents |-> IF p \in members /\ rows[p].status = "active" THEN rows[p].key ELSE None]

ResyncRead(w) ==
    /\ job[w].pc = "resync"
    /\ Goto(w, [pc |-> "render", report |-> job[w].report, strict |-> strict,
                members |-> Enrolled, todo |-> Enrolled, seen |-> bundle, keys |-> ActiveKeys(Enrolled, pub)])
    /\ clean' = w
    /\ UNCHANGED <<bundle, active, devKey, pub, strict, budget, granted>>

(* Mutant: a keyed peer's raw token stays in a strict bundle.               *)
TokensKept(a2a, trusted, peerKeys, ids, on) ==
    [p \in Agents |-> IF p \in trusted /\ ~on /\ a2a.tok[p] = None THEN ids[p] ELSE a2a.tok[p]]

(* Strict: no raw token of a keyed peer.  Dual: a missing one is put back   *)
(* from the peer's own bundle.  Strict never puts one back.                 *)
Tokens(a2a, trusted, peerKeys, ids, on) ==
    [p \in Agents |-> IF p \notin trusted THEN a2a.tok[p]
                      ELSE IF on /\ peerKeys[p] # None THEN None
                      ELSE IF ~on /\ a2a.tok[p] = None THEN ids[p]
                      ELSE a2a.tok[p]]

(* The a2a.json a resync renders for member d.                              *)
Rendered(d, r) ==
    LET a2a == r.seen[d]
        trusted == a2a.trusted \ {d}
        peerKeys == [p \in Agents |-> IF p \in trusted THEN r.keys[p] ELSE None]
        ids == [p \in Agents |-> IF p \in r.members THEN r.seen[p].id ELSE None]
    IN [a2a EXCEPT !.pk = peerKeys,
                   !.strict = IF \A p \in Agents : peerKeys[p] = None THEN "absent"
                              ELSE IF r.strict THEN "on" ELSE "off",
                   !.tok = Tokens(a2a, trusted, peerKeys, ids, r.strict)]

(* One member after the other; a bundle that would not change is left alone.*)
ResyncWrite(w, d) ==
    /\ job[w].pc = "render"
    /\ d \in job[w].todo
    /\ LET done == [job[w] EXCEPT !.todo = @ \ {d}]
           next == Rendered(d, job[w])
       IN IF next = job[w].seen[d]
          THEN Goto(w, done) /\ UNCHANGED <<bundle, pub, clean>>
          ELSE /\ job' = Outdated([job EXCEPT ![w] = done], d)
               /\ RotateBundle(d, next)
               /\ Disturbs(w)
    /\ UNCHANGED <<active, devKey, strict, budget, granted>>

(* The resync is through; a device's request still has its report to store. *)
ResyncEnd(w) ==
    /\ job[w].pc = "render"
    /\ job[w].todo = {}
    /\ clean' = IF clean = w THEN "settled" ELSE clean
    /\ Goto(w, IF job[w].report = NoReport THEN Idle
               ELSE [pc |-> "report", report |-> job[w].report])
    /\ UNCHANGED <<bundle, active, devKey, pub, strict, budget, granted>>

-----------------------------------------------------------------------------
(* POST /v1/a2a-key.                                                        *)

(* registerDeviceKey's transaction on the device's row.  approval is        *)
(* VS_A2A_KEY_APPROVAL = "always", which a restart may change.              *)
RegisterDeviceKey(row, k, approval) ==
    IF row.status = "none"
    THEN [NoRow EXCEPT !.key = k, !.status = IF approval THEN "pending" ELSE "active"]
    ELSE IF row.key = k THEN row
    ELSE [row EXCEPT !.conflict = k]

(* The device sends its key, its guard's status and the version it applied. *)
(* Only a key bound now is followed by a resync before the report is stored.*)
ReportKey(w, a, fit, approval) ==
    /\ Arrives(w)
    /\ a \in active
    /\ pub' = [pub EXCEPT ![a] = RegisterDeviceKey(pub[a], devKey[a], approval)]
    /\ LET bound == pub[a].status = "none" /\ ~approval
           report == [agent |-> a, fit |-> fit]
       IN /\ granted' = IF bound THEN [granted EXCEPT ![a] = @ \union {devKey[a]}] ELSE granted
          /\ clean' = IF bound THEN "dirty" ELSE clean
          /\ Goto(w, IF bound THEN ResyncJob(report) ELSE [pc |-> "report", report |-> report])
    /\ UNCHANGED <<bundle, active, devKey, strict>>

(* reportGuardStatus: an UPDATE, nothing when the owner deleted the row.    *)
ReportGuardStatus(w) ==
    /\ job[w].pc = "report"
    /\ LET r == job[w].report IN
       pub' = IF pub[r.agent].status = "none" THEN pub ELSE [pub EXCEPT ![r.agent].fit = r.fit]
    /\ Goto(w, Idle)
    /\ UNCHANGED <<bundle, active, devKey, strict, budget, clean, granted>>

(* The data volume is lost: the guard's keygen makes a new key.             *)
NewDeviceKey(a) ==
    /\ Spend
    /\ devKey[a] < PubKeys
    /\ devKey' = [devKey EXCEPT ![a] = @ + 1]
    /\ UNCHANGED <<bundle, active, pub, strict, job, clean, granted>>

-----------------------------------------------------------------------------
(* The console's actions on a device's key.                                 *)

(* approveDeviceKey: a conflicting key is swapped in, else a pending one is *)
(* made active.                                                             *)
Approved(row) ==
    [row EXCEPT !.key = IF row.conflict # None THEN row.conflict ELSE row.key,
                !.status = "active", !.conflict = None]

ApproveDeviceKey(w, a) ==
    /\ Arrives(w)
    /\ pub[a].status # "none"
    /\ pub' = [pub EXCEPT ![a] = Approved(pub[a])]
    /\ granted' = [granted EXCEPT ![a] = @ \union {Approved(pub[a]).key}]
    /\ clean' = "dirty"
    /\ Goto(w, ResyncJob(NoReport))
    /\ UNCHANGED <<bundle, active, devKey, strict>>

(* Mutant: the reject button does what the approve button does.             *)
RejectApproves(w, a) ==
    /\ Arrives(w)
    /\ pub[a].conflict # None
    /\ pub' = [pub EXCEPT ![a] = Approved(pub[a])]
    /\ clean' = "dirty"
    /\ Goto(w, ResyncJob(NoReport))
    /\ UNCHANGED <<bundle, active, devKey, strict, granted>>

RejectConflict(w, a) ==
    /\ Arrives(w)
    /\ pub[a].conflict # None
    /\ pub' = [pub EXCEPT ![a].conflict = None]
    /\ UNCHANGED <<bundle, active, devKey, strict, job, clean, granted>>

RevokeDeviceKey(w, a) ==
    /\ Arrives(w)
    /\ pub[a].status # "none"
    /\ pub' = [pub EXCEPT ![a] = NoRow]
    /\ clean' = "dirty"
    /\ Goto(w, ResyncJob(NoReport))
    /\ UNCHANGED <<bundle, active, devKey, strict, granted>>

(* setStrict: off at once; on only past the readiness of every member, read *)
(* in an earlier statement than the one that writes the switch.  A report   *)
(* past READY_MAX_AGE_MS only keeps the switch off.                         *)
AllReady == Enrolled # {} /\ \A a \in Enrolled : Ready(a)

StrictCheck(w) ==
    /\ Arrives(w)
    /\ ~strict
    /\ AllReady
    /\ Goto(w, [pc |-> "strict"])
    /\ UNCHANGED <<bundle, active, devKey, pub, strict, clean, granted>>

SetStrict(w, on) ==
    /\ IF on THEN job[w].pc = "strict" /\ UNCHANGED budget ELSE Arrives(w) /\ strict
    /\ strict' = on
    /\ clean' = "dirty"
    /\ Goto(w, ResyncJob(NoReport))
    /\ UNCHANGED <<bundle, active, devKey, pub, granted>>

KeyStep(w) ==
    \/ ResyncRead(w) \/ ResyncEnd(w) \/ ReportGuardStatus(w) \/ SetStrict(w, TRUE)
    \/ \E d \in Agents : ResyncWrite(w, d)

(* The strict form, the three buttons on a device's key, POST /v1/a2a-key.  *)
ConsoleStrict(w) == SetStrict(w, FALSE) \/ StrictCheck(w)

ConsoleKeyVerb(w, a) == ApproveDeviceKey(w, a) \/ RejectConflict(w, a) \/ RevokeDeviceKey(w, a)

KeyRequest(w) ==
    \/ ConsoleStrict(w)
    \/ \E a \in Agents :
         \/ ConsoleKeyVerb(w, a)
         \/ \E fit, approval \in BOOLEAN : ReportKey(w, a, fit, approval)

-----------------------------------------------------------------------------
KeysTypeOK ==
    /\ bundle \in [Agents -> A2a]
    /\ active \subseteq Agents
    /\ devKey \in [Agents -> 1..PubKeys]
    /\ pub \in [Agents -> Row]
    /\ \A a \in Agents : pub[a].conflict # None =>
         pub[a].status # "none" /\ pub[a].conflict # pub[a].key
    /\ strict \in BOOLEAN
    /\ budget \in Nat
    /\ clean \in Workers \union {"settled", "dirty"}
    /\ granted \in [Agents -> SUBSET (1..PubKeys)]

(* Once a resync that no other write fell into has run to its end, and      *)
(* until something else is written, every member's bundle carries exactly   *)
(* the active keys of its trusted fellow members, the fleet's switch, and   *)
(* raw tokens only as the mode allows: whichever of report, approval,       *)
(* revocation, switch or enrolment came last, and whatever died before it.  *)
BundlesFollowRegistry ==
    clean = "settled" =>
        \A d \in Enrolled : \A p \in bundle[d].trusted \ {d} :
            /\ bundle[d].pk[p] = ActiveKeys(Enrolled, pub)[p]
            /\ bundle[d].pk[p] # None =>
                 /\ bundle[d].strict = (IF strict THEN "on" ELSE "off")
                 /\ strict => bundle[d].tok[p] = None
            /\ (~strict /\ p \in Enrolled) => bundle[d].tok[p] # None

(* The trust anchor: no bundle ever carries a public key that was neither   *)
(* the first one its device reported nor approved by the owner.  A key that *)
(* raised the conflict alarm reaches no peer before it is approved.         *)
OnlyGrantedKeys ==
    \A d, p \in Agents : bundle[d].pk[p] \in granted[p] \union {None}

=============================================================================
