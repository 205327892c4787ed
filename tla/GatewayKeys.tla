----------------------------- MODULE GatewayKeys -----------------------------
(* The gateway credentials the registrar mints into one device's agent.env: *)
(* the pair of memory keys and the model key (registrar/src/gateway-mint.ts *)
(* and the console handlers in admin.ts), the tracked rotation of the model *)
(* key (credential-rotation.ts, kind model_key), and the creator key every  *)
(* mint is made with, which the registrar bootstraps for itself             *)
(* (mesh-enroll.ts bootstrapCreatorKey and createCreatorKeyEnv).            *)
(*                                                                          *)
(* Console requests and machine enrolments wait for the one creator key; of *)
(* an enrolment only that wait is modelled (MeshEnroll has the rest).  Each *)
(* gateway call and each database write is a step; calls fail, answers get  *)
(* lost, the registrar dies between two steps, and the rotation sweep runs  *)
(* beside the requests.  Keys are numbered in the order of their minting.   *)
EXTENDS Naturals, Sequences

CONSTANTS
    Consoles,      \* console requests at a time
    Enrollers,     \* machine enrolments at a time
    MaxKey,        \* bound: keys minted at the gateway
    MaxRot,        \* bound: versioned model aliases
    MaxRequests,   \* bound: requests
    MintInRotation \* whether the owner mints a model key in mid-rotation

ASSUME GatewayAssumption ==
    /\ {MaxKey, MaxRot, MaxRequests} \subseteq Nat
    /\ MintInRotation \in BOOLEAN
    /\ Consoles \intersect Enrollers = {}

VARIABLES
    memory,  \* gateway: the keys under the two memory aliases
    model,   \* gateway: the key under model-<agent> (0) and -r<n>
    ck,      \* gateway: the key-creator alias, and who minted it
    minted,  \* keys minted so far
    env,     \* the bundle's agent.env and version
    device,  \* what the device has applied
    known,   \* the version the registrar has a report of
    rows,    \* credential_rotations of kind model_key, oldest first
    sweep,   \* the row the sweep is revoking the old key of, or 0
    marker,  \* whether the gateway_creator_key row exists
    boot,    \* the shared bootstrap promise
    job,     \* what each request is doing
    budget   \* requests that may still come in

gateway == <<memory, model, ck, minted>>
bundle == <<env, device, known>>
creator == <<marker, boot>>
vars == <<gateway, bundle, rows, sweep, creator, job, budget>>

None == 0
Key == 0..MaxKey
Aliases == 0..MaxRot
Requests == Consoles \union Enrollers
Idle == [pc |-> "idle"]
NoBoot == [pc |-> "none", key |-> None]

Goto(w, next) == job' = [job EXCEPT ![w] = next]
At(w, kind, pc) == job[w].pc = pc /\ job[w].kind = kind
Quit(w) == Goto(w, Idle)

Live == {model[n] : n \in Aliases} \ {None}
OpenRows == {i \in DOMAIN rows : rows[i].status # "completed"}

-----------------------------------------------------------------------------
(* createCreatorKeyEnv: the first caller starts the bootstrap, the others   *)
(* await the same promise, a failed one is forgotten.                       *)

CreatorKeyEnv(w) ==
    /\ job[w].pc = "env"
    /\ boot' = IF boot.pc = "none" THEN [pc |-> "probe", key |-> None] ELSE boot
    /\ Goto(w, [job[w] EXCEPT !.pc = "await"])
    /\ UNCHANGED <<gateway, bundle, rows, sweep, marker, budget>>

Resolved(w) ==
    /\ job[w].pc = "await"
    /\ boot.pc = "ready"
    /\ Goto(w, IF w \in Enrollers THEN Idle ELSE [job[w] EXCEPT !.pc = "go"])
    /\ UNCHANGED <<gateway, bundle, rows, sweep, creator, budget>>

(* Mutant: the promise is forgotten and its waiters with it.                *)
BootRejectsNobody ==
    boot' = NoBoot /\ UNCHANGED job

BootRejects ==
    /\ boot' = NoBoot
    /\ job' = [w \in Requests |-> IF job[w].pc = "await" THEN Idle ELSE job[w]]

(* Mutant: an alias is deleted whether or not the registrar made it.        *)
BootProbeDeletes(lookup) ==
    /\ boot.pc = "probe"
    /\ boot' = [pc |-> IF lookup = None THEN "mint" ELSE "delete", key |-> lookup]
    /\ UNCHANGED <<gateway, bundle, rows, sweep, marker, job, budget>>

(* The marker row and the alias, which a failed lookup takes for absent.    *)
(* An alias without a marker is the owner's: refused.                       *)
BootProbe(lookup) ==
    /\ boot.pc = "probe"
    /\ IF lookup # None /\ ~marker THEN BootRejects
       ELSE /\ boot' = [pc |-> IF lookup = None THEN "mint" ELSE "delete", key |-> lookup]
            /\ UNCHANGED job
    /\ UNCHANGED <<gateway, bundle, rows, sweep, marker, budget>>

(* Best effort: the token found is deleted, or not.                         *)
BootDelete(works) ==
    /\ boot.pc = "delete"
    /\ ck' = IF works /\ ck.key = boot.key THEN [key |-> None, by |-> "nobody"] ELSE ck
    /\ boot' = [pc |-> "mint", key |-> None]
    /\ UNCHANGED <<memory, model, minted, bundle, rows, sweep, marker, job, budget>>

(* /user/new and /key/generate with the master key.                         *)
BootMint ==
    /\ boot.pc = "mint"
    /\ ck.key = None
    /\ minted < MaxKey
    /\ minted' = minted + 1
    /\ ck' = [key |-> minted', by |-> "registrar"]
    /\ boot' = [pc |-> "mark", key |-> minted']
    /\ UNCHANGED <<memory, model, bundle, rows, sweep, marker, job, budget>>

BootMark ==
    /\ boot.pc = "mark"
    /\ marker' = TRUE
    /\ boot' = [boot EXCEPT !.pc = "ready"]
    /\ UNCHANGED <<gateway, bundle, rows, sweep, job, budget>>

BootFails ==
    /\ boot.pc \in {"probe", "mint", "mark"}
    /\ BootRejects
    /\ UNCHANGED <<gateway, bundle, rows, sweep, marker, budget>>

(* The owner follows the refusal's advice, or mints by hand before any      *)
(* bootstrap.                                                               *)
OwnerDeletes ==
    /\ boot.pc = "none"
    /\ ck.key # None
    /\ ck' = [key |-> None, by |-> "nobody"]
    /\ UNCHANGED <<memory, model, minted, bundle, rows, sweep, creator, job, budget>>

OwnerMints ==
    /\ ck.key = None /\ ~marker
    /\ minted < MaxKey
    /\ minted' = minted + 1
    /\ ck' = [key |-> minted', by |-> "owner"]
    /\ UNCHANGED <<memory, model, bundle, rows, sweep, creator, job, budget>>

Bootstrap ==
    \/ \E lookup \in {None, ck.key} : BootProbe(lookup)
    \/ \E works \in BOOLEAN : BootDelete(works)
    \/ BootMint \/ BootMark \/ BootFails

-----------------------------------------------------------------------------
(* What the requests do to the gateway and to the bundle.                   *)

Request(w, kind) ==
    /\ job[w].pc = "idle"
    /\ budget > 0
    /\ budget' = budget - 1
    /\ Goto(w, [pc |-> "env", kind |-> kind, seen |-> env.vars, key |-> None, private |-> None,
                alias |-> 0, ver |-> 0])
    /\ UNCHANGED <<gateway, bundle, rows, sweep, creator>>

(* rotateBundle with one line of the agent.env the request has seen set.    *)
WriteEnv(vars2) == env' = [vars |-> vars2, ver |-> env.ver + 1]

(* ensureUser and the team calls are idempotent; any call may fail and end  *)
(* the request, and /key/generate may mint and its answer be lost.          *)
CallFails(w) ==
    /\ w \in Consoles
    /\ job[w].pc \in {"go", "mint", "private"}
    /\ Quit(w)
    /\ UNCHANGED <<gateway, bundle, rows, sweep, creator, budget>>

-----------------------------------------------------------------------------
(* mintMemoryKeys, the shared key and then the private one, and the merge   *)
(* of both lines into the agent.env read after the mints.                   *)

MintShared(w) ==
    /\ At(w, "memory", "go")
    /\ memory.shared = None /\ minted < MaxKey
    /\ minted' = minted + 1
    /\ memory' = [memory EXCEPT !.shared = minted']
    /\ \/ Goto(w, [job[w] EXCEPT !.pc = "private", !.key = minted'])
       \/ Quit(w)
    /\ UNCHANGED <<model, ck, bundle, rows, sweep, creator, budget>>

MintPrivate(w) ==
    /\ At(w, "memory", "private")
    /\ memory.private = None /\ minted < MaxKey
    /\ minted' = minted + 1
    /\ memory' = [memory EXCEPT !.private = minted']
    /\ \/ Goto(w, [job[w] EXCEPT !.pc = "write", !.seen = env.vars, !.private = minted'])
       \/ Quit(w)
    /\ UNCHANGED <<model, ck, bundle, rows, sweep, creator, budget>>

MergeMemoryKeys(w) ==
    /\ At(w, "memory", "write")
    /\ WriteEnv([job[w].seen EXCEPT !.shared = job[w].key, !.private = job[w].private])
    /\ Quit(w)
    /\ UNCHANGED <<gateway, device, known, rows, sweep, creator, budget>>

-----------------------------------------------------------------------------
(* provisionModelKey on the bundle as the handler read it at its start:     *)
(* mint when the base alias is absent, nothing when the bundle carries a    *)
(* key, refuse otherwise.                                                   *)
ProvisionModelKey(w) ==
    /\ At(w, "model", "go")
    /\ IF model[0] # None THEN Quit(w) ELSE Goto(w, [job[w] EXCEPT !.pc = "mint"])
    /\ UNCHANGED <<gateway, bundle, rows, sweep, creator, budget>>

(* A key minted under alias n; its answer may be lost.                      *)
Generate(w, n, next) ==
    /\ model[n] = None /\ minted < MaxKey
    /\ minted' = minted + 1
    /\ model' = [model EXCEPT ![n] = minted']
    /\ Goto(w, [job[w] EXCEPT !.pc = next, !.key = minted', !.alias = n]) \/ Quit(w)

MintModelKey(w) ==
    /\ At(w, "model", "mint")
    /\ Generate(w, 0, "write")
    /\ UNCHANGED <<memory, ck, bundle, rows, sweep, creator, budget>>

MergeModelKey(w) ==
    /\ At(w, "model", "write")
    /\ WriteEnv([job[w].seen EXCEPT !.model = job[w].key])
    /\ Quit(w)
    /\ UNCHANGED <<gateway, device, known, rows, sweep, creator, budget>>

(* Revoke the alias in the gateway console: the refusal's recovery step.    *)
RevokeModelAlias ==
    /\ model[0] # None
    /\ env.vars.model = None
    /\ \A w \in Consoles : job[w].pc = "idle"
    /\ model' = [model EXCEPT ![0] = None]
    /\ UNCHANGED <<memory, ck, minted, bundle, rows, sweep, creator, job, budget>>

-----------------------------------------------------------------------------
(* startModelRotation: the target and the open rows are read, the key is    *)
(* minted under the next free versioned alias, merged, and the row written  *)
(* last.                                                                    *)

(* POST /admin/devices/:uuid/rotate-model-key; its hourly limit is left out: *)
(* a refusal changes nothing.                                               *)
RotateModelKey(w) == Request(w, "rotate")

BundledEnvValue == env.vars.model

LoadRotationTarget(w) ==
    /\ At(w, "rotate", "go")
    /\ IF BundledEnvValue = None \/ OpenRows # {} THEN Quit(w)
       ELSE Goto(w, [job[w] EXCEPT !.pc = "mint", !.seen = env.vars])
    /\ UNCHANGED <<gateway, bundle, rows, sweep, creator, budget>>

(* The key an alias names at the gateway, if any.                           *)
FindModelKeyToken(n) == model[n]

(* freshModelAlias: from the count of the rotations so far upwards.         *)
FreshModelAlias == CHOOSE n \in Aliases \ {0} :
    /\ n > Len(rows) /\ FindModelKeyToken(n) = None
    /\ \A m \in Len(rows) + 1 .. n - 1 : FindModelKeyToken(m) # None

MintRotated(w) ==
    /\ At(w, "rotate", "mint")
    /\ \E n \in Aliases : n > Len(rows) /\ FindModelKeyToken(n) = None
    /\ Generate(w, FreshModelAlias, "write")
    /\ UNCHANGED <<memory, ck, bundle, rows, sweep, creator, budget>>

MergeRotated(w) ==
    /\ At(w, "rotate", "write")
    /\ WriteEnv([job[w].seen EXCEPT !.model = job[w].key])
    /\ Goto(w, [job[w] EXCEPT !.pc = "insert", !.ver = env.ver + 1])
    /\ UNCHANGED <<gateway, device, known, rows, sweep, creator, budget>>

(* currentModelAlias: the newest row's alias, else the base one.            *)
CurrentModelAlias == IF rows = <<>> THEN 0 ELSE rows[Len(rows)].new

InsertRow(w) ==
    /\ At(w, "rotate", "insert")
    /\ rows' = Append(rows, [old |-> CurrentModelAlias, new |-> job[w].alias,
                             ver |-> job[w].ver, status |-> "delivering"])
    /\ Quit(w)
    /\ UNCHANGED <<gateway, bundle, sweep, creator, budget>>

-----------------------------------------------------------------------------
(* The device, and the sweep that its reports set off.                      *)

DeviceApplies ==
    /\ device.ver < env.ver
    /\ device' = [ver |-> env.ver, model |-> env.vars.model]
    /\ UNCHANGED <<gateway, env, known, rows, sweep, creator, job, budget>>

DeviceReports ==
    /\ known < device.ver
    /\ known' = device.ver
    /\ UNCHANGED <<gateway, env, device, rows, sweep, creator, job, budget>>

(* Mutant: the sweep does not compare versions.                             *)
TargetConfirmedAny(row) == known > 0

(* rotationTargetConfirmed.                                                 *)
TargetConfirmed(row) == known >= row.ver

SweepConfirm(i) ==
    /\ sweep = 0
    /\ rows[i].status = "delivering"
    /\ TargetConfirmed(rows[i])
    /\ rows' = [rows EXCEPT ![i].status = "awaiting_revoke"]
    /\ UNCHANGED <<gateway, bundle, sweep, creator, job, budget>>

(* revokeModelKey: whatever key the old alias names now is deleted; none is *)
(* as good.  A refusal is noted and the next sweep tries again.             *)
RevokeModelKey(i) ==
    /\ sweep = 0
    /\ rows[i].status = "awaiting_revoke"
    /\ boot.pc = "ready"
    /\ model' = [model EXCEPT ![rows[i].old] = None]
    /\ sweep' = i
    /\ UNCHANGED <<memory, ck, minted, bundle, rows, creator, job, budget>>

SweepComplete ==
    /\ sweep # 0
    /\ rows' = [rows EXCEPT ![sweep].status = "completed"]
    /\ sweep' = 0
    /\ UNCHANGED <<gateway, bundle, creator, job, budget>>

(* The registrar dies: requests, sweep and the promise are gone.            *)
Crash ==
    /\ boot.pc # "none" \/ sweep # 0
    /\ job' = [w \in Requests |-> Idle]
    /\ boot' = NoBoot
    /\ sweep' = 0
    /\ UNCHANGED <<gateway, bundle, rows, marker, budget>>

-----------------------------------------------------------------------------
Init ==
    /\ memory = [shared |-> None, private |-> None]
    /\ model = [n \in Aliases |-> None]
    /\ ck = [key |-> None, by |-> "nobody"]
    /\ minted = 0
    /\ env = [vars |-> [model |-> None, shared |-> None, private |-> None], ver |-> 1]
    /\ device = [ver |-> 1, model |-> None]
    /\ known = 0
    /\ rows = <<>>
    /\ sweep = 0
    /\ marker = FALSE
    /\ boot = NoBoot
    /\ job = [w \in Requests |-> Idle]
    /\ budget = MaxRequests

ConsoleStep(w) ==
    \/ CallFails(w)
    \/ MintShared(w) \/ MintPrivate(w) \/ MergeMemoryKeys(w)
    \/ ProvisionModelKey(w) \/ MintModelKey(w) \/ MergeModelKey(w)
    \/ LoadRotationTarget(w) \/ MintRotated(w) \/ MergeRotated(w) \/ InsertRow(w)

Next ==
    \/ \E w \in Requests : CreatorKeyEnv(w) \/ Resolved(w)
    \/ \E w \in Enrollers : Request(w, "enroll")
    \/ \E w \in Consoles :
         \/ Request(w, "memory") \/ RotateModelKey(w)
         \/ Request(w, "model") /\ (MintInRotation \/ OpenRows = {})
         \/ ConsoleStep(w)
    \/ Bootstrap \/ OwnerDeletes \/ OwnerMints \/ RevokeModelAlias
    \/ DeviceApplies \/ DeviceReports
    \/ \E i \in DOMAIN rows : SweepConfirm(i) \/ RevokeModelKey(i)
    \/ SweepComplete
    \/ Crash

(* A promise is settled sooner or later: each call returns or times out.    *)
Fairness ==
    /\ WF_vars(Bootstrap)
    /\ \A w \in Requests : WF_vars(CreatorKeyEnv(w)) /\ WF_vars(Resolved(w))

Spec == Init /\ [][Next]_vars /\ Fairness

-----------------------------------------------------------------------------
(* The credential tables have the shape the code gives them.                *)
TypeOK ==
    /\ memory \in [shared: Key, private: Key]
    /\ model \in [Aliases -> Key]
    /\ ck \in [key: Key, by: {"nobody", "owner", "registrar"}]
    /\ minted \in Key
    /\ env \in [vars: [model: Key, shared: Key, private: Key], ver: Nat]
    /\ device \in [ver: Nat, model: Key]
    /\ rows \in Seq([old: Aliases, new: Aliases, ver: Nat,
                     status: {"delivering", "awaiting_revoke", "completed"}])
    /\ sweep \in 0..Len(rows)
    /\ marker \in BOOLEAN

(* Deliver, then revoke: the model key a device has applied, and the one    *)
(* its bundle carries, are live at the gateway, through lost answers, a     *)
(* sweep beside a request, and crashes between the mint, the merge, the row *)
(* and the revocation.                                                      *)
ModelKeyLive ==
    {env.vars.model, device.model} \subseteq Live \union {None}

(* The hand-minted creator key of an owner who never let the registrar      *)
(* bootstrap is his: only he deletes it.                                    *)
OwnerKeyKept ==
    [][ck.by = "owner" => ck' = ck \/ OwnerDeletes]_vars

(* Every caller that awaits the creator key gets an answer, the key or the  *)
(* failure, also the ones that joined a bootstrap others had started.       *)
CallersAnswered ==
    \A w \in Requests : job[w].pc \in {"env", "await"} ~> job[w].pc \notin {"env", "await"}

=============================================================================
