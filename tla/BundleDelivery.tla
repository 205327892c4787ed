---------------------------- MODULE BundleDelivery ----------------------------
(***************************************************************************)
(* The registrar's delivery of one device's identity bundle: POST           *)
(* /v1/bootstrap (app.ts, slots.ts) against the owner's rotate and re-arm   *)
(* operations (rotate.ts) and the console's activate, revoke and regen-key  *)
(* actions (admin.ts).                                                      *)
(*                                                                          *)
(* Requests run concurrently (one Node process, a Postgres pool of ten) and *)
(* no isolation level is set, so every transaction is READ COMMITTED.  An   *)
(* action below is one SQL statement, or one COMMIT:                        *)
(*   - a SELECT, and the WHERE of an UPDATE, see the committed row;         *)
(*   - an UPDATE whose WHERE does not match the committed row returns at    *)
(*     once with no row; one that matches waits for the row's lock and is   *)
(*     then judged on the row as it is at that moment;                      *)
(*   - INSERT .. ON CONFLICT waits for the transaction that has an          *)
(*     uncommitted row of the same key;                                     *)
(*   - writes become visible, and locks are released, at COMMIT.            *)
(***************************************************************************)
EXTENDS Integers

CONSTANTS Boot,         \* concurrent /v1/bootstrap requests
          Admin,        \* concurrent owner requests (rotate, re-arm)
          Path,         \* bundle file paths
          Content,      \* file contents
          Logo,         \* the one path the logo form writes
          Free,         \* the value of a lock nobody holds
          Rearm,        \* auto_rearm_after, in clock ticks
          Sec,          \* clock ticks per second of Retry-After
          Provisioned,  \* TRUE: the slot row exists from the start
          MaxTime, MaxVersion, MaxCount, MaxKey   \* bounds of the state space

ASSUME ProcAssumption == /\ Boot \cap Admin = {}
                         /\ Free \notin Boot \cup Admin
ASSUME TimeAssumption == /\ Rearm \in Nat /\ Sec \in Nat \ {0}
                         /\ Provisioned \in BOOLEAN
ASSUME LogoAssumption == Logo \in Path
ASSUME BoundAssumption == {MaxTime, MaxVersion, MaxCount, MaxKey} \subseteq Nat

VARIABLES now,        \* the registrar's clock
          dev,        \* devices row: status, and which key its hash is of
          blob,       \* identity_blobs row, committed (ver 0: no row)
          slot,       \* delivery_slots row, committed (state "none": no row)
          blobLock, slotLock,   \* the transaction that has an uncommitted write
          boot,       \* per bootstrap request: pc and locals
          adm,        \* per owner request: pc and locals
          served,     \* history: committed consumes that delivered a bundle
          unserved,   \* history: committed consumes that found no bundle
          handed      \* history: what the last committed consume selected

vars == <<now, dev, blob, slot, blobLock, slotLock, boot, adm, served, unserved, handed>>

Files == UNION {[S -> Content] : S \in SUBSET Path}
Blobs == [ver : Nat, files : Files]
NoFiles == [p \in {} |-> p]
NoBlob == [ver |-> 0, files |-> NoFiles]

Slots == [state : {"none", "armed", "consumed"}, at : Nat, count : Nat]
NoSlot == [state |-> "none", at |-> 0, count |-> 0]
FreshSlot == [state |-> "armed", at |-> 0, count |-> 0]

BootIdle(retry, snap, t) ==
    [pc |-> "idle", t |-> t, pend |-> snap, got |-> NoBlob, retry |-> retry]
AdmIdle == [pc |-> "idle", next |-> NoBlob]

Init == /\ now = 0
        /\ dev = [status |-> "pending", key |-> 0]
        /\ blob = NoBlob
        /\ slot = IF Provisioned THEN FreshSlot ELSE NoSlot
        /\ blobLock = Free /\ slotLock = Free
        /\ boot = [p \in Boot |-> BootIdle(0, NoSlot, 0)]
        /\ adm = [a \in Admin |-> AdmIdle]
        /\ served = 0 /\ unserved = 0
        /\ handed = NoBlob
-------------------------------------------------------------------------------
(* Mutant: the re-arm comparison is off by one.                              *)
AvailableEarly(s, t) == \/ s.state = "armed"
                        \/ s.state = "consumed" /\ s.at + Rearm <= t + 1

(* Mutant: whole seconds are rounded down.                                   *)
FloorDiv(x, d) == x \div d

(* consumeSlot's WHERE, and the Retry-After a consumed slot answers with.    *)
Available(s, t) == \/ s.state = "armed"
                   \/ s.state = "consumed" /\ s.at + Rearm <= t

CeilDiv(x, d) == (x + d - 1) \div d
AtLeastOne(x) == IF x < 1 THEN 1 ELSE x

RetryAfter(s, t) == IF Available(s, t) \/ s.state = "none"
                    THEN 1
                    ELSE AtLeastOne(CeilDiv(s.at + Rearm - t, Sec))

(* buildNextBundle: a replace carries only the request's files, a merge also *)
(* the current files it keeps.  No file at all is EmptyBundleError.          *)
NextFiles(cur, keep, edits) ==
    [p \in (keep \cap DOMAIN cur) \cup DOMAIN edits |->
        IF p \in DOMAIN edits THEN edits[p] ELSE cur[p]]
-------------------------------------------------------------------------------
(* POST /v1/bootstrap.  authenticate() reads the device row and checks the   *)
(* presented key; a refusal is audited and changes nothing here.             *)
BootAuth(p, k) ==
    /\ boot[p].pc = "idle" /\ slot.count < MaxCount
    /\ k = dev.key /\ dev.status = "active"
    /\ boot' = [boot EXCEPT ![p].pc = "stamp"]
    /\ UNCHANGED <<now, dev, blob, slot, blobLock, slotLock, adm, served, unserved, handed>>

(* const t = now(): the instant everything below is judged against.          *)
BootStamp(p) ==
    /\ boot[p].pc = "stamp"
    /\ boot' = [boot EXCEPT ![p].pc = "ensure", ![p].t = now]
    /\ UNCHANGED <<now, dev, blob, slot, blobLock, slotLock, adm, served, unserved, handed>>

(* ensureSlot(db): its own autocommitted INSERT .. ON CONFLICT DO NOTHING.   *)
BootEnsure(p) ==
    /\ boot[p].pc = "ensure"
    /\ \/ slot.state # "none" /\ UNCHANGED slot
       \/ slot.state = "none" /\ slotLock = Free /\ slot' = FreshSlot
    /\ boot' = [boot EXCEPT ![p].pc = "consume"]
    /\ UNCHANGED <<now, dev, blob, blobLock, slotLock, adm, served, unserved, handed>>

(* Mutant: the check and the write are not one statement under the row lock. *)
BootConsumeUnlocked(p) ==
    /\ boot[p].pc = "consume" /\ Available(slot, boot[p].t)
    /\ slotLock' = p
    /\ boot' = [boot EXCEPT ![p].pc = "select",
                            ![p].pend = [state |-> "consumed", at |-> boot[p].t,
                                         count |-> slot.count + 1]]
    /\ UNCHANGED <<now, dev, blob, slot, blobLock, adm, served, unserved, handed>>

(* consumeSlot(tx): the conditional UPDATE flips the row and keeps its lock. *)
BootConsume(p) ==
    /\ boot[p].pc = "consume"
    /\ Available(slot, boot[p].t) /\ slotLock = Free
    /\ slotLock' = p
    /\ boot' = [boot EXCEPT ![p].pc = "select",
                            ![p].pend = [state |-> "consumed", at |-> boot[p].t,
                                         count |-> slot.count + 1]]
    /\ UNCHANGED <<now, dev, blob, slot, blobLock, adm, served, unserved, handed>>

(* Mutant: the request waits for the slot instead of answering 425.          *)
BootRefusedWaits(p) ==
    /\ boot[p].pc = "consume" /\ ~Available(slot, boot[p].t)
    /\ UNCHANGED vars

(* .. or matches no row: 425, with the Retry-After that readSlot then gives. *)
BootRefused(p) ==
    /\ boot[p].pc = "consume" /\ ~Available(slot, boot[p].t)
    /\ boot' = [boot EXCEPT ![p].pc = "early"]
    /\ UNCHANGED <<now, dev, blob, slot, blobLock, slotLock, adm, served, unserved, handed>>

BootEarly(p) ==
    /\ boot[p].pc = "early"
    /\ boot' = [boot EXCEPT ![p] =
                  BootIdle(RetryAfter(slot, boot[p].t), slot, boot[p].t)]
    /\ UNCHANGED <<now, dev, blob, slot, blobLock, slotLock, adm, served, unserved, handed>>

(* The bundle is selected inside the transaction.                            *)
BootSelect(p) ==
    /\ boot[p].pc = "select"
    /\ boot' = [boot EXCEPT ![p].pc = "commit", ![p].got = blob]
    /\ UNCHANGED <<now, dev, blob, slot, blobLock, slotLock, adm, served, unserved, handed>>

(* COMMIT.  With a bundle: the 'delivered' audit row commits too, 200.       *)
(* Without one the callback returns no_bundle, so the consume commits as     *)
(* well; the denial is audited afterwards and the answer is a 500.           *)
BootCommit(p) ==
    /\ boot[p].pc = "commit"
    /\ slot' = boot[p].pend
    /\ slotLock' = Free
    /\ handed' = boot[p].got
    /\ \/ boot[p].got.ver # 0 /\ served' = served + 1 /\ UNCHANGED unserved
       \/ boot[p].got.ver = 0 /\ unserved' = unserved + 1 /\ UNCHANGED served
    /\ boot' = [boot EXCEPT ![p] = BootIdle(0, NoSlot, 0)]
    /\ UNCHANGED <<now, dev, blob, blobLock, adm>>

(* A statement or the connection fails: the transaction is rolled back.      *)
BootAbort(p) ==
    /\ boot[p].pc # "idle"
    /\ slotLock' = IF slotLock = p THEN Free ELSE slotLock
    /\ boot' = [boot EXCEPT ![p] = BootIdle(0, NoSlot, 0)]
    /\ UNCHANGED <<now, dev, blob, slot, blobLock, adm, served, unserved, handed>>
-------------------------------------------------------------------------------
(* rotateBundle: the current bundle is read without a lock, the next one is  *)
(* built from it ..                                                          *)
RotSelect(a, keep, edits) ==
    /\ adm[a].pc = "idle" /\ blob.ver < MaxVersion
    /\ LET files == NextFiles(blob.files, keep, edits)
       IN  /\ DOMAIN files # {}
           /\ adm' = [adm EXCEPT ![a] =
                 [pc |-> "upsert", next |-> [ver |-> blob.ver + 1, files |-> files]]]
    /\ UNCHANGED <<now, dev, blob, slot, blobLock, slotLock, boot, served, unserved, handed>>

(* The requests that rotate: POST /v1/rotate replaces the bundle by its own  *)
(* files; the console's editor keeps the files whose rows were left blank and *)
(* edits others (an upload wins over the rendered fields of the same path);  *)
(* the logo form keeps what it listed a moment ago and adds the image.       *)
RotateByApi(a, files) == RotSelect(a, {}, files)

SaveBundle(a, keep, edits) == RotSelect(a, keep, edits)

UploadLogo(a, listed, image) == RotSelect(a, listed \ {Logo}, [p \in {Logo} |-> image])

(* .. upserted (INSERT .. ON CONFLICT DO UPDATE) ..                          *)
RotUpsert(a) ==
    /\ adm[a].pc = "upsert" /\ blobLock = Free
    /\ blobLock' = a
    /\ adm' = [adm EXCEPT ![a].pc = "arm"]
    /\ UNCHANGED <<now, dev, blob, slot, slotLock, boot, served, unserved, handed>>

(* Mutant: the rotation does not arm the slot.                               *)
RotArmSkipped(a) ==
    /\ adm[a].pc = "arm"
    /\ adm' = [adm EXCEPT ![a].pc = "commit"]
    /\ UNCHANGED <<now, dev, blob, slot, blobLock, slotLock, boot, served, unserved, handed>>

(* .. and the slot armed: an UPDATE; if that found no row, ensureSlot(tx),   *)
(* which leaves a row that has appeared in the meantime as it is.            *)
RotArm(a) ==
    /\ adm[a].pc = "arm"
    /\ \/ /\ slot.state # "none" /\ slotLock = Free
          /\ slotLock' = a
          /\ adm' = [adm EXCEPT ![a].pc = "commit"]
       \/ /\ slot.state = "none"
          /\ adm' = [adm EXCEPT ![a].pc = "ensure"]
          /\ UNCHANGED slotLock
    /\ UNCHANGED <<now, dev, blob, slot, blobLock, boot, served, unserved, handed>>

RotEnsure(a) ==
    /\ adm[a].pc = "ensure"
    /\ \/ slot.state = "none" /\ slotLock = Free /\ slotLock' = a
       \/ slot.state # "none" /\ UNCHANGED slotLock
    /\ adm' = [adm EXCEPT ![a].pc = "commit"]
    /\ UNCHANGED <<now, dev, blob, slot, blobLock, boot, served, unserved, handed>>

Armed(s) == IF s.state = "none" THEN FreshSlot ELSE [s EXCEPT !.state = "armed"]

RotCommit(a) ==
    /\ adm[a].pc = "commit"
    /\ blob' = adm[a].next
    /\ slot' = IF slotLock = a THEN Armed(slot) ELSE slot
    /\ blobLock' = Free
    /\ slotLock' = IF slotLock = a THEN Free ELSE slotLock
    /\ adm' = [adm EXCEPT ![a] = AdmIdle]
    /\ UNCHANGED <<now, dev, boot, served, unserved, handed>>

AdmAbort(a) ==
    /\ adm[a].pc # "idle"
    /\ blobLock' = IF blobLock = a THEN Free ELSE blobLock
    /\ slotLock' = IF slotLock = a THEN Free ELSE slotLock
    /\ adm' = [adm EXCEPT ![a] = AdmIdle]
    /\ UNCHANGED <<now, dev, blob, slot, boot, served, unserved, handed>>

(* rearmSlot(db), autocommitted: an UPDATE, and ensureSlot if it found no    *)
(* row.  It keeps delivered_at and the counter.                              *)
Rearmed(a) ==
    /\ adm[a].pc = "idle"
    /\ \/ /\ slot.state # "none" /\ slotLock = Free
          /\ slot' = Armed(slot)
          /\ UNCHANGED adm
       \/ /\ slot.state = "none"
          /\ adm' = [adm EXCEPT ![a].pc = "rearm"]
          /\ UNCHANGED slot
    /\ UNCHANGED <<now, dev, blob, blobLock, slotLock, boot, served, unserved, handed>>

(* POST /v1/re-arm, past the owner's gate.                                   *)
RearmByApi(a) == Rearmed(a)

RearmEnsure(a) ==
    /\ adm[a].pc = "rearm"
    /\ \/ slot.state = "none" /\ slotLock = Free /\ slot' = FreshSlot
       \/ slot.state # "none" /\ UNCHANGED slot
    /\ adm' = [adm EXCEPT ![a] = AdmIdle]
    /\ UNCHANGED <<now, dev, blob, blobLock, slotLock, boot, served, unserved, handed>>
-------------------------------------------------------------------------------
(* Console: activate / revoke, regen-key.                                    *)
SetStatus(s) ==
    /\ dev.status # s
    /\ dev' = [dev EXCEPT !.status = s]
    /\ UNCHANGED <<now, blob, slot, blobLock, slotLock, boot, adm, served, unserved, handed>>

RegenKey ==
    /\ dev.key < MaxKey
    /\ dev' = [dev EXCEPT !.key = @ + 1]
    /\ UNCHANGED <<now, blob, slot, blobLock, slotLock, boot, adm, served, unserved, handed>>

Tick ==
    /\ now < MaxTime
    /\ now' = now + 1
    /\ UNCHANGED <<dev, blob, slot, blobLock, slotLock, boot, adm, served, unserved, handed>>

(* The registrar dies: Postgres rolls back every open transaction.           *)
Crash ==
    /\ \/ \E p \in Boot : boot[p].pc # "idle"
       \/ \E a \in Admin : adm[a].pc # "idle"
    /\ blobLock' = Free /\ slotLock' = Free
    /\ boot' = [p \in Boot |-> BootIdle(0, NoSlot, 0)]
    /\ adm' = [a \in Admin |-> AdmIdle]
    /\ UNCHANGED <<now, dev, blob, slot, served, unserved, handed>>

BootStep(p) == \/ BootStamp(p) \/ BootEnsure(p) \/ BootConsume(p)
               \/ BootRefused(p) \/ BootEarly(p) \/ BootSelect(p)
               \/ BootCommit(p)

AdmStep(a) == \/ RotUpsert(a) \/ RotArm(a) \/ RotEnsure(a) \/ RotCommit(a)
              \/ RearmEnsure(a)

Next == \/ \E p \in Boot : \/ \E k \in 0..MaxKey : BootAuth(p, k)
                           \/ BootStep(p)
                           \/ BootAbort(p)
        \/ \E a \in Admin : \/ \E files \in Files : RotateByApi(a, files)
                            \/ \E keep \in SUBSET Path, edits \in Files :
                                   SaveBundle(a, keep, edits)
                            \/ \E listed \in SUBSET Path, image \in Content :
                                   UploadLogo(a, listed, image)
                            \/ AdmStep(a)
                            \/ RearmByApi(a)
                            \/ AdmAbort(a)
        \/ \E s \in {"active", "revoked"} : SetStatus(s)
        \/ RegenKey
        \/ Tick
        \/ Crash

Spec == Init /\ [][Next]_vars

(* Postgres queues lock waiters first come first served, so a statement that *)
(* is enabled again and again is executed.                                   *)
Fairness == /\ \A p \in Boot : SF_vars(BootStep(p))
            /\ \A a \in Admin : SF_vars(AdmStep(a))

FairSpec == Spec /\ Fairness
-------------------------------------------------------------------------------
(* Every row and every request's locals have the shape the code gives them.  *)
TypeOK ==
    /\ now \in Nat
    /\ dev \in [status : {"pending", "active", "revoked"}, key : Nat]
    /\ blob \in Blobs /\ handed \in Blobs
    /\ slot \in Slots
    /\ blobLock \in Admin \cup {Free}
    /\ slotLock \in Boot \cup Admin \cup {Free}
    /\ boot \in [Boot -> [pc : {"idle", "stamp", "ensure", "consume", "early",
                                "select", "commit"},
                          t : Nat, pend : Slots, got : Blobs, retry : Nat]]
    /\ adm \in [Admin -> [pc : {"idle", "upsert", "arm", "ensure", "commit", "rearm"},
                          next : Blobs]]
    /\ served \in Nat /\ unserved \in Nat

(* A consumed slot means the device was handed the bundle that is current:   *)
(* no interleaving of a rotation and a bootstrap leaves a new bundle behind   *)
(* a shut slot (slots.ts consumeSlot against rotate.ts armSlot).             *)
NoRotationLost == slot.state = "consumed" => handed = blob

(* delivery_count counts every committed consume exactly once, however many  *)
(* bootstraps overlap (slots.ts deliveryCount + 1).                          *)
CountIsExact == slot.count = served + unserved

(* A rotation takes the version the device compares with one step further    *)
(* (rotate.ts buildNextBundle: current version + 1).                         *)
RotationBumpsVersion == [][blob' # blob => blob'.ver = blob.ver + 1]_vars

(* A 425's Retry-After is honest: until the slot is consumed again, a retry  *)
(* that many seconds after the request's own clock reading is served.        *)
RetryAfterHonest ==
    \A p \in Boot :
        boot[p].pc = "idle" /\ boot[p].retry > 0 /\ slot.count = boot[p].pend.count
            => Available(slot, boot[p].t + boot[p].retry * Sec)

(* The transactions implement the atomic one-shot promise.                   *)
Promise == INSTANCE OneShotDelivery
             WITH Bundles <- Blobs, bundle <- blob, open <- slot.state # "consumed",
                  shutAt <- slot.at, count <- slot.count
ImplementsOneShot == Promise!Spec

(* No request waits on a lock for ever: bootstrap takes the slot's lock only, *)
(* a rotation the blob's and then the slot's.                                *)
RequestsFinish == /\ \A p \in Boot : (boot[p].pc # "idle") ~> (boot[p].pc = "idle")
                  /\ \A a \in Admin : (adm[a].pc # "idle") ~> (adm[a].pc = "idle")
===============================================================================
