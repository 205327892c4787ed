------------------------- MODULE BundleDeliveryProofs -------------------------
(***************************************************************************)
(* Proofs about BundleDelivery, for any number of concurrent requests, any  *)
(* paths and contents, any re-arm window and any bounds.                    *)
(***************************************************************************)
EXTENDS BundleDelivery, TLAPS

(* Who holds which lock follows from the statement a request is at.          *)
SlotLockInv == /\ \A p \in Boot : boot[p].pc \in {"select", "commit"} <=> slotLock = p
               /\ \A a \in Admin : slotLock = a => adm[a].pc = "commit"

(* What a request has read from or written to the slot is still true of it.  *)
PendInv == \A p \in Boot : boot[p].pc \in {"select", "commit"} =>
              /\ boot[p].pend = [state |-> "consumed", at |-> boot[p].t,
                                 count |-> slot.count + 1]
              /\ Available(slot, boot[p].t)

NoRowInv == slot.state = "none" => slot.count = 0

(* The locals of a bootstrap request.                                        *)
Requests == [pc : {"idle", "stamp", "ensure", "consume", "early", "select", "commit"},
             t : Nat, pend : Slots, got : Blobs, retry : Nat]

(* Together with TypeOK, inductive whether or not the slot row exists.       *)
IInv == TypeOK /\ SlotLockInv /\ PendInv /\ NoRowInv /\ CountIsExact

(* Once a request is past ensureSlot the row is there, and stays.            *)
EnsuredInv == \A p \in Boot : boot[p].pc \in {"consume", "early", "select", "commit"}
                 => slot.state # "none"

(* What a 425 was told of the slot holds until the slot is consumed again.    *)
RetryInv == \A p \in Boot : boot[p].pc = "idle" /\ boot[p].retry > 0 =>
               /\ slot.state # "none" /\ boot[p].pend.count <= slot.count
               /\ slot.count = boot[p].pend.count =>
                    Available(slot, boot[p].t + boot[p].retry * Sec)

HonestInv == EnsuredInv /\ RetryInv

(* Next with the requests that rotate and re-arm reduced to the statements    *)
(* they issue.                                                               *)
Statements ==
    \/ \E p \in Boot : \/ \E k \in 0..MaxKey : BootAuth(p, k)
                       \/ BootStep(p) \/ BootAbort(p)
    \/ \E a \in Admin : \/ \E keep \in SUBSET Path, edits \in Files : RotSelect(a, keep, edits)
                        \/ AdmStep(a) \/ Rearmed(a) \/ AdmAbort(a)
    \/ \E s \in {"active", "revoked"} : SetStatus(s)
    \/ RegenKey \/ Tick \/ Crash

(* A rotation that commits holds the slot's lock, so that no bundle changes   *)
(* under a bootstrap between its select and its commit.  Only a row that      *)
(* appears between armSlot's UPDATE and its INSERT makes this false.          *)
Locked == \A a \in Admin : RotCommit(a) => slotLock = a

NoneInv == slot.state = "none" => slot.at = 0 /\ slot.count = 0
GotInv == \A p \in Boot : boot[p].pc = "commit" => boot[p].got = blob
FreshInv == NoneInv /\ GotInv /\ NoRotationLost

(* Of a row that exists from the start it is true: armSlot's UPDATE finds it. *)
RotHoldsSlot == \A a \in Admin : /\ adm[a].pc # "ensure"
                                 /\ adm[a].pc = "commit" => slotLock = a
PInv == IInv /\ slot.state # "none" /\ RotHoldsSlot
-------------------------------------------------------------------------------
(* The constant bundles and slots have their types, and the bundle a         *)
(* rotation builds is a bundle.                                              *)
LEMMA ConstTypes == /\ NoBlob \in Blobs /\ NoSlot \in Slots /\ FreshSlot \in Slots
                    /\ AdmIdle \in [pc : {"idle", "upsert", "arm", "ensure", "commit", "rearm"},
                                    next : Blobs]
<1>1. NoFiles \in [{} -> Content]
  BY DEF NoFiles
<1>2. NoFiles \in Files
  BY <1>1 DEF Files
<1> QED
  BY <1>2 DEF NoBlob, Blobs, NoSlot, FreshSlot, Slots, AdmIdle

(* Every rotating request of the API and of the console is rotateBundle on    *)
(* some files kept and some edited.                                          *)
LEMMA NextShape == Next => Statements
<1>1. ASSUME NEW a \in Admin, NEW files \in Files, RotateByApi(a, files)
      PROVE  \E keep \in SUBSET Path, edits \in Files : RotSelect(a, keep, edits)
  BY <1>1 DEF RotateByApi
<1>2. ASSUME NEW a \in Admin, NEW listed \in SUBSET Path, NEW image \in Content,
             UploadLogo(a, listed, image)
      PROVE  \E keep \in SUBSET Path, edits \in Files : RotSelect(a, keep, edits)
  <2> DEFINE edits == [p \in {Logo} |-> image]
  <2>1. edits \in [{Logo} -> Content] /\ {Logo} \in SUBSET Path
    BY LogoAssumption
  <2>2. edits \in Files
    BY <2>1 DEF Files
  <2>3. listed \ {Logo} \in SUBSET Path
    OBVIOUS
  <2> QED
    BY <1>2, <2>2, <2>3 DEF UploadLogo
<1> QED
  BY <1>1, <1>2, Zenon DEF Next, Statements, SaveBundle, RearmByApi

(* The file set the console saves from a form, kept files and edits        *)
(* together, is a file set again.                                          *)
LEMMA NextFilesType ==
    ASSUME NEW cur \in Files, NEW keep \in SUBSET Path, NEW edits \in Files
    PROVE  NextFiles(cur, keep, edits) \in Files
<1>1. PICK S \in SUBSET Path : cur \in [S -> Content]
  BY DEF Files
<1>2. PICK E \in SUBSET Path : edits \in [E -> Content]
  BY DEF Files
<1>3. NextFiles(cur, keep, edits) \in [(keep \cap S) \cup E -> Content]
  BY <1>1, <1>2 DEF NextFiles
<1> QED
  BY <1>3 DEF Files

(* A slot that is armed stays a slot, and keeps its counter.                 *)
LEMMA ArmedType ==
    ASSUME NEW s \in Slots
    PROVE  /\ Armed(s) \in Slots
           /\ Armed(s).state = "armed"
           /\ s.state # "none" => Armed(s).count = s.count /\ Armed(s).at = s.at
BY DEF Armed, Slots, FreshSlot

(* Retry-After is a whole number of seconds, at least one.                   *)
LEMMA RetryAfterType ==
    ASSUME NEW s \in Slots, NEW t \in Nat
    PROVE  RetryAfter(s, t) \in Nat
<1>1. s.at + Rearm - t + Sec - 1 \in Int
  BY TimeAssumption DEF Slots
<1>2. CeilDiv(s.at + Rearm - t, Sec) \in Int
  BY <1>1, TimeAssumption DEF CeilDiv
<1> QED
  BY <1>2 DEF RetryAfter, AtLeastOne
-------------------------------------------------------------------------------
(* A step that gives one request well-typed locals keeps them all so.        *)
LEMMA BootType ==
    ASSUME NEW p \in Boot, NEW r \in Requests, boot \in [Boot -> Requests],
           boot' = [boot EXCEPT ![p] = r]
    PROVE  boot' \in [Boot -> Requests]
OBVIOUS

(* Every action keeps the types.                                             *)
LEMMA TypeStep == TypeOK /\ [Next]_vars => TypeOK'
<1> SUFFICES ASSUME TypeOK, [Next]_vars PROVE TypeOK'
  OBVIOUS
<1> USE ProcAssumption, TimeAssumption, BoundAssumption, ConstTypes DEF TypeOK
<1>1. ASSUME NEW p \in Boot, NEW k \in 0..MaxKey, BootAuth(p, k) PROVE TypeOK'
  BY <1>1 DEF BootAuth
<1>2. ASSUME NEW p \in Boot, BootStamp(p) PROVE TypeOK'
  <2> DEFINE r == [boot[p] EXCEPT !.pc = "ensure", !.t = now]
  <2>1. boot' = [boot EXCEPT ![p] = r]
    BY <1>2 DEF BootStamp
  <2>2. boot \in [Boot -> Requests] /\ boot[p] \in Requests
    BY DEF Requests
  <2>3. r \in Requests
    BY <2>2 DEF Requests
  <2> HIDE DEF r
  <2>4. boot' \in [Boot -> Requests]
    BY <2>1, <2>2, <2>3, BootType
  <2> QED
    BY <1>2, <2>4 DEF BootStamp, Requests
<1>3. ASSUME NEW p \in Boot, BootEnsure(p) PROVE TypeOK'
  BY <1>3 DEF BootEnsure
<1>4. ASSUME NEW p \in Boot, BootConsume(p) PROVE TypeOK'
  <2> DEFINE new == [state |-> "consumed", at |-> boot[p].t, count |-> slot.count + 1]
             r == [boot[p] EXCEPT !.pc = "select", !.pend = new]
  <2>1. new \in Slots
    BY DEF Slots
  <2>2. boot' = [boot EXCEPT ![p] = r]
    BY <1>4 DEF BootConsume
  <2> HIDE DEF new
  <2>3. boot \in [Boot -> Requests] /\ boot[p] \in Requests
    BY DEF Requests
  <2>4. r \in Requests
    BY <2>1, <2>3 DEF Requests
  <2> HIDE DEF r
  <2>5. boot' \in [Boot -> Requests]
    BY <2>2, <2>3, <2>4, BootType
  <2>6. slotLock' = p /\ UNCHANGED <<now, dev, blob, slot, blobLock, adm, served, unserved, handed>>
    BY <1>4 DEF BootConsume
  <2> QED
    BY <2>5, <2>6 DEF Requests
<1>5. ASSUME NEW p \in Boot, BootRefused(p) PROVE TypeOK'
  BY <1>5 DEF BootRefused
<1>6. ASSUME NEW p \in Boot, BootEarly(p) PROVE TypeOK'
  <2>1. RetryAfter(slot, boot[p].t) \in Nat
    BY RetryAfterType
  <2> QED
    BY <1>6, <2>1 DEF BootEarly, BootIdle
<1>7. ASSUME NEW p \in Boot, BootSelect(p) PROVE TypeOK'
  <2> DEFINE r == [boot[p] EXCEPT !.pc = "commit", !.got = blob]
  <2>1. boot' = [boot EXCEPT ![p] = r]
    BY <1>7 DEF BootSelect
  <2>2. boot \in [Boot -> Requests] /\ boot[p] \in Requests
    BY DEF Requests
  <2>3. r \in Requests
    BY <2>2 DEF Requests
  <2> HIDE DEF r
  <2>4. boot' \in [Boot -> Requests]
    BY <2>1, <2>2, <2>3, BootType
  <2> QED
    BY <1>7, <2>4 DEF BootSelect, Requests
<1>8. ASSUME NEW p \in Boot, BootCommit(p) PROVE TypeOK'
  BY <1>8 DEF BootCommit, BootIdle
<1>9. ASSUME NEW p \in Boot, BootAbort(p) PROVE TypeOK'
  BY <1>9 DEF BootAbort, BootIdle
<1>10. ASSUME NEW a \in Admin, NEW keep \in SUBSET Path, NEW edits \in Files,
              RotSelect(a, keep, edits)
       PROVE  TypeOK'
  <2>1. [ver |-> blob.ver + 1, files |-> NextFiles(blob.files, keep, edits)] \in Blobs
    BY NextFilesType DEF Blobs
  <2> QED
    BY <1>10, <2>1 DEF RotSelect
<1>11. ASSUME NEW a \in Admin, RotUpsert(a) PROVE TypeOK'
  BY <1>11 DEF RotUpsert
<1>12. ASSUME NEW a \in Admin, RotArm(a) PROVE TypeOK'
  BY <1>12 DEF RotArm
<1>13. ASSUME NEW a \in Admin, RotEnsure(a) PROVE TypeOK'
  BY <1>13 DEF RotEnsure
<1>14. ASSUME NEW a \in Admin, RotCommit(a) PROVE TypeOK'
  BY <1>14, ArmedType DEF RotCommit
<1>15. ASSUME NEW a \in Admin, AdmAbort(a) PROVE TypeOK'
  BY <1>15 DEF AdmAbort
<1>16. ASSUME NEW a \in Admin, Rearmed(a) PROVE TypeOK'
  BY <1>16, ArmedType DEF Rearmed
<1>17. ASSUME NEW a \in Admin, RearmEnsure(a) PROVE TypeOK'
  BY <1>17 DEF RearmEnsure
<1>18. ASSUME NEW s \in {"active", "revoked"}, SetStatus(s) PROVE TypeOK'
  BY <1>18 DEF SetStatus
<1>19. CASE RegenKey
  BY <1>19 DEF RegenKey
<1>20. CASE Tick
  BY <1>20 DEF Tick
<1>21. CASE Crash
  BY <1>21 DEF Crash, BootIdle
<1>22. CASE UNCHANGED vars
  BY <1>22 DEF vars
<1> QED
  BY <1>1, <1>2, <1>3, <1>4, <1>5, <1>6, <1>7, <1>8, <1>9, <1>10, <1>11, <1>12,
     <1>13, <1>14, <1>15, <1>16, <1>17, <1>18, <1>19, <1>20, <1>21, <1>22, NextShape
     DEF Statements, BootStep, AdmStep

(* Rows and request locals keep their shape for any number of requests.      *)
THEOREM TypeCorrect == Spec => []TypeOK
<1>1. Init => TypeOK
  BY ConstTypes, ProcAssumption DEF Init, TypeOK, BootIdle
<1> QED
  BY <1>1, TypeStep, PTL DEF Spec
-------------------------------------------------------------------------------
(* Every action keeps the lock discipline, the pending writes and the count. *)
LEMMA IInvStep == IInv /\ [Next]_vars => IInv'
<1> SUFFICES ASSUME IInv, [Next]_vars PROVE SlotLockInv' /\ PendInv' /\ NoRowInv' /\ CountIsExact'
  BY TypeStep DEF IInv
<1> DEFINE Goal == SlotLockInv' /\ PendInv' /\ NoRowInv' /\ CountIsExact'
<1> USE ProcAssumption, TimeAssumption, BoundAssumption
        DEF IInv, SlotLockInv, PendInv, NoRowInv, CountIsExact, TypeOK
<1>1. ASSUME NEW p \in Boot, NEW k \in 0..MaxKey, BootAuth(p, k) PROVE Goal
  BY <1>1 DEF BootAuth
<1>2. ASSUME NEW p \in Boot, BootStamp(p) PROVE Goal
  BY <1>2 DEF BootStamp
<1>3. ASSUME NEW p \in Boot, BootEnsure(p) PROVE Goal
  <2>1. CASE slot.state # "none" /\ UNCHANGED slot
    BY <1>3, <2>1 DEF BootEnsure
  <2>2. CASE slot.state = "none" /\ slotLock = Free /\ slot' = FreshSlot
    <3>1. \A q \in Boot : boot[q].pc \notin {"select", "commit"}
      BY <2>2
    <3>2. SlotLockInv' /\ PendInv'
      BY <1>3, <3>1 DEF BootEnsure
    <3> QED
      BY <1>3, <2>2, <3>2 DEF BootEnsure, FreshSlot
  <2> QED
    BY <1>3, <2>1, <2>2 DEF BootEnsure
<1>4. ASSUME NEW p \in Boot, BootConsume(p) PROVE Goal
  BY <1>4 DEF BootConsume
<1>5. ASSUME NEW p \in Boot, BootRefused(p) PROVE Goal
  BY <1>5 DEF BootRefused
<1>6. ASSUME NEW p \in Boot, BootEarly(p) PROVE Goal
  BY <1>6 DEF BootEarly, BootIdle
<1>7. ASSUME NEW p \in Boot, BootSelect(p) PROVE Goal
  BY <1>7 DEF BootSelect
<1>8. ASSUME NEW p \in Boot, BootCommit(p) PROVE Goal
  <2>1. slotLock = p /\ slotLock' = Free
    BY <1>8 DEF BootCommit
  <2>2. \A q \in Boot : boot'[q].pc \notin {"select", "commit"}
    BY <1>8, <2>1 DEF BootCommit, BootIdle
  <2>3. SlotLockInv' /\ PendInv'
    BY <1>8, <2>1, <2>2 DEF BootCommit
  <2>4. slot' = [state |-> "consumed", at |-> boot[p].t, count |-> slot.count + 1]
    BY <1>8 DEF BootCommit
  <2>5. /\ slot'.count = slot.count + 1 /\ slot'.state # "none"
        /\ slot.count \in Nat
    BY <2>4 DEF Slots
  <2>6. served' + unserved' = served + unserved + 1
    BY <1>8 DEF BootCommit
  <2>7. NoRowInv' /\ CountIsExact'
    BY <2>5, <2>6
  <2> QED
    BY <2>3, <2>7
<1>9. ASSUME NEW p \in Boot, BootAbort(p) PROVE Goal
  BY <1>9 DEF BootAbort, BootIdle
<1>10. ASSUME NEW a \in Admin, NEW keep \in SUBSET Path, NEW edits \in Files,
              RotSelect(a, keep, edits)
       PROVE  Goal
  BY <1>10 DEF RotSelect
<1>11. ASSUME NEW a \in Admin, RotUpsert(a) PROVE Goal
  BY <1>11 DEF RotUpsert
<1>12. ASSUME NEW a \in Admin, RotArm(a) PROVE Goal
  <2>1. CASE slotLock = Free /\ slotLock' = a /\ adm' = [adm EXCEPT ![a].pc = "commit"]
    BY <1>12, <2>1 DEF RotArm
  <2>2. CASE slotLock' = slotLock /\ adm' = [adm EXCEPT ![a].pc = "ensure"]
    BY <1>12, <2>2 DEF RotArm
  <2> QED
    BY <1>12, <2>1, <2>2 DEF RotArm
<1>13. ASSUME NEW a \in Admin, RotEnsure(a) PROVE Goal
  BY <1>13 DEF RotEnsure
<1>14. ASSUME NEW a \in Admin, RotCommit(a) PROVE Goal
  <2>1. CASE slotLock = a
    <3>1. slotLock' = Free /\ slot' = Armed(slot)
      BY <1>14, <2>1 DEF RotCommit
    <3>2. \A q \in Boot : boot'[q].pc \notin {"select", "commit"}
      BY <1>14, <2>1 DEF RotCommit
    <3>3. SlotLockInv' /\ PendInv'
      BY <1>14, <3>1, <3>2 DEF RotCommit
    <3>4. slot'.count = slot.count /\ slot'.state # "none"
      BY <3>1 DEF Armed, Slots, FreshSlot
    <3> QED
      BY <1>14, <3>3, <3>4 DEF RotCommit
  <2>2. CASE slotLock # a
    BY <1>14, <2>2 DEF RotCommit, AdmIdle
  <2> QED
    BY <2>1, <2>2
<1>15. ASSUME NEW a \in Admin, AdmAbort(a) PROVE Goal
  BY <1>15 DEF AdmAbort, AdmIdle
<1>16. ASSUME NEW a \in Admin, Rearmed(a) PROVE Goal
  <2>1. CASE slot.state # "none" /\ slotLock = Free /\ slot' = Armed(slot) /\ UNCHANGED adm
    <3>1. \A q \in Boot : boot[q].pc \notin {"select", "commit"}
      BY <2>1
    <3>2. SlotLockInv' /\ PendInv'
      BY <1>16, <2>1, <3>1 DEF Rearmed
    <3>3. slot'.count = slot.count /\ slot'.state # "none"
      BY <2>1, ArmedType
    <3>4. NoRowInv' /\ CountIsExact'
      BY <1>16, <3>3 DEF Rearmed
    <3> QED
      BY <3>2, <3>4
  <2>2. CASE adm' = [adm EXCEPT ![a].pc = "rearm"] /\ UNCHANGED slot
    BY <1>16, <2>2 DEF Rearmed
  <2> QED
    BY <1>16, <2>1, <2>2 DEF Rearmed
<1>17. ASSUME NEW a \in Admin, RearmEnsure(a) PROVE Goal
  BY <1>17 DEF RearmEnsure, AdmIdle, FreshSlot
<1>18. ASSUME NEW s \in {"active", "revoked"}, SetStatus(s) PROVE Goal
  BY <1>18 DEF SetStatus
<1>19. CASE RegenKey
  BY <1>19 DEF RegenKey
<1>20. CASE Tick
  BY <1>20 DEF Tick
<1>21. CASE Crash
  BY <1>21 DEF Crash, BootIdle, AdmIdle
<1>22. CASE UNCHANGED vars
  BY <1>22 DEF vars
<1> QED
  BY <1>1, <1>2, <1>3, <1>4, <1>5, <1>6, <1>7, <1>8, <1>9, <1>10, <1>11, <1>12,
     <1>13, <1>14, <1>15, <1>16, <1>17, <1>18, <1>19, <1>20, <1>21, <1>22, NextShape
     DEF Statements, BootStep, AdmStep

(* The lock discipline, the pending writes and the count hold in every state. *)
LEMMA IInvAlways == Spec => []IInv
<1>1. Init => TypeOK
  BY ConstTypes, ProcAssumption DEF Init, TypeOK, BootIdle
<1>2. Init => SlotLockInv /\ PendInv /\ NoRowInv /\ CountIsExact
  BY ProcAssumption DEF Init, SlotLockInv, PendInv, NoRowInv, CountIsExact, BootIdle,
     FreshSlot, NoSlot
<1>3. Init => IInv
  BY <1>1, <1>2 DEF IInv
<1> QED
  BY <1>3, IInvStep, PTL DEF Spec

(* delivery_count counts every committed consume exactly once, for any       *)
(* number of overlapping bootstraps (slots.ts consumeSlot).                  *)
THEOREM CountExact == Spec => []CountIsExact
<1>1. IInv => CountIsExact
  BY DEF IInv
<1> QED
  BY <1>1, IInvAlways, PTL
-------------------------------------------------------------------------------
(* While every rotation that commits holds the slot's lock, every action      *)
(* keeps a selected bundle current until it is handed out.                    *)
LEMMA FreshStep == IInv /\ FreshInv /\ [Next]_vars /\ [Locked]_vars => FreshInv'
<1> SUFFICES ASSUME IInv, FreshInv, [Next]_vars, [Locked]_vars PROVE FreshInv'
  OBVIOUS
<1> USE ProcAssumption DEF IInv, FreshInv, NoneInv, GotInv, NoRotationLost, TypeOK
<1>1. ASSUME NEW p \in Boot, NEW k \in 0..MaxKey, BootAuth(p, k) PROVE FreshInv'
  BY <1>1 DEF BootAuth
<1>2. ASSUME NEW p \in Boot, BootStamp(p) PROVE FreshInv'
  BY <1>2 DEF BootStamp
<1>3. ASSUME NEW p \in Boot, BootEnsure(p) PROVE FreshInv'
  BY <1>3 DEF BootEnsure, FreshSlot
<1>4. ASSUME NEW p \in Boot, BootConsume(p) PROVE FreshInv'
  BY <1>4 DEF BootConsume
<1>5. ASSUME NEW p \in Boot, BootRefused(p) PROVE FreshInv'
  BY <1>5 DEF BootRefused
<1>6. ASSUME NEW p \in Boot, BootEarly(p) PROVE FreshInv'
  BY <1>6 DEF BootEarly, BootIdle
<1>7. ASSUME NEW p \in Boot, BootSelect(p) PROVE FreshInv'
  BY <1>7 DEF BootSelect
<1>8. ASSUME NEW p \in Boot, BootCommit(p) PROVE FreshInv'
  <2>0. boot[p].got = blob
    BY <1>8 DEF BootCommit
  <2>1. boot[p].pend = [state |-> "consumed", at |-> boot[p].t, count |-> slot.count + 1]
    BY <1>8 DEF BootCommit, PendInv
  <2>2. slot'.state = "consumed" /\ handed' = blob /\ blob' = blob
    BY <1>8, <2>0, <2>1 DEF BootCommit
  <2>3. GotInv'
    BY <1>8 DEF BootCommit, BootIdle
  <2> QED
    BY <2>2, <2>3
<1>9. ASSUME NEW p \in Boot, BootAbort(p) PROVE FreshInv'
  BY <1>9 DEF BootAbort, BootIdle
<1>10. ASSUME NEW a \in Admin, NEW keep \in SUBSET Path, NEW edits \in Files,
              RotSelect(a, keep, edits)
       PROVE  FreshInv'
  BY <1>10 DEF RotSelect
<1>11. ASSUME NEW a \in Admin, RotUpsert(a) PROVE FreshInv'
  BY <1>11 DEF RotUpsert
<1>12. ASSUME NEW a \in Admin, RotArm(a) PROVE FreshInv'
  BY <1>12 DEF RotArm
<1>13. ASSUME NEW a \in Admin, RotEnsure(a) PROVE FreshInv'
  BY <1>13 DEF RotEnsure
<1>14. ASSUME NEW a \in Admin, RotCommit(a) PROVE FreshInv'
  <2>1. adm[a].pc = "commit" /\ adm'[a].pc = "idle"
    BY <1>14 DEF RotCommit, AdmIdle
  <2>2. adm' # adm
    BY <2>1
  <2>3. slotLock = a
    BY <1>14, <2>2 DEF Locked, vars
  <2>4. \A q \in Boot : boot[q].pc # "commit"
    BY <2>3 DEF SlotLockInv
  <2>5. slot' = Armed(slot) /\ slot'.state = "armed"
    BY <1>14, <2>3, ArmedType DEF RotCommit
  <2> QED
    BY <1>14, <2>4, <2>5 DEF RotCommit
<1>15. ASSUME NEW a \in Admin, AdmAbort(a) PROVE FreshInv'
  BY <1>15 DEF AdmAbort
<1>16. ASSUME NEW a \in Admin, Rearmed(a) PROVE FreshInv'
  BY <1>16, ArmedType DEF Rearmed
<1>17. ASSUME NEW a \in Admin, RearmEnsure(a) PROVE FreshInv'
  BY <1>17 DEF RearmEnsure, FreshSlot
<1>18. ASSUME NEW s \in {"active", "revoked"}, SetStatus(s) PROVE FreshInv'
  BY <1>18 DEF SetStatus
<1>19. CASE RegenKey
  BY <1>19 DEF RegenKey
<1>20. CASE Tick
  BY <1>20 DEF Tick
<1>21. CASE Crash
  BY <1>21 DEF Crash, BootIdle
<1>22. CASE UNCHANGED vars
  BY <1>22 DEF vars
<1> QED
  BY <1>1, <1>2, <1>3, <1>4, <1>5, <1>6, <1>7, <1>8, <1>9, <1>10, <1>11, <1>12,
     <1>13, <1>14, <1>15, <1>16, <1>17, <1>18, <1>19, <1>20, <1>21, <1>22, NextShape
     DEF Statements, BootStep, AdmStep

(* So that is an invariant of such behaviours, row or no row.                 *)
LEMMA FreshAlways == Spec /\ [][Locked]_vars => []FreshInv
<1>1. Init => FreshInv
  BY DEF Init, FreshInv, NoneInv, GotInv, NoRotationLost, BootIdle, FreshSlot, NoSlot
<1> QED
  BY <1>1, IInvAlways, FreshStep, PTL DEF Spec

(* The one way to lose a rotation: whether or not the slot row exists, a      *)
(* bundle the device was not handed is only ever left behind a consumed slot  *)
(* after a rotation committed without the slot's lock (rotate.ts armSlot: the *)
(* row appeared between the UPDATE and the INSERT).                           *)
THEOREM OnlyUnlockedRotationsAreLost == Spec /\ [][Locked]_vars => []NoRotationLost
<1>1. FreshInv => NoRotationLost
  BY DEF FreshInv
<1> QED
  BY <1>1, FreshAlways, PTL

(* A slot row that exists stays, and every rotation about to commit holds its *)
(* lock.                                                                      *)
LEMMA PInvStep == PInv /\ [Next]_vars => PInv'
<1> SUFFICES ASSUME PInv, [Next]_vars PROVE slot'.state # "none" /\ RotHoldsSlot'
  BY IInvStep DEF PInv
<1> DEFINE Goal == slot'.state # "none" /\ RotHoldsSlot'
<1> USE ProcAssumption DEF PInv, IInv, RotHoldsSlot, TypeOK
<1>1. ASSUME NEW p \in Boot, NEW k \in 0..MaxKey, BootAuth(p, k) PROVE Goal
  BY <1>1 DEF BootAuth
<1>2. ASSUME NEW p \in Boot, BootStep(p), ~BootCommit(p) PROVE Goal
  <2>1. UNCHANGED <<slot, adm>> /\ (slotLock' = slotLock \/ slotLock = Free)
    BY <1>2 DEF BootStep, BootStamp, BootEnsure, BootConsume, BootRefused, BootEarly, BootSelect
  <2> QED
    BY <2>1
<1>3. ASSUME NEW p \in Boot, BootCommit(p) PROVE Goal
  <2>0. slotLock = p
    BY <1>3 DEF BootCommit, SlotLockInv
  <2>1. boot[p].pend = [state |-> "consumed", at |-> boot[p].t, count |-> slot.count + 1]
    BY <1>3 DEF BootCommit, PendInv
  <2>2. \A a \in Admin : adm[a].pc # "commit"
    BY <2>0
  <2> QED
    BY <1>3, <2>1, <2>2 DEF BootCommit
<1>4. ASSUME NEW p \in Boot, BootAbort(p) PROVE Goal
  BY <1>4 DEF BootAbort
<1>5. ASSUME NEW a \in Admin, NEW keep \in SUBSET Path, NEW edits \in Files,
             RotSelect(a, keep, edits)
      PROVE  Goal
  BY <1>5 DEF RotSelect
<1>6. ASSUME NEW a \in Admin, RotUpsert(a) \/ RotArm(a) \/ RotEnsure(a) \/ RearmEnsure(a)
      PROVE  Goal
  BY <1>6 DEF RotUpsert, RotArm, RotEnsure, RearmEnsure, AdmIdle
<1>7. ASSUME NEW a \in Admin, RotCommit(a) PROVE Goal
  <2>1. slotLock = a
    BY <1>7 DEF RotCommit
  <2>2. slot'.state = "armed"
    BY <1>7, <2>1, ArmedType DEF RotCommit
  <2>3. \A b \in Admin \ {a} : adm'[b] = adm[b] /\ adm[b].pc # "commit"
    BY <1>7, <2>1 DEF RotCommit
  <2> QED
    BY <1>7, <2>2, <2>3 DEF RotCommit, AdmIdle
<1>8. ASSUME NEW a \in Admin, AdmAbort(a) PROVE Goal
  BY <1>8 DEF AdmAbort, AdmIdle
<1>9. ASSUME NEW a \in Admin, Rearmed(a) PROVE Goal
  BY <1>9, ArmedType DEF Rearmed
<1>10. ASSUME NEW s \in {"active", "revoked"}, SetStatus(s) PROVE Goal
  BY <1>10 DEF SetStatus
<1>11. CASE RegenKey \/ Tick
  BY <1>11 DEF RegenKey, Tick
<1>12. CASE Crash
  BY <1>12 DEF Crash, AdmIdle
<1>13. CASE UNCHANGED vars
  BY <1>13 DEF vars
<1> QED
  BY <1>1, <1>2, <1>3, <1>4, <1>5, <1>6, <1>7, <1>8, <1>9, <1>10, <1>11, <1>12, <1>13, NextShape
     DEF Statements, AdmStep

(* For a device whose slot row exists no rotation commits without its lock.   *)
LEMMA ProvisionedLocks == ASSUME Provisioned = TRUE PROVE Spec => [][Locked]_vars
<1>1. Init /\ IInv => PInv
  BY Provisioned = TRUE DEF Init, PInv, RotHoldsSlot, AdmIdle, FreshSlot
<1>2. PInv => Locked
  BY DEF PInv, RotHoldsSlot, Locked, RotCommit
<1> QED
  BY <1>1, <1>2, IInvAlways, PInvStep, PTL DEF Spec

(* Once the slot row exists, no interleaving of bootstraps and rotations     *)
(* leaves a bundle the device was not handed behind a consumed slot.         *)
THEOREM RotationNeverLost == ASSUME Provisioned = TRUE PROVE Spec => []NoRotationLost
BY ProvisionedLocks, OnlyUnlockedRotationsAreLost, PTL
-------------------------------------------------------------------------------
(* Each step of the registrar is a step of the one-shot promise, or changes  *)
(* nothing the promise speaks of: the whole bootstrap transaction takes       *)
(* effect at its commit, and so does a rotation; a row that appears is armed, *)
(* as no row is to the promise.                                              *)
LEMMA PromiseStep ==
    IInv /\ FreshInv /\ [Next]_vars /\ [Locked]_vars => [Promise!Next]_(Promise!vars)
<1> SUFFICES ASSUME IInv, FreshInv, [Next]_vars, [Locked]_vars PROVE [Promise!Next]_(Promise!vars)
  OBVIOUS
<1> DEFINE Same == /\ UNCHANGED <<blob, handed>>
                   /\ slot' = slot \/ (slot.state = "none" /\ slot' = FreshSlot)
<1>a. ASSUME Same PROVE [Promise!Next]_(Promise!vars)
  BY <1>a DEF Promise!vars, FreshInv, NoneInv, FreshSlot
<1>b. ASSUME slot' = Armed(slot), UNCHANGED <<blob, handed>>
      PROVE  [Promise!Next]_(Promise!vars)
  <2>1. CASE slot.state = "none"
    BY <1>a, <1>b, <2>1 DEF Armed
  <2>2. CASE slot.state # "none"
    BY <1>b, <2>2, ArmedType DEF Promise!Next, Promise!Arm, IInv, TypeOK
  <2> QED
    BY <2>1, <2>2
<1>1. ASSUME NEW p \in Boot, NEW k \in 0..MaxKey, BootAuth(p, k) PROVE Same
  BY <1>1 DEF BootAuth
<1>2. ASSUME NEW p \in Boot, BootStep(p), ~BootCommit(p) PROVE Same
  BY <1>2 DEF BootStep, BootStamp, BootEnsure, BootConsume, BootRefused, BootEarly, BootSelect
<1>3. ASSUME NEW p \in Boot, BootCommit(p) PROVE Promise!Next
  <2>1. /\ boot[p].pend = [state |-> "consumed", at |-> boot[p].t, count |-> slot.count + 1]
        /\ Available(slot, boot[p].t)
        /\ boot[p].got = blob
        /\ boot[p].t \in Nat
    BY <1>3 DEF BootCommit, IInv, PendInv, FreshInv, GotInv, TypeOK
  <2>2. /\ slot'.at = boot[p].t /\ slot'.state = "consumed" /\ slot'.count = slot.count + 1
        /\ handed' = blob /\ blob' = blob
    BY <1>3, <2>1 DEF BootCommit
  <2>3. slot.state # "consumed" \/ slot.at + Rearm <= boot[p].t
    BY <2>1 DEF Available
  <2> QED
    BY <2>1, <2>2, <2>3 DEF Promise!Next, Promise!Consume
<1>4. ASSUME NEW p \in Boot, BootAbort(p) PROVE Same
  BY <1>4 DEF BootAbort
<1>5. ASSUME NEW a \in Admin, NEW keep \in SUBSET Path, NEW edits \in Files,
             RotSelect(a, keep, edits)
      PROVE  Same
  BY <1>5 DEF RotSelect
<1>6. ASSUME NEW a \in Admin, AdmStep(a), ~RotCommit(a) PROVE Same
  BY <1>6 DEF AdmStep, RotUpsert, RotArm, RotEnsure, RearmEnsure
<1>7. ASSUME NEW a \in Admin, RotCommit(a) PROVE Promise!Next
  <2>0. adm \in [Admin -> [pc : {"idle", "upsert", "arm", "ensure", "commit", "rearm"},
                           next : Blobs]] /\ slot \in Slots
    BY DEF IInv, TypeOK
  <2>1. adm'[a].pc # adm[a].pc
    BY <1>7, <2>0 DEF RotCommit, AdmIdle
  <2>2. slotLock = a
    BY <1>7, <2>1 DEF Locked, vars
  <2>3. slot' = Armed(slot) /\ handed' = handed /\ blob' \in Blobs
    BY <1>7, <2>0, <2>2 DEF RotCommit
  <2>4. slot'.state = "armed" /\ slot'.at = slot.at /\ slot'.count = slot.count
    BY <2>0, <2>3 DEF Armed, Slots, FreshSlot, FreshInv, NoneInv
  <2> QED
    BY <2>3, <2>4 DEF Promise!Next, Promise!Publish
<1>8. ASSUME NEW a \in Admin, Rearmed(a)
      PROVE  (slot' = Armed(slot) \/ slot' = slot) /\ UNCHANGED <<blob, handed>>
  BY <1>8 DEF Rearmed
<1>9. ASSUME NEW a \in Admin, AdmAbort(a) PROVE Same
  BY <1>9 DEF AdmAbort
<1>10. ASSUME NEW s \in {"active", "revoked"}, SetStatus(s) PROVE Same
  BY <1>10 DEF SetStatus
<1>11. ASSUME RegenKey \/ Tick \/ Crash \/ UNCHANGED vars PROVE Same
  BY <1>11 DEF RegenKey, Tick, Crash, vars
<1> QED
  BY <1>a, <1>b, <1>1, <1>2, <1>3, <1>4, <1>5, <1>6, <1>7, <1>8, <1>9, <1>10, <1>11, NextShape
     DEF Statements

(* The transactions of bootstrap, rotate and re-arm implement atomic one-shot *)
(* delivery, also while the slot row is being created, as long as no rotation *)
(* commits without the slot's lock (rotate.ts armSlot).                       *)
THEOREM RefinementWhileLocked == Spec /\ [][Locked]_vars => ImplementsOneShot
<1>1. Init => Promise!Init
  BY ConstTypes DEF Init, Promise!Init, FreshSlot, NoSlot
<1> QED
  BY <1>1, IInvAlways, FreshAlways, PromiseStep, PTL DEF Spec, ImplementsOneShot, Promise!Spec

(* For a device whose slot row exists, the statement-by-statement            *)
(* transactions of bootstrap, rotate and re-arm implement atomic one-shot    *)
(* delivery (app.ts /v1/bootstrap, rotate.ts rotateBundle and rearmSlot).    *)
THEOREM Refinement == ASSUME Provisioned = TRUE PROVE Spec => ImplementsOneShot
BY ProvisionedLocks, RefinementWhileLocked, PTL
-------------------------------------------------------------------------------
(* What a rotation is about to write is one version past what is stored.     *)
NextVerInv == \A a \in Admin : adm[a].pc \in {"upsert", "arm", "ensure", "commit"} =>
                                  adm[a].next.ver = blob.ver + 1

(* As long as rotations of one device do not overlap, each takes the         *)
(* version exactly one step further (rotate.ts buildNextBundle).  The        *)
(* hypothesis is needed: see the run concurrent_rotations.                   *)
THEOREM VersionBumps ==
    ASSUME \A a, b \in Admin : a = b
    PROVE  Spec => RotationBumpsVersion
<1>0. \A a, b \in Admin : a = b
  OBVIOUS
<1>1. Init => NextVerInv
  BY DEF Init, NextVerInv, AdmIdle
<1>2. ASSUME TypeOK, NextVerInv, [Next]_vars
      PROVE  NextVerInv' /\ (blob' # blob => blob'.ver = blob.ver + 1)
  <2> USE <1>2 DEF TypeOK, NextVerInv, AdmIdle
  <2>1. ASSUME NEW p \in Boot, NEW k \in 0..MaxKey, BootAuth(p, k)
        PROVE  UNCHANGED <<blob, adm>>
    BY <2>1 DEF BootAuth
  <2>2. ASSUME NEW p \in Boot, BootStep(p) \/ BootAbort(p) PROVE UNCHANGED <<blob, adm>>
    BY <2>2 DEF BootStep, BootStamp, BootEnsure, BootConsume, BootRefused, BootEarly,
       BootSelect, BootCommit, BootAbort
  <2>3. ASSUME NEW a \in Admin, NEW keep \in SUBSET Path, NEW edits \in Files,
               RotSelect(a, keep, edits)
        PROVE  NextVerInv' /\ blob' = blob
    BY <2>3 DEF RotSelect
  <2>4. ASSUME NEW a \in Admin, AdmStep(a), ~RotCommit(a) PROVE NextVerInv' /\ blob' = blob
    <3>1. CASE RotUpsert(a)
      BY <3>1 DEF RotUpsert
    <3>2. CASE RotArm(a)
      BY <3>2 DEF RotArm
    <3>3. CASE RotEnsure(a)
      BY <3>3 DEF RotEnsure
    <3>4. CASE RearmEnsure(a)
      BY <3>4 DEF RearmEnsure
    <3> QED
      BY <2>4, <3>1, <3>2, <3>3, <3>4 DEF AdmStep
  <2>5. ASSUME NEW a \in Admin, RotCommit(a)
        PROVE  NextVerInv' /\ blob'.ver = blob.ver + 1
    <3>1. \A b \in Admin : adm'[b].pc = "idle"
      BY <1>0, <2>5 DEF RotCommit
    <3>2. blob'.ver = blob.ver + 1
      BY <2>5 DEF RotCommit
    <3> QED
      BY <3>1, <3>2
  <2>6. ASSUME NEW a \in Admin, Rearmed(a) \/ AdmAbort(a) PROVE NextVerInv' /\ blob' = blob
    <3>1. CASE Rearmed(a)
      BY <3>1 DEF Rearmed
    <3>2. CASE AdmAbort(a)
      BY <3>2 DEF AdmAbort
    <3> QED
      BY <2>6, <3>1, <3>2
  <2>7. ASSUME NEW s \in {"active", "revoked"}, SetStatus(s) PROVE UNCHANGED <<blob, adm>>
    BY <2>7 DEF SetStatus
  <2>8. ASSUME RegenKey \/ Tick \/ Crash \/ UNCHANGED vars PROVE NextVerInv' /\ blob' = blob
    <3>1. CASE Crash
      BY <3>1 DEF Crash
    <3>2. CASE RegenKey \/ Tick \/ UNCHANGED vars
      BY <3>2 DEF RegenKey, Tick, vars
    <3> QED
      BY <2>8, <3>1, <3>2
  <2> QED
    BY <1>2, <2>1, <2>2, <2>3, <2>4, <2>5, <2>6, <2>7, <2>8, NextShape
       DEF Statements
<1> QED
  BY <1>1, <1>2, TypeCorrect, PTL DEF Spec, RotationBumpsVersion
(* Rounding up to whole seconds never comes out short.                       *)
LEMMA CeilCovers == ASSUME NEW x \in Nat, NEW d \in Nat \ {0}
                    PROVE  CeilDiv(x, d) \in Nat /\ CeilDiv(x, d) * d >= x
<1> DEFINE n == x + d - 1
<1>1. n \in Nat
  OBVIOUS
<1>2. /\ n \div d \in Nat /\ n % d \in Nat /\ n % d < d
      /\ n = d * (n \div d) + (n % d)
  BY <1>1, SMT
<1>3. d * (n \div d) \in Nat
  BY <1>2
<1>4. \A y, r \in Nat : n = y + r /\ r < d => y >= x
  OBVIOUS
<1> QED
  BY <1>2, <1>3, <1>4 DEF CeilDiv

(* A slot that is there is open again after the Retry-After it gives.        *)
LEMMA RetryCovers == ASSUME NEW s \in Slots, NEW t \in Nat, s.state # "none"
                     PROVE  /\ RetryAfter(s, t) \in Nat
                            /\ Available(s, t + RetryAfter(s, t) * Sec)
<1> USE TimeAssumption DEF Slots
<1>1. CASE Available(s, t)
  BY <1>1 DEF RetryAfter, Available
<1>2. CASE ~Available(s, t)
  <2> DEFINE x == s.at + Rearm - t
             n == CeilDiv(x, Sec)
             m == AtLeastOne(n)
  <2>1. s.state = "consumed" /\ x \in Nat
    BY <1>2 DEF Available
  <2>2. n \in Nat /\ n * Sec >= x
    BY <2>1, CeilCovers
  <2>3. m \in Nat /\ m >= n
    BY <2>2 DEF AtLeastOne
  <2>4. m * Sec \in Nat /\ m * Sec >= n * Sec
    <3> HIDE DEF m, n
    <3> QED
      BY <2>2, <2>3
  <2>5. m * Sec >= x
    <3> HIDE DEF m, n, x
    <3> QED
      BY <2>1, <2>2, <2>4
  <2>6. s.at + Rearm <= t + m * Sec
    <3> HIDE DEF m, n
    <3> QED
      BY <2>1, <2>4, <2>5
  <2>7. RetryAfter(s, t) = m
    BY <1>2, <2>1 DEF RetryAfter
  <2> QED
    BY <2>1, <2>3, <2>6, <2>7 DEF Available
<1> QED
  BY <1>1, <1>2

(* Every action keeps what a 425 was told.                                   *)
LEMMA HonestStep == IInv /\ HonestInv /\ [Next]_vars => HonestInv'
<1> SUFFICES ASSUME IInv, HonestInv, [Next]_vars PROVE HonestInv'
  OBVIOUS
<1> USE TimeAssumption DEF HonestInv, EnsuredInv, RetryInv
<1>t. /\ slot \in Slots /\ boot \in [Boot -> Requests]
  BY DEF IInv, TypeOK, Requests
<1>k. \A p \in Boot : boot[p] \in Requests
  BY <1>t
<1>q. ASSUME UNCHANGED <<slot, boot>> PROVE HonestInv'
  BY <1>q DEF Available
<1>1. ASSUME NEW p \in Boot, NEW k \in 0..MaxKey, BootAuth(p, k) PROVE HonestInv'
  BY <1>t, <1>1 DEF BootAuth, Requests
<1>2. ASSUME NEW p \in Boot, BootStamp(p) PROVE HonestInv'
  BY <1>t, <1>2 DEF BootStamp, Requests
<1>3. ASSUME NEW p \in Boot, BootEnsure(p) PROVE HonestInv'
  <2>1. CASE slot.state = "none"
    <3>1. \A q \in Boot : ~(boot[q].pc = "idle" /\ boot[q].retry > 0)
      BY <2>1
    <3>2. \A q \in Boot : boot'[q].pc = "idle" => boot'[q] = boot[q]
      BY <1>t, <1>3 DEF BootEnsure, Requests
    <3> QED
      BY <1>3, <2>1, <3>1, <3>2 DEF BootEnsure, FreshSlot
  <2>2. CASE slot.state # "none"
    BY <1>t, <1>3, <2>2 DEF BootEnsure, Requests
  <2> QED
    BY <2>1, <2>2
<1>4. ASSUME NEW p \in Boot, BootConsume(p) \/ BootRefused(p) \/ BootSelect(p) PROVE HonestInv'
  <2>1. /\ slot' = slot
        /\ \A q \in Boot : q # p => boot'[q] = boot[q]
        /\ boot'[p].pc \in {"select", "early", "commit"} /\ slot.state # "none"
    BY <1>t, <1>4 DEF BootConsume, BootRefused, BootSelect, Requests
  <2> QED
    BY <2>1
<1>5. ASSUME NEW p \in Boot, BootEarly(p) PROVE HonestInv'
  <2>1. /\ slot' = slot /\ slot.state # "none"
        /\ \A q \in Boot : q # p => boot'[q] = boot[q]
        /\ boot'[p] = BootIdle(RetryAfter(slot, boot[p].t), slot, boot[p].t)
    BY <1>t, <1>5 DEF BootEarly
  <2>2. boot[p].t \in Nat
    BY <1>k DEF Requests
  <2>3. Available(slot, boot[p].t + RetryAfter(slot, boot[p].t) * Sec)
    BY <1>t, <2>1, <2>2, RetryCovers
  <2>4. /\ boot'[p].pc = "idle" /\ boot'[p].t = boot[p].t /\ boot'[p].pend = slot
        /\ boot'[p].retry = RetryAfter(slot, boot[p].t)
    BY <2>1 DEF BootIdle
  <2>5. slot.count <= slot.count
    BY <1>t DEF Slots
  <2> QED
    BY <2>1, <2>3, <2>4, <2>5
<1>6. ASSUME NEW p \in Boot, BootCommit(p) PROVE HonestInv'
  <2>1. /\ slot'.state # "none" /\ slot'.count = slot.count + 1 /\ slot.count \in Nat
    <3>1. slot' = boot[p].pend /\ boot[p].pc = "commit"
      BY <1>6 DEF BootCommit
    <3>2. boot[p].pend = [state |-> "consumed", at |-> boot[p].t, count |-> slot.count + 1]
      BY <3>1 DEF IInv, PendInv
    <3> QED
      BY <1>t, <3>1, <3>2 DEF Slots
  <2>2. \A q \in Boot : q # p => boot'[q] = boot[q]
    BY <1>t, <1>6 DEF BootCommit
  <2>3. boot'[p].pc = "idle" /\ ~(boot'[p].retry > 0)
    BY <1>t, <1>6 DEF BootCommit, BootIdle
  <2>4. \A q \in Boot : boot[q].pend.count \in Nat
    BY <1>k DEF Requests, Slots
  <2> QED
    BY <2>1, <2>2, <2>3, <2>4
<1>7. ASSUME NEW p \in Boot, BootAbort(p) PROVE HonestInv'
  <2>1. slot' = slot /\ \A q \in Boot : q # p => boot'[q] = boot[q]
    BY <1>t, <1>7 DEF BootAbort
  <2>2. boot'[p].pc = "idle" /\ ~(boot'[p].retry > 0)
    BY <1>t, <1>7 DEF BootAbort, BootIdle
  <2> QED
    BY <2>1, <2>2
<1>8. ASSUME NEW a \in Admin, NEW keep \in SUBSET Path, NEW edits \in Files,
             RotSelect(a, keep, edits)
      PROVE  HonestInv'
  BY <1>q, <1>8 DEF RotSelect
<1>r. ASSUME boot' = boot, slot' = Armed(slot) PROVE HonestInv'
  <2>1. CASE slot.state = "none"
    <3>1. \A q \in Boot : ~(boot[q].pc = "idle" /\ boot[q].retry > 0)
      BY <2>1
    <3> QED
      BY <1>r, <2>1, <3>1 DEF Armed, FreshSlot
  <2>2. CASE slot.state # "none"
    <3>1. slot'.state = "armed" /\ slot'.count = slot.count
      BY <1>t, <1>r, <2>2 DEF Armed, Slots
    <3> QED
      BY <1>r, <3>1 DEF Available
  <2> QED
    BY <2>1, <2>2
<1>9. ASSUME NEW a \in Admin, AdmStep(a) PROVE HonestInv'
  <2>1. CASE RotUpsert(a) \/ RotArm(a) \/ RotEnsure(a)
    BY <1>q, <2>1 DEF RotUpsert, RotArm, RotEnsure
  <2>2. CASE RotCommit(a)
    BY <1>q, <1>r, <2>2 DEF RotCommit
  <2>3. CASE RearmEnsure(a)
    BY <1>q, <1>r, <2>3 DEF RearmEnsure, Armed
  <2> QED
    BY <1>9, <2>1, <2>2, <2>3 DEF AdmStep
<1>10. ASSUME NEW a \in Admin, Rearmed(a) PROVE HonestInv'
  BY <1>q, <1>r, <1>10 DEF Rearmed
<1>11. ASSUME NEW a \in Admin, AdmAbort(a) PROVE HonestInv'
  BY <1>q, <1>11 DEF AdmAbort
<1>12. ASSUME NEW s \in {"active", "revoked"}, SetStatus(s) PROVE HonestInv'
  BY <1>q, <1>12 DEF SetStatus
<1>13. CASE RegenKey \/ Tick \/ UNCHANGED vars
  BY <1>q, <1>13 DEF RegenKey, Tick, vars
<1>14. CASE Crash
  <2>1. slot' = slot /\ \A q \in Boot : boot'[q].pc = "idle" /\ ~(boot'[q].retry > 0)
    BY <1>14 DEF Crash, BootIdle
  <2> QED
    BY <2>1
<1> QED
  BY <1>1, <1>2, <1>3, <1>4, <1>5, <1>6, <1>7, <1>8, <1>9, <1>10, <1>11, <1>12, <1>13,
     <1>14, NextShape DEF Statements, BootStep

(* A 425's Retry-After is honest for any re-arm window and any tick length:  *)
(* the slot is open again at that instant unless it was consumed in between  *)
(* (slots.ts retryAfterSeconds).                                             *)
THEOREM RetryAlwaysHonest == Spec => []RetryAfterHonest
<1>1. Init => HonestInv
  BY DEF Init, HonestInv, EnsuredInv, RetryInv, BootIdle
<1>2. HonestInv => RetryAfterHonest
  BY DEF HonestInv, RetryInv, RetryAfterHonest
<1> QED
  BY <1>1, <1>2, HonestStep, IInvAlways, PTL DEF Spec
===============================================================================
