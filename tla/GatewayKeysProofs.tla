-------------------------- MODULE GatewayKeysProofs --------------------------
(* Proofs about GatewayKeys: the owner's creator key is deleted by nobody    *)
(* else, for any number of requests; and deliver-then-revoke of the model    *)
(* key, for any number of rotations, keys and versions, where one console    *)
(* request at a time is served and the owner mints no model key inside a     *)
(* rotation (two console requests lose each other's merges into agent.env).  *)
EXTENDS GatewayKeys, WellFoundedInduction, TLAPS

EnvVars == [model: Key, shared: Key, private: Key]

Kinds == {"enroll", "memory", "model", "rotate"}

Running == [pc: {"env", "await", "go", "mint", "private", "write", "insert"}, kind: Kinds,
            seen: EnvVars, key: Key, private: Key, alias: Aliases, ver: Nat]

Jobs == {Idle} \union Running

RowSet == [old: Aliases, new: Aliases, ver: Nat,
           status: {"delivering", "awaiting_revoke", "completed"}]

Boots == [pc: {"none", "probe", "delete", "mint", "mark", "ready"}, key: Key]

TypeInv == /\ TypeOK
           /\ known \in Nat
           /\ job \in [Requests -> Jobs]
           /\ boot \in Boots

-----------------------------------------------------------------------------
(* The bootstrap deletes only behind the marker, and the marker is only      *)
(* written over a key the registrar has minted itself.                       *)
OwnerInv ==
    /\ marker => ck.by # "owner"
    /\ boot.pc = "delete" => marker
    /\ boot.pc = "mark" => ck.by = "registrar"
    /\ ck.by # "nobody" => ck.key # None

-----------------------------------------------------------------------------
(* One console request at a time.                                            *)
OneConsole == \A v, w \in Consoles : v = w

(* The console request in flight, if there is one, has the agent.env that    *)
(* is current until it writes it; model mints and rotations run while no row *)
(* is open.                                                                  *)
InFlight(w) ==
    /\ job[w].pc \notin {"idle", "insert"} => job[w].seen = env.vars
    /\ job[w].pc = "insert" => job[w].kind = "rotate"
    /\ job[w].pc # "idle" /\ job[w].kind = "model" => OpenRows = {}
    /\ job[w].pc \in {"mint", "write", "insert"} /\ job[w].kind = "rotate" => OpenRows = {}
    /\ job[w].pc = "write" /\ job[w].kind = "model" => job[w].key # None /\ model[0] = job[w].key
    /\ job[w].pc \in {"write", "insert"} /\ job[w].kind = "rotate" =>
         /\ job[w].alias # 0 /\ job[w].alias # CurrentModelAlias
         /\ job[w].key # None /\ model[job[w].alias] = job[w].key
    /\ job[w].pc = "insert" =>
         /\ env.vars.model = job[w].key
         /\ device.ver >= job[w].ver => device.model = job[w].key

(* An open row is the newest; the bundle carries its new key, and so does    *)
(* the device once it has applied the row's version.                         *)
Delivered(i) ==
    /\ i = Len(rows)
    /\ rows[i].new # rows[i].old
    /\ env.vars.model = model[rows[i].new]
    /\ device.ver >= rows[i].ver => device.model = env.vars.model
    /\ rows[i].status = "awaiting_revoke" => device.ver >= rows[i].ver

RotationInv ==
    /\ known <= device.ver /\ device.ver <= env.ver
    /\ env.vars.model = None => device.model = None
    /\ rows # <<>> => CurrentModelAlias # 0 /\ model[CurrentModelAlias] # None
    /\ \A i \in OpenRows : Delivered(i)
    /\ sweep # 0 => rows[sweep].status = "awaiting_revoke"
    /\ \A w \in Consoles : InFlight(w)
    /\ ModelKeyLive

-----------------------------------------------------------------------------
(* Types.                                                                    *)

(* Ten places of the code move a request; each to a request again.           *)
LEMMA GotoTyped ==
    ASSUME TypeInv, NEW w \in Requests, NEW x \in Jobs, Goto(w, x)
    PROVE  job' \in [Requests -> Jobs]
  BY DEF TypeInv, Goto

(* A request that is not idle has the fields of one.                         *)
LEMMA NotIdle ==
    ASSUME TypeInv, NEW w \in Requests, job[w].pc # "idle"
    PROVE  job[w] \in Running
  BY DEF TypeInv, Jobs, Idle

(* An owner's console request, or an enrolment, that reaches the mint keeps the
   types: it only fills the idle job of its handler. *)
LEMMA RequestTyped ==
    ASSUME TypeInv, NEW w \in Requests, NEW kind \in Kinds, Request(w, kind)
    PROVE  TypeInv'
<1>1. [pc |-> "env", kind |-> kind, seen |-> env.vars, key |-> None, private |-> None,
       alias |-> 0, ver |-> 0] \in Jobs
  BY GatewayAssumption DEF TypeInv, TypeOK, Jobs, Running, EnvVars, Key, Aliases, None
<1> QED
  BY <1>1, GotoTyped DEF Request, TypeInv, TypeOK, gateway, bundle, creator

(* The creator key's bootstrap, the two steps of a caller that waits for it,
   the owner's own delete and mint, and a crash keep the types. *)
LEMMA BootTyped ==
    ASSUME TypeInv,
           \/ Bootstrap \/ OwnerDeletes \/ OwnerMints \/ Crash
           \/ \E w \in Requests : CreatorKeyEnv(w) \/ Resolved(w)
    PROVE  TypeInv'
<1>0. None \in Key /\ (minted < MaxKey => minted + 1 \in Key)
  BY GatewayAssumption DEF Key, None, TypeInv, TypeOK
<1>1. Idle \in Jobs /\ NoBoot \in Boots
  BY <1>0 DEF Jobs, Boots, NoBoot
<1>2. ASSUME BootRejects PROVE boot' \in Boots /\ job' \in [Requests -> Jobs]
  BY <1>1, <1>2 DEF BootRejects, TypeInv
<1>3. ASSUME NEW lookup \in {None, ck.key}, BootProbe(lookup) PROVE TypeInv'
  <2>1. lookup \in Key
    BY <1>0 DEF TypeInv, TypeOK
  <2>2. boot' \in Boots /\ job' \in [Requests -> Jobs]
    BY <1>2, <1>3, <2>1 DEF BootProbe, Boots, TypeInv
  <2> QED
    BY <1>3, <2>2 DEF BootProbe, TypeInv, TypeOK, gateway, bundle
<1>4. ASSUME NEW works \in BOOLEAN, BootDelete(works) PROVE TypeInv'
  BY <1>0, <1>4 DEF BootDelete, TypeInv, TypeOK, bundle, Boots
<1>5. CASE BootMint
  BY <1>0, <1>5 DEF BootMint, TypeInv, TypeOK, bundle, Boots
<1>6. CASE BootMark
  BY <1>6 DEF BootMark, TypeInv, TypeOK, gateway, bundle, Boots
<1>7. CASE BootFails
  BY <1>2, <1>7 DEF BootFails, TypeInv, TypeOK, gateway, bundle
<1>8. CASE OwnerDeletes \/ OwnerMints
  BY <1>0, <1>8 DEF OwnerDeletes, OwnerMints, TypeInv, TypeOK, bundle, creator
<1>9. CASE Crash
  BY <1>1, <1>9 DEF Crash, TypeInv, TypeOK, gateway, bundle
<1>10. ASSUME NEW w \in Requests, CreatorKeyEnv(w) PROVE TypeInv'
  <2>1. job[w] \in Running
    BY <1>10, NotIdle DEF CreatorKeyEnv
  <2>2. [job[w] EXCEPT !.pc = "await"] \in Jobs
    BY <2>1 DEF Jobs, Running
  <2>3. job' \in [Requests -> Jobs] /\ boot' \in Boots
    BY <1>0, <1>10, <2>2, GotoTyped DEF CreatorKeyEnv, Boots, TypeInv
  <2> QED
    BY <1>10, <2>3 DEF CreatorKeyEnv, TypeInv, TypeOK, gateway, bundle
<1>11. ASSUME NEW w \in Requests, Resolved(w) PROVE TypeInv'
  <2>1. job[w] \in Running
    BY <1>11, NotIdle DEF Resolved
  <2>2. [job[w] EXCEPT !.pc = "go"] \in Jobs
    BY <2>1 DEF Jobs, Running
  <2>3. job' \in [Requests -> Jobs]
    BY <1>1, <1>11, <2>2, GotoTyped DEF Resolved
  <2> QED
    BY <1>11, <2>3 DEF Resolved, TypeInv, TypeOK, gateway, bundle, creator
<1> QED
  BY <1>3, <1>4, <1>5, <1>6, <1>7, <1>8, <1>9, <1>10, <1>11 DEF Bootstrap

(* freshModelAlias: where the guard lets it look, it finds a free alias      *)
(* beyond the rows.                                                          *)
LEMMA FreshAlias ==
    ASSUME TypeInv, NEW m \in Aliases, m > Len(rows), FindModelKeyToken(m) = None
    PROVE  /\ FreshModelAlias \in Aliases \ {0}
           /\ model[FreshModelAlias] = None
<1> DEFINE T == {n \in Aliases : n > Len(rows) /\ FindModelKeyToken(n) = None}
<1>1. Len(rows) \in Nat
  BY DEF TypeInv, TypeOK
<1>2. T \subseteq Nat /\ T # {}
  BY DEF Aliases
<1>3. PICK x \in T : \A y \in T : ~ (<<y, x>> \in OpToRel(<, Nat))
  BY <1>2, NatLessThanWellFounded, WFMin
<1>4. \A y \in T : ~ (y < x)
  BY <1>2, <1>3, Zenon DEF OpToRel
<1>5. ASSUME NEW k \in Len(rows) + 1 .. x - 1 PROVE FindModelKeyToken(k) # None
  <2>1. k \in Aliases /\ k > Len(rows) /\ k < x
    BY <1>1, GatewayAssumption DEF Aliases
  <2> QED
    BY <1>4, <2>1
<1>6. x \in Aliases \ {0} /\ x > Len(rows) /\ FindModelKeyToken(x) = None
  BY <1>1 DEF Aliases
<1> HIDE DEF T
<1>7. \E n \in Aliases \ {0} :
         /\ n > Len(rows) /\ FindModelKeyToken(n) = None
         /\ \A k \in Len(rows) + 1 .. n - 1 : FindModelKeyToken(k) # None
  BY <1>5, <1>6
<1>8. FreshModelAlias \in Aliases \ {0} /\ FindModelKeyToken(FreshModelAlias) = None
  BY <1>7, Zenon DEF FreshModelAlias
<1> QED
  BY <1>8 DEF FindModelKeyToken

(* A mint under a free alias is a key more and no key less.                  *)
LEMMA GenerateTyped ==
    ASSUME TypeInv, NEW w \in Requests, job[w] \in Running, NEW n \in Aliases,
           NEW next \in {"write"}, Generate(w, n, next)
    PROVE  /\ minted' \in Key /\ minted' # None
           /\ model' \in [Aliases -> Key] /\ model'[n] = minted' /\ model[n] = None
           /\ \A m \in Aliases \ {n} : model'[m] = model[m]
           /\ job' \in [Requests -> Jobs]
<1>1. minted + 1 \in Key /\ minted + 1 # None
  <2>1. minted \in Key /\ MaxKey \in Nat /\ minted < MaxKey
    BY GatewayAssumption DEF Generate, TypeInv, TypeOK
  <2> QED
    BY <2>1 DEF Key, None
<1>2. Idle \in Jobs /\ [job[w] EXCEPT !.pc = next, !.key = minted', !.alias = n] \in Jobs
  BY <1>1 DEF Generate, Jobs, Running
<1> QED
  BY <1>1, <1>2, GotoTyped DEF Generate, Quit, TypeInv, TypeOK

(* The columns of a row of credential_rotations.                             *)
LEMMA RowAt ==
    ASSUME TypeInv, NEW i \in 1..Len(rows)
    PROVE  /\ rows[i] \in RowSet
           /\ rows[i].old \in Aliases /\ rows[i].new \in Aliases /\ rows[i].ver \in Nat
           /\ rows[i].status \in {"delivering", "awaiting_revoke", "completed"}
<1>1. rows \in Seq(RowSet)
  BY DEF TypeInv, TypeOK, RowSet
<1>2. rows[i] \in RowSet
  BY <1>1
<1> QED
  BY <1>2 DEF RowSet

(* UPDATE credential_rotations SET status: one row's status changes.         *)
LEMMA RowsMarked ==
    ASSUME TypeInv, NEW i \in 1..Len(rows), NEW s \in {"awaiting_revoke", "completed"},
           rows' = [rows EXCEPT ![i].status = s]
    PROVE  /\ rows' \in Seq(RowSet) /\ Len(rows') = Len(rows)
           /\ \A j \in 1..Len(rows) : j # i => rows'[j] = rows[j]
           /\ rows'[i].old = rows[i].old /\ rows'[i].new = rows[i].new
           /\ rows'[i].ver = rows[i].ver /\ rows'[i].status = s
<1>1. rows \in Seq(RowSet)
  BY DEF TypeInv, TypeOK, RowSet
<1>2. PICK r : r = [rows[i] EXCEPT !.status = s]
  OBVIOUS
<1>3. /\ r \in RowSet /\ r.status = s
      /\ r.old = rows[i].old /\ r.new = rows[i].new /\ r.ver = rows[i].ver
  BY <1>2, RowAt DEF RowSet
<1>4. rows' = [rows EXCEPT ![i] = r]
  BY <1>1, <1>2
<1>5. /\ rows' \in Seq(RowSet) /\ Len(rows') = Len(rows) /\ rows'[i] = r
      /\ \A j \in 1..Len(rows) : j # i => rows'[j] = rows[j]
  BY <1>1, <1>3, <1>4
<1> QED
  BY <1>3, <1>5

(* A console request keeps the tables' types.                                *)
LEMMA ConsoleTyped ==
    ASSUME TypeInv, NEW w \in Requests, ConsoleStep(w)
    PROVE  TypeInv'
<1>0. None \in Key /\ (minted < MaxKey => minted + 1 \in Key) /\ Idle \in Jobs
  BY GatewayAssumption DEF Key, None, TypeInv, TypeOK, Jobs
<1>1. CASE CallFails(w)
  BY <1>0, <1>1, GotoTyped DEF CallFails, Quit, TypeInv, TypeOK, gateway, bundle, creator
<1>2. CASE MintShared(w)
  <2>1. job[w] \in Running
    BY <1>2, NotIdle DEF MintShared, At
  <2>2. minted' \in Key /\ [job[w] EXCEPT !.pc = "private", !.key = minted'] \in Jobs
    BY <1>0, <1>2, <2>1 DEF MintShared, Jobs, Running
  <2>3. job' \in [Requests -> Jobs]
    BY <1>0, <1>2, <2>2, GotoTyped DEF MintShared, Quit
  <2> QED
    BY <1>2, <2>2, <2>3 DEF MintShared, TypeInv, TypeOK, bundle, creator
<1>3. CASE MintPrivate(w)
  <2>1. job[w] \in Running /\ env.vars \in EnvVars
    BY <1>3, NotIdle DEF MintPrivate, At, TypeInv, TypeOK, EnvVars
  <2>2. /\ minted' \in Key
        /\ [job[w] EXCEPT !.pc = "write", !.seen = env.vars, !.private = minted'] \in Jobs
    BY <1>0, <1>3, <2>1 DEF MintPrivate, Jobs, Running
  <2>3. job' \in [Requests -> Jobs]
    BY <1>0, <1>3, <2>2, GotoTyped DEF MintPrivate, Quit
  <2> QED
    BY <1>3, <2>2, <2>3 DEF MintPrivate, TypeInv, TypeOK, bundle, creator
<1>4. CASE MergeMemoryKeys(w)
  <2>1. job[w] \in Running
    BY <1>4, NotIdle DEF MergeMemoryKeys, At
  <2>2. [job[w].seen EXCEPT !.shared = job[w].key, !.private = job[w].private] \in EnvVars
    BY <2>1 DEF Running, EnvVars
  <2>3. job' \in [Requests -> Jobs]
    BY <1>0, <1>4, GotoTyped DEF MergeMemoryKeys, Quit
  <2> QED
    BY <1>4, <2>2, <2>3 DEF MergeMemoryKeys, WriteEnv, EnvVars, TypeInv, TypeOK, gateway, creator
<1>5. CASE ProvisionModelKey(w)
  <2>1. job[w] \in Running
    BY <1>5, NotIdle DEF ProvisionModelKey, At
  <2>2. [job[w] EXCEPT !.pc = "mint"] \in Jobs
    BY <2>1 DEF Jobs, Running
  <2>3. job' \in [Requests -> Jobs]
    BY <1>0, <1>5, <2>2, GotoTyped DEF ProvisionModelKey, Quit
  <2> QED
    BY <1>5, <2>3 DEF ProvisionModelKey, TypeInv, TypeOK, gateway, bundle, creator
<1>6. CASE MintModelKey(w)
  <2>1. job[w] \in Running /\ 0 \in Aliases
    BY <1>6, NotIdle, GatewayAssumption DEF MintModelKey, At, Aliases
  <2>2. minted' \in Key /\ model' \in [Aliases -> Key] /\ job' \in [Requests -> Jobs]
    BY <1>6, <2>1, GenerateTyped DEF MintModelKey
  <2> QED
    BY <1>6, <2>2 DEF MintModelKey, TypeInv, TypeOK, bundle, creator
<1>7. CASE MergeModelKey(w)
  <2>1. job[w] \in Running
    BY <1>7, NotIdle DEF MergeModelKey, At
  <2>2. [job[w].seen EXCEPT !.model = job[w].key] \in EnvVars
    BY <2>1 DEF Running, EnvVars
  <2>3. job' \in [Requests -> Jobs]
    BY <1>0, <1>7, GotoTyped DEF MergeModelKey, Quit
  <2> QED
    BY <1>7, <2>2, <2>3 DEF MergeModelKey, WriteEnv, EnvVars, TypeInv, TypeOK, gateway, creator
<1>8. CASE LoadRotationTarget(w)
  <2>1. job[w] \in Running /\ env.vars \in EnvVars
    BY <1>8, NotIdle DEF LoadRotationTarget, At, TypeInv, TypeOK, EnvVars
  <2>2. [job[w] EXCEPT !.pc = "mint", !.seen = env.vars] \in Jobs
    BY <2>1 DEF Jobs, Running
  <2>3. job' \in [Requests -> Jobs]
    BY <1>0, <1>8, <2>2, GotoTyped DEF LoadRotationTarget, Quit
  <2> QED
    BY <1>8, <2>3 DEF LoadRotationTarget, TypeInv, TypeOK, gateway, bundle, creator
<1>9. CASE MintRotated(w)
  <2>1. job[w] \in Running
    BY <1>9, NotIdle DEF MintRotated, At
  <2>2. FreshModelAlias \in Aliases
    BY <1>9, FreshAlias DEF MintRotated
  <2>3. minted' \in Key /\ model' \in [Aliases -> Key] /\ job' \in [Requests -> Jobs]
    BY <1>9, <2>1, <2>2, GenerateTyped DEF MintRotated
  <2> QED
    BY <1>9, <2>3 DEF MintRotated, TypeInv, TypeOK, bundle, creator
<1>10. CASE MergeRotated(w)
  <2>1. job[w] \in Running /\ env.ver \in Nat
    BY <1>10, NotIdle DEF MergeRotated, At, TypeInv, TypeOK
  <2>2. /\ [job[w].seen EXCEPT !.model = job[w].key] \in EnvVars
        /\ [job[w] EXCEPT !.pc = "insert", !.ver = env.ver + 1] \in Jobs
    <3>1. env.ver + 1 \in Nat
      BY <2>1
    <3>2. [job[w].seen EXCEPT !.model = job[w].key] \in EnvVars
      BY <2>1 DEF Running, EnvVars
    <3>3. [job[w] EXCEPT !.pc = "insert", !.ver = env.ver + 1] \in Running
      BY <2>1, <3>1 DEF Running
    <3> QED
      BY <3>2, <3>3 DEF Jobs
  <2>3. job' \in [Requests -> Jobs]
    BY <1>10, <2>2, GotoTyped DEF MergeRotated
  <2> QED
    BY <1>10, <2>2, <2>3 DEF MergeRotated, WriteEnv, EnvVars, TypeInv, TypeOK, gateway, creator
<1>11. CASE InsertRow(w)
  <2>1. job[w] \in Running /\ rows \in Seq(RowSet) /\ 0 \in Aliases
    BY <1>11, NotIdle, GatewayAssumption DEF InsertRow, At, TypeInv, TypeOK, RowSet, Aliases
  <2>2. CurrentModelAlias \in Aliases
    BY <2>1, RowAt DEF CurrentModelAlias
  <2>3. rows' \in Seq(RowSet) /\ Len(rows') = Len(rows) + 1
    BY <1>11, <2>1, <2>2 DEF InsertRow, RowSet, Running
  <2>4. job' \in [Requests -> Jobs]
    BY <1>0, <1>11, GotoTyped DEF InsertRow, Quit
  <2> QED
    BY <1>11, <2>3, <2>4 DEF InsertRow, RowSet, TypeInv, TypeOK, gateway, bundle, creator
<1> QED
  BY <1>1, <1>2, <1>3, <1>4, <1>5, <1>6, <1>7, <1>8, <1>9, <1>10, <1>11 DEF ConsoleStep

(* The sweep, the device and the owner keep the tables' types.               *)
LEMMA SweepTyped ==
    ASSUME TypeInv,
           \/ RevokeModelAlias \/ DeviceApplies \/ DeviceReports \/ SweepComplete
           \/ \E i \in DOMAIN rows : SweepConfirm(i) \/ RevokeModelKey(i)
    PROVE  TypeInv'
<1>0. None \in Key /\ 0 \in Aliases /\ rows \in Seq(RowSet)
  BY GatewayAssumption DEF Key, None, Aliases, TypeInv, TypeOK, RowSet
<1>1. CASE RevokeModelAlias
  BY <1>0, <1>1 DEF RevokeModelAlias, TypeInv, TypeOK, bundle, creator
<1>2. CASE DeviceApplies
  BY <1>2 DEF DeviceApplies, TypeInv, TypeOK, gateway, creator
<1>3. CASE DeviceReports
  BY <1>3 DEF DeviceReports, TypeInv, TypeOK, gateway, creator
<1>4. CASE SweepComplete
  <2>1. sweep \in 1..Len(rows)
    BY <1>4 DEF SweepComplete, TypeInv, TypeOK
  <2>2. rows' \in Seq(RowSet) /\ Len(rows') = Len(rows)
    BY <1>4, <2>1, RowsMarked DEF SweepComplete
  <2> QED
    BY <1>4, <2>2 DEF SweepComplete, RowSet, TypeInv, TypeOK, gateway, bundle, creator
<1>5. ASSUME NEW i \in DOMAIN rows, SweepConfirm(i) PROVE TypeInv'
  <2>1. rows' \in Seq(RowSet) /\ Len(rows') = Len(rows)
    BY <1>0, <1>5, RowsMarked, DOMAIN rows = 1..Len(rows) DEF SweepConfirm
  <2> QED
    BY <1>5, <2>1 DEF SweepConfirm, RowSet, TypeInv, TypeOK, gateway, bundle, creator
<1>6. ASSUME NEW i \in DOMAIN rows, RevokeModelKey(i) PROVE TypeInv'
  <2>1. rows[i].old \in Aliases /\ i \in 1..Len(rows)
    BY <1>0, RowAt
  <2> QED
    BY <1>0, <1>6, <2>1 DEF RevokeModelKey, TypeInv, TypeOK, bundle, creator
<1> QED
  BY <1>1, <1>2, <1>3, <1>4, <1>5, <1>6

(* Every step of the specification keeps the types.                          *)
LEMMA NextTyped == TypeInv /\ [Next]_vars => TypeInv'
<1> SUFFICES ASSUME TypeInv, [Next]_vars PROVE TypeInv'
  OBVIOUS
<1>1. CASE UNCHANGED vars
  BY <1>1 DEF vars, gateway, bundle, creator, TypeInv, TypeOK
<1>2. CASE Next
  BY <1>2, BootTyped, ConsoleTyped, SweepTyped, RequestTyped
     DEF Next, Requests, Kinds, RotateModelKey
<1> QED
  BY <1>1, <1>2

(* The empty tables the registrar starts with.                               *)
LEMMA InitTyped == Init => TypeInv
<1> SUFFICES ASSUME Init PROVE TypeInv
  OBVIOUS
<1>1. None \in Key /\ 0 \in Nat /\ 1 \in Nat
  BY GatewayAssumption DEF Key, None
<1>2. model \in [Aliases -> Key] /\ minted \in Key
  BY <1>1 DEF Init, None
<1>3. /\ memory \in [shared: Key, private: Key]
      /\ ck \in [key: Key, by: {"nobody", "owner", "registrar"}]
      /\ device \in [ver: Nat, model: Key]
  BY <1>1 DEF Init
<1>6. env \in [vars: EnvVars, ver: Nat]
  <2>1. [model |-> None, shared |-> None, private |-> None] \in EnvVars
    BY <1>1 DEF EnvVars
  <2> QED
    BY <1>1, <2>1 DEF Init
<1>4. rows \in Seq(RowSet) /\ sweep \in 0..Len(rows) /\ known \in Nat /\ marker \in BOOLEAN
  <2>1. rows = <<>> /\ sweep = 0 /\ known = 0 /\ marker = FALSE
    BY DEF Init
  <2>2. rows \in Seq(RowSet)
    BY <2>1
  <2>3. Len(rows) = 0
    BY <2>1
  <2> QED
    <3>1. sweep \in 0..Len(rows)
      BY <2>1, <2>3
    <3>2. known \in Nat /\ marker \in BOOLEAN
      BY <2>1
    <3> QED
      BY <2>2, <3>1, <3>2
<1>5. job \in [Requests -> Jobs] /\ boot \in Boots
  BY <1>1 DEF Init, Jobs, Boots, NoBoot
<1> QED
  BY <1>2, <1>3, <1>4, <1>5, <1>6 DEF TypeInv, TypeOK, RowSet, EnvVars

(* No console request, sweep, bootstrap or crash leaves the credential       *)
(* tables in a shape the registrar's code does not expect.                   *)
THEOREM TypeCorrect == Spec => []TypeOK
<1>1. TypeInv => TypeOK
  BY DEF TypeInv
<1> QED
  BY <1>1, InitTyped, NextTyped, PTL DEF Spec

-----------------------------------------------------------------------------
(* The creator key.                                                          *)

(* The steps that touch the creator key, the marker or the bootstrap. All    *)
(* others leave the three alone.                                             *)
CreatorStep ==
    \/ Bootstrap \/ OwnerDeletes \/ OwnerMints \/ Crash
    \/ \E w \in Requests : CreatorKeyEnv(w)

(* Console requests, the sweep and the device touch none of the three.       *)
LEMMA OthersLeaveCreator ==
    ASSUME [Next]_vars, ~CreatorStep
    PROVE  UNCHANGED <<ck, marker, boot>>
<1>1. CASE UNCHANGED vars
  BY <1>1 DEF vars, gateway, creator
<1>2. ASSUME NEW w \in Consoles, ConsoleStep(w) PROVE UNCHANGED <<ck, marker, boot>>
  BY <1>2 DEF ConsoleStep, CallFails, MintShared, MintPrivate, MergeMemoryKeys,
     ProvisionModelKey, MintModelKey, MergeModelKey, LoadRotationTarget, MintRotated,
     MergeRotated, InsertRow, gateway, creator
<1>3. ASSUME NEW w, NEW kind, Request(w, kind) PROVE UNCHANGED <<ck, marker, boot>>
  BY <1>3 DEF Request, gateway, creator
<1>4. ASSUME NEW w, Resolved(w) PROVE UNCHANGED <<ck, marker, boot>>
  BY <1>4 DEF Resolved, gateway, creator
<1>5. CASE RevokeModelAlias \/ DeviceApplies \/ DeviceReports \/ SweepComplete
  BY <1>5 DEF RevokeModelAlias, DeviceApplies, DeviceReports, SweepComplete, gateway, creator
<1>6. ASSUME NEW i \in DOMAIN rows, SweepConfirm(i) \/ RevokeModelKey(i)
      PROVE UNCHANGED <<ck, marker, boot>>
  BY <1>6 DEF SweepConfirm, RevokeModelKey, gateway, creator
<1> QED
  BY <1>1, <1>2, <1>3, <1>4, <1>5, <1>6, Zenon DEF Next, CreatorStep, RotateModelKey

(* The bootstrap, the owner and the crash keep the marker honest; and of a   *)
(* key of the owner's nothing but his own deletion is seen.                  *)
LEMMA OwnerKept ==
    ASSUME TypeInv, OwnerInv, [Next]_vars
    PROVE  OwnerInv' /\ (ck.by = "owner" => ck' = ck \/ OwnerDeletes)
<1>0. minted < MaxKey => minted + 1 # None
  BY DEF TypeInv, TypeOK, Key, None
<1>1. CASE ~CreatorStep
  BY <1>1, OthersLeaveCreator DEF OwnerInv
<1>2. ASSUME NEW lookup \in {None, ck.key}, BootProbe(lookup)
      PROVE  OwnerInv' /\ ck' = ck
  BY <1>2 DEF BootProbe, BootRejects, NoBoot, OwnerInv, gateway
<1>3. ASSUME NEW works \in BOOLEAN, BootDelete(works)
      PROVE  OwnerInv' /\ ck.by # "owner"
  BY <1>3 DEF BootDelete, OwnerInv
<1>4. CASE BootMint
  BY <1>0, <1>4 DEF BootMint, OwnerInv
<1>5. CASE BootMark
  BY <1>5 DEF BootMark, OwnerInv, gateway, TypeInv, Boots
<1>6. CASE BootFails
  BY <1>6 DEF BootFails, BootRejects, NoBoot, OwnerInv, gateway
<1>7. CASE OwnerDeletes
  BY <1>7 DEF OwnerDeletes, OwnerInv, creator
<1>8. CASE OwnerMints
  BY <1>0, <1>8 DEF OwnerMints, OwnerInv, creator
<1>9. CASE Crash
  BY <1>9 DEF Crash, NoBoot, OwnerInv, gateway
<1>10. ASSUME NEW w \in Requests, CreatorKeyEnv(w) PROVE OwnerInv' /\ ck' = ck
  BY <1>10 DEF CreatorKeyEnv, OwnerInv, gateway
<1> QED
  BY <1>1, <1>2, <1>3, <1>4, <1>5, <1>6, <1>7, <1>8, <1>9, <1>10, Zenon
     DEF CreatorStep, Bootstrap

(* At the start there is no key-creator alias and no marker.                 *)
LEMMA InitOwner == Init => OwnerInv
  BY DEF Init, OwnerInv, NoBoot

(* The hand-minted creator key of an owner who never let the registrar       *)
(* bootstrap is deleted by himself alone: bootstrapCreatorKey deletes only   *)
(* what it finds behind its marker, and writes the marker only over its own  *)
(* key, through failed lookups, lost answers, crashes and restarts, for any  *)
(* number of callers.                                                        *)
THEOREM OwnerKeyIsHis == Spec => OwnerKeyKept
<1>1. TypeInv /\ OwnerInv /\ [Next]_vars
      => TypeInv' /\ OwnerInv' /\ [ck.by = "owner" => ck' = ck \/ OwnerDeletes]_vars
  BY NextTyped, OwnerKept
<1> QED
  BY <1>1, InitTyped, InitOwner, PTL DEF Spec, OwnerKeyKept

-----------------------------------------------------------------------------
(* The model key.                                                            *)

(* A step that moves nothing but requests, and leaves them as they should    *)
(* be. A sweep may be given up at any point.                                 *)
LEMMA RequestsMove ==
    ASSUME RotationInv, UNCHANGED <<env, device, known, rows, model>>,
           sweep' \in {0, sweep}, \A w \in Consoles : InFlight(w)'
    PROVE  RotationInv'
<1>1. \A i : Delivered(i)' = Delivered(i)
  BY DEF Delivered
<1>2. OpenRows' = OpenRows /\ CurrentModelAlias' = CurrentModelAlias /\ Live' = Live
  BY DEF OpenRows, CurrentModelAlias, Live
<1> QED
  BY <1>1, <1>2 DEF RotationInv, ModelKeyLive

(* A request that the step does not move, or that is over, is in order.      *)
LEMMA SameInFlight ==
    ASSUME RotationInv, UNCHANGED <<env, device, rows, model>>,
           NEW w \in Consoles, job'[w] = job[w] \/ job'[w] = Idle
    PROVE  InFlight(w)'
<1>1. InFlight(w)
  BY DEF RotationInv
<1>2. OpenRows' = OpenRows /\ CurrentModelAlias' = CurrentModelAlias
  BY DEF OpenRows, CurrentModelAlias
<1>3. CASE job'[w] = job[w]
  BY <1>1, <1>2, <1>3 DEF InFlight
<1>4. CASE job'[w] = Idle
  BY <1>4 DEF InFlight, Idle
<1> QED
  BY <1>3, <1>4

(* The request w of the one console moves; no other console has one.         *)
LEMMA OneMoves ==
    ASSUME TypeInv, OneConsole, NEW w \in Requests, NEW x \in Jobs, Goto(w, x)
    PROVE  /\ job'[w] = x
           /\ \A v \in Consoles : v = w \/ (w \notin Consoles /\ job'[v] = job[v])
<1>1. job' = [job EXCEPT ![w] = x] /\ job \in [Requests -> Jobs]
  BY DEF Goto, TypeInv
<1> QED
  BY <1>1 DEF OneConsole, Requests

(* A new request has read the agent.env of its arrival; a mint of the model  *)
(* key comes in while no rotation is open.                                   *)
LEMMA RequestInv ==
    ASSUME TypeInv, RotationInv, OneConsole, NEW w \in Requests, NEW kind \in Kinds,
           Request(w, kind), kind = "model" => OpenRows = {}
    PROVE  RotationInv'
<1> DEFINE x == [pc |-> "env", kind |-> kind, seen |-> env.vars, key |-> None,
                 private |-> None, alias |-> 0, ver |-> 0]
<1>1. x \in Jobs
  BY GatewayAssumption DEF TypeInv, TypeOK, Jobs, Running, EnvVars, Key, Aliases, None
<1>2. Goto(w, x) /\ UNCHANGED <<env, device, known, rows, model, sweep>>
  BY DEF Request, gateway, bundle
<1>3. /\ job'[w] = x
      /\ \A v \in Consoles : v = w \/ (w \notin Consoles /\ job'[v] = job[v])
  BY <1>1, <1>2, OneMoves
<1>4. OpenRows' = OpenRows
  BY <1>2 DEF OpenRows
<1>5. InFlight(w)'
  BY <1>2, <1>3, <1>4 DEF InFlight
<1>6. \A v \in Consoles : InFlight(v)'
  BY <1>2, <1>3, <1>5, SameInFlight
<1> QED
  BY <1>2, <1>6, RequestsMove

(* The wait for the creator key and its end.                                 *)
LEMMA AwaitInv ==
    ASSUME TypeInv, RotationInv, OneConsole, NEW w \in Requests,
           CreatorKeyEnv(w) \/ Resolved(w)
    PROVE  RotationInv'
<1>1. job[w] \in Running
  BY NotIdle DEF CreatorKeyEnv, Resolved
<1>2. UNCHANGED <<env, device, known, rows, model, sweep>>
  BY DEF CreatorKeyEnv, Resolved, gateway, bundle
<1>3. ASSUME NEW pc \in {"await", "go"}
      PROVE  LET x == [job[w] EXCEPT !.pc = pc]
             IN  /\ x \in Jobs /\ x.pc = pc /\ x.kind = job[w].kind
                 /\ x.seen = job[w].seen
  BY <1>1 DEF Running, Jobs
<1>4. PICK x \in Jobs :
        /\ Goto(w, x)
        /\ \/ x = Idle
           \/ x.pc \in {"await", "go"} /\ x.kind = job[w].kind /\ x.seen = job[w].seen
  <2>1. CASE CreatorKeyEnv(w)
    BY <1>3, <2>1 DEF CreatorKeyEnv
  <2>2. CASE Resolved(w)
    BY <1>3, <2>2 DEF Resolved, Jobs
  <2> QED
    BY <2>1, <2>2
<1>5. /\ job'[w] = x
      /\ \A v \in Consoles : v = w \/ (w \notin Consoles /\ job'[v] = job[v])
  BY <1>4, OneMoves
<1>6. OpenRows' = OpenRows
  BY <1>2 DEF OpenRows
<1>7. ASSUME w \in Consoles PROVE InFlight(w)'
  <2>1. InFlight(w) /\ job[w].pc \in {"env", "await"}
    BY <1>7 DEF RotationInv, CreatorKeyEnv, Resolved
  <2> QED
    BY <1>2, <1>4, <1>5, <1>6, <2>1 DEF InFlight, Idle
<1>8. \A v \in Consoles : InFlight(v)'
  BY <1>2, <1>5, <1>7, SameInFlight
<1> QED
  BY <1>2, <1>8, RequestsMove

(* The bootstrap, the owner's hand on the creator key and the crash send     *)
(* requests home or leave them where they are.                               *)
LEMMA BootInv ==
    ASSUME TypeInv, RotationInv, Bootstrap \/ OwnerDeletes \/ OwnerMints \/ Crash
    PROVE  RotationInv'
<1>1. UNCHANGED <<env, device, known, rows, model>> /\ sweep' \in {0, sweep}
  BY DEF Bootstrap, BootProbe, BootDelete, BootMint, BootMark, BootFails, OwnerDeletes,
     OwnerMints, Crash, gateway, bundle
<1>2. ASSUME NEW w \in Consoles PROVE job'[w] = job[w] \/ job'[w] = Idle
  <2>1. w \in Requests /\ job \in [Requests -> Jobs]
    BY DEF TypeInv, Requests
  <2>2. job' = job \/ BootRejects \/ job' = [v \in Requests |-> Idle]
    BY DEF Bootstrap, BootProbe, BootDelete, BootMint, BootMark, BootFails, OwnerDeletes,
       OwnerMints, Crash
  <2> QED
    BY <2>1, <2>2 DEF BootRejects
<1>3. \A w \in Consoles : InFlight(w)'
  BY <1>1, <1>2, SameInFlight
<1> QED
  BY <1>1, <1>3, RequestsMove

(* What the device applies is what the bundle carries; what it reports it    *)
(* has applied.                                                              *)
LEMMA DeviceInv ==
    ASSUME TypeInv, RotationInv, DeviceApplies \/ DeviceReports
    PROVE  RotationInv'
<1>1. UNCHANGED <<env, rows, model, sweep, job>>
  BY DEF DeviceApplies, DeviceReports, gateway
<1>2. OpenRows' = OpenRows /\ CurrentModelAlias' = CurrentModelAlias /\ Live' = Live
  BY <1>1 DEF OpenRows, CurrentModelAlias, Live
<1>3. /\ device'.ver \in Nat /\ device'.ver >= device.ver
      /\ device' = device \/ device'.model = env.vars.model
      /\ known' <= device'.ver /\ device'.ver <= env.ver
  BY DEF DeviceApplies, DeviceReports, RotationInv, TypeInv, TypeOK
<1>5. ASSUME NEW i \in OpenRows PROVE Delivered(i)'
  <2>0. i \in 1..Len(rows) /\ Delivered(i)
    BY DEF RotationInv, OpenRows, TypeInv, TypeOK
  <2>1. Delivered(i) /\ rows[i].ver \in Nat
    BY <2>0, RowAt
  <2> QED
    BY <1>1, <1>3, <2>1 DEF Delivered, TypeInv, TypeOK
<1>6. ASSUME NEW w \in Consoles PROVE InFlight(w)'
  <2>1. InFlight(w)
    BY DEF RotationInv
  <2> QED
    BY <1>1, <1>2, <1>3, <2>1 DEF InFlight
<1>7. ModelKeyLive' /\ (env.vars.model = None => device'.model = None)
  BY <1>1, <1>2, <1>3 DEF RotationInv, ModelKeyLive
<1> QED
  BY <1>1, <1>2, <1>3, <1>5, <1>6, <1>7 DEF RotationInv

(* An open row is the newest row, and while there is one no model key is     *)
(* minted and no rotation is under way.                                      *)
LEMMA WhileOpen ==
    ASSUME TypeInv, RotationInv, NEW i \in OpenRows
    PROVE  /\ i \in 1..Len(rows) /\ i = Len(rows)
           /\ CurrentModelAlias = rows[i].new
           /\ \A w \in Consoles :
                job[w].pc = "idle" \/
                (/\ job[w].pc # "insert"
                 /\ ~(job[w].pc = "write" /\ job[w].kind \in {"model", "rotate"}))
<1>1. i \in 1..Len(rows) /\ Delivered(i)
  BY DEF RotationInv, OpenRows, TypeInv, TypeOK
<1>2. CurrentModelAlias = rows[i].new
  BY <1>1 DEF CurrentModelAlias, Delivered
<1>3. ASSUME NEW w \in Consoles PROVE InFlight(w)
  BY DEF RotationInv
<1> QED
  BY <1>1, <1>2, <1>3 DEF Delivered, InFlight

(* The sweep's three steps: a confirmed row, its old key deleted, the row    *)
(* closed. What is deleted is neither what the bundle carries nor what the   *)
(* device has applied.                                                       *)
LEMMA SweepInv ==
    ASSUME TypeInv, RotationInv,
           SweepComplete \/ \E i \in DOMAIN rows : SweepConfirm(i) \/ RevokeModelKey(i)
    PROVE  RotationInv'
<1>0. DOMAIN rows = 1..Len(rows)
  BY DEF TypeInv, TypeOK
<1>1. ASSUME NEW i \in DOMAIN rows, SweepConfirm(i) PROVE RotationInv'
  <2>1. i \in OpenRows /\ i \in 1..Len(rows) /\ rows[i].status = "delivering"
    BY <1>0, <1>1 DEF SweepConfirm, OpenRows
  <2>2. /\ rows' \in Seq(RowSet) /\ Len(rows') = Len(rows)
        /\ \A j \in 1..Len(rows) : j # i => rows'[j] = rows[j]
        /\ rows'[i].old = rows[i].old /\ rows'[i].new = rows[i].new
        /\ rows'[i].ver = rows[i].ver /\ rows'[i].status = "awaiting_revoke"
    BY <1>1, <2>1, RowsMarked DEF SweepConfirm
  <2>3. UNCHANGED <<env, device, known, model, sweep, job>> /\ sweep = 0
    BY <1>1 DEF SweepConfirm, gateway, bundle
  <2>4. OpenRows' = OpenRows /\ CurrentModelAlias' = CurrentModelAlias
    <3>1. DOMAIN rows' = 1..Len(rows)
      BY <2>2
    <3>2. OpenRows' = OpenRows
      BY <1>0, <2>1, <2>2, <3>1 DEF OpenRows
    <3>3. rows # <<>> /\ rows' # <<>> /\ Len(rows) = i
      BY <2>1, <2>2, WhileOpen
    <3> QED
      BY <2>2, <3>2, <3>3 DEF CurrentModelAlias
  <2>5. device.ver >= rows[i].ver
    <3>1. known >= rows[i].ver /\ known <= device.ver
      BY <1>1 DEF SweepConfirm, TargetConfirmed, RotationInv
    <3>2. known \in Nat /\ device.ver \in Nat /\ rows[i].ver \in Nat
      BY <2>1, RowAt DEF TypeInv, TypeOK
    <3> QED
      BY <3>1, <3>2
  <2>6. ASSUME NEW j \in OpenRows PROVE Delivered(j)'
    <3>1. j = i /\ Delivered(i)
      BY <2>1, WhileOpen DEF RotationInv
    <3> QED
      BY <2>2, <2>3, <2>5, <3>1 DEF Delivered
  <2>7. ASSUME NEW w \in Consoles PROVE InFlight(w)'
    <3>1. InFlight(w)
      BY DEF RotationInv
    <3> QED
      BY <2>3, <2>4, <3>1 DEF InFlight
  <2>8. Live' = Live /\ rows # <<>>
    BY <2>1, <2>3 DEF Live
  <2> QED
    BY <2>3, <2>4, <2>6, <2>7, <2>8 DEF RotationInv, ModelKeyLive
<1>2. ASSUME NEW i \in DOMAIN rows, RevokeModelKey(i) PROVE RotationInv'
  <2>1. i \in OpenRows /\ i \in 1..Len(rows) /\ rows[i].status = "awaiting_revoke"
    BY <1>0, <1>2 DEF RevokeModelKey, OpenRows
  <2>2. /\ UNCHANGED <<env, device, known, rows, job>> /\ sweep' = i
        /\ model' = [model EXCEPT ![rows[i].old] = None]
    BY <1>2 DEF RevokeModelKey, bundle
  <2>3. OpenRows' = OpenRows /\ CurrentModelAlias' = CurrentModelAlias
    BY <2>2 DEF OpenRows, CurrentModelAlias
  <2>4. Delivered(i) /\ i = Len(rows) /\ CurrentModelAlias = rows[i].new /\ rows # <<>>
    BY <2>1, WhileOpen DEF RotationInv
  <2>5. /\ rows[i].new \in Aliases /\ model \in [Aliases -> Key]
        /\ rows[i].new # rows[i].old /\ model[rows[i].new] # None
    BY <2>1, <2>4, RowAt DEF Delivered, RotationInv, TypeInv, TypeOK
  <2>6. model'[rows[i].new] = model[rows[i].new]
    BY <2>2, <2>5
  <2>7. env.vars.model = model'[rows[i].new] /\ device.model = env.vars.model
    BY <2>1, <2>4, <2>6 DEF Delivered
  <2>8. ASSUME NEW j \in OpenRows PROVE Delivered(j)'
    <3>1. j = i
      BY <2>4, WhileOpen
    <3> QED
      BY <2>2, <2>4, <2>6, <3>1 DEF Delivered
  <2>9. ASSUME NEW w \in Consoles PROVE InFlight(w)'
    <3>1. InFlight(w) /\ OpenRows # {}
      BY <2>1 DEF RotationInv
    <3> QED
      BY <2>2, <2>3, <3>1 DEF InFlight
  <2>10. ModelKeyLive'
    BY <2>2, <2>5, <2>6, <2>7 DEF ModelKeyLive, Live
  <2>11. CurrentModelAlias # 0 /\ model'[CurrentModelAlias] # None
    BY <2>4, <2>5, <2>6 DEF RotationInv
  <2> QED
    BY <2>1, <2>2, <2>3, <2>8, <2>9, <2>10, <2>11 DEF RotationInv
<1>3. CASE SweepComplete
  <2>1. /\ sweep \in 1..Len(rows) /\ rows[sweep].status = "awaiting_revoke"
        /\ sweep \in OpenRows
    BY <1>0, <1>3 DEF SweepComplete, RotationInv, OpenRows, TypeInv, TypeOK
  <2>2. PICK s : s = sweep
    OBVIOUS
  <2>3. /\ rows' \in Seq(RowSet) /\ Len(rows') = Len(rows)
        /\ \A j \in 1..Len(rows) : j # s => rows'[j] = rows[j]
        /\ rows'[s].new = rows[s].new /\ rows'[s].status = "completed"
    BY <1>3, <2>1, <2>2, RowsMarked DEF SweepComplete
  <2>4. UNCHANGED <<env, device, known, model, job>> /\ sweep' = 0
    BY <1>3 DEF SweepComplete, gateway, bundle
  <2>5. s = Len(rows) /\ rows # <<>> /\ rows' # <<>> /\ CurrentModelAlias = rows[s].new
    BY <2>1, <2>2, <2>3, WhileOpen
  <2>6. OpenRows' = {} /\ CurrentModelAlias' = CurrentModelAlias
    <3>1. DOMAIN rows' = 1..Len(rows)
      BY <2>3
    <3>2. ASSUME NEW j \in OpenRows PROVE j = s
      BY <2>5, WhileOpen
    <3>3. OpenRows' = {}
      BY <1>0, <2>3, <3>1, <3>2 DEF OpenRows
    <3> QED
      BY <2>3, <2>5, <3>3 DEF CurrentModelAlias
  <2>7. ASSUME NEW w \in Consoles PROVE InFlight(w)'
    <3>1. InFlight(w)
      BY DEF RotationInv
    <3> QED
      BY <2>4, <2>6, <3>1 DEF InFlight
  <2>8. Live' = Live
    BY <2>4 DEF Live
  <2> QED
    BY <2>4, <2>5, <2>6, <2>7, <2>8 DEF RotationInv, ModelKeyLive
<1> QED
  BY <1>1, <1>2, <1>3

(* The recovery step of the refusal: the alias is revoked while no bundle    *)
(* has carried its key.                                                      *)
LEMMA RevokeAliasInv ==
    ASSUME TypeInv, RotationInv, RevokeModelAlias
    PROVE  RotationInv'
<1>1. /\ UNCHANGED <<env, device, known, rows, sweep, job>>
      /\ model' = [model EXCEPT ![0] = None] /\ env.vars.model = None
      /\ \A w \in Consoles : job[w].pc = "idle"
  BY DEF RevokeModelAlias, bundle
<1>2. OpenRows' = OpenRows /\ CurrentModelAlias' = CurrentModelAlias
  BY <1>1 DEF OpenRows, CurrentModelAlias
<1>3. OpenRows = {}
  <2> SUFFICES ASSUME NEW i \in OpenRows PROVE FALSE
    OBVIOUS
  <2>1. i \in 1..Len(rows) /\ CurrentModelAlias = rows[i].new /\ Delivered(i)
    BY WhileOpen DEF RotationInv
  <2>2. rows # <<>>
    BY <2>1
  <2> QED
    BY <1>1, <2>1, <2>2 DEF Delivered, RotationInv
<1>4. rows # <<>> => model'[CurrentModelAlias] # None
  <2> SUFFICES ASSUME rows # <<>> PROVE model'[CurrentModelAlias] # None
    OBVIOUS
  <2>1. CurrentModelAlias # 0 /\ model[CurrentModelAlias] # None
    BY DEF RotationInv
  <2>2. model \in [Aliases -> Key] /\ Len(rows) \in 1..Len(rows)
    BY DEF TypeInv, TypeOK
  <2>3. CurrentModelAlias \in Aliases
    BY <2>2, RowAt DEF CurrentModelAlias
  <2> QED
    BY <1>1, <2>1, <2>2, <2>3
<1>5. \A w \in Consoles : InFlight(w)'
  BY <1>1 DEF InFlight
<1>6. ModelKeyLive'
  BY <1>1 DEF ModelKeyLive, RotationInv
<1> QED
  BY <1>1, <1>2, <1>3, <1>4, <1>5, <1>6 DEF RotationInv

(* A console step that leaves the bundle, the rows and the model keys alone. *)
LEMMA PrepareInv ==
    ASSUME TypeInv, RotationInv, OneConsole, NEW w \in Consoles,
           \/ CallFails(w) \/ MintShared(w) \/ MintPrivate(w)
           \/ ProvisionModelKey(w) \/ LoadRotationTarget(w)
    PROVE  RotationInv'
<1>1. w \in Requests /\ job[w] \in Running /\ InFlight(w)
  BY NotIdle DEF RotationInv, Requests, CallFails, MintShared, MintPrivate,
     ProvisionModelKey, LoadRotationTarget, At
<1>2. UNCHANGED <<env, device, known, rows, model, sweep>>
  BY DEF CallFails, MintShared, MintPrivate, ProvisionModelKey, LoadRotationTarget,
     gateway, bundle
<1>3. OpenRows' = OpenRows
  BY <1>2 DEF OpenRows
<1>4. env.vars \in EnvVars /\ Idle \in Jobs
  BY DEF TypeInv, TypeOK, EnvVars, Jobs
<1>5. PICK x \in Jobs :
        /\ Goto(w, x)
        /\ \/ x = Idle
           \/ /\ x.pc \in {"private", "mint", "write"} /\ x.kind = job[w].kind
              /\ x.seen = env.vars
              /\ x.pc = "write" => x.kind = "memory"
              /\ x.pc = "mint" /\ x.kind = "rotate" => OpenRows = {}
  <2>1. CASE CallFails(w)
    BY <1>4, <2>1 DEF CallFails, Quit
  <2>2. CASE MintShared(w)
    <3>1. minted' \in Key
      <4>1. minted \in Key /\ MaxKey \in Nat /\ minted < MaxKey /\ minted' = minted + 1
        BY <2>2, GatewayAssumption DEF MintShared, TypeInv, TypeOK
      <4> QED
        BY <4>1 DEF Key
    <3>2. LET x == [job[w] EXCEPT !.pc = "private", !.key = minted']
          IN  x \in Jobs /\ x.pc = "private" /\ x.kind = job[w].kind /\ x.seen = env.vars
      BY <1>1, <2>2, <3>1 DEF Running, Jobs, InFlight, MintShared, At
    <3> QED
      BY <1>4, <2>2, <3>2 DEF MintShared, Quit
  <2>3. CASE MintPrivate(w)
    <3>1. minted' \in Key
      <4>1. minted \in Key /\ MaxKey \in Nat /\ minted < MaxKey /\ minted' = minted + 1
        BY <2>3, GatewayAssumption DEF MintPrivate, TypeInv, TypeOK
      <4> QED
        BY <4>1 DEF Key
    <3>2. LET x == [job[w] EXCEPT !.pc = "write", !.seen = env.vars, !.private = minted']
          IN  x \in Jobs /\ x.pc = "write" /\ x.kind = "memory" /\ x.seen = env.vars
      BY <1>1, <1>4, <2>3, <3>1 DEF Running, Jobs, MintPrivate, At
    <3> QED
      BY <1>4, <2>3, <3>2 DEF MintPrivate, Quit, At
  <2>4. CASE ProvisionModelKey(w)
    <3>1. LET x == [job[w] EXCEPT !.pc = "mint"]
          IN  x \in Jobs /\ x.pc = "mint" /\ x.kind = "model" /\ x.seen = env.vars
      BY <1>1, <2>4 DEF Running, Jobs, InFlight, ProvisionModelKey, At
    <3> QED
      BY <1>4, <2>4, <3>1 DEF ProvisionModelKey, Quit, At
  <2>5. CASE LoadRotationTarget(w)
    <3>1. LET x == [job[w] EXCEPT !.pc = "mint", !.seen = env.vars]
          IN  x \in Jobs /\ x.pc = "mint" /\ x.kind = "rotate" /\ x.seen = env.vars
      BY <1>1, <1>4, <2>5 DEF Running, Jobs, LoadRotationTarget, At
    <3> QED
      BY <1>4, <2>5, <3>1 DEF LoadRotationTarget, Quit, At
  <2> QED
    BY <2>1, <2>2, <2>3, <2>4, <2>5
<1>6. job'[w] = x /\ \A v \in Consoles : v = w
  BY <1>1, <1>5, OneMoves
<1>7. InFlight(w)'
  <2>1. job[w].pc # "idle"
    BY <1>1 DEF Running
  <2> QED
    BY <1>1, <1>2, <1>3, <1>5, <1>6, <2>1 DEF InFlight, Idle
<1> QED
  BY <1>2, <1>6, <1>7, RequestsMove

(* A mint under a free alias, base or versioned, hides no key in use.        *)
LEMMA MintInv ==
    ASSUME TypeInv, RotationInv, OneConsole, NEW w \in Consoles,
           MintModelKey(w) \/ MintRotated(w)
    PROVE  RotationInv'
<1>1. w \in Requests /\ job[w] \in Running /\ InFlight(w) /\ job[w].pc = "mint"
  BY NotIdle DEF RotationInv, Requests, MintModelKey, MintRotated, At
<1>2. PICK n \in Aliases :
        /\ Generate(w, n, "write")
        /\ \/ n = 0 /\ job[w].kind = "model"
           \/ n # 0 /\ job[w].kind = "rotate"
  <2>1. CASE MintModelKey(w)
    BY <2>1, GatewayAssumption DEF MintModelKey, Aliases, At
  <2>2. CASE MintRotated(w)
    BY <2>2, FreshAlias DEF MintRotated, At
  <2> QED
    BY <2>1, <2>2
<1>3. /\ minted' \in Key /\ minted' # None
      /\ model' \in [Aliases -> Key] /\ model'[n] = minted' /\ model[n] = None
      /\ \A m \in Aliases \ {n} : model'[m] = model[m]
  BY <1>1, <1>2, GenerateTyped
<1>4. UNCHANGED <<env, device, known, rows, sweep>>
  BY DEF MintModelKey, MintRotated, bundle
<1>5. OpenRows' = OpenRows /\ CurrentModelAlias' = CurrentModelAlias /\ OpenRows = {}
  BY <1>1, <1>2, <1>4 DEF OpenRows, CurrentModelAlias, InFlight
<1>6. \A m \in Aliases : model[m] # None => model'[m] = model[m]
  BY <1>3
<1>7. ModelKeyLive'
  <2>1. Live \subseteq Live'
    BY <1>6 DEF Live
  <2> QED
    BY <1>4, <2>1 DEF ModelKeyLive, RotationInv
<1>8. ASSUME rows # <<>>
      PROVE  /\ CurrentModelAlias # 0 /\ model[CurrentModelAlias] # None
             /\ CurrentModelAlias \in Aliases
  <2>1. Len(rows) \in 1..Len(rows)
    BY <1>8 DEF TypeInv, TypeOK
  <2> QED
    BY <1>8, <2>1, RowAt DEF RotationInv, CurrentModelAlias
<1>9. n = CurrentModelAlias => n = 0
  BY <1>3, <1>8 DEF CurrentModelAlias
<1>10. InFlight(w)'
  <2> DEFINE x == [job[w] EXCEPT !.pc = "write", !.key = minted', !.alias = n]
  <2>1. /\ x \in Jobs /\ x.pc = "write" /\ x.kind = job[w].kind /\ x.seen = job[w].seen
        /\ x.key = minted' /\ x.alias = n
    BY <1>1, <1>3 DEF Jobs, Running
  <2>2. Goto(w, x) \/ Goto(w, Idle)
    BY <1>2 DEF Generate, Quit
  <2> HIDE DEF x
  <2>3. job'[w] = x \/ job'[w] = Idle
    BY <1>1, <2>1, <2>2, OneMoves DEF Jobs
  <2>4. CASE job'[w] = Idle
    BY <2>4 DEF InFlight, Idle
  <2>5. CASE job'[w] = x
    BY <1>1, <1>2, <1>3, <1>4, <1>5, <1>9, <2>1, <2>5 DEF InFlight
  <2> QED
    BY <2>3, <2>4, <2>5
<1>11. \A v \in Consoles : v = w
  BY DEF OneConsole
<1> QED
  BY <1>4, <1>5, <1>6, <1>7, <1>8, <1>10, <1>11 DEF RotationInv

(* The merges: the memory lines leave the model key as it is, a provisioned  *)
(* key is the base alias's, a rotated key the new alias's, and the device    *)
(* has yet to apply that version.                                            *)
LEMMA MergeInv ==
    ASSUME TypeInv, RotationInv, OneConsole, NEW w \in Consoles,
           MergeMemoryKeys(w) \/ MergeModelKey(w) \/ MergeRotated(w)
    PROVE  RotationInv'
<1>1. w \in Requests /\ job[w] \in Running /\ InFlight(w) /\ job[w].pc = "write"
  BY NotIdle DEF RotationInv, Requests, MergeMemoryKeys, MergeModelKey, MergeRotated, At
<1>2. UNCHANGED <<device, known, rows, model, sweep>>
  BY DEF MergeMemoryKeys, MergeModelKey, MergeRotated, gateway
<1>3. OpenRows' = OpenRows /\ CurrentModelAlias' = CurrentModelAlias /\ Live' = Live
  BY <1>2 DEF OpenRows, CurrentModelAlias, Live
<1>4. env.ver \in Nat /\ device.ver \in Nat /\ device.ver <= env.ver /\ job[w].seen = env.vars
      /\ job[w].seen \in EnvVars
  BY <1>1 DEF TypeInv, TypeOK, RotationInv, InFlight, Running
<1>5. \A v \in Consoles : v = w
  BY DEF OneConsole
<1>6. CASE MergeMemoryKeys(w)
  <2>1. env'.vars.model = env.vars.model /\ env'.ver = env.ver + 1
    BY <1>4, <1>6 DEF MergeMemoryKeys, WriteEnv, EnvVars
  <2>2. job'[w] = Idle
    BY <1>1, <1>6, OneMoves DEF MergeMemoryKeys, Quit, Jobs
  <2>3. InFlight(w)'
    BY <2>2 DEF InFlight, Idle
  <2>4. ASSUME NEW i \in OpenRows PROVE Delivered(i)'
    <3>1. Delivered(i)
      BY DEF RotationInv
    <3> QED
      BY <1>2, <2>1, <3>1 DEF Delivered
  <2>5. device.ver <= env'.ver
    BY <1>4, <2>1
  <2> QED
    BY <1>2, <1>3, <1>5, <2>1, <2>3, <2>4, <2>5 DEF RotationInv, ModelKeyLive
<1>7. CASE MergeModelKey(w)
  <2>1. env'.vars.model = job[w].key /\ env'.ver = env.ver + 1
    BY <1>4, <1>7 DEF MergeModelKey, WriteEnv, EnvVars
  <2>2. job'[w] = Idle
    BY <1>1, <1>7, OneMoves DEF MergeModelKey, Quit, Jobs
  <2>3. InFlight(w)'
    BY <2>2 DEF InFlight, Idle
  <2>4. OpenRows = {} /\ job[w].key # None /\ model[0] = job[w].key
    BY <1>1, <1>7 DEF InFlight, MergeModelKey, At
  <2>5. device.ver <= env'.ver
    BY <1>4, <2>1
  <2>6. job[w].key \in Live
    BY <2>4, GatewayAssumption DEF Live, Aliases
  <2> QED
    BY <1>2, <1>3, <1>5, <2>1, <2>3, <2>4, <2>5, <2>6 DEF RotationInv, ModelKeyLive
<1>8. CASE MergeRotated(w)
  <2>1. env'.vars.model = job[w].key /\ env'.ver = env.ver + 1
    BY <1>4, <1>8 DEF MergeRotated, WriteEnv, EnvVars
  <2> DEFINE x == [job[w] EXCEPT !.pc = "insert", !.ver = env.ver + 1]
  <2>2. /\ x \in Running /\ x.pc = "insert" /\ x.kind = job[w].kind /\ x.key = job[w].key
        /\ x.alias = job[w].alias /\ x.ver = env.ver + 1
    <3>1. env.ver + 1 \in Nat
      BY <1>4
    <3> QED
      BY <1>1, <3>1 DEF Running
  <2>3. Goto(w, x)
    BY <1>8 DEF MergeRotated
  <2> HIDE DEF x
  <2>4. job'[w] = x
    BY <1>1, <2>2, <2>3, OneMoves DEF Jobs
  <2>5. job[w].kind = "rotate" /\ OpenRows = {} /\ job[w].key # None
        /\ job[w].alias # 0 /\ job[w].alias # CurrentModelAlias
        /\ model[job[w].alias] = job[w].key
    BY <1>1, <1>8 DEF InFlight, MergeRotated, At
  <2>6. ~(device.ver >= env.ver + 1) /\ device.ver <= env'.ver
    BY <1>4, <2>1
  <2>7. InFlight(w)'
    BY <1>2, <1>3, <2>1, <2>2, <2>4, <2>5, <2>6 DEF InFlight
  <2>8. job[w].key \in Live
    BY <1>1, <2>5 DEF Live, Running
  <2> QED
    BY <1>2, <1>3, <1>5, <2>1, <2>5, <2>6, <2>7, <2>8 DEF RotationInv, ModelKeyLive
<1> QED
  BY <1>6, <1>7, <1>8

(* The row, written last: it opens with its key already in the bundle.       *)
LEMMA InsertInv ==
    ASSUME TypeInv, RotationInv, OneConsole, NEW w \in Consoles, InsertRow(w)
    PROVE  RotationInv'
<1>1. w \in Requests /\ job[w] \in Running /\ InFlight(w) /\ job[w].pc = "insert"
  BY NotIdle DEF RotationInv, Requests, InsertRow, At
<1>2. UNCHANGED <<env, device, known, model, sweep>>
  BY DEF InsertRow, gateway, bundle
<1>3. /\ OpenRows = {} /\ job[w].key # None
      /\ job[w].alias # 0 /\ job[w].alias # CurrentModelAlias
      /\ model[job[w].alias] = job[w].key
      /\ env.vars.model = job[w].key
      /\ device.ver >= job[w].ver => device.model = job[w].key
  BY <1>1 DEF InFlight
<1>4. rows \in Seq(RowSet) /\ 0 \in Aliases
  BY GatewayAssumption DEF TypeInv, TypeOK, RowSet, Aliases
<1>5. CurrentModelAlias \in Aliases
  BY <1>4, RowAt DEF CurrentModelAlias
<1>6. PICK r : r = [old |-> CurrentModelAlias, new |-> job[w].alias, ver |-> job[w].ver,
                    status |-> "delivering"]
  OBVIOUS
<1>7. /\ r \in RowSet /\ r.old = CurrentModelAlias /\ r.new = job[w].alias
      /\ r.ver = job[w].ver /\ r.status = "delivering"
  BY <1>1, <1>5, <1>6 DEF RowSet, Running
<1>8. rows' = Append(rows, r)
  BY <1>6 DEF InsertRow
<1>9. PICK k : k = Len(rows) + 1
  OBVIOUS
<1>10. /\ rows' \in Seq(RowSet) /\ Len(rows') = k /\ rows'[k] = r
       /\ k \in Nat /\ k > 0
       /\ \A i \in 1..Len(rows) : rows'[i] = rows[i]
  BY <1>4, <1>7, <1>8, <1>9
<1>11. OpenRows' \subseteq {k}
  <2> SUFFICES ASSUME NEW i \in OpenRows', i # k PROVE FALSE
    OBVIOUS
  <2>1. i \in 1..k /\ rows'[i].status # "completed"
    BY <1>10 DEF OpenRows
  <2>2. i \in 1..Len(rows)
    BY <1>4, <1>9, <2>1
  <2>3. i \in OpenRows
    BY <1>4, <1>10, <2>1, <2>2 DEF OpenRows
  <2> QED
    BY <1>3, <2>3
<1>12. CurrentModelAlias' = job[w].alias /\ rows' # <<>>
  BY <1>7, <1>10 DEF CurrentModelAlias
<1>13. Delivered(k)'
  BY <1>2, <1>3, <1>7, <1>10 DEF Delivered
<1>14. job'[w] = Idle /\ \A v \in Consoles : v = w
  BY <1>1, OneMoves DEF InsertRow, Quit, Jobs, OneConsole
<1>15. \A v \in Consoles : InFlight(v)'
  BY <1>14 DEF InFlight, Idle
<1>16. sweep # 0 => sweep \in OpenRows
  BY <1>4 DEF RotationInv, OpenRows, TypeInv, TypeOK
<1>17. sweep' = 0 /\ Live' = Live
  BY <1>2, <1>3, <1>16 DEF Live
<1> QED
  BY <1>2, <1>3, <1>11, <1>12, <1>13, <1>15, <1>17 DEF RotationInv, ModelKeyLive

(* Every step keeps the key the bundle carries and the key the device runs   *)
(* with alive, one console request at a time.                                *)
LEMMA NextRotation ==
    ASSUME OneConsole, ~MintInRotation, TypeInv, RotationInv, [Next]_vars
    PROVE  RotationInv'
<1>1. CASE UNCHANGED vars
  <2>1. UNCHANGED <<env, device, known, rows, model, sweep, job>>
    BY <1>1 DEF vars, gateway, bundle
  <2>2. \A w \in Consoles : InFlight(w)'
    BY <2>1, SameInFlight
  <2> QED
    BY <2>1, <2>2, RequestsMove
<1>2. ASSUME NEW w \in Consoles, ConsoleStep(w) PROVE RotationInv'
  BY <1>2, PrepareInv, MintInv, MergeInv, InsertInv DEF ConsoleStep
<1>3. ASSUME NEW w \in Enrollers, Request(w, "enroll") PROVE RotationInv'
  BY <1>3, RequestInv DEF Requests, Kinds
<1>4. ASSUME NEW w \in Consoles,
             \/ Request(w, "memory") \/ RotateModelKey(w)
             \/ Request(w, "model") /\ (MintInRotation \/ OpenRows = {})
      PROVE  RotationInv'
  BY <1>4, RequestInv DEF Requests, Kinds, RotateModelKey
<1> QED
  BY <1>1, <1>2, <1>3, <1>4, AwaitInv, BootInv, DeviceInv, SweepInv, RevokeAliasInv DEF Next

(* At the start there is neither a key nor a row.                            *)
LEMMA InitRotation == Init => RotationInv
<1> SUFFICES ASSUME Init PROVE RotationInv
  OBVIOUS
<1>1. OpenRows = {} /\ rows = <<>> /\ sweep = 0
  BY DEF Init, OpenRows
<1>2. \A w \in Consoles : InFlight(w)
  BY DEF Init, InFlight, Idle, Requests
<1>3. ModelKeyLive /\ known <= device.ver /\ device.ver <= env.ver /\ device.model = None
  BY DEF Init, ModelKeyLive
<1> QED
  BY <1>1, <1>2, <1>3 DEF RotationInv

(* Deliver, then revoke, for any number of keys, aliases, rotations and      *)
(* machine enrolments: where the console serves one request at a time and no *)
(* model key is provisioned inside a rotation, the model key a device has    *)
(* applied and the one its bundle carries are live at the gateway, through   *)
(* lost answers, a sweep beside the request, and crashes between the mint,   *)
(* the merge, the row and the revocation.                                    *)
THEOREM ModelKeyStaysLive ==
    ASSUME OneConsole, ~MintInRotation
    PROVE  Spec => []ModelKeyLive
<1>1. TypeInv /\ RotationInv /\ [Next]_vars => TypeInv' /\ RotationInv'
  BY NextTyped, NextRotation
<1>2. RotationInv => ModelKeyLive
  BY DEF RotationInv
<1> QED
  BY <1>1, <1>2, InitTyped, InitRotation, PTL DEF Spec

=============================================================================
