-------------------------- MODULE AdminAccessProofs --------------------------
(***************************************************************************)
(* Proofs about AdminAccess, for any number of requests served at the same  *)
(* time, any addresses, any window, lock threshold and session lifetime,    *)
(* and any bounds on the keys and sessions ever made.                       *)
(***************************************************************************)
EXTENDS AdminAccess, FiniteSetTheorems, TLAPS

Entry == [failures : 0..MaxFailures-1, age : 0..Window+1, lock : Unlocked..Window]

(* The limiter's entries and the sessions, as the records they are.          *)
ClockInv == /\ \A ip \in DOMAIN entries : entries[ip] \in Entry
            /\ opened \in 0..MaxSessions
            /\ DOMAIN sessions \subseteq 1..opened
            /\ \A s \in DOMAIN sessions : sessions[s] \in 0..SessionTtl

(* A table only has rows that were minted, counted from one.                 *)
KeysInv == /\ minted \in [ak : Nat, mk : Nat] /\ minted.ak + minted.mk <= MaxKeys
           /\ \A k \in adminKeys : k \in 1..minted.ak
           /\ \A k \in meshEnrollKeys : k \in 1..minted.mk
           /\ deviceKey \in 0..MaxDeviceKeys

(* A key that was not in its table when a request came with it is not there  *)
(* now: minting makes new keys only, and this one is among the old.          *)
SelectInv == \A r \in Requests : reqs[r].pc = "select" =>
                /\ reqs[r].route \in KeyRoutes
                /\ reqs[r].key \in Known(reqs[r].route)
                /\ reqs[r].dead => reqs[r].key \notin Rows(reqs[r].route)

(* A setup counts as its own the keys from the one after its second count.   *)
InsertInv == \A r \in Requests : reqs[r].pc = "insert" =>
                /\ reqs[r].from \in 1..minted.ak+1
                /\ \A k \in adminKeys : k >= reqs[r].from

IInv == /\ DOMAIN reqs = Requests
        /\ KeysInv /\ SelectInv /\ InsertInv /\ DeadStaysDead
-------------------------------------------------------------------------------
(* A row that is added is one more than every key there has been.            *)
LEMMA MintAdminKeeps ==
    ASSUME KeysInv, MintAdminKey, MaxKeys \in Nat
    PROVE  KeysInv' /\ minted'.ak = minted.ak + 1 /\ minted'.mk = minted.mk
           /\ adminKeys' = adminKeys \cup {minted.ak + 1}
           /\ meshEnrollKeys' = meshEnrollKeys /\ deviceKey' = deviceKey
<1>1. minted'.ak = minted.ak + 1 /\ minted'.mk = minted.mk /\ minted' \in [ak : Nat, mk : Nat]
  BY DEF KeysInv, MintAdminKey, Mint
<1>2. /\ adminKeys' = adminKeys \cup {minted.ak + 1}
      /\ meshEnrollKeys' = meshEnrollKeys /\ deviceKey' = deviceKey
      /\ minted.ak + minted.mk < MaxKeys
  BY <1>1 DEF MintAdminKey, Mint
<1>3. minted.ak \in Nat /\ minted.mk \in Nat
  BY DEF KeysInv
<1>4. \A k \in adminKeys' : k \in 1..minted'.ak
  BY <1>1, <1>2, <1>3 DEF KeysInv
<1> QED
  BY <1>1, <1>2, <1>3, <1>4 DEF KeysInv

(* What every write of a console form or of a setup does to the keys: tables  *)
(* lose rows or gain one that is new.                                        *)
KeysGrow == /\ minted'.ak >= minted.ak /\ minted'.mk >= minted.mk /\ deviceKey' >= deviceKey
            /\ \A k \in adminKeys' : k \in adminKeys \/ k = minted.ak + 1
            /\ \A k \in meshEnrollKeys' : k \in meshEnrollKeys \/ k = minted.mk + 1

FormWrite == \/ MintAdminKey \/ MintMeshEnrollKey \/ NewDevice \/ RegenKey
             \/ \E k \in adminKeys : RevokeAdminKey(k)
             \/ \E k \in meshEnrollKeys : RevokeMeshEnrollKey(k)
             \/ UNCHANGED keys

(* None of those writes brings back a key that was revoked or never minted.*)
LEMMA WriteKeeps == KeysInv /\ FormWrite => KeysInv' /\ KeysGrow
<1> SUFFICES ASSUME KeysInv, FormWrite PROVE KeysInv' /\ KeysGrow
  OBVIOUS
<1> USE AccessAssumption
<1>1. CASE MintAdminKey
  BY <1>1, MintAdminKeeps DEF KeysInv, KeysGrow
<1>2. CASE MintMeshEnrollKey
  <2>1. minted'.ak = minted.ak /\ minted'.mk = minted.mk + 1 /\ minted' \in [ak : Nat, mk : Nat]
    BY <1>2 DEF KeysInv, MintMeshEnrollKey, Mint
  <2> QED
    BY <1>2, <2>1 DEF KeysInv, KeysGrow, MintMeshEnrollKey, Mint
<1>3. CASE NewDevice \/ RegenKey \/ UNCHANGED keys
  <2>1. /\ adminKeys' = adminKeys /\ meshEnrollKeys' = meshEnrollKeys /\ minted' = minted
        /\ deviceKey' \in 0..MaxDeviceKeys /\ deviceKey' >= deviceKey
    BY <1>3 DEF KeysInv, NewDevice, RegenKey, keys
  <2> QED
    BY <2>1 DEF KeysInv, KeysGrow
<1>4. CASE \E k \in adminKeys : RevokeAdminKey(k)
  BY <1>4 DEF KeysInv, KeysGrow, RevokeAdminKey
<1>5. CASE \E k \in meshEnrollKeys : RevokeMeshEnrollKey(k)
  BY <1>5 DEF KeysInv, KeysGrow, RevokeMeshEnrollKey
<1> QED
  BY <1>1, <1>2, <1>3, <1>4, <1>5 DEF FormWrite

(* A known key that is in no row stays out of the rows.                      *)
LEMMA DeadKeeps ==
    ASSUME KeysInv, KeysInv', KeysGrow, NEW route \in KeyRoutes, NEW k \in Known(route)
    PROVE  k \in Known(route)' /\ (k \notin Rows(route) => k \notin Rows(route)')
BY DEF KeysInv, KeysGrow, KeyRoutes, Known, Rows

(* A step of one request that changes no key keeps the others' promises.      *)
LEMMA KeysSame ==
    ASSUME IInv, UNCHANGED keys, NEW r \in Requests, NEW q, reqs' = [reqs EXCEPT ![r] = q],
           q.pc = "select" => /\ q.route \in KeyRoutes /\ q.key \in Known(q.route)
                              /\ q.dead => q.key \notin Rows(q.route),
           q.pc = "insert" => q.from = minted.ak + 1 /\ adminKeys = {},
           q.pc \in {"accept", "write"} => ~q.dead
    PROVE  IInv'
<1>1. DOMAIN reqs' = Requests /\ reqs'[r] = q /\ \A s \in Requests \ {r} : reqs'[s] = reqs[s]
  BY DEF IInv
<1>2. KeysInv'
  BY DEF IInv, KeysInv, keys
<1>3. \A route \in KeyRoutes : Known(route)' = Known(route) /\ Rows(route)' = Rows(route)
  BY DEF keys, Known, Rows
<1>4. SelectInv'
  BY <1>1, <1>3 DEF IInv, SelectInv
<1>5. InsertInv'
  <2>1. minted.ak \in Nat /\ UNCHANGED <<minted, adminKeys>>
    BY DEF IInv, KeysInv, keys
  <2> QED
    BY <1>1, <2>1 DEF IInv, InsertInv
<1>6. DeadStaysDead'
  BY <1>1 DEF IInv, DeadStaysDead
<1> QED
  BY <1>1, <1>2, <1>4, <1>5, <1>6 DEF IInv

(* So does one that writes a key and goes on to something that promises nothing. *)
LEMMA KeysWritten ==
    ASSUME IInv, FormWrite, NEW r \in Requests, NEW q, reqs' = [reqs EXCEPT ![r] = q],
           q.pc \in {"idle", "session"}
    PROVE  IInv'
<1>1. DOMAIN reqs' = Requests /\ reqs'[r] = q /\ \A s \in Requests \ {r} : reqs'[s] = reqs[s]
  BY DEF IInv
<1>2. KeysInv /\ KeysInv' /\ KeysGrow
  BY WriteKeeps DEF IInv
<1>3. SelectInv'
  BY <1>1, <1>2, DeadKeeps DEF IInv, SelectInv
<1>4. InsertInv'
  <2>1. minted.ak \in Nat /\ minted'.ak \in Nat /\ minted'.ak >= minted.ak
    BY <1>2 DEF KeysInv, KeysGrow
  <2>2. ASSUME NEW s \in Requests, reqs[s].pc = "insert"
        PROVE  /\ reqs[s].from \in 1..minted'.ak+1
               /\ \A k \in adminKeys' : k >= reqs[s].from
    BY <1>2, <2>1, <2>2 DEF IInv, InsertInv, KeysGrow
  <2> QED
    BY <1>1, <2>2 DEF InsertInv
<1>5. DeadStaysDead'
  BY <1>1 DEF IInv, DeadStaysDead
<1> QED
  BY <1>1, <1>2, <1>3, <1>4, <1>5 DEF IInv

(* Every action keeps what the requests under way rely on.                    *)
LEMMA IInvStep == IInv /\ [Next]_vars => IInv'
<1> SUFFICES ASSUME IInv, [Next]_vars PROVE IInv'
  OBVIOUS
<1> USE DEF Reply, Idle
<1>0. ASSUME UNCHANGED <<keys, reqs>> PROVE IInv'
  BY <1>0 DEF IInv, KeysInv, SelectInv, InsertInv, DeadStaysDead, Known, Rows, keys
<1>1. ASSUME NEW r \in Requests, Select(r) PROVE IInv'
  <2>1. CASE reqs[r].key \in Rows(reqs[r].route)
    <3> DEFINE q == [pc |-> "accept", login |-> reqs[r].route = "login", dead |-> reqs[r].dead]
    <3>1. reqs' = [reqs EXCEPT ![r] = q] /\ UNCHANGED keys
      BY <1>1, <2>1 DEF Select
    <3>2. ~q.dead
      BY <1>1, <2>1 DEF Select, IInv, SelectInv
    <3>3. q.pc = "accept"
      OBVIOUS
    <3> HIDE DEF q
    <3> QED
      BY <3>1, <3>2, <3>3, KeysSame
  <2>2. CASE reqs[r].key \notin Rows(reqs[r].route)
    <3> DEFINE q == [pc |-> "refuse", ip |-> reqs[r].ip]
    <3>1. reqs' = [reqs EXCEPT ![r] = q] /\ UNCHANGED keys
      BY <1>1, <2>2 DEF Select
    <3>2. q.pc = "refuse"
      OBVIOUS
    <3> HIDE DEF q
    <3> QED
      BY <3>1, <3>2, KeysSame
  <2> QED
    BY <2>1, <2>2
<1>2. ASSUME NEW r \in Requests, Refuse(r) \/ Accept(r) \/ SetupSession(r) PROVE IInv'
  <2> DEFINE q == [pc |-> "idle"]
  <2>1. reqs' = [reqs EXCEPT ![r] = q] /\ UNCHANGED keys /\ q.pc = "idle"
    BY <1>2 DEF Refuse, Accept, SetupSession
  <2> HIDE DEF q
  <2> QED
    BY <2>1, KeysSame
<1>3. ASSUME NEW r \in Requests, SetupRecount(r) PROVE IInv'
  <2>1. CASE adminKeys # {}
    <3> DEFINE q == [pc |-> "idle"]
    <3>1. reqs' = [reqs EXCEPT ![r] = q] /\ UNCHANGED keys /\ q.pc = "idle"
      BY <1>3, <2>1 DEF SetupRecount
    <3> HIDE DEF q
    <3> QED
      BY <3>1, KeysSame
  <2>2. CASE adminKeys = {}
    <3> DEFINE q == [pc |-> "insert", from |-> minted.ak + 1]
    <3>1. reqs' = [reqs EXCEPT ![r] = q] /\ UNCHANGED keys
      BY <1>3, <2>2 DEF SetupRecount
    <3>2. q.pc = "insert" /\ q.from = minted.ak + 1
      OBVIOUS
    <3> HIDE DEF q
    <3> QED
      BY <2>2, <3>1, <3>2, KeysSame
  <2> QED
    BY <2>1, <2>2
<1>4. ASSUME NEW r \in Requests, SetupInsert(r) PROVE IInv'
  <2> DEFINE q == [pc |-> "session"]
  <2>1. reqs' = [reqs EXCEPT ![r] = q] /\ FormWrite /\ q.pc = "session"
    BY <1>4 DEF SetupInsert, FormWrite
  <2> HIDE DEF q
  <2> QED
    BY <2>1, KeysWritten
<1>5. ASSUME NEW r \in Requests, Write(r) PROVE IInv'
  <2> DEFINE q == [pc |-> "idle"]
  <2>1. reqs' = [reqs EXCEPT ![r] = q] /\ FormWrite /\ q.pc = "idle"
    BY <1>5 DEF Write, FormWrite
  <2> HIDE DEF q
  <2> QED
    BY <2>1, KeysWritten
<1>6. ASSUME NEW r \in Requests, NEW ip \in Ips, NEW route \in KeyRoutes, NEW k \in Known(route),
             Arrive(r, route, ip, k)
      PROVE  IInv'
  <2> DEFINE q == [pc |-> "select", route |-> route, ip |-> ip, key |-> k,
                   dead |-> k \notin Rows(route)]
  <2>1. reqs' = [reqs EXCEPT ![r] = q] /\ UNCHANGED keys
    BY <1>6 DEF Arrive
  <2>2. /\ q.pc = "select" /\ q.route = route /\ q.key = k
        /\ q.dead => k \notin Rows(route)
    OBVIOUS
  <2> HIDE DEF q
  <2> QED
    BY <2>1, <2>2, KeysSame
<1>7. ASSUME NEW r \in Requests, NEW ip \in Ips, Guess(r, ip) PROVE IInv'
  <2> DEFINE q == [pc |-> "refuse", ip |-> ip]
  <2>1. reqs' = [reqs EXCEPT ![r] = q] /\ UNCHANGED keys /\ q.pc = "refuse"
    BY <1>7 DEF Guess
  <2> HIDE DEF q
  <2> QED
    BY <2>1, KeysSame
<1>8. ASSUME NEW r \in Requests, NEW ip \in Ips, NEW good \in BOOLEAN, SetupArrive(r, ip, good)
      PROVE  IInv'
  <2>1. CASE good
    <3> DEFINE q == [pc |-> "recount"]
    <3>1. reqs' = [reqs EXCEPT ![r] = q] /\ UNCHANGED keys /\ q.pc = "recount"
      BY <1>8, <2>1 DEF SetupArrive
    <3> HIDE DEF q
    <3> QED
      BY <3>1, KeysSame
  <2>2. CASE ~good
    BY <1>0, <1>8, <2>2 DEF SetupArrive
  <2> QED
    BY <2>1, <2>2
<1>9. ASSUME NEW ip \in Ips, TurnAway(ip) \/ TurnAwayCounted(ip) PROVE IInv'
  BY <1>0, <1>9 DEF TurnAway, TurnAwayCounted
<1>10. ASSUME NEW s \in 1..opened, Visit(s) \/ Logout(s) PROVE IInv'
  BY <1>0, <1>10 DEF Visit, Logout
<1>11. ASSUME NEW s \in 1..opened, NEW r \in Requests, Submit(r, s) PROVE IInv'
  <2> DEFINE q == [pc |-> "write", dead |-> s \notin DOMAIN sessions \/ sessions[s] = 0]
  <2>1. reqs' = [reqs EXCEPT ![r] = q] /\ UNCHANGED keys
    BY <1>11 DEF Submit
  <2>2. q.pc = "write"
    OBVIOUS
  <2>3. s \in DOMAIN sessions /\ sessions[s] # 0
    BY <1>11 DEF Submit, Live
  <2>4. ~q.dead
    BY <2>3
  <2> HIDE DEF q
  <2> QED
    BY <2>1, <2>2, <2>4, KeysSame
<1>12. CASE Tick \/ UNCHANGED vars
  BY <1>0, <1>12 DEF Tick, vars
<1>13. CASE Restart
  <2>1. DOMAIN reqs' = Requests /\ \A r \in Requests : reqs'[r].pc = "idle"
    BY <1>13 DEF Restart
  <2>2. KeysInv'
    BY <1>13 DEF Restart, IInv, KeysInv, keys
  <2> QED
    BY <2>1, <2>2 DEF IInv, SelectInv, InsertInv, DeadStaysDead
<1> QED
  BY <1>1, <1>2, <1>3, <1>4, <1>5, <1>6, <1>7, <1>8, <1>9, <1>10, <1>11, <1>12, <1>13
     DEF Next, Handle

(* It holds in every state.                                                   *)
LEMMA IInvAlways == Spec => []IInv
<1>1. Init => IInv
  BY AccessAssumption DEF Init, IInv, KeysInv, SelectInv, InsertInv, DeadStaysDead, Idle
<1> QED
  BY <1>1, IInvStep, PTL DEF Spec

(* However many requests overlap, a request is served only on a credential    *)
(* that was good when it arrived (verifyAdminKey, authenticate,               *)
(* meshEnrollGate, SessionManager.resolve).                                   *)
THEOREM RevokedStaysRefused == Spec => []DeadStaysDead
<1>1. IInv => DeadStaysDead
  BY DEF IInv
<1> QED
  BY <1>1, IInvAlways, PTL

(* However many first-run setups race, one that is about to insert its key    *)
(* has only company that was minted after its own second count (POST          *)
(* /admin/setup).                                                             *)
THEOREM SetupJoinsNoSeenKey == Spec => []SetupWindow
<1>1. IInv => SetupWindow
  BY DEF IInv, InsertInv, SetupWindow
<1> QED
  BY <1>1, IInvAlways, PTL
-------------------------------------------------------------------------------
(* A counted failure leaves an entry that would lock at the next limit        *)
(* (recordFailure).                                                           *)
LEMMA CountedKeeps ==
    ASSUME NEW e \in Entry
    PROVE  Counted(e) \in Entry
<1> USE AccessAssumption DEF Entry, Unlocked
<1> DEFINE w == IF e.age > Window THEN [e EXCEPT !.failures = 0, !.age = 0] ELSE e
           new == IF w.failures + 1 >= MaxFailures
                  THEN [failures |-> 0, age |-> 0, lock |-> Window]
                  ELSE [w EXCEPT !.failures = @ + 1]
<1>1. w \in Entry
  <2>1. e \in [failures : 0..MaxFailures-1, age : 0..Window+1, lock : Unlocked..Window]
        /\ 0 \in 0..MaxFailures-1 /\ 0 \in 0..Window+1
    OBVIOUS
  <2>2. [e EXCEPT !.failures = 0, !.age = 0] \in Entry
    BY <2>1, Zenon
  <2> QED
    BY <2>2
<1> HIDE DEF w
<1>2. new \in Entry
  BY <1>1
<1>3. Counted(e) = new
  BY DEF Counted, new, w
<1> QED
  BY <1>2, <1>3

(* So it is for the whole map, whether the address had an entry or not.       *)
LEMMA FailedKeeps ==
    ASSUME NEW es, \A i \in DOMAIN es : es[i] \in Entry, NEW ip
    PROVE  \A i \in DOMAIN Failed(es, ip) : Failed(es, ip)[i] \in Entry
<1>1. Fresh \in Entry
  BY AccessAssumption DEF Fresh, Entry, Unlocked
<1>2. Counted(EntryOf(es, ip)) \in Entry
  BY <1>1, CountedKeeps DEF EntryOf
<1> QED
  BY <1>2 DEF Failed

(* Dropping the entry of a lock that has run out leaves the others.           *)
LEMMA FreedKeeps ==
    ASSUME ClockInv, NEW ip
    PROVE  \A i \in DOMAIN Freed(ip) : Freed(ip)[i] \in Entry
<1>1. CASE ip \in DOMAIN entries /\ entries[ip].lock = 0
  <2>1. Freed(ip) = [i \in DOMAIN entries \ {ip} |-> entries[i]]
    BY <1>1 DEF Freed, Restrict
  <2> QED
    BY <2>1 DEF ClockInv
<1>2. CASE ~(ip \in DOMAIN entries /\ entries[ip].lock = 0)
  BY <1>2 DEF ClockInv, Freed
<1> QED
  BY <1>1, <1>2

(* Every action keeps the limiter's entries and the sessions well-formed.     *)
LEMMA ClockStep == ClockInv /\ [Next]_vars => ClockInv'
<1> SUFFICES ASSUME ClockInv, [Next]_vars PROVE ClockInv'
  OBVIOUS
<1> USE AccessAssumption
<1>1. ASSUME UNCHANGED <<sessions, opened>>,
             \/ entries' = entries
             \/ \E ip \in Ips : entries' \in {Freed(ip), Failed(entries, ip), Failed(Freed(ip), ip)}
      PROVE  ClockInv'
  <2>1. \A i \in DOMAIN entries' : entries'[i] \in Entry
    BY <1>1, FreedKeeps, FailedKeeps DEF ClockInv
  <2> QED
    BY <1>1, <2>1 DEF ClockInv
<1>2. ASSUME Open, entries' = entries PROVE ClockInv'
  <2>1. opened \in Nat /\ opened' = opened + 1 /\ opened' \in 0..MaxSessions
    BY <1>2 DEF Open, ClockInv
  <2>2. /\ DOMAIN sessions' = DOMAIN sessions \cup {opened'}
        /\ \A s \in DOMAIN sessions' : sessions'[s] = IF s = opened' THEN SessionTtl ELSE sessions[s]
    BY <1>2 DEF Open
  <2>3. \A s \in DOMAIN sessions' : s \in 1..opened' /\ sessions'[s] \in 0..SessionTtl
    BY <2>1, <2>2 DEF ClockInv
  <2> QED
    BY <1>2, <2>1, <2>3 DEF ClockInv
<1>3. ASSUME NEW s, sessions' = Drop(s), UNCHANGED <<entries, opened>> PROVE ClockInv'
  <2>1. \A t \in DOMAIN sessions' : t \in DOMAIN sessions /\ sessions'[t] = sessions[t]
    BY <1>3 DEF Drop, Restrict
  <2> QED
    BY <1>3, <2>1 DEF ClockInv
<1>4. ASSUME NEW r \in Requests, Handle(r) PROVE ClockInv'
  <2>1. CASE Select(r) \/ SetupRecount(r) \/ SetupInsert(r) \/ Write(r)
    BY <1>1, <2>1 DEF Select, SetupRecount, SetupInsert, Write
  <2>2. CASE Refuse(r)
    <3>1. \A i \in DOMAIN entries' : entries'[i] \in Entry
      BY <2>2, FailedKeeps DEF Refuse, ClockInv
    <3> QED
      BY <2>2, <3>1 DEF Refuse, ClockInv
  <2>3. CASE Accept(r) \/ SetupSession(r)
    BY <1>1, <1>2, <2>3 DEF Accept, SetupSession
  <2> QED
    BY <1>4, <2>1, <2>2, <2>3 DEF Handle
<1>5. ASSUME NEW r \in Requests, NEW ip \in Ips,
             \/ \E route \in KeyRoutes : \E k \in Known(route) : Arrive(r, route, ip, k)
             \/ Guess(r, ip)
             \/ \E good \in BOOLEAN : SetupArrive(r, ip, good)
      PROVE  ClockInv'
  <2>1. UNCHANGED <<sessions, opened>> /\ entries' \in {Freed(ip), Failed(Freed(ip), ip)}
    BY <1>5 DEF Arrive, Guess, SetupArrive
  <2> QED
    BY <1>1, <2>1
<1>6. ASSUME NEW ip \in Ips, TurnAway(ip) \/ TurnAwayCounted(ip) PROVE ClockInv'
  BY <1>1, <1>6 DEF TurnAway, TurnAwayCounted
<1>7. ASSUME NEW s \in 1..opened, Visit(s) \/ Logout(s) \/ \E r \in Requests : Submit(r, s)
      PROVE  ClockInv'
  BY <1>1, <1>3, <1>7 DEF Visit, Logout, Submit
<1>8. CASE Tick
  <2>1. \A i \in DOMAIN entries' : entries'[i] \in Entry
    <3> SUFFICES ASSUME NEW i \in DOMAIN entries PROVE entries'[i] \in Entry
      BY <1>8 DEF Tick
    <3>1. entries[i] \in Entry
      BY DEF ClockInv
    <3>2. entries'[i] = [entries[i] EXCEPT !.age = IF @ > Window THEN @ ELSE @ + 1,
                                           !.lock = Less(@)]
      BY <1>8 DEF Tick
    <3>3. /\ (IF entries[i].age > Window THEN entries[i].age ELSE entries[i].age + 1) \in 0..Window+1
          /\ Less(entries[i].lock) \in Unlocked..Window
      BY <3>1 DEF Entry, Less, Unlocked
    <3> QED
      BY <3>1, <3>2, <3>3 DEF Entry
  <2>2. \A s \in DOMAIN sessions : sessions[s] \in 0..SessionTtl => Less(sessions[s]) \in 0..SessionTtl
    BY DEF Less
  <2>3. /\ DOMAIN sessions' = DOMAIN sessions /\ opened' = opened
        /\ \A s \in DOMAIN sessions : sessions'[s] = Less(sessions[s])
    BY <1>8 DEF Tick
  <2> QED
    BY <2>1, <2>2, <2>3 DEF ClockInv
<1>9. CASE Restart
  BY <1>9 DEF Restart, ClockInv
<1>10. CASE UNCHANGED vars
  BY <1>1, <1>10 DEF vars
<1> QED
  BY <1>4, <1>5, <1>6, <1>7, <1>8, <1>9, <1>10 DEF Next

(* Tables, sessions and limiter entries keep their shape; an entry counts     *)
(* fewer failures than would lock its address (AuthRateLimiter.recordFailure). *)
THEOREM TypeCorrect == Spec => []TypeOK
<1>1. Init => ClockInv
  BY AccessAssumption DEF Init, ClockInv
<1>2. IInv /\ ClockInv => TypeOK
  BY DEF IInv, KeysInv, ClockInv, TypeOK, Entry
<1>3. Spec => []ClockInv
  BY <1>1, ClockStep, PTL DEF Spec
<1> QED
  BY <1>2, <1>3, IInvAlways, PTL

-------------------------------------------------------------------------------
(* How many keys can be refused for one address (GuessRate).                  *)

N == Cardinality(Requests)

(* What refused[ip] can be: finitely many refusals of the last Window ticks.  *)
Log == {G \in SUBSET ((0..Window-1) \X Nat) : IsFiniteSet(G)}

(* The refusals of the present tick are numbered from zero.                   *)
Numbered(G) == \A x \in Recent(G, 1) : x[2] < Cardinality(Recent(G, 1))

(* The requests of an address that were let in and may yet be refused.        *)
Pending(ip) == {r \in Requests : reqs[r].pc \in {"select", "refuse"} /\ reqs[r].ip = ip}

(* How an address' entry e, its refusals G and its p pending requests relate.  *)
(* The refusals of the entry's window are among its failures.  Unlocked, what  *)
(* was refused before the window is at most what one lock let through.  While  *)
(* a lock runs only pending requests are refused, and once it has run out      *)
(* nothing older than the lock is left.                                        *)
Rate(e, G, p) ==
    /\ Cardinality(Recent(G, e.age)) <= e.failures
    /\ e.lock = Unlocked => Cardinality(G) <= e.failures + MaxFailures + N - 2
    /\ e.lock > 0 => /\ e.age = Window - e.lock
                     /\ Cardinality(G) + p <= 2 * MaxFailures + 2 * N - 3
                     /\ Cardinality(Recent(G, e.age)) + p <= N
    /\ e.lock = 0 => /\ Cardinality(G) + p <= N
                     /\ Cardinality(G) < e.failures + MaxFailures

RateOf(ip) == /\ refused[ip] \in Log
              /\ Numbered(refused[ip])
              /\ Rate(EntryOf(entries, ip), refused[ip], Cardinality(Pending(ip)))

RateInv == DOMAIN refused = Ips /\ \A ip \in Ips : RateOf(ip)

(* There is at least one slot for requests, and finitely many.                *)
LEMMA SlotsCounted == N \in Nat \ {0}
BY AccessAssumption, FS_CardinalityType, FS_EmptySet DEF N

(* The recent refusals are some of all, none for no tick and all of them for   *)
(* a whole Window.                                                             *)
LEMMA RecentCounts ==
    ASSUME NEW G \in Log, NEW n \in Nat
    PROVE  /\ Recent(G, n) \in Log
           /\ Cardinality(G) \in Nat
           /\ Cardinality(Recent(G, n)) \in 0..Cardinality(G)
           /\ n = 0 => Cardinality(Recent(G, n)) = 0
           /\ n >= Window => Recent(G, n) = G
<1>1. IsFiniteSet(G) /\ Recent(G, n) \in SUBSET G
  BY DEF Log, Recent
<1>2. IsFiniteSet(Recent(G, n)) /\ Cardinality(Recent(G, n)) <= Cardinality(G)
  BY <1>1, FS_Subset
<1>3. Cardinality(G) \in Nat /\ Cardinality(Recent(G, n)) \in Nat
  BY <1>1, <1>2, FS_CardinalityType
<1>4. \A x \in G : x[1] \in 0..Window-1
  BY DEF Log
<1>5. n = 0 => Recent(G, n) = {}
  BY <1>4, AccessAssumption DEF Recent
<1>6. n >= Window => Recent(G, n) = G
  BY <1>4, AccessAssumption DEF Recent
<1>7. Recent(G, n) \in Log
  BY <1>1, <1>2 DEF Log
<1> QED
  BY <1>2, <1>3, <1>5, <1>6, <1>7, FS_EmptySet

(* One more refusal is one more of all, of the present tick and of every       *)
(* stretch that reaches back to it (Refuse).                                   *)
LEMMA RefusalCounted ==
    ASSUME NEW G \in Log, Numbered(G),
           NEW H, H = G \cup {<<0, Cardinality(Recent(G, 1))>>}
    PROVE  /\ H \in Log
           /\ Numbered(H)
           /\ Cardinality(H) = Cardinality(G) + 1
           /\ \A n \in Nat \ {0} : Cardinality(Recent(H, n)) = Cardinality(Recent(G, n)) + 1
<1> DEFINE k == Cardinality(Recent(G, 1))
           x == <<0, k>>
<1>1. k \in Nat /\ IsFiniteSet(G)
  BY RecentCounts DEF Log
<1>2. x \in (0..Window-1) \X Nat /\ x[1] = 0 /\ x[2] = k
  BY <1>1, AccessAssumption
<1>3. x \notin G
  BY <1>1, <1>2 DEF Numbered, Recent
<1> HIDE DEF x, k
<1>4. H = G \cup {x}
  BY DEF x, k
<1>5. IsFiniteSet(H) /\ Cardinality(H) = Cardinality(G) + 1
  BY <1>1, <1>3, <1>4, FS_AddElement
<1>6. H \in Log
  BY <1>2, <1>4, <1>5 DEF Log
<1>7. ASSUME NEW n \in Nat \ {0}
      PROVE  Cardinality(Recent(H, n)) = Cardinality(Recent(G, n)) + 1
  <2>1. Recent(H, n) = Recent(G, n) \cup {x} /\ x \notin Recent(G, n)
    BY <1>2, <1>3, <1>4 DEF Recent
  <2>2. IsFiniteSet(Recent(G, n))
    BY RecentCounts DEF Log
  <2> QED
    BY <2>1, <2>2, FS_AddElement
<1>8. Numbered(H)
  <2>1. Cardinality(Recent(H, 1)) = k + 1
    BY <1>7 DEF k
  <2>2. ASSUME NEW y \in Recent(H, 1) PROVE y[2] < k + 1
    <3>1. CASE y = x
      BY <1>1, <1>2, <3>1
    <3>2. CASE y \in Recent(G, 1)
      <4>1. y[2] < k /\ y[2] \in Nat
        BY <3>2 DEF Numbered, Log, Recent, k
      <4> QED
        BY <1>1, <4>1
    <3> QED
      BY <1>4, <3>1, <3>2 DEF Recent
  <2> QED
    BY <2>1, <2>2 DEF Numbered
<1> QED
  BY <1>5, <1>6, <1>7, <1>8

(* As time goes on the refusals get older and the oldest are forgotten: what    *)
(* is recent now was recent before (Tick).                                     *)
LEMMA TickForgets ==
    ASSUME NEW G \in Log,
           NEW H, H = {<<x[1] + 1, x[2]>> : x \in Recent(G, Window - 1)}
    PROVE  /\ H \in Log
           /\ Numbered(H)
           /\ Cardinality(H) <= Cardinality(Recent(G, Window - 1))
           /\ \A n \in Nat : Cardinality(Recent(H, n + 1)) <= Cardinality(Recent(G, n))
<1> DEFINE Older(S) == {<<x[1] + 1, x[2]>> : x \in S}
<1>1. ASSUME NEW S \in Log
      PROVE  IsFiniteSet(Older(S)) /\ Cardinality(Older(S)) <= Cardinality(S)
  <2> DEFINE f == [x \in S |-> <<x[1] + 1, x[2]>>]
  <2>1. f \in Surjection(S, Older(S))
    BY DEF Surjection
  <2>2. IsFiniteSet(S)
    BY DEF Log
  <2> HIDE DEF f
  <2> QED
    BY <2>1, <2>2, FS_Surjection
<1>2. Window - 1 \in Nat
  BY AccessAssumption
<1>3. Recent(G, Window - 1) \in Log
  BY <1>2, RecentCounts
<1>4. H = Older(Recent(G, Window - 1))
  OBVIOUS
<1>5. \A y \in H : y \in (0..Window-1) \X Nat /\ y[1] >= 1
  <2> SUFFICES ASSUME NEW x \in Recent(G, Window - 1)
               PROVE  <<x[1] + 1, x[2]>> \in (0..Window-1) \X Nat /\ x[1] + 1 >= 1
    OBVIOUS
  <2>1. x[1] \in 0..Window-1 /\ x[2] \in Nat /\ x[1] < Window - 1
    BY DEF Recent, Log
  <2> QED
    BY <2>1, AccessAssumption
<1>6. H \in Log
  BY <1>1, <1>3, <1>4, <1>5 DEF Log
<1>7. Recent(H, 1) = {}
  BY <1>5 DEF Recent
<1>8. ASSUME NEW n \in Nat PROVE Cardinality(Recent(H, n + 1)) <= Cardinality(Recent(G, n))
  <2>1. Recent(G, n) \in Log
    BY RecentCounts
  <2>2. Recent(H, n + 1) \subseteq Older(Recent(G, n))
    <3> SUFFICES ASSUME NEW y \in Recent(H, n + 1) PROVE y \in Older(Recent(G, n))
      OBVIOUS
    <3>1. PICK x \in Recent(G, Window - 1) : y = <<x[1] + 1, x[2]>>
      BY DEF Recent
    <3>2. x[1] \in 0..Window-1 /\ x[1] + 1 < n + 1
      BY <3>1 DEF Recent, Log
    <3>3. x \in Recent(G, n)
      BY <3>2, AccessAssumption DEF Recent
    <3> QED
      BY <3>1, <3>3
  <2> HIDE DEF Older
  <2>3. IsFiniteSet(Older(Recent(G, n))) /\ Cardinality(Older(Recent(G, n))) <= Cardinality(Recent(G, n))
    BY <1>1, <2>1
  <2>4. /\ IsFiniteSet(Recent(H, n + 1))
        /\ Cardinality(Recent(H, n + 1)) <= Cardinality(Older(Recent(G, n)))
    BY <2>2, <2>3, FS_Subset
  <2>5. /\ Cardinality(Recent(H, n + 1)) \in Nat /\ Cardinality(Older(Recent(G, n))) \in Nat
        /\ Cardinality(Recent(G, n)) \in Nat
    BY <2>1, <2>3, <2>4, FS_CardinalityType DEF Log
  <2> QED
    BY <2>3, <2>4, <2>5
<1> QED
  BY <1>1, <1>3, <1>4, <1>6, <1>7, <1>8 DEF Numbered

(* Which requests are pending only matters while a lock runs, and fewer are     *)
(* always as good.                                                             *)
LEMMA RateFewer ==
    ASSUME NEW e \in Entry, NEW G \in Log, NEW p \in Nat, NEW q \in Nat,
           Rate(e, G, p), q <= p \/ e.lock = Unlocked
    PROVE  Rate(e, G, q)
<1>1. e.lock \in Int /\ e.age \in Nat
  BY AccessAssumption DEF Entry, Unlocked
<1>2. Cardinality(G) \in Nat /\ Cardinality(Recent(G, e.age)) \in Nat
  BY <1>1, RecentCounts
<1> QED
  BY <1>1, <1>2, SlotsCounted, AccessAssumption DEF Rate, Unlocked

(* A lock that has run out takes its entry along, and with it the failures it   *)
(* counted: little enough is left to start afresh (lockedRetryAfter).          *)
LEMMA RateFreed ==
    ASSUME NEW e \in Entry, NEW G \in Log, NEW p \in Nat, NEW q \in Nat,
           Rate(e, G, p), e.lock = 0
    PROVE  Rate(Fresh, G, q)
<1>1. e.failures \in 0..MaxFailures-1
  BY DEF Entry
<1>2. Cardinality(G) \in Nat /\ Cardinality(Recent(G, 0)) = 0
  BY RecentCounts
<1>3. Cardinality(G) + p <= N /\ Cardinality(G) < e.failures + MaxFailures
  BY DEF Rate
<1>4. Cardinality(G) <= MaxFailures + N - 2
  BY <1>1, <1>2, <1>3, SlotsCounted, AccessAssumption
<1> QED
  BY <1>2, <1>4, SlotsCounted, AccessAssumption DEF Rate, Fresh, Unlocked

(* A counting window that is over starts anew: whatever is still recent was    *)
(* counted in it (recordFailure's first test).                                 *)
LEMMA RateRenewed ==
    ASSUME NEW e \in Entry, NEW G \in Log, NEW p \in Nat, Rate(e, G, p), e.age > Window,
           NEW w \in Entry, w.failures = 0, w.age = 0, w.lock = e.lock
    PROVE  Rate(w, G, p)
<1>1. e.failures \in 0..MaxFailures-1 /\ e.age \in Nat /\ e.lock \in Int
  BY AccessAssumption DEF Entry, Unlocked
<1>2. /\ Cardinality(G) \in Nat /\ Cardinality(Recent(G, 0)) = 0
      /\ Cardinality(Recent(G, e.age)) = Cardinality(G)
  <2>1. e.age >= Window
    BY <1>1, AccessAssumption
  <2> QED
    BY <1>1, <2>1, RecentCounts
<1>3. ~(e.lock > 0)
  BY <1>1, AccessAssumption DEF Rate
<1> QED
  BY <1>1, <1>2, <1>3, SlotsCounted, AccessAssumption DEF Rate, Unlocked

(* A failure that is counted, with the refusal H that goes with it or without   *)
(* one, keeps the relation.                                                    *)
LEMMA RateCounted ==
    ASSUME NEW e \in Entry, NEW G \in Log, NEW p \in 0..N, Rate(e, G, p),
           NEW H \in Log, NEW q \in Nat,
           \/ H = G /\ q = p /\ e.lock = Unlocked
           \/ /\ q = p - 1 /\ Cardinality(H) = Cardinality(G) + 1
              /\ \A n \in Nat \ {0} : Cardinality(Recent(H, n)) = Cardinality(Recent(G, n)) + 1
    PROVE  Rate(Counted(e), H, q)
<1> DEFINE w == IF e.age > Window THEN [e EXCEPT !.failures = 0, !.age = 0] ELSE e
<1>1. w \in Entry /\ w.lock = e.lock
  <2>1. e \in [failures : 0..MaxFailures-1, age : 0..Window+1, lock : Unlocked..Window]
        /\ 0 \in 0..MaxFailures-1 /\ 0 \in 0..Window+1
    BY AccessAssumption DEF Entry
  <2>2. [e EXCEPT !.failures = 0, !.age = 0] \in Entry
        /\ [e EXCEPT !.failures = 0, !.age = 0].lock = e.lock
    BY <2>1 DEF Entry
  <2> QED
    BY <2>2
<1>2. Rate(w, G, p)
  <2>1. CASE e.age > Window
    <3>1. w.failures = 0 /\ w.age = 0
      BY <2>1 DEF Entry
    <3> HIDE DEF w
    <3> QED
      BY <1>1, <2>1, <3>1, SlotsCounted, RateRenewed
  <2>2. CASE ~(e.age > Window)
    BY <2>2
  <2> QED
    BY <2>1, <2>2
<1>3. Counted(e) = IF w.failures + 1 >= MaxFailures
                   THEN [failures |-> 0, age |-> 0, lock |-> Window]
                   ELSE [w EXCEPT !.failures = @ + 1]
  BY DEF Counted
<1> HIDE DEF w
<1>4. /\ w.failures \in 0..MaxFailures-1 /\ w.age \in Nat /\ w.lock \in Int
      /\ w.lock <= Window /\ w.lock >= -1
  BY <1>1, AccessAssumption DEF Entry, Unlocked
<1> DEFINE g == Cardinality(G)
           h == Cardinality(H)
           a == Cardinality(Recent(G, w.age))
           b == Cardinality(Recent(H, w.age))
<1>5. g \in Nat /\ h \in Nat /\ a \in 0..g /\ b \in 0..h /\ Cardinality(Recent(H, 0)) = 0
  BY <1>4, RecentCounts
<1>6. h + q <= g + p /\ h <= g + 1 /\ b <= a + 1 /\ b + q <= a + p
  <2>1. w.age = 0 => a = 0 /\ b = 0
    BY RecentCounts
  <2>2. CASE H = G /\ q = p
    BY <2>2, <1>5
  <2>3. CASE /\ q = p - 1 /\ Cardinality(H) = Cardinality(G) + 1
             /\ \A n \in Nat \ {0} : Cardinality(Recent(H, n)) = Cardinality(Recent(G, n)) + 1
    <3>1. w.age # 0 => b = a + 1
      BY <1>4, <2>3
    <3> QED
      BY <1>5, <2>1, <2>3, <3>1, SlotsCounted
  <2> QED
    BY <2>2, <2>3
<1>7. /\ a <= w.failures
      /\ w.lock = -1 => g <= w.failures + MaxFailures + N - 2
      /\ w.lock > 0 => w.age = Window - w.lock /\ g + p <= 2 * MaxFailures + 2 * N - 3 /\ a + p <= N
      /\ w.lock = 0 => g + p <= N /\ g < w.failures + MaxFailures
  BY <1>2 DEF Rate, Unlocked
<1>8. CASE w.failures + 1 >= MaxFailures
  <2> DEFINE t == [failures |-> 0, age |-> 0, lock |-> Window]
  <2>1. Counted(e) = t /\ t.failures = 0 /\ t.age = 0 /\ t.lock = Window
    BY <1>3, <1>8
  <2>2. g + p <= 2 * MaxFailures + 2 * N - 3
    <3> HIDE DEF g, a, h, b
    <3> QED
      BY <1>4, <1>5, <1>7, SlotsCounted, AccessAssumption
  <2>3. h + q <= 2 * MaxFailures + 2 * N - 3 /\ q <= N
    <3> HIDE DEF g, a, h, b
    <3>1. q <= p /\ p <= N
      BY SlotsCounted
    <3> QED
      BY <1>5, <1>6, <2>2, <3>1, SlotsCounted, AccessAssumption
  <2> HIDE DEF t
  <2> QED
    BY <1>5, <2>1, <2>3, SlotsCounted, AccessAssumption DEF Rate, Unlocked
<1>9. CASE ~(w.failures + 1 >= MaxFailures)
  <2> DEFINE t == [w EXCEPT !.failures = @ + 1]
  <2>1. Counted(e) = t /\ t.failures = w.failures + 1 /\ t.age = w.age /\ t.lock = w.lock
    BY <1>1, <1>3, <1>9 DEF Entry
  <2>2. /\ b <= w.failures + 1
        /\ w.lock = -1 => h <= w.failures + 1 + MaxFailures + N - 2
        /\ w.lock > 0 => w.age = Window - w.lock /\ h + q <= 2 * MaxFailures + 2 * N - 3 /\ b + q <= N
        /\ w.lock = 0 => h + q <= N /\ h < w.failures + 1 + MaxFailures
    <3> HIDE DEF g, a, h, b
    <3> QED
      BY <1>4, <1>5, <1>6, <1>7, SlotsCounted, AccessAssumption
  <2> HIDE DEF t
  <2> QED
    BY <2>1, <2>2 DEF Rate, Unlocked
<1> QED
  BY <1>8, <1>9

(* Time that goes on keeps it: an entry grows older with its refusals, and when *)
(* its lock runs out those of before the lock have been forgotten.             *)
LEMMA RateTick ==
    ASSUME NEW e \in Entry, NEW G \in Log, NEW p \in Nat, Rate(e, G, p),
           NEW H \in Log, Cardinality(H) <= Cardinality(Recent(G, Window - 1)),
           \A n \in Nat : Cardinality(Recent(H, n + 1)) <= Cardinality(Recent(G, n)),
           NEW t \in Entry, t.failures = e.failures, t.lock = Less(e.lock),
           t.age = IF e.age > Window THEN e.age ELSE e.age + 1
    PROVE  Rate(t, H, p)
<1>1. e.failures \in Nat /\ e.age \in 0..Window+1 /\ e.lock \in -1..Window
  BY AccessAssumption DEF Entry, Unlocked
<1> DEFINE g == Cardinality(G)
           h == Cardinality(H)
           a == Cardinality(Recent(G, e.age))
           b == Cardinality(Recent(H, t.age))
           c == Cardinality(Recent(G, Window - 1))
<1>2. g \in Nat /\ h \in Nat /\ a \in 0..g /\ b \in 0..h /\ c \in 0..g /\ h <= c
  <2>1. e.age \in Nat /\ t.age \in Nat /\ Window - 1 \in Nat
    BY <1>1, AccessAssumption
  <2> QED
    BY <2>1, RecentCounts
<1>3. b <= a
  <2>1. CASE e.age > Window
    <3>1. e.age \in Nat /\ e.age >= Window
      BY <1>1, <2>1, AccessAssumption
    <3>2. Recent(G, e.age) = G
      BY <3>1, RecentCounts
    <3> QED
      BY <1>2, <3>2
  <2>2. CASE ~(e.age > Window)
    BY <1>1, <2>2
  <2> QED
    BY <2>1, <2>2
<1>4. e.age = Window - 1 => c = a
  OBVIOUS
<1>5. /\ a <= e.failures
      /\ e.lock = -1 => g <= e.failures + MaxFailures + N - 2
      /\ e.lock > 0 => e.age = Window - e.lock /\ g + p <= 2 * MaxFailures + 2 * N - 3 /\ a + p <= N
      /\ e.lock = 0 => g + p <= N /\ g < e.failures + MaxFailures
  BY DEF Rate, Unlocked
<1>6. t.lock = IF e.lock > 0 THEN e.lock - 1 ELSE e.lock
  BY DEF Less
<1>7. /\ b <= t.failures
      /\ t.lock = -1 => h <= t.failures + MaxFailures + N - 2
      /\ t.lock > 0 => t.age = Window - t.lock /\ h + p <= 2 * MaxFailures + 2 * N - 3 /\ b + p <= N
      /\ t.lock = 0 => h + p <= N /\ h < t.failures + MaxFailures
  <2> HIDE DEF g, h, a, b, c
  <2> QED
    BY <1>1, <1>2, <1>3, <1>4, <1>5, <1>6, SlotsCounted, AccessAssumption
<1> QED
  BY <1>7 DEF Rate, Unlocked

(* An address without an entry counts as one that never failed.               *)
LEMMA EntryTyped ==
    ASSUME ClockInv, NEW ip
    PROVE  EntryOf(entries, ip) \in Entry
<1>1. Fresh \in Entry
  BY AccessAssumption DEF Fresh, Entry, Unlocked
<1> QED
  BY <1>1 DEF EntryOf, ClockInv

(* What the limiter does for one address leaves the others alone; asking        *)
(* whether it is locked forgets a lock that has run out, a failure is counted   *)
(* on its own entry.                                                           *)
LEMMA EntryMoves ==
    ASSUME NEW ip, NEW es
    PROVE  /\ \A i : i # ip => /\ EntryOf(Freed(ip), i) = EntryOf(entries, i)
                               /\ EntryOf(Failed(es, ip), i) = EntryOf(es, i)
           /\ EntryOf(Failed(es, ip), ip) = Counted(EntryOf(es, ip))
           /\ EntryOf(Freed(ip), ip) = IF EntryOf(entries, ip).lock = 0 THEN Fresh
                                       ELSE EntryOf(entries, ip)
<1>1. /\ \A i : i # ip => EntryOf(Failed(es, ip), i) = EntryOf(es, i)
      /\ EntryOf(Failed(es, ip), ip) = Counted(EntryOf(es, ip))
  BY DEF EntryOf, Failed
<1>2. CASE ip \in DOMAIN entries /\ entries[ip].lock = 0
  <2>1. Freed(ip) = [i \in DOMAIN entries \ {ip} |-> entries[i]]
    BY <1>2 DEF Freed, Restrict
  <2> QED
    BY <1>1, <1>2, <2>1 DEF EntryOf
<1>3. CASE ~(ip \in DOMAIN entries /\ entries[ip].lock = 0)
  <2>1. Freed(ip) = entries
    BY <1>3 DEF Freed
  <2>2. Fresh.lock # 0
    BY DEF Fresh, Unlocked
  <2>3. EntryOf(entries, ip).lock # 0
    BY <1>3, <2>2 DEF EntryOf
  <2> QED
    BY <1>1, <2>1, <2>3
<1> QED
  BY <1>2, <1>3

(* No more requests are pending than are served.                              *)
LEMMA SomeRequests ==
    ASSUME NEW Q \in SUBSET Requests, NEW P \in SUBSET Q
    PROVE  /\ IsFiniteSet(Q)
           /\ Cardinality(Q) \in 0..N /\ Cardinality(P) \in 0..N
           /\ Cardinality(P) <= Cardinality(Q)
<1>1. IsFiniteSet(Q) /\ Cardinality(Q) <= N
  BY AccessAssumption, FS_Subset DEF N
<1>2. IsFiniteSet(P) /\ Cardinality(P) <= Cardinality(Q)
  BY <1>1, FS_Subset
<1>3. Cardinality(Q) \in Nat /\ Cardinality(P) \in Nat
  BY <1>1, <1>2, FS_CardinalityType
<1> QED
  BY <1>1, <1>2, <1>3, SlotsCounted

(* A step of one request makes no request pending but, at most, that one.      *)
LEMMA PendingStep ==
    ASSUME DOMAIN reqs = Requests, NEW r \in Requests, NEW q, reqs' = [reqs EXCEPT ![r] = q],
           NEW ip, q.pc \in {"select", "refuse"} => (q.ip # ip \/ r \in Pending(ip))
    PROVE  Pending(ip)' \in SUBSET Pending(ip)
<1>1. \A s \in Requests : reqs'[s] = IF s = r THEN q ELSE reqs[s]
  OBVIOUS
<1> QED
  BY <1>1 DEF Pending

(* Nothing happens to an address: its entry and its refusals stay, and none of  *)
(* its requests is let in.                                                     *)
LEMMA RateKept ==
    ASSUME ClockInv, NEW ip, RateOf(ip), refused'[ip] = refused[ip],
           EntryOf(entries, ip)' = EntryOf(entries, ip), Pending(ip)' \in SUBSET Pending(ip)
    PROVE  RateOf(ip)'
<1> DEFINE p == Cardinality(Pending(ip))
           q == Cardinality(Pending(ip)')
<1>1. p \in Nat /\ q \in Nat /\ q <= p
  <2>1. Pending(ip) \in SUBSET Requests
    BY DEF Pending
  <2> QED
    BY <2>1, SomeRequests, SlotsCounted
<1> HIDE DEF p, q
<1>2. Rate(EntryOf(entries, ip), refused[ip], q)
  BY <1>1, EntryTyped, RateFewer DEF RateOf, p
<1> QED
  BY <1>2 DEF RateOf, q

(* An address that is not locked is asked about: a request of it may be let in. *)
LEMMA RateAsked ==
    ASSUME ClockInv, NEW ip, RateOf(ip), ~Locked(ip), NEW q \in Nat
    PROVE  /\ Rate(EntryOf(Freed(ip), ip), refused[ip], q)
           /\ EntryOf(Freed(ip), ip) \in Entry
           /\ EntryOf(Freed(ip), ip).lock = Unlocked
<1> DEFINE e == EntryOf(entries, ip)
           p == Cardinality(Pending(ip))
<1>1. e \in Entry /\ Fresh \in Entry /\ Fresh.lock = Unlocked
  BY AccessAssumption, EntryTyped DEF Fresh, Entry, Unlocked
<1>2. p \in Nat
  <2>1. Pending(ip) \in SUBSET Requests
    BY DEF Pending
  <2> QED
    BY <2>1, SomeRequests, SlotsCounted
<1>3. Rate(e, refused[ip], p) /\ refused[ip] \in Log
  BY DEF RateOf
<1>4. e.lock = 0 \/ e.lock = Unlocked
  <2>1. ~(e.lock > 0)
    BY DEF Locked, EntryOf, Fresh, Unlocked
  <2> HIDE DEF e
  <2> QED
    BY <1>1, <2>1, AccessAssumption DEF Entry, Unlocked
<1>5. EntryOf(Freed(ip), ip) = IF e.lock = 0 THEN Fresh ELSE e
  BY EntryMoves
<1> HIDE DEF e, p
<1>6. CASE e.lock = 0
  BY <1>1, <1>2, <1>3, <1>5, <1>6, RateFreed
<1>7. CASE e.lock = Unlocked
  <2>1. e.lock # 0
    BY <1>7 DEF Unlocked
  <2> QED
    BY <1>1, <1>2, <1>3, <1>5, <1>7, <2>1, RateFewer
<1> QED
  BY <1>4, <1>6, <1>7

(* A key that is refused is counted, whatever became of the lock meanwhile      *)
(* (verifyAdminKey, authenticate and meshEnrollGate after their comparisons).  *)
LEMMA RateRefused ==
    ASSUME ClockInv, RateInv, DOMAIN reqs = Requests, NEW r \in Requests, Refuse(r)
    PROVE  RateInv'
<1> DEFINE j == reqs[r].ip
           q == [pc |-> "idle"]
<1>1. /\ entries' = Failed(entries, j) /\ reqs' = [reqs EXCEPT ![r] = q]
      /\ refused' = [refused EXCEPT ![j] = @ \cup {<<0, Cardinality(Recent(@, 1))>>}]
      /\ reqs[r].pc = "refuse" /\ q.pc = "idle"
  BY DEF Refuse, Reply, Idle
<1>2. DOMAIN refused' = Ips
  BY <1>1 DEF RateInv
<1>3. ASSUME NEW ip \in Ips PROVE RateOf(ip)'
  <2>1. CASE ip # j
    <3>1. refused'[ip] = refused[ip] /\ EntryOf(entries, ip)' = EntryOf(entries, ip)
      BY <1>1, <2>1, EntryMoves DEF RateInv, EntryOf
    <3> HIDE DEF q, j
    <3>2. Pending(ip)' \in SUBSET Pending(ip)
      BY <1>1, PendingStep
    <3> QED
      BY <3>1, <3>2, RateKept DEF RateInv
  <2>2. CASE ip = j
    <3> DEFINE e == EntryOf(entries, ip)
               G == refused[ip]
               H == refused'[ip]
    <3>1. e \in Entry /\ G \in Log /\ Numbered(G) /\ Rate(e, G, Cardinality(Pending(ip)))
      BY EntryTyped DEF RateInv, RateOf
    <3>2. EntryOf(entries, ip)' = Counted(e)
      <4>1. EntryOf(Failed(entries, ip), ip) = Counted(EntryOf(entries, ip))
        BY EntryMoves
      <4> QED
        BY <1>1, <2>2, <4>1 DEF EntryOf
    <3>3. H = G \cup {<<0, Cardinality(Recent(G, 1))>>}
      BY <1>1, <2>2 DEF RateInv
    <3>4. Pending(ip)' = Pending(ip) \ {r} /\ r \in Pending(ip) /\ Pending(ip) \in SUBSET Requests
      <4>1. \A s \in Requests : reqs'[s] = IF s = r THEN q ELSE reqs[s]
        BY <1>1
      <4> QED
        BY <1>1, <2>2, <4>1 DEF Pending
    <3>5. /\ Cardinality(Pending(ip)) \in 0..N /\ Cardinality(Pending(ip)') \in Nat
          /\ Cardinality(Pending(ip)') = Cardinality(Pending(ip)) - 1
      <4>1. /\ IsFiniteSet(Pending(ip)) /\ Cardinality(Pending(ip)) \in 0..N
            /\ Cardinality(Pending(ip)') \in 0..N
        BY <3>4, SomeRequests
      <4> QED
        <5>1. Cardinality(Pending(ip) \ {r}) =
                IF r \in Pending(ip) THEN Cardinality(Pending(ip)) - 1 ELSE Cardinality(Pending(ip))
          BY <4>1, FS_RemoveElement
        <5> QED
          BY <3>4, <4>1, <5>1, SlotsCounted
    <3> HIDE DEF e, G, H
    <3>6. /\ H \in Log /\ Numbered(H) /\ Cardinality(H) = Cardinality(G) + 1
          /\ \A n \in Nat \ {0} : Cardinality(Recent(H, n)) = Cardinality(Recent(G, n)) + 1
      <4> DEFINE P(K) == /\ K \in Log /\ Numbered(K) /\ Cardinality(K) = Cardinality(G) + 1
                         /\ \A n \in Nat \ {0} :
                              Cardinality(Recent(K, n)) = Cardinality(Recent(G, n)) + 1
      <4>1. G \in Log /\ Numbered(G)
        BY <3>1
      <4>2. \A K : K = G \cup {<<0, Cardinality(Recent(G, 1))>>} => P(K)
        BY <4>1, RefusalCounted, Zenon
      <4> HIDE DEF P
      <4>3. P(H)
        BY <3>3, <4>2
      <4> QED
        BY <4>3 DEF P
    <3>7. Rate(Counted(e), H, Cardinality(Pending(ip)'))
      BY <3>1, <3>5, <3>6, RateCounted
    <3> QED
      BY <3>2, <3>6, <3>7 DEF RateOf, H
  <2> QED
    BY <2>1, <2>2
<1> QED
  BY <1>2, <1>3 DEF RateInv

(* A tick keeps it for every address.                                         *)
LEMMA RateTicked ==
    ASSUME ClockInv, ClockInv', RateInv, Tick
    PROVE  RateInv'
<1>1. /\ DOMAIN refused' = Ips /\ reqs' = reqs
      /\ \A ip \in Ips : refused'[ip] = {<<x[1] + 1, x[2]>> : x \in Recent(refused[ip], Window - 1)}
  BY DEF Tick
<1>2. ASSUME NEW ip \in Ips PROVE RateOf(ip)'
  <2> DEFINE e == EntryOf(entries, ip)
             t == EntryOf(entries', ip)
             G == refused[ip]
             H == refused'[ip]
             p == Cardinality(Pending(ip))
  <2>1. e \in Entry /\ G \in Log /\ Rate(e, G, p)
    BY EntryTyped DEF RateInv, RateOf
  <2>2. p \in Nat /\ Pending(ip)' = Pending(ip)
    <3>1. Pending(ip)' = Pending(ip) /\ Pending(ip) \in SUBSET Requests
      BY <1>1 DEF Pending
    <3> QED
      BY <3>1, SomeRequests, SlotsCounted
  <2>3. H = {<<x[1] + 1, x[2]>> : x \in Recent(G, Window - 1)}
    BY <1>1
  <2>4. /\ H \in Log /\ Numbered(H)
        /\ Cardinality(H) <= Cardinality(Recent(G, Window - 1))
        /\ \A n \in Nat : Cardinality(Recent(H, n + 1)) <= Cardinality(Recent(G, n))
    <3> HIDE DEF G, H
    <3> QED
      BY <2>1, <2>3, TickForgets
  <2>5. Rate(t, H, p)
    <3>1. CASE ip \in DOMAIN entries
      <4>1. e = entries[ip] /\ t = entries'[ip]
        BY <3>1 DEF Tick, EntryOf
      <4>2. t = [e EXCEPT !.age = IF @ > Window THEN @ ELSE @ + 1, !.lock = Less(@)]
        BY <3>1, <4>1 DEF Tick
      <4>3. t \in Entry
        BY <3>1, <4>1 DEF ClockInv, Tick
      <4> HIDE DEF e, t, G, H, p
      <4>4. /\ t.failures = e.failures /\ t.lock = Less(e.lock)
            /\ t.age = IF e.age > Window THEN e.age ELSE e.age + 1
        BY <2>1, <4>2 DEF Entry
      <4> QED
        BY <2>1, <2>2, <2>4, <4>3, <4>4, RateTick
    <3>2. CASE ip \notin DOMAIN entries
      <4>1. e = Fresh /\ t = Fresh
        BY <3>2 DEF Tick, EntryOf
      <4> HIDE DEF e, t, G, H, p
      <4>2. /\ Cardinality(H) \in Nat /\ Cardinality(Recent(H, 0)) = 0
            /\ Cardinality(H) <= Cardinality(G) /\ Cardinality(G) \in Nat
        <5>1. Window - 1 \in Nat
          BY AccessAssumption
        <5>2. Cardinality(Recent(G, Window - 1)) \in 0..Cardinality(G) /\ Cardinality(G) \in Nat
          BY <2>1, <5>1, RecentCounts
        <5>3. Cardinality(H) \in Nat /\ Cardinality(Recent(H, 0)) = 0
          BY <2>4, RecentCounts
        <5> QED
          BY <2>4, <5>2, <5>3
      <4> QED
        BY <2>1, <4>1, <4>2, SlotsCounted, AccessAssumption DEF Rate, Fresh, Unlocked
    <3> QED
      BY <3>1, <3>2
  <2> QED
    BY <2>2, <2>4, <2>5 DEF RateOf, EntryOf
<1> QED
  BY <1>1, <1>2 DEF RateInv

(* What a start of the process leaves.                                        *)
Blank == /\ entries = <<>> /\ refused = [ip \in Ips |-> {}]
         /\ reqs = [r \in Requests |-> Idle]

(* With no entry, no refusal and no request an address has failed nothing.     *)
LEMMA RateStarts == Blank => RateInv
<1> SUFFICES ASSUME Blank PROVE RateInv
  OBVIOUS
<1> USE DEF Blank
<1>1. {} \in Log /\ Recent({}, 0) = {} /\ Recent({}, 1) = {} /\ Cardinality({}) = 0
  BY FS_EmptySet DEF Log, Recent
<1>2. ASSUME NEW ip \in Ips PROVE RateOf(ip)
  <2>1. Pending(ip) = {} /\ EntryOf(entries, ip) = Fresh
    BY DEF Pending, Idle, EntryOf
  <2>2. Rate(Fresh, {}, 0)
    <3>1. Fresh.age = 0 /\ Fresh.failures = 0 /\ Fresh.lock = -1
      BY DEF Fresh, Unlocked
    <3>2. 0 <= 0 + MaxFailures + N - 2 /\ ~(-1 > 0) /\ -1 # 0
      BY SlotsCounted, AccessAssumption
    <3>3. Recent({}, Fresh.age) = {}
      BY <1>1, <3>1
    <3>4. Cardinality(Recent({}, Fresh.age)) = 0
      BY <3>3, FS_EmptySet, Zenon
    <3>5. Cardinality(Recent({}, Fresh.age)) <= Fresh.failures
      BY <3>1, <3>4
    <3> QED
      BY <1>1, <3>1, <3>2, <3>5 DEF Rate, Unlocked
  <2> QED
    BY <1>1, <2>1, <2>2 DEF RateOf, Numbered
<1> QED
  BY <1>2 DEF RateInv

(* Every action keeps the relation of entries, refusals and pending requests.   *)
LEMMA RateStep == IInv /\ ClockInv /\ ClockInv' /\ RateInv /\ [Next]_vars => RateInv'
<1> SUFFICES ASSUME IInv, ClockInv, ClockInv', RateInv, [Next]_vars PROVE RateInv'
  OBVIOUS
<1> USE DEF Reply, Idle
<1>0. DOMAIN reqs = Requests /\ \A ip : Pending(ip) \in SUBSET Requests
  BY DEF IInv, Pending
<1>1. ASSUME UNCHANGED <<entries, refused>>, \A ip : Pending(ip)' \in SUBSET Pending(ip)
      PROVE  RateInv'
  <2>1. \A ip : EntryOf(entries, ip)' = EntryOf(entries, ip)
    BY <1>1 DEF EntryOf
  <2> QED
    BY <1>1, <2>1, RateKept DEF RateInv
<1>2. ASSUME NEW ip \in Ips, ~Locked(ip), entries' = Freed(ip), refused' = refused,
             \A i : i # ip => Pending(i)' \in SUBSET Pending(i)
      PROVE  RateInv'
  <2>1. ASSUME NEW i \in Ips, i # ip PROVE RateOf(i)'
    <3>1. EntryOf(entries, i)' = EntryOf(entries, i)
      BY <1>2, <2>1, EntryMoves DEF EntryOf
    <3> QED
      BY <1>2, <2>1, <3>1, RateKept DEF RateInv
  <2>2. RateOf(ip)'
    <3>1. Cardinality(Pending(ip)') \in Nat
      <4>1. Pending(ip)' \in SUBSET Requests
        BY DEF Pending
      <4> QED
        BY <4>1, SomeRequests, SlotsCounted
    <3>2. Rate(EntryOf(Freed(ip), ip), refused[ip], Cardinality(Pending(ip)'))
      BY <1>2, <3>1, RateAsked DEF RateInv
    <3> QED
      BY <1>2, <3>2 DEF RateInv, RateOf, EntryOf
  <2> QED
    BY <1>2, <2>1, <2>2 DEF RateInv
<1>3. ASSUME NEW ip \in Ips, ~Locked(ip), entries' = Failed(Freed(ip), ip), UNCHANGED <<reqs, refused>>
      PROVE  RateInv'
  <2>0. \A i : Pending(i)' = Pending(i)
    BY <1>3 DEF Pending
  <2>1. ASSUME NEW i \in Ips, i # ip PROVE RateOf(i)'
    <3>1. /\ EntryOf(Failed(Freed(ip), ip), i) = EntryOf(Freed(ip), i)
          /\ EntryOf(Freed(ip), i) = EntryOf(entries, i)
      BY <2>1, EntryMoves
    <3>2. EntryOf(entries, i)' = EntryOf(entries, i)
      BY <1>3, <3>1 DEF EntryOf
    <3> QED
      BY <1>3, <2>0, <2>1, <3>2, RateKept DEF RateInv
  <2>2. RateOf(ip)'
    <3> DEFINE p == Cardinality(Pending(ip))
               e == EntryOf(Freed(ip), ip)
               G == refused[ip]
    <3>1. p \in 0..N /\ p \in Nat
      BY <1>0, SomeRequests, SlotsCounted
    <3>2. Rate(e, G, p) /\ e \in Entry /\ e.lock = Unlocked /\ G \in Log
      BY <1>3, <3>1, RateAsked DEF RateInv, RateOf
    <3>3. EntryOf(Failed(Freed(ip), ip), ip) = Counted(e)
      BY EntryMoves
    <3> HIDE DEF p, e, G
    <3>4. Rate(Counted(e), G, p)
      BY <3>1, <3>2, RateCounted
    <3> QED
      BY <1>3, <2>0, <3>3, <3>4 DEF RateInv, RateOf, EntryOf, p, G
  <2> QED
    BY <1>3, <2>1, <2>2 DEF RateInv
<1>4. ASSUME NEW r \in Requests, Select(r) PROVE RateInv'
  <2>1. UNCHANGED <<entries, refused>>
    BY <1>4 DEF Select
  <2>2. ASSUME NEW ip PROVE Pending(ip)' \in SUBSET Pending(ip)
    <3>1. \A s \in Requests : s # r => reqs'[s] = reqs[s]
      BY <1>0, <1>4 DEF Select
    <3>2. reqs[r].pc = "select" /\ (reqs'[r].pc = "accept" \/ reqs'[r].ip = reqs[r].ip)
      BY <1>0, <1>4 DEF Select
    <3> QED
      BY <3>1, <3>2 DEF Pending
  <2> QED
    BY <1>1, <2>1, <2>2
<1>5. ASSUME NEW r \in Requests, NEW q, reqs' = [reqs EXCEPT ![r] = q],
             q.pc \notin {"select", "refuse"}, UNCHANGED <<entries, refused>>
      PROVE  RateInv'
  BY <1>0, <1>1, <1>5, PendingStep
<1>6. ASSUME NEW r \in Requests, Handle(r) PROVE RateInv'
  <2>1. CASE Refuse(r)
    BY <1>0, <2>1, RateRefused
  <2>2. CASE Accept(r) \/ SetupRecount(r) \/ SetupInsert(r) \/ SetupSession(r) \/ Write(r)
    <3>1. UNCHANGED <<entries, refused>> /\ \E q : reqs' = [reqs EXCEPT ![r] = q]
                                              /\ q.pc \in {"idle", "insert", "session"}
      <4>1. [pc |-> "idle"].pc = "idle" /\ [pc |-> "session"].pc = "session"
            /\ [pc |-> "insert", from |-> minted.ak + 1].pc = "insert"
        OBVIOUS
      <4> QED
        BY <2>2, <4>1 DEF Accept, SetupRecount, SetupInsert, SetupSession, Write
    <3> QED
      BY <1>5, <3>1
  <2> QED
    BY <1>4, <1>6, <2>1, <2>2 DEF Handle
<1>7. ASSUME NEW r \in Requests, NEW ip \in Ips, NEW q, reqs' = [reqs EXCEPT ![r] = q],
             q.pc \in {"select", "refuse"} => q.ip = ip,
             ~Locked(ip), entries' = Freed(ip), refused' = refused
      PROVE  RateInv'
  BY <1>0, <1>2, <1>7, PendingStep
<1>8. ASSUME NEW r \in Requests, NEW ip \in Ips, NEW route \in KeyRoutes, NEW k \in Known(route),
             Arrive(r, route, ip, k)
      PROVE  RateInv'
  <2> DEFINE q == [pc |-> "select", route |-> route, ip |-> ip, key |-> k,
                   dead |-> k \notin Rows(route)]
  <2>1. reqs' = [reqs EXCEPT ![r] = q] /\ q.ip = ip
        /\ ~Locked(ip) /\ entries' = Freed(ip) /\ refused' = refused
    BY <1>8 DEF Arrive
  <2> HIDE DEF q
  <2> QED
    BY <1>7, <2>1
<1>9. ASSUME NEW r \in Requests, NEW ip \in Ips, Guess(r, ip) PROVE RateInv'
  <2> DEFINE q == [pc |-> "refuse", ip |-> ip]
  <2>1. reqs' = [reqs EXCEPT ![r] = q] /\ q.ip = ip
        /\ ~Locked(ip) /\ entries' = Freed(ip) /\ refused' = refused
    BY <1>9 DEF Guess
  <2> HIDE DEF q
  <2> QED
    BY <1>7, <2>1
<1>10. ASSUME NEW r \in Requests, NEW ip \in Ips, NEW good \in BOOLEAN, SetupArrive(r, ip, good)
       PROVE  RateInv'
  <2>1. CASE good
    <3> DEFINE q == [pc |-> "recount"]
    <3>1. reqs' = [reqs EXCEPT ![r] = q] /\ q.pc = "recount"
          /\ ~Locked(ip) /\ entries' = Freed(ip) /\ refused' = refused
      BY <1>10, <2>1 DEF SetupArrive
    <3> HIDE DEF q
    <3> QED
      BY <1>7, <3>1
  <2>2. CASE ~good
    BY <1>3, <1>10, <2>2 DEF SetupArrive
  <2> QED
    BY <2>1, <2>2
<1>11. ASSUME NEW ip \in Ips, TurnAway(ip) PROVE RateInv'
  <2>1. \A i : Pending(i)' \in SUBSET Pending(i)
    BY <1>11 DEF TurnAway, Pending
  <2> QED
    BY <1>2, <1>11, <2>1 DEF TurnAway
<1>12. ASSUME NEW ip \in Ips, TurnAwayCounted(ip) PROVE RateInv'
  BY <1>3, <1>12 DEF TurnAwayCounted
<1>13. ASSUME UNCHANGED <<entries, refused, reqs>> PROVE RateInv'
  <2>1. \A i : Pending(i)' \in SUBSET Pending(i)
    BY <1>13 DEF Pending
  <2> QED
    BY <1>1, <1>13, <2>1
<1>14. ASSUME NEW s \in 1..opened, Visit(s) \/ Logout(s) PROVE RateInv'
  BY <1>13, <1>14 DEF Visit, Logout
<1>15. ASSUME NEW s \in 1..opened, NEW r \in Requests, Submit(r, s) PROVE RateInv'
  <2> DEFINE q == [pc |-> "write", dead |-> s \notin DOMAIN sessions \/ sessions[s] = 0]
  <2>1. reqs' = [reqs EXCEPT ![r] = q] /\ UNCHANGED <<entries, refused>>
    BY <1>15 DEF Submit
  <2>2. q.pc = "write"
    OBVIOUS
  <2> HIDE DEF q
  <2> QED
    BY <1>5, <2>1, <2>2
<1>16. CASE Tick
  BY <1>16, RateTicked
<1>17. CASE Restart
  <2>1. Blank'
    BY <1>17 DEF Restart, Blank
  <2> QED
    BY <2>1, RateStarts, PTL
<1>18. CASE UNCHANGED vars
  BY <1>13, <1>18 DEF vars
<1> QED
  BY <1>6, <1>8, <1>9, <1>10, <1>11, <1>12, <1>14, <1>15, <1>16, <1>17, <1>18 DEF Next

(* However requests overlap, the keys checked and refused for one address in    *)
(* any stretch of Window are bounded: two counting windows may meet in it, and   *)
(* the requests that were let in before a lock come on top twice (recordFailure *)
(* and lockedRetryAfter).                                                       *)
THEOREM GuessesBounded == Spec => []GuessRate
<1>1. Init => ClockInv /\ RateInv
  BY AccessAssumption, RateStarts DEF Init, ClockInv, Blank
<1>2. ClockInv /\ RateInv => GuessRate
  <2> SUFFICES ASSUME ClockInv, RateInv, NEW ip \in Ips
               PROVE  Cardinality(refused[ip]) <= 2 * MaxFailures - 1 + 2 * (N - 1)
    BY DEF GuessRate, N
  <2> DEFINE e == EntryOf(entries, ip)
             p == Cardinality(Pending(ip))
             g == Cardinality(refused[ip])
  <2>1. /\ e \in Entry /\ Rate(e, refused[ip], p) /\ refused[ip] \in Log
        /\ Pending(ip) \in SUBSET Requests
    BY EntryTyped DEF RateInv, RateOf, Pending
  <2>2. p \in Nat /\ g \in Nat
    <3>1. p \in 0..N
      BY <2>1, SomeRequests
    <3>2. 0 \in Nat /\ g \in Nat
      BY <2>1, RecentCounts
    <3> QED
      BY <3>1, <3>2, SlotsCounted
  <2>3. /\ e.lock = -1 => g <= e.failures + MaxFailures + N - 2
        /\ e.lock > 0 => g + p <= 2 * MaxFailures + 2 * N - 3
        /\ e.lock = 0 => g + p <= N
    BY <2>1 DEF Rate, Unlocked
  <2>4. e.failures \in 0..MaxFailures-1 /\ e.lock \in -1..Window
    BY <2>1 DEF Entry, Unlocked
  <2>5. MaxFailures \in Nat \ {0} /\ Window \in Nat
    BY AccessAssumption
  <2> HIDE DEF e, p, g
  <2>6. CASE e.lock = -1
    <3>1. g <= e.failures + MaxFailures + N - 2
      BY <2>3, <2>6
    <3> QED
      BY <2>2, <2>4, <2>5, <3>1, SlotsCounted DEF g
  <2>7. CASE e.lock > 0
    <3>1. g + p <= 2 * MaxFailures + 2 * N - 3
      BY <2>3, <2>7
    <3> QED
      BY <2>2, <2>5, <3>1, SlotsCounted DEF g
  <2>8. CASE e.lock = 0
    <3>1. g + p <= N
      BY <2>3, <2>8
    <3> QED
      BY <2>2, <2>5, <3>1, SlotsCounted DEF g
  <2> QED
    BY <2>4, <2>5, <2>6, <2>7, <2>8
<1>3. Spec => [](IInv /\ ClockInv /\ RateInv)
  BY <1>1, IInvAlways, ClockStep, RateStep, PTL DEF Spec
<1> QED
  BY <1>2, <1>3, PTL

=============================================================================
