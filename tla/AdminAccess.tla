---------------------------- MODULE AdminAccess ----------------------------
(***************************************************************************)
(* Who may use the registrar: the per-address limiter (rate-limit.ts), the  *)
(* key checks of the owner, device and mesh-enrol routes (admin-auth.ts,    *)
(* app.ts), the console's sessions (session.ts), the first-run setup and    *)
(* the console forms that mint and revoke keys (admin.ts).                  *)
(*                                                                         *)
(* A request is served in steps, one per await: everything up to the first  *)
(* await, the read of the key rows, the verdict after the hash comparisons, *)
(* the write.  Times are kept as differences to the present (the age of a   *)
(* window, what is left of a lock or of a session), so that time goes on    *)
(* for ever in finitely many states.                                        *)
(***************************************************************************)
EXTENDS Integers, FiniteSets, Functions

CONSTANTS Requests,     \* slots for requests served at the same time
          Ips,          \* source addresses
          Window,       \* rateLimitWindowMs
          MaxFailures,  \* rateLimitMaxFailures
          SessionTtl,   \* SESSION_TTL_MS
          MaxKeys,      \* bound: keys ever minted for the owner and the mesh
          MaxDeviceKeys,
          MaxSessions   \* bound: sessions ever created

ASSUME AccessAssumption ==
    /\ Window \in Nat \ {0} /\ MaxFailures \in Nat \ {0} /\ SessionTtl \in Nat \ {0}
    /\ Requests # {} /\ IsFiniteSet(Requests)
    /\ MaxKeys \in Nat /\ MaxDeviceKeys \in Nat \ {0} /\ MaxSessions \in Nat

VARIABLES
    adminKeys,       \* rows of admin_keys
    meshEnrollKeys,  \* rows of mesh_enroll_keys (of one agent name)
    deviceKey,       \* the key of the one devices row (0: no row); it replaced those before it
    minted,          \* how many keys of each prefix there have been
    entries,         \* AuthRateLimiter.entries
    sessions,        \* SessionManager.sessions: what is left of each
    opened,          \* how many sessions there have been
    reqs,            \* the requests being served
    refused          \* history: keys checked and refused, as <<ticks ago, which of that tick>>

keys == <<adminKeys, meshEnrollKeys, deviceKey, minted>>
vars == <<keys, entries, sessions, opened, reqs, refused>>

Unlocked == -1
Idle == [pc |-> "idle"]
Reply(r) == [reqs EXCEPT ![r] = Idle]

-----------------------------------------------------------------------------
(* rate-limit.ts *)

Locked(ip) == ip \in DOMAIN entries /\ entries[ip].lock > 0

\* lockedRetryAfter of an address that is free: a lock that has run out takes its entry along.
Freed(ip) == IF ip \in DOMAIN entries /\ entries[ip].lock = 0
             THEN Restrict(entries, DOMAIN entries \ {ip})
             ELSE entries

Fresh == [failures |-> 0, age |-> 0, lock |-> Unlocked]
EntryOf(es, ip) == IF ip \in DOMAIN es THEN es[ip] ELSE Fresh

\* recordFailure, on the entry of an address.
Counted(e) ==
    LET w == IF e.age > Window THEN [e EXCEPT !.failures = 0, !.age = 0] ELSE e
    IN  IF w.failures + 1 >= MaxFailures
        THEN [failures |-> 0, age |-> 0, lock |-> Window]
        ELSE [w EXCEPT !.failures = @ + 1]

Failed(es, ip) ==
    [i \in DOMAIN es \cup {ip} |-> IF i = ip THEN Counted(EntryOf(es, ip)) ELSE es[i]]

-----------------------------------------------------------------------------
(* Routes that ask for a key: the console's login form, the owner API, the  *)
(* device API and the mesh-enrol API.                                       *)

KeyRoutes == {"login", "owner", "device", "mesh"}

\* The keys of the prefix a route asks for, those that were revoked or replaced included.
Known(route) == CASE route \in {"login", "owner"} -> 1..minted.ak
                  [] route = "mesh" -> 1..minted.mk
                  [] route = "device" -> 1..deviceKey

Rows(route) == CASE route \in {"login", "owner"} -> adminKeys
                 [] route = "mesh" -> meshEnrollKeys
                 [] route = "device" -> {deviceKey} \ {0}

\* A request with a key that was minted for its route some time.
Arrive(r, route, ip, k) ==
    /\ reqs[r] = Idle
    /\ ~Locked(ip)
    /\ entries' = Freed(ip)
    /\ reqs' = [reqs EXCEPT ![r] = [pc |-> "select", route |-> route, ip |-> ip, key |-> k,
                                    dead |-> k \notin Rows(route)]]
    /\ UNCHANGED <<keys, sessions, opened, refused>>

\* Mutant: the lock is not asked.
GuessAnyway(r, ip) ==
    /\ reqs[r] = Idle
    /\ entries' = Freed(ip)
    /\ reqs' = [reqs EXCEPT ![r] = [pc |-> "refuse", ip |-> ip]]
    /\ UNCHANGED <<keys, sessions, opened, refused>>

\* A request with a key that never was, or an owner request with a mesh key: it is compared
\* with the rows and matches none.
Guess(r, ip) ==
    /\ reqs[r] = Idle
    /\ ~Locked(ip)
    /\ entries' = Freed(ip)
    /\ reqs' = [reqs EXCEPT ![r] = [pc |-> "refuse", ip |-> ip]]
    /\ UNCHANGED <<keys, sessions, opened, refused>>

\* Turned away without a look at the rows, free of charge: a body that does not parse, a
\* login form without its token.
TurnAway(ip) ==
    /\ ~Locked(ip)
    /\ entries' = Freed(ip)
    /\ UNCHANGED <<keys, sessions, opened, reqs, refused>>

\* Mutant: what is refused because of the lock is counted as well.
CountLocked(ip) ==
    /\ entries' = Failed(Freed(ip), ip)
    /\ UNCHANGED <<keys, sessions, opened, reqs, refused>>

\* Counted: a device request without a key, a device key on an owner route, a key without
\* the mesh prefix on the mesh route.
TurnAwayCounted(ip) ==
    /\ ~Locked(ip)
    /\ entries' = Failed(Freed(ip), ip)
    /\ UNCHANGED <<keys, sessions, opened, reqs, refused>>

\* Mutant: the prefix decides; that the key was revoked or replaced is not seen.
SelectByPrefix(r) ==
    /\ reqs[r].pc = "select"
    /\ reqs' = [reqs EXCEPT ![r] = [pc |-> "accept", login |-> @.route = "login", dead |-> @.dead]]
    /\ UNCHANGED <<keys, entries, sessions, opened, refused>>

\* The rows are read now, compared one by one later.
Select(r) ==
    /\ reqs[r].pc = "select"
    /\ reqs' = [reqs EXCEPT ![r] =
         IF @.key \in Rows(@.route)
         THEN [pc |-> "accept", login |-> @.route = "login", dead |-> @.dead]
         ELSE [pc |-> "refuse", ip |-> @.ip]]
    /\ UNCHANGED <<keys, entries, sessions, opened, refused>>

\* Of the refused keys S those of the last n ticks.
Recent(S, n) == {x \in S : x[1] < n}

Refuse(r) ==
    /\ reqs[r].pc = "refuse"
    /\ entries' = Failed(entries, reqs[r].ip)
    /\ refused' = [refused EXCEPT ![reqs[r].ip] = @ \cup {<<0, Cardinality(Recent(@, 1))>>}]
    /\ reqs' = Reply(r)
    /\ UNCHANGED <<keys, sessions, opened>>

\* sessions.create
Open == /\ opened < MaxSessions
        /\ opened' = opened + 1
        /\ sessions' = [s \in DOMAIN sessions \cup {opened'} |->
                          IF s = opened' THEN SessionTtl ELSE sessions[s]]

\* The owner, device and mesh routes go on to what BundleDelivery, A2aKeys and MeshEnroll model.
Accept(r) ==
    /\ reqs[r].pc = "accept"
    /\ IF reqs[r].login THEN Open ELSE UNCHANGED <<sessions, opened>>
    /\ reqs' = Reply(r)
    /\ UNCHANGED <<keys, entries, refused>>

-----------------------------------------------------------------------------
(* First-run setup: count, gate, count again, insert, session. *)

\* A request is taken to arrive when its first count is read; that the table has rows or the
\* address is locked ends it.
SetupArrive(r, ip, good) ==
    /\ reqs[r] = Idle
    /\ adminKeys = {} /\ ~Locked(ip)
    /\ IF good   \* the form carries its token and a label
       THEN entries' = Freed(ip) /\ reqs' = [reqs EXCEPT ![r] = [pc |-> "recount"]]
       ELSE entries' = Failed(Freed(ip), ip) /\ UNCHANGED reqs
    /\ UNCHANGED <<keys, sessions, opened, refused>>

\* Mutant: the first count is enough.
SetupNoRecount(r) ==
    /\ reqs[r].pc = "recount"
    /\ reqs' = [reqs EXCEPT ![r] = [pc |-> "insert", from |-> minted.ak + 1]]
    /\ UNCHANGED <<keys, entries, sessions, opened, refused>>

SetupRecount(r) ==
    /\ reqs[r].pc = "recount"
    /\ reqs' = IF adminKeys # {} THEN Reply(r)
               ELSE [reqs EXCEPT ![r] = [pc |-> "insert", from |-> minted.ak + 1]]
    /\ UNCHANGED <<keys, entries, sessions, opened, refused>>

Mint(prefix) == /\ minted.ak + minted.mk < MaxKeys
                /\ minted' = [minted EXCEPT ![prefix] = @ + 1]

\* One row inserted with a fresh key; the page that answers shows the key once.
MintAdminKey ==
    Mint("ak") /\ adminKeys' = adminKeys \cup {minted'.ak} /\ UNCHANGED <<meshEnrollKeys, deviceKey>>

SetupInsert(r) ==
    /\ reqs[r].pc = "insert"
    /\ MintAdminKey
    /\ reqs' = [reqs EXCEPT ![r] = [pc |-> "session"]]
    /\ UNCHANGED <<entries, sessions, opened, refused>>

SetupSession(r) ==
    /\ reqs[r].pc = "session"
    /\ Open
    /\ reqs' = Reply(r)
    /\ UNCHANGED <<keys, entries, refused>>

-----------------------------------------------------------------------------
(* Console requests: a session, its form token, one write. *)

Live(s) == s \in DOMAIN sessions /\ sessions[s] > 0

\* resolve for a cookie that is not live: a session that has run out is dropped.
Drop(s) == Restrict(sessions, DOMAIN sessions \ {s})

\* Any page or form: a cookie that is no longer good leads to the login page.
Visit(s) ==
    /\ ~Live(s) /\ s \in DOMAIN sessions
    /\ sessions' = Drop(s)
    /\ UNCHANGED <<keys, entries, opened, reqs, refused>>

\* What the form asks for plays no part before its write and is chosen there.
Submit(r, s) ==
    /\ reqs[r] = Idle
    /\ Live(s)
    /\ reqs' = [reqs EXCEPT ![r] = [pc |-> "write",
                                    dead |-> s \notin DOMAIN sessions \/ sessions[s] = 0]]
    /\ UNCHANGED <<keys, entries, sessions, opened, refused>>

Logout(s) ==
    /\ Live(s)
    /\ sessions' = Drop(s)
    /\ UNCHANGED <<keys, entries, opened, reqs, refused>>

MintMeshEnrollKey ==
    /\ meshEnrollKeys = {}   \* agent_name is unique
    /\ Mint("mk") /\ meshEnrollKeys' = {minted'.mk} /\ UNCHANGED <<adminKeys, deviceKey>>

NewDevice ==
    /\ deviceKey = 0         \* balena_uuid and agent_name are unique
    /\ deviceKey' = 1 /\ UNCHANGED <<adminKeys, meshEnrollKeys, minted>>

RegenKey ==
    /\ deviceKey \in 1..MaxDeviceKeys-1
    /\ deviceKey' = deviceKey + 1 /\ UNCHANGED <<adminKeys, meshEnrollKeys, minted>>

RevokeAdminKey(k) ==
    /\ adminKeys' = adminKeys \ {k}
    /\ UNCHANGED <<meshEnrollKeys, deviceKey, minted>>

RevokeMeshEnrollKey(k) ==
    /\ meshEnrollKeys' = meshEnrollKeys \ {k}
    /\ UNCHANGED <<adminKeys, deviceKey, minted>>

Write(r) ==
    /\ reqs[r].pc = "write"
    /\ \/ MintAdminKey \/ MintMeshEnrollKey \/ NewDevice \/ RegenKey
       \/ \E k \in adminKeys : RevokeAdminKey(k)
       \/ \E k \in meshEnrollKeys : RevokeMeshEnrollKey(k)
       \/ UNCHANGED keys     \* refused: a label or name missing, taken or unknown
    /\ reqs' = Reply(r)
    /\ UNCHANGED <<entries, sessions, opened, refused>>

-----------------------------------------------------------------------------
Less(n) == IF n > 0 THEN n - 1 ELSE n

Tick ==
    /\ entries' = [ip \in DOMAIN entries |->
         [entries[ip] EXCEPT !.age = IF @ > Window THEN @ ELSE @ + 1, !.lock = Less(@)]]
    /\ sessions' = [s \in DOMAIN sessions |-> Less(sessions[s])]
    /\ refused' = [ip \in Ips |-> {<<x[1] + 1, x[2]>> : x \in Recent(refused[ip], Window - 1)}]
    /\ UNCHANGED <<keys, opened, reqs>>

\* The limiter and the sessions live in the process.
Restart ==
    /\ entries' = <<>> /\ sessions' = <<>>
    /\ reqs' = [r \in Requests |-> Idle]
    /\ refused' = [ip \in Ips |-> {}]
    /\ UNCHANGED <<keys, opened>>

Init ==
    /\ adminKeys = {} /\ meshEnrollKeys = {} /\ deviceKey = 0 /\ minted = [ak |-> 0, mk |-> 0]
    /\ entries = <<>> /\ sessions = <<>> /\ opened = 0
    /\ reqs = [r \in Requests |-> Idle]
    /\ refused = [ip \in Ips |-> {}]

Handle(r) == \/ Select(r) \/ Refuse(r) \/ Accept(r)
             \/ SetupRecount(r) \/ SetupInsert(r) \/ SetupSession(r)
             \/ Write(r)

Next ==
    \/ \E r \in Requests : Handle(r)
    \/ \E r \in Requests, ip \in Ips :
         \/ \E route \in KeyRoutes : \E k \in Known(route) : Arrive(r, route, ip, k)
         \/ Guess(r, ip)
         \/ \E good \in BOOLEAN : SetupArrive(r, ip, good)
    \/ \E ip \in Ips : TurnAway(ip) \/ TurnAwayCounted(ip)
    \/ \E s \in 1..opened : Visit(s) \/ Logout(s) \/ \E r \in Requests : Submit(r, s)
    \/ Tick \/ Restart

\* Time goes on, whatever the requests do.
Spec == Init /\ [][Next]_vars /\ WF_vars(Tick)

-----------------------------------------------------------------------------
\* Type: every table, map and request keeps its shape; a limiter entry counts fewer
\* failures than would lock it (rate-limit.ts).
TypeOK ==
    /\ adminKeys \subseteq 1..minted.ak /\ meshEnrollKeys \subseteq 1..minted.mk
    /\ minted.ak + minted.mk <= MaxKeys /\ deviceKey \in 0..MaxDeviceKeys
    /\ \A ip \in DOMAIN entries : /\ entries[ip].failures \in 0..MaxFailures-1
                                  /\ entries[ip].age \in 0..Window+1
                                  /\ entries[ip].lock \in Unlocked..Window
    /\ DOMAIN sessions \subseteq 1..opened /\ opened <= MaxSessions
    /\ \A s \in DOMAIN sessions : sessions[s] \in 0..SessionTtl

\* However requests overlap, the number of keys checked and refused for one address in any
\* stretch of Window is bounded.  Two counting windows may meet in it; and as the lock is asked
\* before the hash comparisons and told after them, the other requests under way come on top,
\* once when a lock trips and once when one runs out and takes their failures along
\* (verifyAdminKey, authenticate and meshEnrollGate against recordFailure).
GuessRate == \A ip \in Ips :
    Cardinality(refused[ip]) <= 2 * MaxFailures - 1 + 2 * (Cardinality(Requests) - 1)

\* A locked address is let in again some time, however many requests keep coming from it:
\* what is refused because of the lock does not extend it (lockedRetryAfter first).
LockEnds == \A ip \in Ips : Locked(ip) ~> ~Locked(ip)

\* A request is served only on a credential that was good when it arrived: a key revoked,
\* regenerated or never minted, or a session logged out, run out or lost in a restart is
\* never accepted from a later request ("revokes instantly", meshEnrollGate; "The old key is
\* now invalid", regen-key).
DeadStaysDead == \A r \in Requests :
    reqs[r].pc \in {"accept", "write"} => ~reqs[r].dead

\* A first-run setup about to insert its key can only find keys there that were minted after
\* its own second count: no key that count could see is ever joined by an unauthenticated one.
SetupWindow == \A r \in Requests :
    reqs[r].pc = "insert" => \A k \in adminKeys : k >= reqs[r].from
=============================================================================
