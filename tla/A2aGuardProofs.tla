---------------------------- MODULE A2aGuardProofs ----------------------------
(***************************************************************************)
(* Proofs about A2aGuard, for any peers, keys and inbound handlers, any     *)
(* skew, margin and drift, and any number of files, messages and faults.    *)
(***************************************************************************)
EXTENDS A2aGuard, TLAPS

(* The two requests that are sent, and what else they may come out as.        *)
V1 == [aud |-> "me", method |-> "SendMessage", role |-> "ROLE_USER", kind |-> "absent",
       media |-> "text/plain", config |-> "absent", extra |-> FALSE, messageId |-> TRUE,
       parts |-> <<"t", "u">>]
V0 == [V1 EXCEPT !.method = "message/stream", !.role = "user", !.kind = "message",
                 !.media = "absent"]

(* What either of them is.                                                   *)
Sendable == [aud : {"me"}, method : {"SendMessage", "message/stream"},
             role : {"ROLE_USER", "user"}, kind : {"absent", "message"},
             media : TextMediaTypes, config : {"absent"}, extra : {FALSE},
             messageId : {TRUE}, parts : {<<"t", "u">>}]

Fits(rpc, f) == f.aud = "me" /\ Signable(f) /\ SigningInput(f) = SigningInput(rpc)

(* Both forms of the request the signer sends are of that kind.            *)
LEMMA RequestsAre == Requests \subseteq Sendable
<1>1. Requests = {V1, V0}
  BY DEF Requests, V1, V0
<1>2. V1 \in Sendable
  BY DEF V1, Sendable, TextMediaTypes
<1>3. V0 \in Sendable
  <2>1. "absent" \in TextMediaTypes
    BY DEF TextMediaTypes
  <2> HIDE DEF V1
  <2> QED
    BY <1>2, <2>1, Zenon DEF V0, Sendable
<1> QED
  BY <1>1, <1>2, <1>3

(* A form the gateway may give a request is one its signature fits.           *)
LEMMA ReserialisedFits ==
    ASSUME NEW rpc \in Requests, NEW f \in Reserialised(rpc)
    PROVE  Fits(rpc, f)
<1>1. rpc.aud = "me" /\ rpc.parts = <<"t", "u">> /\ RoleClass(rpc.role) = "user"
      /\ MethodClass(rpc.method) \in {"send", "stream"}
  BY RequestsAre DEF Sendable, RoleClass, MethodClass
<1>2. /\ f.aud = rpc.aud /\ MethodClass(f.method) = MethodClass(rpc.method)
      /\ f.role \in {"ROLE_USER", "user"} /\ f.kind \in {"absent", "message"}
      /\ f.media \in TextMediaTypes /\ f.config \in {"absent", "empty"}
      /\ f.extra = FALSE /\ f.messageId = TRUE /\ f.parts = rpc.parts
  BY DEF Reserialised
<1>3. RoleClass(f.role) = "user"
  BY <1>2 DEF RoleClass
<1>4. f.parts # <<>>
  BY <1>1, <1>2
<1> QED
  BY <1>1, <1>2, <1>3, <1>4 DEF Fits, Signable, SigningInput

(* One whose signature fits although a field was altered is such a form.      *)
LEMMA AlteredFits ==
    ASSUME NEW rpc \in Requests, NEW f \in Altered(rpc), Fits(rpc, f)
    PROVE  f \in Reserialised(rpc)
<1>1. rpc \in Sendable
  BY RequestsAre
<1> USE DEF Sendable
<1>2. /\ f.aud = "me" /\ MethodClass(f.method) = MethodClass(rpc.method)
      /\ RoleClass(f.role) = RoleClass(rpc.role) /\ f.parts = rpc.parts
      /\ f.kind \in {"absent", "message"} /\ f.media \in TextMediaTypes
      /\ f.config \in {"absent", "empty"} /\ ~f.extra /\ f.messageId
  BY DEF Fits, Signable, SigningInput
<1>3. RoleClass(rpc.role) = "user" /\ MethodClass(rpc.method) \in {"send", "stream"}
  BY <1>1 DEF RoleClass, MethodClass
<1>4. CASE \E m \in {"SendMessage", "message/stream", "tasks/get"} : f = [rpc EXCEPT !.method = m]
  <2>1. PICK m \in {"SendMessage", "message/stream", "tasks/get"} : f = [rpc EXCEPT !.method = m]
    BY <1>4
  <2>2. f.method = m /\ m # "tasks/get"
    BY <1>1, <1>2, <1>3, <2>1 DEF MethodClass
  <2>3. /\ f \in [aud: {rpc.aud},
            method: {"SendMessage", "message/send", "SendStreamingMessage", "message/stream"},
            role: {"ROLE_USER", "user"}, kind: {"absent", "message"}, media: TextMediaTypes,
            config: {"absent", "empty"}, extra: {FALSE}, messageId: {TRUE}, parts: {rpc.parts}]
    BY <1>1, <2>1, <2>2
  <2> QED
    BY <1>2, <2>3 DEF Reserialised
<1>5. CASE \E r \in {"ROLE_AGENT", "system"} : f = [rpc EXCEPT !.role = r]
  <2>1. f.role \in {"ROLE_AGENT", "system"}
    BY <1>1, <1>5
  <2>2. RoleClass(f.role) # "user"
    BY <2>1 DEF RoleClass
  <2> QED
    BY <1>2, <1>3, <2>2
<1>6. CASE \E t \in {<<>>, <<"t">>, <<"u", "t">>} : f = [rpc EXCEPT !.parts = t]
  <2>1. f.parts \in {<<>>, <<"t">>, <<"u", "t">>} /\ rpc.parts = <<"t", "u">>
    BY <1>1, <1>6
  <2> QED
    BY <1>2, <2>1
<1>7. CASE f \in {[rpc EXCEPT !.kind = "task"], [rpc EXCEPT !.media = "image/png"],
                  [rpc EXCEPT !.config = "set"], [rpc EXCEPT !.extra = TRUE],
                  [rpc EXCEPT !.messageId = FALSE], [rpc EXCEPT !.aud = "other"]}
  <2>1. \/ f.kind = "task" \/ f.media = "image/png" \/ f.config = "set" \/ f.extra = TRUE
        \/ f.messageId = FALSE \/ f.aud = "other"
    BY <1>1, <1>7
  <2> QED
    BY <1>2, <2>1 DEF TextMediaTypes
<1> QED
  BY <1>4, <1>5, <1>6, <1>7 DEF Altered

(* So of whatever arrives the signature fits exactly the honest forms.        *)
LEMMA ArrivalsBound ==
    \A a \in Arrivals : a.fits \in BOOLEAN /\ a.honest \in BOOLEAN /\ (a.fits <=> a.honest)
<1> TAKE a \in Arrivals
<1>1. PICK rpc \in Requests : \E f \in Reserialised(rpc) \union Altered(rpc) :
           a = [fits |-> Fits(rpc, f), honest |-> f \in Reserialised(rpc)]
  BY Zenon DEF Arrivals, Fits
<1>0. PICK f \in Reserialised(rpc) \union Altered(rpc) :
           a = [fits |-> Fits(rpc, f), honest |-> f \in Reserialised(rpc)]
  BY <1>1
<1>2. Fits(rpc, f) <=> f \in Reserialised(rpc)
  BY ReserialisedFits, AlteredFits
<1>3. Fits(rpc, f) \in BOOLEAN
  BY DEF Fits
<1> QED
  BY <1>0, <1>2, <1>3
-------------------------------------------------------------------------------
(* The main loop runs in a process that is up, on files that are there; what  *)
(* it is about to commit, and what is in force, was well-formed.              *)
LoopInv ==
    /\ files \in Seq(File) /\ Current >= 1
    /\ secret \in BOOLEAN
    /\ wired \in [on: BOOLEAN, tokens: SUBSET Peers]
    /\ guard \in [up: BOOLEAN, file: 0..Current, tokens: SUBSET Peers, stamp: 0..Current]
    /\ guard.up => guard.file # 0 /\ files[guard.file].good
    /\ main.pc \in {"wait", "stamp", "read", "commit", "failed"}
    /\ main.pc # "wait" => guard.up
    /\ main.pc \in {"stamp", "read", "failed"} => main.seen \in 0..Current
    /\ main.pc \in {"read", "commit"} => main.stamp \in 0..Current
    /\ main.pc = "commit" => main.file \in 1..Current /\ files[main.file].good
    /\ status \in 1..Current

(* What is loaded is the file there, and it is well-formed.                   *)
LEMMA LoadedGood ==
    ASSUME LoopInv, Loadable
    PROVE  /\ Loaded(Current, Current) \in [up: BOOLEAN, file: 0..Current,
                                            tokens: SUBSET Peers, stamp: 0..Current]
           /\ Loaded(Current, Current).file = Current /\ Current \in 1..Current
           /\ files[Current].good
BY DEF LoopInv, Loadable, Loaded, Current

(* Every action keeps the loop's promises.                                    *)
LEMMA LoopStep == LoopInv /\ [Next]_vars => LoopInv'
<1> SUFFICES ASSUME LoopInv, [Next]_vars PROVE LoopInv'
  OBVIOUS
<1> USE DEF Wait
<1>0. ASSUME UNCHANGED <<volume, guard, main, status>> PROVE LoopInv'
  BY <1>0 DEF LoopInv, volume, Current
<1>1. ASSUME NEW p \in Peers, NEW key \in Keys, NEW ts \in 0..(MaxClock + Drift), Sign(p, key, ts)
      PROVE  LoopInv'
  BY <1>0, <1>1 DEF Sign
<1>2. ASSUME NEW h \in Handlers, NEW m \in DOMAIN sent, NEW arrival \in Arrivals,
             Receive(h, m, arrival)
      PROVE  LoopInv'
  BY <1>0, <1>2 DEF Receive
<1>3. ASSUME NEW h \in Handlers, Verify(h) \/ Relay(h) PROVE LoopInv'
  BY <1>0, <1>3 DEF Verify, Relay
<1>4. CASE Tick
  <2>1. guard.up /\ UNCHANGED <<volume, guard>>
    BY <1>4 DEF Tick
  <2>2. CASE status' = guard.file /\ UNCHANGED main
    BY <2>1, <2>2 DEF LoopInv, volume, Current
  <2>3. CASE main' = [pc |-> "stamp", seen |-> Current] /\ UNCHANGED status
    <3>1. Current \in 0..Current
      BY DEF LoopInv, Current
    <3> QED
      BY <2>1, <2>3, <3>1 DEF LoopInv, volume, Current
  <2> QED
    BY <1>4, <2>2, <2>3 DEF Tick
<1>5. CASE ReloadStamp
  <2>1. Current \in 0..Current
    BY DEF LoopInv, Current
  <2>2. /\ UNCHANGED <<volume, guard, status>> /\ main.pc = "stamp"
        /\ main' = [pc |-> "read", seen |-> main.seen, stamp |-> Current]
    BY <1>5 DEF ReloadStamp
  <2> QED
    BY <2>1, <2>2 DEF LoopInv, volume, Current
<1>6. CASE ReloadRead
  <2>1. UNCHANGED <<volume, guard, status>> /\ main.pc = "read"
    BY <1>6 DEF ReloadRead
  <2>2. CASE Loadable
    <3>1. main' = [pc |-> "commit", file |-> Current, stamp |-> main.stamp]
      BY <1>6, <2>2 DEF ReloadRead
    <3>2. Current \in 1..Current /\ files[Current].good
      BY <2>2, LoadedGood
    <3> QED
      BY <2>1, <3>1, <3>2 DEF LoopInv, volume, Current
  <2>3. CASE ~Loadable
    <3>1. main' = [pc |-> "failed", seen |-> main.seen]
      BY <1>6, <2>3 DEF ReloadRead
    <3> QED
      BY <2>1, <3>1 DEF LoopInv, volume, Current
  <2> QED
    BY <2>2, <2>3
<1>7. CASE ReloadCommit
  <2>1. /\ main.pc = "commit" /\ UNCHANGED volume
        /\ guard' = [up |-> TRUE, file |-> main.file, tokens |-> wired.tokens, stamp |-> main.stamp]
        /\ status' = main.file /\ main' = [pc |-> "wait"]
    BY <1>7 DEF ReloadCommit, Loaded
  <2> QED
    BY <2>1 DEF LoopInv, volume, Current
<1>8. CASE ReloadFailed
  <2>1. /\ main.pc = "failed" /\ UNCHANGED volume
        /\ guard' = [guard EXCEPT !.stamp = main.seen]
        /\ status' = guard.file /\ main' = [pc |-> "wait"]
    BY <1>8 DEF ReloadFailed
  <2> QED
    BY <2>1 DEF LoopInv, volume, Current
<1>e. ASSUME Ends, UNCHANGED <<files, status>>, secret' \in BOOLEAN,
             wired' \in [on: BOOLEAN, tokens: SUBSET Peers]
      PROVE  LoopInv'
  <2>1. guard' = [up |-> FALSE, file |-> 0, tokens |-> {}, stamp |-> 0] /\ main' = [pc |-> "wait"]
    BY <1>e DEF Ends, Down
  <2> QED
    BY <1>e, <2>1 DEF LoopInv, Current
<1>l. ASSUME Loadable, guard' = Loaded(Current, Current), UNCHANGED <<volume, main>>,
             status' \in {status, Current}
      PROVE  LoopInv'
  <2>1. guard'.file = Current /\ guard'.up
    BY <1>l DEF Loaded
  <2>2. Current \in 1..Current /\ files[Current].good /\ Current # 0
        /\ guard' \in [up: BOOLEAN, file: 0..Current, tokens: SUBSET Peers, stamp: 0..Current]
    BY <1>l, LoadedGood
  <2>3. Current' = Current
    BY <1>l DEF volume, Current
  <2> QED
    BY <1>l, <2>1, <2>2, <2>3 DEF LoopInv, volume
<1>9. CASE Serve
  BY <1>l, <1>9 DEF Serve
<1>10. CASE Sighup
  BY <1>l, <1>e, <1>10 DEF Sighup, volume, LoopInv
<1>11. CASE Crash
  BY <1>e, <1>11 DEF Crash, volume, LoopInv
<1>12. ASSUME NEW file \in File, Rewrite(file) PROVE LoopInv'
  <2>1. /\ files' = Append(files, file) /\ files \in Seq(File)
        /\ UNCHANGED <<secret, wired, guard, main, status>>
    BY <1>12 DEF Rewrite, LoopInv
  <2>2. /\ files' \in Seq(File) /\ Len(files') = Len(files) + 1 /\ Len(files) \in Nat
        /\ \A i \in 1..Len(files) : files'[i] = files[i]
    BY <2>1
  <2> QED
    BY <2>1, <2>2 DEF LoopInv, Current
<1>13. CASE Chmod
  BY <1>13 DEF Chmod, LoopInv, Current
<1>14. CASE Recreate
  <2>1. Wiring(files[Current]) \in [on: BOOLEAN, tokens: SUBSET Peers]
    BY DEF LoopInv, Wiring
  <2>2. secret' \in BOOLEAN
    BY <1>14 DEF Recreate
  <2> QED
    BY <1>e, <1>14, <2>1, <2>2 DEF Recreate
<1>15. CASE Advance
  BY <1>0, <1>15 DEF Advance
<1>16. CASE UNCHANGED vars
  BY <1>0, <1>16 DEF vars
<1> QED
  BY <1>1, <1>2, <1>3, <1>4, <1>5, <1>6, <1>7, <1>8, <1>9, <1>10, <1>11, <1>12, <1>13,
     <1>14, <1>15, <1>16 DEF Next, MainLoop

(* They hold in every state.                                                  *)
LEMMA LoopAlways == Spec => []LoopInv
<1>1. Init => LoopInv
  <2> SUFFICES ASSUME Init PROVE LoopInv
    OBVIOUS
  <2> DEFINE first == [keys |-> [p \in Peers |-> CHOOSE k \in Keys : TRUE], good |-> TRUE]
  <2>1. (CHOOSE k \in Keys : TRUE) \in Keys
    BY GuardAssumption
  <2>2. first \in File
    BY <2>1 DEF File
  <2>3. files = <<first>> /\ first.good
    BY DEF Init
  <2> HIDE DEF first
  <2>4. files \in Seq(File) /\ Len(files) = 1 /\ files[1] = first
    BY <2>2, <2>3
  <2> QED
    BY <2>3, <2>4 DEF Init, LoopInv, Current, Loaded, Wait
<1> QED
  BY <1>1, LoopStep, PTL DEF Spec

(* However a reload, a signal, a crash and a new file interleave, the guard   *)
(* never runs on a malformed a2a.json (vs-a2a-guard.py reload).               *)
THEOREM MalformedNeverInForce == Spec => []GoodInForce
<1>1. LoopInv => GoodInForce
  BY DEF LoopInv, GoodInForce
<1> QED
  BY <1>1, LoopAlways, PTL
-------------------------------------------------------------------------------
(* Messages, the clock and the locals of the handlers.                        *)
Signed == [kid: Peers, key: Keys, ts: Nat]

MsgInv ==
    /\ clock \in 0..MaxClock /\ faults \in 0..MaxFaults
    /\ sent \in Seq(Signed) /\ passed \in Seq(Nat) /\ Len(passed) = Len(sent)
    /\ DOMAIN handler = Handlers
    /\ \A n \in nonces : n.msg \in 1..Len(sent) /\ n.exp \in Nat

(* A handler inside verify read the clock at most Lag ago.                    *)
VerifyInv == \A h \in Handlers : handler[h].pc = "verify" =>
    /\ handler[h].msg \in 1..Len(sent)
    /\ handler[h].now \in Nat /\ handler[h].now <= clock /\ clock <= handler[h].now + Lag
    /\ handler[h].fits <=> handler[h].honest

(* A message about to be relayed is the first of its kind.                    *)
TokenInv == \A h \in Handlers : handler[h].pc = "token" =>
    /\ handler[h].msg \in 1..Len(sent) /\ passed[handler[h].msg] = 0
    /\ handler[h].honest
    /\ \A g \in Handlers : handler[g].pc = "token" /\ handler[g].msg = handler[h].msg => g = h

(* No verify that is under way or to come can accept message m: its nonce is  *)
(* kept for as long as its timestamp is accepted, or that is over, by more    *)
(* than a handler can lag.                                                    *)
Burnt(m) == \/ clock > sent[m].ts + Skew + Margin
            \/ \E n \in nonces : n.msg = m /\ n.exp >= sent[m].ts + Skew + Margin

BurntInv == \A m \in 1..Len(sent) :
    \/ passed[m] > 0
    \/ \E h \in Handlers : handler[h].pc = "token" /\ handler[h].msg = m
    => Burnt(m)

OnceInv == \A m \in 1..Len(sent) : passed[m] <= 1

UniqueInv == \A n, o \in nonces : n.msg = o.msg => n = o

ReplayInv == MsgInv /\ VerifyInv /\ TokenInv /\ BurntInv /\ OnceInv /\ UniqueInv

(* The timestamp of a message is a number.                                    *)
LEMMA TsType ==
    ASSUME MsgInv, NEW m \in 1..Len(sent)
    PROVE  sent[m].ts \in Nat
<1>1. sent[m] \in Signed
  BY DEF MsgInv
<1> QED
  BY <1>1 DEF Signed

(* The arithmetic of the replay window, with what a handler may lag.          *)
LEMMA WindowArith ==
    ASSUME NEW ts \in Nat, NEW t \in Nat, NEW c \in Nat
    PROVE  /\ t <= ts + Skew /\ c <= t + Lag => c <= ts + Skew + Margin
           /\ t <= ts + Skew => \A e \in Nat : e >= ts + Skew + Margin => e >= t
           /\ ts <= t + Skew => t + Ttl \in Nat /\ t + Ttl >= ts + Skew + Margin
           /\ \A e \in Nat : e >= ts + Skew + Margin /\ ~(e >= t) /\ t <= c
                             => c > ts + Skew + Margin
BY GuardAssumption DEF Ttl

(* A message whose nonce is used up passes no verify.                         *)
LEMMA BurntRefused ==
    ASSUME ReplayInv, NEW h \in Handlers, handler[h].pc = "verify",
           Burnt(handler[h].msg), InWindow(handler[h].now, sent[handler[h].msg].ts)
    PROVE  ~CheckAndAdd(handler[h].msg, handler[h].now).ok
<1> DEFINE m == handler[h].msg
           t == handler[h].now
           ts == sent[m].ts
<1>1. /\ t \in Nat /\ clock <= t + Lag /\ m \in 1..Len(sent) /\ clock \in Nat
  BY GuardAssumption DEF ReplayInv, VerifyInv, MsgInv
<1>2. ts \in Nat
  BY <1>1, TsType DEF ReplayInv
<1>3. t <= ts + Skew
  BY DEF InWindow
<1>b. \/ clock > ts + Skew + Margin
      \/ \E n \in nonces : n.msg = m /\ n.exp >= ts + Skew + Margin
  BY DEF Burnt
<1>n. \A n \in nonces : n.exp \in Nat
  BY DEF ReplayInv, MsgInv
<1>c. (\E n \in nonces : n.exp >= t /\ n.msg = m) => ~CheckAndAdd(m, t).ok
  BY DEF CheckAndAdd
<1> HIDE DEF ts, t, m
<1>4. clock <= ts + Skew + Margin
  BY <1>1, <1>2, <1>3, WindowArith
<1>5. PICK n \in nonces : n.msg = m /\ n.exp >= ts + Skew + Margin
  BY <1>1, <1>2, <1>4, <1>b, GuardAssumption
<1>7. n.exp >= t
  BY <1>1, <1>2, <1>3, <1>5, <1>n, WindowArith
<1>8. ~CheckAndAdd(m, t).ok
  BY <1>5, <1>7, <1>c
<1> QED
  BY <1>8 DEF m, t

(* What purging leaves out was out of reach already; what is added is kept    *)
(* long enough.                                                               *)
LEMMA CacheKeeps ==
    ASSUME ReplayInv, NEW h \in Handlers, handler[h].pc = "verify",
           NEW m, m = handler[h].msg, NEW t, t = handler[h].now,
           InWindow(t, sent[m].ts), nonces' = CheckAndAdd(m, t).seen, UNCHANGED <<clock, sent>>
    PROVE  /\ \A n \in nonces' : n.msg \in 1..Len(sent) /\ n.exp \in Nat
           /\ UniqueInv'
           /\ \A i \in 1..Len(sent) : Burnt(i) => Burnt(i)'
           /\ CheckAndAdd(m, t).ok => Burnt(m)'
<1> DEFINE kept == {n \in nonces : n.exp >= t}
           added == [msg |-> m, exp |-> t + Ttl]
<1>1. /\ t \in Nat /\ t <= clock /\ m \in 1..Len(sent) /\ clock \in Nat
  BY GuardAssumption DEF ReplayInv, VerifyInv, MsgInv
<1>2. sent[m].ts \in Nat
  BY <1>1, TsType DEF ReplayInv
<1>3. sent[m].ts <= t + Skew
  BY DEF InWindow
<1>n. \A n \in nonces : n.msg \in 1..Len(sent) /\ n.exp \in Nat
  BY DEF ReplayInv, MsgInv
<1>u. \A n, o \in nonces : n.msg = o.msg => n = o
  BY DEF ReplayInv, UniqueInv
<1>a. added.msg = m /\ added.exp = t + Ttl
  OBVIOUS
<1>o. \/ nonces' = kept /\ ~CheckAndAdd(m, t).ok
      \/ nonces' = kept \union {added} /\ ~\E n \in kept : n.msg = m
  BY DEF CheckAndAdd
<1> HIDE DEF added
<1>4. t + Ttl \in Nat /\ t + Ttl >= sent[m].ts + Skew + Margin
  BY <1>1, <1>2, <1>3, WindowArith
<1>5. ASSUME NEW i \in 1..Len(sent), Burnt(i) PROVE Burnt(i)'
  <2>1. sent[i].ts \in Nat /\ sent' = sent /\ clock' = clock
    BY TsType DEF ReplayInv
  <2>2. CASE clock > sent[i].ts + Skew + Margin
    BY <2>1, <2>2 DEF Burnt
  <2>3. CASE \E n \in nonces : n.msg = i /\ n.exp >= sent[i].ts + Skew + Margin
    <3>1. PICK n \in nonces : n.msg = i /\ n.exp >= sent[i].ts + Skew + Margin
      BY <2>3
    <3>2. CASE n \in kept
      <4>1. n \in nonces'
        BY <1>o, <3>2
      <4> QED
        BY <2>1, <3>1, <4>1 DEF Burnt
    <3>3. CASE n \notin kept
      <4>1. clock > sent[i].ts + Skew + Margin
        BY <1>1, <1>n, <2>1, <3>1, <3>3, WindowArith
      <4> QED
        BY <2>1, <4>1 DEF Burnt
    <3> QED
      BY <3>2, <3>3
  <2> QED
    BY <1>5, <2>2, <2>3 DEF Burnt
<1>6. UniqueInv'
  BY <1>o, <1>u, <1>a DEF UniqueInv
<1>7. \A n \in nonces' : n.msg \in 1..Len(sent) /\ n.exp \in Nat
  BY <1>1, <1>4, <1>o, <1>n, <1>a
<1>8. CheckAndAdd(m, t).ok => Burnt(m)'
  <2> SUFFICES ASSUME CheckAndAdd(m, t).ok PROVE Burnt(m)'
    OBVIOUS
  <2>1. added \in nonces'
    BY <1>o
  <2> QED
    BY <1>4, <1>a, <2>1 DEF Burnt
<1> QED
  BY <1>5, <1>6, <1>7, <1>8

(* A process that ends forgets what it let through together with the nonces.  *)
LEMMA EndsKeeps ==
    ASSUME ReplayInv, Ends, UNCHANGED <<clock, sent>>, faults' \in 0..MaxFaults
    PROVE  ReplayInv'
<1>1. /\ handler' = [h \in Handlers |-> Idle] /\ nonces' = {}
      /\ passed' = [m \in 1..Len(sent) |-> 0] /\ sent' = sent /\ Len(sent) \in Nat
  BY DEF Ends, ReplayInv, MsgInv
<1>2. \A h \in Handlers : handler'[h].pc = "idle"
  BY <1>1 DEF Idle
<1>3. passed' \in Seq(Nat) /\ Len(passed') = Len(sent) /\ \A m \in 1..Len(sent) : passed'[m] = 0
  BY <1>1
<1>4. MsgInv'
  BY <1>1, <1>3 DEF ReplayInv, MsgInv
<1>5. VerifyInv' /\ TokenInv'
  BY <1>2 DEF VerifyInv, TokenInv
<1>6. BurntInv' /\ OnceInv' /\ UniqueInv'
  BY <1>1, <1>2, <1>3 DEF BurntInv, OnceInv, UniqueInv
<1> QED
  BY <1>4, <1>5, <1>6 DEF ReplayInv

(* A newly signed message finds nobody who knows it.                          *)
LEMMA SignKeeps ==
    ASSUME ReplayInv, NEW p \in Peers, NEW key \in Keys, NEW ts \in 0..(MaxClock + Drift),
           Sign(p, key, ts)
    PROVE  ReplayInv'
<1> DEFINE new == [kid |-> p, key |-> key, ts |-> ts]
<1>0. new \in Signed
  BY GuardAssumption DEF Signed
<1>1. /\ sent' = Append(sent, new) /\ passed' = Append(passed, 0)
      /\ UNCHANGED <<clock, handler, nonces, faults>>
  BY DEF Sign
<1> HIDE DEF new
<1>2. /\ sent' \in Seq(Signed) /\ Len(sent') = Len(sent) + 1 /\ Len(sent) \in Nat
      /\ \A i \in 1..Len(sent) : sent'[i] = sent[i]
  BY <1>0, <1>1 DEF ReplayInv, MsgInv
<1>3. /\ passed' \in Seq(Nat) /\ Len(passed') = Len(sent')
      /\ \A i \in 1..Len(sent) : passed'[i] = passed[i]
      /\ passed'[Len(sent) + 1] = 0
  BY <1>1, <1>2 DEF ReplayInv, MsgInv
<1>4. MsgInv'
  BY <1>1, <1>2, <1>3 DEF ReplayInv, MsgInv
<1>5. VerifyInv' /\ TokenInv'
  BY <1>1, <1>2, <1>3 DEF ReplayInv, VerifyInv, TokenInv
<1>6. BurntInv'
  <2> SUFFICES ASSUME NEW m \in 1..Len(sent'),
                      \/ passed'[m] > 0
                      \/ \E h \in Handlers : handler'[h].pc = "token" /\ handler'[h].msg = m
               PROVE  Burnt(m)'
    BY DEF BurntInv
  <2>1. m \in 1..Len(sent)
    <3>1. m \in 1..Len(sent) \/ m = Len(sent) + 1
      BY <1>2
    <3>2. m # Len(sent) + 1
      BY <1>1, <1>2, <1>3 DEF ReplayInv, TokenInv
    <3> QED
      BY <3>1, <3>2
  <2>2. Burnt(m)
    BY <1>1, <1>3, <2>1 DEF ReplayInv, BurntInv
  <2> QED
    BY <1>1, <1>2, <2>1, <2>2 DEF Burnt
<1>7. OnceInv' /\ UniqueInv'
  BY <1>1, <1>2, <1>3 DEF ReplayInv, OnceInv, UniqueInv
<1> QED
  BY <1>4, <1>5, <1>6, <1>7 DEF ReplayInv

(* verify lets one handler on with a message, and only once.                  *)
LEMMA VerifyKeeps == ASSUME ReplayInv, NEW h \in Handlers, Verify(h) PROVE ReplayInv'
<1>0. PICK m, t : m = handler[h].msg /\ t = handler[h].now
  OBVIOUS
<1> DEFINE good == InWindow(t, sent[m].ts) /\ handler[h].known /\ handler[h].fits
           q == [pc |-> "token", msg |-> m, honest |-> handler[h].honest]
<1>1. /\ handler[h].pc = "verify" /\ UNCHANGED <<clock, passed, sent, faults>>
      /\ nonces' = IF good THEN CheckAndAdd(m, t).seen ELSE nonces
      /\ handler' = [handler EXCEPT ![h] = IF good /\ CheckAndAdd(m, t).ok THEN q ELSE Idle]
  BY <1>0 DEF Verify
<1>2. /\ DOMAIN handler = Handlers /\ m \in 1..Len(sent) /\ Len(sent) \in Nat
      /\ passed[m] \in Nat
  BY <1>0, <1>1 DEF ReplayInv, MsgInv, VerifyInv
<1>3. /\ \A n \in nonces' : n.msg \in 1..Len(sent) /\ n.exp \in Nat
      /\ UniqueInv'
      /\ \A i \in 1..Len(sent) : Burnt(i) => Burnt(i)'
      /\ good /\ CheckAndAdd(m, t).ok => Burnt(m)'
  <2>1. CASE good
    BY <1>0, <1>1, <2>1, CacheKeeps
  <2>2. CASE ~good
    <3>1. UNCHANGED <<nonces, clock, sent>>
      BY <1>1, <2>2
    <3> QED
      BY <2>2, <3>1 DEF ReplayInv, MsgInv, UniqueInv, Burnt
  <2> QED
    BY <2>1, <2>2
<1>4. DOMAIN handler' = Handlers /\ \A g \in Handlers \ {h} : handler'[g] = handler[g]
  BY <1>1, <1>2
<1>5. MsgInv' /\ OnceInv'
  BY <1>1, <1>3, <1>4 DEF ReplayInv, MsgInv, OnceInv
<1>6. CASE good /\ CheckAndAdd(m, t).ok
  <2>1. handler'[h] = q
    BY <1>1, <1>2, <1>6
  <2>2. q.pc = "token" /\ q.msg = m /\ q.honest = handler[h].honest
    OBVIOUS
  <2>3. handler[h].honest
    BY <1>1, <1>6 DEF ReplayInv, VerifyInv
  <2>4. ~Burnt(m)
    BY <1>0, <1>1, <1>6, BurntRefused
  <2>5. passed[m] = 0 /\ \A g \in Handlers : ~(handler[g].pc = "token" /\ handler[g].msg = m)
    BY <1>2, <2>4 DEF ReplayInv, BurntInv
  <2> HIDE DEF q, good
  <2>6. VerifyInv'
    BY <1>1, <1>4, <2>1, <2>2 DEF ReplayInv, VerifyInv
  <2>7. TokenInv'
    <3>1. handler'[h].pc = "token" /\ handler'[h].msg = m /\ handler'[h].honest
      BY <2>1, <2>2, <2>3
    <3>2. ASSUME NEW g \in Handlers \ {h}, handler'[g].pc = "token"
          PROVE  /\ handler[g].msg \in 1..Len(sent) /\ passed[handler[g].msg] = 0
                 /\ handler[g].honest /\ handler[g].msg # m
      BY <1>4, <2>5, <3>2 DEF ReplayInv, TokenInv
    <3>3. \A f, g \in Handlers : handler'[f].pc = "token" /\ handler'[g].pc = "token"
                                 /\ handler'[f].msg = handler'[g].msg => f = g
      BY <1>4, <3>1, <3>2 DEF ReplayInv, TokenInv
    <3> QED
      BY <1>1, <1>2, <1>4, <2>5, <3>1, <3>2, <3>3 DEF TokenInv
  <2>8. BurntInv'
    <3> SUFFICES ASSUME NEW i \in 1..Len(sent),
                        \/ passed[i] > 0
                        \/ \E g \in Handlers : handler'[g].pc = "token" /\ handler'[g].msg = i
                 PROVE  Burnt(i)'
      BY <1>1 DEF BurntInv
    <3>1. CASE i = m
      BY <1>3, <1>6, <3>1
    <3>2. CASE i # m
      BY <1>3, <1>4, <2>1, <2>2, <3>2 DEF ReplayInv, BurntInv
    <3> QED
      BY <3>1, <3>2
  <2> QED
    BY <1>3, <1>5, <2>6, <2>7, <2>8 DEF ReplayInv
<1>7. CASE ~(good /\ CheckAndAdd(m, t).ok)
  <2>1. handler'[h].pc = "idle"
    BY <1>1, <1>2, <1>7 DEF Idle
  <2> HIDE DEF good
  <2>2. VerifyInv' /\ TokenInv'
    BY <1>1, <1>4, <2>1 DEF ReplayInv, VerifyInv, TokenInv
  <2>3. BurntInv'
    BY <1>1, <1>3, <1>4, <2>1 DEF ReplayInv, BurntInv
  <2> QED
    BY <1>3, <1>5, <2>2, <2>3 DEF ReplayInv
<1> QED
  BY <1>6, <1>7

(* A relayed message is counted once, and its handler is done with it.        *)
LEMMA RelayKeeps == ASSUME ReplayInv, NEW h \in Handlers, Relay(h) PROVE ReplayInv'
<1>0. PICK m : m = handler[h].msg
  OBVIOUS
<1>1. /\ handler[h].pc = "token" /\ UNCHANGED <<clock, nonces, sent, faults>>
      /\ passed' \in {[passed EXCEPT ![m] = @ + 1], passed}
      /\ handler' = [handler EXCEPT ![h] = Idle]
  BY <1>0 DEF Relay
<1>2. /\ DOMAIN handler = Handlers /\ m \in 1..Len(sent) /\ Len(sent) \in Nat
      /\ passed[m] = 0
  BY <1>0, <1>1 DEF ReplayInv, MsgInv, TokenInv
<1>3. /\ passed' \in Seq(Nat) /\ Len(passed') = Len(sent) /\ passed'[m] \in {0, 1}
      /\ \A i \in 1..Len(sent) : i # m => passed'[i] = passed[i]
  BY <1>1, <1>2 DEF ReplayInv, MsgInv
<1>4. /\ DOMAIN handler' = Handlers /\ handler'[h].pc = "idle"
      /\ \A g \in Handlers \ {h} : handler'[g] = handler[g]
  BY <1>1, <1>2 DEF Idle
<1>5. MsgInv'
  BY <1>1, <1>3, <1>4 DEF ReplayInv, MsgInv
<1>6. VerifyInv'
  BY <1>1, <1>4 DEF ReplayInv, VerifyInv
<1>7. TokenInv'
  BY <1>0, <1>1, <1>3, <1>4 DEF ReplayInv, TokenInv
<1>8. BurntInv'
  <2>1. \A i \in 1..Len(sent) : Burnt(i)' = Burnt(i)
    BY <1>1 DEF Burnt
  <2>2. Burnt(m)
    BY <1>0, <1>1, <1>2 DEF ReplayInv, BurntInv
  <2> QED
    BY <1>1, <1>3, <1>4, <2>1, <2>2 DEF ReplayInv, BurntInv
<1>9. OnceInv' /\ UniqueInv'
  BY <1>1, <1>2, <1>3 DEF ReplayInv, OnceInv, UniqueInv
<1> QED
  BY <1>5, <1>6, <1>7, <1>8, <1>9 DEF ReplayInv

(* Every action keeps a message from passing twice.                           *)
LEMMA ReplayStep == ReplayInv /\ [Next]_vars => ReplayInv'
<1> SUFFICES ASSUME ReplayInv, [Next]_vars PROVE ReplayInv'
  OBVIOUS
<1>f. MaxFaults \in Nat /\ faults \in 0..MaxFaults
  BY GuardAssumption DEF ReplayInv, MsgInv
<1>0. ASSUME UNCHANGED <<clock, inbound, sent>>, faults' \in 0..MaxFaults PROVE ReplayInv'
  <2>1. UNCHANGED <<clock, handler, nonces, passed, sent>>
    BY <1>0 DEF inbound
  <2> QED
    BY <1>0, <2>1 DEF ReplayInv, MsgInv, VerifyInv, TokenInv, BurntInv, OnceInv, UniqueInv, Burnt
<1>1. ASSUME NEW p \in Peers, NEW key \in Keys, NEW ts \in 0..(MaxClock + Drift), Sign(p, key, ts)
      PROVE  ReplayInv'
  BY <1>1, SignKeeps
<1>2. ASSUME NEW h \in Handlers, NEW m \in DOMAIN sent, NEW arrival \in Arrivals,
             Receive(h, m, arrival)
      PROVE  ReplayInv'
  <2> DEFINE q == [pc |-> "verify", msg |-> m, now |-> clock,
                   known |-> Registered(guard.file, sent[m].kid, sent[m].key),
                   fits |-> arrival.fits, honest |-> arrival.honest]
  <2>1. /\ handler' = [handler EXCEPT ![h] = q] /\ UNCHANGED <<clock, nonces, passed, sent, faults>>
        /\ handler[h] = Idle
    BY <1>2 DEF Receive
  <2>2. q.pc = "verify" /\ q.msg = m /\ q.now = clock /\ (q.fits <=> q.honest)
    BY ArrivalsBound
  <2>3. m \in 1..Len(sent) /\ clock \in Nat /\ DOMAIN handler = Handlers
    BY GuardAssumption DEF ReplayInv, MsgInv
  <2> HIDE DEF q
  <2>4. /\ DOMAIN handler' = Handlers /\ handler'[h] = q
        /\ \A g \in Handlers \ {h} : handler'[g] = handler[g]
    BY <2>1, <2>3
  <2>5. MsgInv' /\ OnceInv' /\ UniqueInv'
    BY <2>1, <2>4 DEF ReplayInv, MsgInv, OnceInv, UniqueInv
  <2>6. VerifyInv'
    BY <2>1, <2>2, <2>3, <2>4, GuardAssumption DEF ReplayInv, VerifyInv
  <2>7. TokenInv'
    BY <2>1, <2>2, <2>4 DEF ReplayInv, TokenInv
  <2>8. BurntInv'
    BY <2>1, <2>2, <2>4 DEF ReplayInv, BurntInv, Burnt
  <2> QED
    BY <2>5, <2>6, <2>7, <2>8 DEF ReplayInv
<1>3. ASSUME NEW h \in Handlers, Verify(h) \/ Relay(h) PROVE ReplayInv'
  BY <1>3, VerifyKeeps, RelayKeeps
<1>4. CASE MainLoop \/ Serve
  BY <1>0, <1>4, <1>f DEF MainLoop, Tick, ReloadStamp, ReloadRead, ReloadCommit, ReloadFailed, Serve
<1>5. CASE Sighup
  BY <1>0, <1>5, <1>f, EndsKeeps DEF Sighup
<1>6. CASE Crash \/ Recreate
  BY <1>6, <1>f, EndsKeeps DEF Crash, Recreate
<1>7. CASE Chmod \/ \E file \in File : Rewrite(file)
  BY <1>0, <1>7, <1>f DEF Chmod, Rewrite
<1>8. CASE Advance
  <2>1. /\ clock' = clock + 1 /\ clock < MaxClock /\ UNCHANGED <<handler, nonces, passed, sent, faults>>
        /\ \A h \in Handlers : handler[h].pc = "verify" => clock - handler[h].now < Lag
    BY <1>8 DEF Advance, inbound
  <2>2. clock \in Nat /\ MaxClock \in Nat
    BY GuardAssumption DEF ReplayInv, MsgInv
  <2>3. MsgInv' /\ OnceInv' /\ UniqueInv' /\ TokenInv'
    BY <2>1, <2>2 DEF ReplayInv, MsgInv, OnceInv, UniqueInv, TokenInv
  <2>4. VerifyInv'
    BY <2>1, <2>2, GuardAssumption DEF ReplayInv, VerifyInv
  <2>5. \A i \in 1..Len(sent) : Burnt(i) => Burnt(i)'
    <3> TAKE i \in 1..Len(sent)
    <3>1. sent[i].ts \in Nat
      BY TsType DEF ReplayInv
    <3> QED
      BY <2>1, <2>2, <3>1, GuardAssumption DEF Burnt
  <2>6. BurntInv'
    BY <2>1, <2>5 DEF ReplayInv, BurntInv
  <2> QED
    BY <2>3, <2>4, <2>6 DEF ReplayInv
<1>9. CASE UNCHANGED vars
  BY <1>0, <1>9, <1>f DEF vars
<1> QED
  BY <1>1, <1>2, <1>3, <1>4, <1>5, <1>6, <1>7, <1>8, <1>9 DEF Next

(* None does, in any state.                                                   *)
LEMMA ReplayAlways == Spec => []ReplayInv
<1>1. Init => ReplayInv
  <2> SUFFICES ASSUME Init PROVE ReplayInv
    OBVIOUS
  <2>1. sent = <<>> /\ passed = <<>> /\ nonces = {} /\ clock = Drift /\ faults = 0
    BY DEF Init
  <2>2. DOMAIN handler = Handlers /\ \A h \in Handlers : handler[h].pc = "idle"
    BY DEF Init, Idle
  <2>3. MsgInv
    BY <2>1, <2>2, GuardAssumption DEF MsgInv
  <2> QED
    BY <2>1, <2>2, <2>3 DEF ReplayInv, VerifyInv, TokenInv, BurntInv, OnceInv, UniqueInv
<1> QED
  BY <1>1, ReplayStep, PTL DEF Spec

(* For any skew, and any margin no smaller than what a handler may lag, one    *)
(* process lets one signed message through once (NonceCache.check_and_add).   *)
THEOREM NeverReplayed == Spec => []NoReplay
<1>1. ReplayInv => NoReplay
  <2> SUFFICES ASSUME ReplayInv PROVE NoReplay
    OBVIOUS
  <2>1. DOMAIN passed = 1..Len(sent)
    BY DEF ReplayInv, MsgInv
  <2> QED
    BY <2>1 DEF ReplayInv, OnceInv, NoReplay
<1> QED
  BY <1>1, ReplayAlways, PTL

(* What gets past verify is one of the forms the gateway may give what was    *)
(* signed (canonical_content).                                                *)
THEOREM OnlySignedContent == Spec => []ContentBound
<1>1. ReplayInv => ContentBound
  BY DEF ReplayInv, TokenInv, ContentBound
<1> QED
  BY <1>1, ReplayAlways, PTL

(* Each of those forms keeps the signature good (canonical_content).          *)
THEOREM GatewayKeepsSignature == Spec => []SurvivesGateway
<1>1. ReplayInv => SurvivesGateway
  BY DEF ReplayInv, VerifyInv, SurvivesGateway
<1> QED
  BY <1>1, ReplayAlways, PTL

(* The guard's state has its types; the cache holds no nonce twice.           *)
THEOREM TypeCorrect == Spec => []TypeOK
<1>1. LoopInv /\ ReplayInv => TypeOK
  <2> SUFFICES ASSUME LoopInv, ReplayInv PROVE TypeOK
    OBVIOUS
  <2>1. DOMAIN passed = DOMAIN sent
    BY DEF ReplayInv, MsgInv
  <2> QED
    BY <2>1 DEF LoopInv, ReplayInv, MsgInv, UniqueInv, TypeOK
<1> QED
  BY <1>1, LoopAlways, ReplayAlways, PTL
===============================================================================
