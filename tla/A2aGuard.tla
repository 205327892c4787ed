------------------------------ MODULE A2aGuard ------------------------------
(***************************************************************************)
(* The a2a guard of one agent (src/images/common/bin/vs-a2a-guard.py): the  *)
(* signature on what its peers send, the replay window, the reload of the   *)
(* live a2a.json while handlers run, and the wiring hook that configures it *)
(* when the container is recreated (src/images/common/hooks/                *)
(* vs-a2a-wiring.sh).                                                       *)
(*                                                                         *)
(* A handler reads the clock, and the registry, at the start of verify and  *)
(* asks the nonce cache at its end; Lag bounds how far the clock moves in   *)
(* between.  The clock is not set back.                                     *)
(***************************************************************************)
EXTENDS Naturals, Sequences, FiniteSets

CONSTANTS Peers,     \* the agents that may call this one
          Handlers,  \* threads of the inbound listener
          Keys,      \* Ed25519 keys a peer has or had, as strings
          Skew,      \* max_skew_seconds
          Margin,    \* what the nonce cache adds to twice the skew
          Lag,       \* bound: clock ticks within one verify
          Drift,     \* bound: how far a peer's clock is off, either way
          MaxClock, MaxFaults,
          MaxEvents  \* bound: files put in place and messages signed

ASSUME GuardAssumption ==
    /\ Skew \in Nat /\ Margin \in Nat /\ Lag \in Nat /\ Drift \in Nat
    /\ MaxClock \in Nat /\ Drift <= MaxClock /\ MaxFaults \in Nat
    /\ Lag <= Margin /\ Keys # {}

VARIABLES
    clock,      \* this host's clock
    files,      \* the a2a.json files put in place so far; the last one is there
    secret,     \* are the local secret files readable?
    wired,      \* what the hook left: is there a guard.json, and for which peers a local token
    guard,      \* the process: up, the file its registry and mode are of, tokens, source stamp
    main,       \* the main loop's tick
    status,     \* status.json: the file it speaks of
    handler,    \* the inbound handlers
    nonces,     \* NonceCache._seen
    sent,       \* what the peers' guards have signed
    passed,     \* history: how often this process let each message through
    faults

volume == <<files, secret, wired>>
inbound == <<handler, nonces, passed>>
vars == <<clock, volume, guard, main, status, inbound, sent, faults>>

Idle == [pc |-> "idle"]
Wait == [pc |-> "wait"]
Down == [up |-> FALSE, file |-> 0, tokens |-> {}, stamp |-> 0]
Current == Len(files)

-----------------------------------------------------------------------------
(* canonical_content over what a JSON-RPC request can carry: the spelling   *)
(* of method and role, the type tag, the fields the gateway adds or drops,  *)
(* whatever else rides along, and the text parts.                           *)

MethodClass(m) == CASE m \in {"SendMessage", "message/send"} -> "send"
                    [] m \in {"SendStreamingMessage", "message/stream"} -> "stream"
                    [] OTHER -> "none"

RoleClass(r) == CASE r \in {"ROLE_USER", "user"} -> "user"
                  [] r \in {"ROLE_AGENT", "agent"} -> "agent"
                  [] OTHER -> "none"

TextMediaTypes == {"absent", "text/plain", "text/markdown"}

(* Mutant: a field nobody signs is ignored instead of refused.              *)
SignableIgnoring(rpc) ==
    /\ MethodClass(rpc.method) # "none" /\ RoleClass(rpc.role) # "none"
    /\ rpc.kind \in {"absent", "message"} /\ rpc.media \in TextMediaTypes
    /\ rpc.messageId /\ rpc.parts # <<>>

(* What canonical_content and method_class refuse, on either side.          *)
Signable(rpc) ==
    /\ MethodClass(rpc.method) # "none" /\ RoleClass(rpc.role) # "none"
    /\ rpc.kind \in {"absent", "message"} /\ rpc.media \in TextMediaTypes
    /\ rpc.config \in {"absent", "empty"} /\ ~rpc.extra
    /\ rpc.messageId /\ rpc.parts # <<>>

(* Mutant: the role is signed as it is spelled.                             *)
SigningInputVerbatim(rpc) == <<MethodClass(rpc.method), rpc.role, rpc.parts>>

(* The signed content: classes, not spellings, and the parts in order.      *)
SigningInput(rpc) == <<MethodClass(rpc.method), RoleClass(rpc.role), rpc.parts>>

(* What Hermes sends, in the A2A v1.0 and in the v0.3 spelling.             *)
Requests ==
    LET v1 == [aud |-> "me", method |-> "SendMessage", role |-> "ROLE_USER", kind |-> "absent", media |-> "text/plain",
               config |-> "absent", extra |-> FALSE, messageId |-> TRUE, parts |-> <<"t", "u">>]
    IN {v1, [v1 EXCEPT !.method = "message/stream", !.role = "user", !.kind = "message",
                       !.media = "absent"]}

(* What the gateway may make of it: other spellings, `configuration: {}`,   *)
(* no mediaType.                                                            *)
Reserialised(rpc) ==
    {f \in [aud: {rpc.aud},
            method: {"SendMessage", "message/send", "SendStreamingMessage", "message/stream"},
            role: {"ROLE_USER", "user"}, kind: {"absent", "message"}, media: TextMediaTypes,
            config: {"absent", "empty"}, extra: {FALSE}, messageId: {TRUE}, parts: {rpc.parts}] :
        MethodClass(f.method) = MethodClass(rpc.method)}

(* One field come out wrong.                                                *)
Altered(rpc) ==
    {[rpc EXCEPT !.method = m] : m \in {"SendMessage", "message/stream", "tasks/get"}}
    \union {[rpc EXCEPT !.role = r] : r \in {"ROLE_AGENT", "system"}}
    \union {[rpc EXCEPT !.parts = t] : t \in {<<>>, <<"t">>, <<"u", "t">>}}
    \union {[rpc EXCEPT !.kind = "task"], [rpc EXCEPT !.media = "image/png"],
            [rpc EXCEPT !.config = "set"], [rpc EXCEPT !.extra = TRUE],
            [rpc EXCEPT !.messageId = FALSE], [rpc EXCEPT !.aud = "other"]}

(* The ways a request can arrive: is it for this agent and does the         *)
(* signature fit it, and is it a form the gateway may make of what was sent?*)
Arrivals ==
    UNION {{[fits |-> f.aud = "me" /\ Signable(f) /\ SigningInput(f) = SigningInput(rpc),
             honest |-> f \in Reserialised(rpc)] :
                f \in Reserialised(rpc) \union Altered(rpc)} : rpc \in Requests}

-----------------------------------------------------------------------------
(* Outbound: a peer's guard signs what its Hermes posts, with the key on    *)
(* its volume and its own clock.                                            *)
Sign(p, key, ts) ==
    /\ Len(sent) + Len(files) < MaxEvents
    /\ \E rpc \in Requests : Signable(rpc)
    /\ ts <= clock + Drift /\ clock <= ts + Drift
    /\ sent' = Append(sent, [kid |-> p, key |-> key, ts |-> ts])
    /\ passed' = Append(passed, 0)
    /\ UNCHANGED <<clock, volume, guard, main, status, handler, nonces, faults>>

-----------------------------------------------------------------------------
(* Inbound: do_POST of a signed request.  The network may deliver a message *)
(* late, altered, again and again.                                          *)

(* load_bundle_registry: a malformed key is skipped.                        *)
Registered(file, p, key) == files[file].keys[p] = key /\ key \in Keys

Receive(h, m, arrival) ==
    /\ guard.up
    /\ handler[h] = Idle
    /\ handler' = [handler EXCEPT ![h] = [pc |-> "verify", msg |-> m, now |-> clock,
                        known |-> Registered(guard.file, sent[m].kid, sent[m].key),
                        fits |-> arrival.fits, honest |-> arrival.honest]]
    /\ UNCHANGED <<clock, volume, guard, main, status, nonces, passed, sent, faults>>

InWindow(now, ts) == now <= ts + Skew /\ ts <= now + Skew

(* Mutant: a nonce is kept for as long as a timestamp is accepted, no more. *)
TtlBare == 2 * Skew

Ttl == 2 * Skew + Margin

(* NonceCache.check_and_add, under its lock.                                *)
CheckAndAdd(m, now) ==
    LET kept == {n \in nonces : n.exp >= now}
        new == ~\E n \in kept : n.msg = m
    IN [ok |-> new, seen |-> IF new THEN kept \union {[msg |-> m, exp |-> now + Ttl]} ELSE kept]

(* verify: audience, time, registry, signature, and the nonce last.         *)
Verify(h) ==
    /\ handler[h].pc = "verify"
    /\ LET m == handler[h].msg
           good == InWindow(handler[h].now, sent[m].ts) /\ handler[h].known /\ handler[h].fits
           cache == CheckAndAdd(m, handler[h].now)
       IN /\ nonces' = IF good THEN cache.seen ELSE nonces
          /\ handler' = [handler EXCEPT ![h] = IF good /\ cache.ok
                THEN [pc |-> "token", msg |-> m, honest |-> handler[h].honest] ELSE Idle]
    /\ UNCHANGED <<clock, volume, guard, main, status, passed, sent, faults>>

(* The local token of the verified peer, if the host has one, and the relay *)
(* to Hermes.                                                               *)
Relay(h) ==
    /\ handler[h].pc = "token"
    /\ passed' = IF sent[handler[h].msg].kid \in guard.tokens
                 THEN [passed EXCEPT ![handler[h].msg] = @ + 1] ELSE passed
    /\ handler' = [handler EXCEPT ![h] = Idle]
    /\ UNCHANGED <<clock, volume, guard, main, status, nonces, sent, faults>>

-----------------------------------------------------------------------------
(* The main loop: tick every reload_seconds, SIGHUP at any point of it.     *)

Loadable == files[Current].good /\ secret

Loaded(file, stamp) == [up |-> TRUE, file |-> file, tokens |-> wired.tokens, stamp |-> stamp]

Tick ==
    /\ guard.up /\ main = Wait
    /\ \/ /\ guard.stamp = Current
          /\ status # guard.file
          /\ status' = guard.file
          /\ UNCHANGED main
       \/ /\ guard.stamp # Current
          /\ main' = [pc |-> "stamp", seen |-> Current]
          /\ UNCHANGED status
    /\ UNCHANGED <<clock, volume, guard, inbound, sent, faults>>

ReloadStamp ==
    /\ main.pc = "stamp"
    /\ main' = [pc |-> "read", seen |-> main.seen, stamp |-> Current]
    /\ UNCHANGED <<clock, volume, guard, status, inbound, sent, faults>>

(* Mutant: what could not be loaded is committed.                           *)
ReloadReadAnyway ==
    /\ main.pc = "read"
    /\ main' = [pc |-> "commit", file |-> Current, stamp |-> main.stamp]
    /\ UNCHANGED <<clock, volume, guard, status, inbound, sent, faults>>

(* Every input is read; one that fails leaves the loop in the handler of    *)
(* tick.                                                                    *)
ReloadRead ==
    /\ main.pc = "read"
    /\ main' = IF Loadable THEN [pc |-> "commit", file |-> Current, stamp |-> main.stamp]
               ELSE [pc |-> "failed", seen |-> main.seen]
    /\ UNCHANGED <<clock, volume, guard, status, inbound, sent, faults>>

ReloadCommit ==
    /\ main.pc = "commit"
    /\ guard' = Loaded(main.file, main.stamp)
    /\ status' = main.file
    /\ main' = Wait
    /\ UNCHANGED <<clock, volume, inbound, sent, faults>>

(* Mutant: the file that is there now is taken for the one that failed.     *)
ReloadFailedNow ==
    /\ main.pc = "failed"
    /\ guard' = [guard EXCEPT !.stamp = Current]
    /\ status' = guard.file
    /\ main' = Wait
    /\ UNCHANGED <<clock, volume, inbound, sent, faults>>

(* The previous state stays; the stamp tick saw is not tried again.         *)
ReloadFailed ==
    /\ main.pc = "failed"
    /\ guard' = [guard EXCEPT !.stamp = main.seen]
    /\ status' = guard.file
    /\ main' = Wait
    /\ UNCHANGED <<clock, volume, inbound, sent, faults>>

(* The process ends: what it held in memory is gone.                        *)
Ends ==
    /\ guard' = Down
    /\ main' = Wait
    /\ handler' = [h \in Handlers |-> Idle]
    /\ nonces' = {}
    /\ passed' = [m \in DOMAIN sent |-> 0]

(* The signal handler reloads in the middle of whatever the loop is doing;  *)
(* nothing catches its failure.                                             *)
Sighup ==
    /\ guard.up /\ faults < MaxFaults
    /\ faults' = faults + 1
    /\ \/ Loadable /\ guard' = Loaded(Current, Current) /\ UNCHANGED <<main, inbound>>
       \/ ~Loadable /\ Ends
    /\ UNCHANGED <<clock, volume, status, sent>>

Crash ==
    /\ guard.up /\ faults < MaxFaults
    /\ faults' = faults + 1
    /\ Ends
    /\ UNCHANGED <<clock, volume, status, sent>>

(* s6 starts the guard while there is a guard.json; serve ends at once when *)
(* the first reload fails.                                                  *)
Serve ==
    /\ ~guard.up /\ wired.on /\ Loadable
    /\ guard' = Loaded(Current, Current)
    /\ status' = Current
    /\ UNCHANGED <<clock, volume, main, inbound, sent, faults>>

-----------------------------------------------------------------------------
(* The volume.                                                              *)

(* The registrant renames the next bundle's a2a.json into place.            *)
Rewrite(file) ==
    /\ Len(sent) + Len(files) < MaxEvents
    /\ files' = Append(files, file)
    /\ UNCHANGED <<clock, secret, wired, guard, main, status, inbound, sent, faults>>

(* A local secret file is made readable by others, or is put right again.   *)
Chmod ==
    /\ faults < MaxFaults
    /\ faults' = faults + 1
    /\ secret' = ~secret
    /\ UNCHANGED <<clock, files, wired, guard, main, status, inbound, sent>>

(* The hook: with peer keys in a readable bundle it writes guard.json and a *)
(* token for each, readable by the owner only; otherwise guard.json goes.   *)
Wiring(file) ==
    LET keyed == IF file.good THEN {p \in Peers : file.keys[p] # "none"} ELSE {}
    IN IF keyed = {} THEN [on |-> FALSE, tokens |-> wired.tokens] ELSE [on |-> TRUE, tokens |-> keyed]

Recreate ==
    /\ faults < MaxFaults
    /\ faults' = faults + 1
    /\ wired' = Wiring(files[Current])
    /\ secret' = (secret \/ wired'.on)
    /\ Ends
    /\ UNCHANGED <<clock, files, status, sent>>

(* Time passes; a handler inside verify is not left behind by more than Lag.*)
Advance ==
    /\ clock < MaxClock
    /\ \A h \in Handlers : handler[h].pc = "verify" => clock - handler[h].now < Lag
    /\ clock' = clock + 1
    /\ UNCHANGED <<volume, guard, main, status, inbound, sent, faults>>

-----------------------------------------------------------------------------
(* a2a.json: readable with some keys in it, or not.                         *)
File == [keys: [Peers -> Keys \union {"none", "malformed"}], good: {TRUE}]
            \union {[keys |-> [p \in Peers |-> "none"], good |-> FALSE]}

Init ==
    /\ clock = Drift
    /\ files = <<[keys |-> [p \in Peers |-> CHOOSE k \in Keys : TRUE], good |-> TRUE]>>
    /\ secret = TRUE
    /\ wired = [on |-> TRUE, tokens |-> Peers]
    /\ guard = Loaded(1, 1)
    /\ main = Wait
    /\ status = 1
    /\ handler = [h \in Handlers |-> Idle]
    /\ nonces = {}
    /\ sent = <<>> /\ passed = <<>>
    /\ faults = 0

MainLoop == Tick \/ ReloadStamp \/ ReloadRead \/ ReloadCommit \/ ReloadFailed

Next ==
    \/ \E p \in Peers, key \in Keys, ts \in 0..(MaxClock + Drift) : Sign(p, key, ts)
    \/ \E h \in Handlers :
         \/ \E m \in DOMAIN sent, arrival \in Arrivals : Receive(h, m, arrival)
         \/ Verify(h) \/ Relay(h)
    \/ MainLoop \/ Serve \/ Sighup \/ Crash
    \/ \E file \in File : Rewrite(file)
    \/ Chmod \/ Recreate \/ Advance

(* The loop runs until the process ends; s6 keeps starting the service.     *)
Fairness == WF_vars(MainLoop) /\ WF_vars(Serve)

Spec == Init /\ [][Next]_vars /\ Fairness

-----------------------------------------------------------------------------
(* The values of the guard's state; the cache holds no nonce twice.          *)
TypeOK ==
    /\ clock \in 0..MaxClock /\ faults \in 0..MaxFaults
    /\ secret \in BOOLEAN
    /\ wired \in [on: BOOLEAN, tokens: SUBSET Peers]
    /\ guard \in [up: BOOLEAN, file: 0..Current, tokens: SUBSET Peers, stamp: 0..Current]
    /\ main.pc \in {"wait", "stamp", "read", "commit", "failed"}
    /\ status \in 1..Current
    /\ \A n, o \in nonces : n.msg = o.msg => n = o
    /\ DOMAIN passed = DOMAIN sent

(* Whatever the network repeats or delays and however far the clocks are    *)
(* apart, one process lets one signed message through once (NonceCache).    *)
NoReplay == \A m \in DOMAIN passed : passed[m] <= 1

(* What gets past verify is what was signed, up to the spellings the        *)
(* gateway may change: nothing added, dropped, reordered or reclassified.   *)
ContentBound == \A h \in Handlers : handler[h].pc = "token" => handler[h].honest

(* No re-serialisation by the gateway costs a message its signature.        *)
SurvivesGateway ==
    \A h \in Handlers : handler[h].pc = "verify" => (handler[h].honest => handler[h].fits)

(* A malformed a2a.json never takes effect, whatever reload it meets.       *)
GoodInForce == guard.up => files[guard.file].good

(* The bundle in place ends up in force, and in the status, if it is well-  *)
(* formed, whatever was there before it, signals and crashes included.      *)
Converges ==
    ([]secret /\ <>[](files[Current].good /\ wired.on))
        => <>[](guard.up /\ guard.file = Current /\ status = Current)
=============================================================================
