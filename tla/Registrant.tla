------------------------------ MODULE Registrant ------------------------------
(***************************************************************************)
(* The registrant (registrant/src): the resident process on a device that   *)
(* fetches the identity bundle, applies it to the data volume and watches   *)
(* for rotations, against a registrar whose operations are the atomic ones  *)
(* of OneShotDelivery.  It may crash at any step, a request or an answer    *)
(* may be lost, and the supervisor starts it again.                         *)
(*                                                                          *)
(* A bundle is its version and its file paths; a file on the volume is the  *)
(* version of the bundle that wrote it (0: absent).  The re-arm window is   *)
(* the step WindowElapses, and the sleeps (Retry-After, poll intervals) end *)
(* at any time.                                                             *)
(***************************************************************************)
EXTENDS Naturals

CONSTANTS Path,          \* bundle file paths
          MaxAttempts,   \* bootstrapWithRetry's maxAttempts (5 in the code)
          MaxVersion, MaxOps, MaxFaults   \* bounds: rotations, console operations, faults

ASSUME BoundAssumption == /\ MaxAttempts \in Nat \ {0}
                          /\ {MaxVersion, MaxOps, MaxFaults} \subseteq Nat

VARIABLES \* the registrar
          status,    \* devices.status
          keyGood,   \* is the device's REGISTRAR_KEY the one on record?
          blob,      \* the current bundle
          open,      \* does the slot deliver?
          \* the data volume
          disk,      \* per path, the version of the file
          snap,      \* identity-bundle.json
          marker,    \* bundle_version in ready.marker (0: absent)
          \* the process
          pc,
          from,      \* who called bootstrapWithRetry: "boot", "grace" or "watch"
          attempt,   \* its attempt counter
          resp,      \* the answer on its way
          got,       \* the bundle fetched or being applied
          todo,      \* its files not yet renamed into place
          local,     \* watchForRotation's localVersion
          exit,      \* history: why the process last ended
          ops, faults   \* bound counters

registrar == <<status, keyGood, blob, open>>
volume == <<disk, snap, marker>>
process == <<pc, from, attempt, resp, got, todo, local, exit>>
vars == <<registrar, volume, process, ops, faults>>

Bundles == [ver : 0..MaxVersion, paths : SUBSET Path]
None == [ver |-> 0, paths |-> {}]

Init == /\ status = "pending" /\ keyGood = TRUE /\ blob = None /\ open = TRUE
        /\ disk = [p \in Path |-> 0] /\ snap = None /\ marker = 0
        /\ pc = "down" /\ from = "boot" /\ attempt = 0 /\ resp = "none"
        /\ got = None /\ todo = {} /\ local = 0 /\ exit = "none"
        /\ ops = 0 /\ faults = 0
-------------------------------------------------------------------------------
(* The registrar's console operations, and the re-arm window.                *)
Op == /\ ops < MaxOps /\ ops' = ops + 1
      /\ UNCHANGED <<volume, faults>>

SetStatus(s) == /\ Op /\ status # s /\ status' = s
                /\ UNCHANGED <<keyGood, blob, open, process>>

RegenKey == /\ Op /\ keyGood /\ keyGood' = FALSE
            /\ UNCHANGED <<status, blob, open, process>>

(* The operator puts the new key into the device's variables: the supervisor *)
(* recreates the container with it.                                          *)
SetDeviceKey == /\ ~keyGood /\ keyGood' = TRUE
                /\ pc' = "down" /\ exit' = "stopped"
                /\ UNCHANGED <<status, blob, open, volume, from, attempt, resp, got,
                               todo, local, ops, faults>>

Rotate(files) == /\ blob.ver < MaxVersion
                 /\ blob' = [ver |-> blob.ver + 1, paths |-> files]
                 /\ open' = TRUE
                 /\ UNCHANGED <<status, keyGood, volume, process, ops, faults>>

Rearm == /\ Op /\ open' = TRUE
         /\ UNCHANGED <<status, keyGood, blob, process>>

WindowElapses == /\ ~open /\ open' = TRUE
                 /\ UNCHANGED <<status, keyGood, blob, volume, process, ops, faults>>
-------------------------------------------------------------------------------
(* The process ends: an error nobody catches in run(), or a crash.           *)
Exit(why) == /\ pc' = "down" /\ exit' = why
             /\ UNCHANGED <<from, attempt, resp, got, todo, local>>

(* bootstrapWithRetry is called.                                             *)
Call(who) == /\ pc' = "bootstrap" /\ from' = who /\ attempt' = 1
             /\ UNCHANGED <<resp, got, todo, local, exit>>

(* applyBundle is called; validation comes before any write.                 *)
Apply(b) == /\ pc' = "files" /\ got' = b /\ todo' = b.paths
            /\ UNCHANGED <<from, attempt, resp, local, exit>>

Watch(v) == /\ pc' = "watch" /\ local' = v
            /\ UNCHANGED <<from, attempt, resp, got, todo, exit>>

(* The supervisor starts the process; run() waits for a synchronized clock   *)
(* and goes on without one when the wait times out.                          *)
Start == /\ pc = "down" /\ pc' = "gate"
         /\ UNCHANGED <<registrar, volume, from, attempt, resp, got, todo, local, exit,
                        ops, faults>>

ClockGate == /\ pc = "gate" /\ pc' = "check"
             /\ UNCHANGED <<registrar, volume, from, attempt, resp, got, todo, local, exit,
                            ops, faults>>

(* Mutant: every boot applies the snapshot again, marker or not.             *)
CheckReapplies == /\ pc = "check"
                  /\ \/ snap = None /\ Call("boot")
                     \/ snap # None /\ Apply(snap)
                  /\ UNCHANGED <<registrar, volume, ops, faults>>

(* The identity check: readBundle, isReady.                                  *)
IdentityCheck == /\ pc = "check"
                 /\ \/ snap = None /\ Call("boot")
                    \/ snap # None /\ marker = 0 /\ Apply(snap)
                    \/ snap # None /\ marker # 0 /\ Watch(snap.ver)
                 /\ UNCHANGED <<registrar, volume, ops, faults>>

(* POST /v1/bootstrap takes effect at the registrar.                         *)
Serve == /\ pc = "bootstrap"
         /\ pc' = "await"
         /\ \/ ~keyGood /\ resp' = "401" /\ UNCHANGED <<open, got>>
            \/ keyGood /\ status # "active" /\ resp' = "403" /\ UNCHANGED <<open, got>>
            \/ /\ keyGood /\ status = "active" /\ ~open
               /\ resp' = "425" /\ UNCHANGED <<open, got>>
            \/ /\ keyGood /\ status = "active" /\ open
               /\ open' = FALSE
               /\ \/ blob = None /\ resp' = "500" /\ UNCHANGED got
                  \/ blob # None /\ resp' = "200" /\ got' = blob
         /\ UNCHANGED <<status, keyGood, blob, volume, from, attempt, todo, local,
                        exit, ops, faults>>

(* PERMANENT_STATUSES; a 404 is never sent for a device that has a row.      *)
Permanent(r) == r \in {"401", "403", "404"}

(* The answer arrives.  425 is retried up to maxAttempts; 401 and 403 are    *)
(* the PermanentRegistrarError that run() and pollUntilUnblocked catch and   *)
(* watchForRotation does not; everything else is fatal.                      *)
Answer == /\ pc = "await"
          /\ \/ resp = "200" /\ Apply(got)
             \/ /\ resp = "425" /\ attempt < MaxAttempts
                /\ pc' = "sleep"
                /\ UNCHANGED <<from, attempt, resp, got, todo, local, exit>>
             \/ resp = "425" /\ attempt >= MaxAttempts /\ Exit("fatal")
             \/ resp = "500" /\ Exit("fatal")
             \/ /\ Permanent(resp) /\ from # "watch"
                /\ pc' = "grace"
                /\ UNCHANGED <<from, attempt, resp, got, todo, local, exit>>
             \/ Permanent(resp) /\ from = "watch" /\ Exit("refused")
          /\ UNCHANGED <<registrar, volume, ops, faults>>

(* The sleep of a 425 ends.                                                  *)
Wake == /\ pc = "sleep"
        /\ pc' = "bootstrap" /\ attempt' = attempt + 1
        /\ UNCHANGED <<registrar, volume, from, resp, got, todo, local, exit, ops, faults>>

(* pollUntilUnblocked: GET /v1/status answers 200 and active.  (Anything     *)
(* else is another sleep.)                                                   *)
GracePoll == /\ pc = "grace" /\ keyGood /\ status = "active"
             /\ Call("grace")
             /\ UNCHANGED <<registrar, volume, ops, faults>>

(* Mutant: the version comparison is off by one.                             *)
WatchPollLate == /\ pc = "watch" /\ keyGood /\ blob.ver > local + 1
                 /\ Call("watch")
                 /\ UNCHANGED <<registrar, volume, ops, faults>>

(* watchForRotation: /v1/status shows a newer version.  It is answered       *)
(* whatever the device's status.  (A failed poll is another sleep.)          *)
WatchPoll == /\ pc = "watch" /\ keyGood /\ blob.ver > local
             /\ Call("watch")
             /\ UNCHANGED <<registrar, volume, ops, faults>>

(* applyBundle: each file, then the snapshot, then the marker is renamed     *)
(* into place.                                                               *)
WriteFile(p) == /\ pc = "files" /\ p \in todo
                /\ disk' = [disk EXCEPT ![p] = got.ver]
                /\ todo' = todo \ {p}
                /\ UNCHANGED <<registrar, snap, marker, pc, from, attempt, resp, got,
                               local, exit, ops, faults>>

(* Mutants: the snapshot before the files; the marker in place of it.        *)
SnapshotFirst == /\ pc = "files"
                 /\ snap' = got
                 /\ pc' = IF todo = {} THEN "marker" ELSE "files"
                 /\ UNCHANGED <<registrar, disk, marker, from, attempt, resp, got, todo,
                                local, exit, ops, faults>>

WriteSnapshot == /\ pc = "files" /\ todo = {}
                 /\ snap' = got
                 /\ pc' = "marker"
                 /\ UNCHANGED <<registrar, disk, marker, from, attempt, resp, got, todo,
                                local, exit, ops, faults>>

(* Mutant: the watcher remembers the version it was told of, not the one it  *)
(* applied.                                                                  *)
WriteMarkerRemote == /\ pc = "marker"
                     /\ marker' = got.ver
                     /\ Watch(blob.ver)
                     /\ UNCHANGED <<registrar, disk, snap, ops, faults>>

WriteMarker == /\ pc = "marker"
               /\ marker' = got.ver
               /\ Watch(got.ver)
               /\ UNCHANGED <<registrar, disk, snap, ops, faults>>

(* A crash, a reboot, a lost request or a lost answer: each ends the process *)
(* (a network error in bootstrap is fatal; in a status poll it is another    *)
(* sleep).                                                                   *)
Fault == /\ faults < MaxFaults /\ pc # "down"
         /\ faults' = faults + 1
         /\ Exit("crash")
         /\ UNCHANGED <<registrar, volume, ops>>

Step == \/ Start \/ ClockGate \/ IdentityCheck \/ Serve \/ Answer
        \/ Wake \/ GracePoll \/ WatchPoll
        \/ (\E p \in Path : WriteFile(p)) \/ WriteSnapshot \/ WriteMarker

Next == \/ Step
        \/ Fault
        \/ \E s \in {"active", "revoked"} : SetStatus(s)
        \/ RegenKey \/ SetDeviceKey \/ Rearm \/ WindowElapses
        \/ \E files \in SUBSET Path \ {{}} : Rotate(files)

Spec == Init /\ [][Next]_vars

(* The process runs while it can and is restarted when it ends; the re-arm   *)
(* window ends.  Nothing is assumed of the owner.                            *)
FairSpec == Spec /\ WF_vars(Step) /\ WF_vars(WindowElapses)
-------------------------------------------------------------------------------
(* Every variable has the shape the code gives it.                           *)
TypeOK ==
    /\ status \in {"pending", "active", "revoked"} /\ keyGood \in BOOLEAN /\ open \in BOOLEAN
    /\ {blob, snap, got} \subseteq Bundles
    /\ disk \in [Path -> 0..MaxVersion] /\ {marker, local} \subseteq 0..MaxVersion
    /\ pc \in {"down", "gate", "check", "bootstrap", "await", "sleep", "grace", "files",
              "marker", "watch"}
    /\ from \in {"boot", "grace", "watch"} /\ attempt \in 0..MaxAttempts
    /\ resp \in {"none", "200", "401", "403", "425", "500"}
    /\ todo \subseteq Path
    /\ exit \in {"none", "crash", "fatal", "refused", "stopped"}
    /\ ops \in 0..MaxOps /\ faults \in 0..MaxFaults

(* Wherever a crash hits applyBundle, the snapshot on the volume names only  *)
(* files that are there, at least as new: a restart that trusts the snapshot *)
(* and skips the fetch never runs without a file.                            *)
SnapshotComplete == \A p \in snap.paths : disk[p] >= snap.ver

(* The marker never announces an identity the snapshot does not have.        *)
MarkerCovered == marker <= snap.ver

(* A file on the volume is never replaced by an older one, whatever order    *)
(* fetches, re-applies and rotations happen in.                              *)
FilesNeverGoBack == [][\A p \in Path : disk'[p] >= disk[p]]_vars

(* The version the watcher compares with is never ahead of the registrar's   *)
(* nor of what is on the volume, so no rotation is taken for old.            *)
WatchesBehind == pc = "watch" => local <= blob.ver /\ local = snap.ver

(* Once the owner leaves the device active with its key, the current bundle  *)
(* ends up on the volume and stays, whatever crashed or got lost before.     *)
Converges == <>[](status = "active" /\ keyGood)
               => <>[](blob = snap /\ \A p \in blob.paths : disk[p] = blob.ver)
===============================================================================
