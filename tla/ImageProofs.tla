----------------------------- MODULE ImageProofs -----------------------------
(***************************************************************************)
(* Proofs about an image: what the content gate lets into one (OciGate), for *)
(* any layouts, platforms, allowlist and depth of indexes, and what the      *)
(* registrant in it does at every start (Registrant), for any file paths and *)
(* any bounds.                                                               *)
(***************************************************************************)
EXTENDS Registrant, OciGate, WellFoundedInduction, TLAPS

-------------------------------------------------------------------------------
(* The registrant *)

(* The bundle in hand is at least as new as anything on the volume, and what *)
(* of it has been renamed into place is there.                               *)
InHand == (pc = "files" \/ pc = "marker" \/ (pc = "await" /\ resp = "200"))
              => snap.ver <= got.ver /\ \A p \in Path : disk[p] <= got.ver

Written == /\ pc = "files" => \A p \in got.paths \ todo : disk[p] >= got.ver
           /\ pc = "marker" => snap = got

(* Nothing is ahead of the registrar.                                        *)
BehindBlob == /\ snap.ver <= blob.ver /\ got.ver <= blob.ver
              /\ \A p \in Path : disk[p] <= blob.ver

(* A snapshot without its marker is one whose first apply was cut short: the *)
(* process is down or applying it again, and no newer file is there.         *)
Unmarked == marker = 0 /\ snap # None =>
               /\ pc \in {"down", "gate", "check", "files", "marker"}
               /\ pc \in {"files", "marker"} => got = snap
               /\ \A p \in Path : disk[p] <= snap.ver

(* A bundle that exists has a version.                                       *)
Versioned == /\ blob # None => blob.ver > 0
             /\ snap # None => snap.ver > 0
             /\ (pc \in {"files", "marker"} \/ (pc = "await" /\ resp = "200")) => got.ver > 0

(* A 425 is slept on only while an attempt is left.                          *)
AttemptLeft == pc = "sleep" => attempt < MaxAttempts

IInv == TypeOK /\ Versioned /\ AttemptLeft /\ InHand /\ Written /\ BehindBlob /\ Unmarked
          /\ SnapshotComplete /\ MarkerCovered /\ WatchesBehind
-------------------------------------------------------------------------------
(* Every action keeps the invariant, and replaces no file by an older one.   *)
LEMMA IInvStep == IInv /\ [Next]_vars =>
                    IInv' /\ \A p \in Path : disk'[p] >= disk[p]
<1> SUFFICES ASSUME IInv, [Next]_vars
             PROVE  IInv' /\ \A p \in Path : disk'[p] >= disk[p]
  OBVIOUS
<1> DEFINE Goal == IInv' /\ \A p \in Path : disk'[p] >= disk[p]
<1> USE BoundAssumption DEF IInv, TypeOK, Bundles, Versioned, AttemptLeft, InHand, Written, BehindBlob, Unmarked,
        SnapshotComplete, MarkerCovered, WatchesBehind, registrar, volume, process
<1>0. CASE Start \/ ClockGate
  BY <1>0 DEF Start, ClockGate
<1>1. CASE IdentityCheck
  <2>1. CASE snap = None /\ Call("boot")
    BY <1>1, <2>1 DEF IdentityCheck, Call, None
  <2>2. CASE snap # None /\ marker = 0 /\ Apply(snap)
    BY <1>1, <2>2 DEF IdentityCheck, Apply
  <2>3. CASE snap # None /\ marker # 0 /\ Watch(snap.ver)
    BY <1>1, <2>3 DEF IdentityCheck, Watch
  <2> QED
    BY <1>1, <2>1, <2>2, <2>3 DEF IdentityCheck
<1>2. CASE Serve
  <2>1. open' \in BOOLEAN /\ keyGood' \in BOOLEAN
    BY <1>2, Zenon DEF Serve
  <2>2. /\ pc = "bootstrap" /\ pc' = "await"
        /\ UNCHANGED <<status, blob, disk, snap, marker, from, attempt, todo, local, exit,
                       ops, faults>>
        /\ \/ UNCHANGED got /\ resp' \in {"401", "403", "425", "500"}
           \/ blob # None /\ got' = blob /\ resp' = "200"
    BY <1>2 DEF Serve
  <2> QED
    BY <2>1, <2>2
<1>3. CASE Answer
  <2>1. CASE resp = "200" /\ Apply(got)
    BY <1>3, <2>1 DEF Answer, Apply
  <2>2. CASE resp # "200"
    <3>1. /\ pc = "await" /\ pc' \in {"sleep", "grace", "down"}
          /\ pc' = "sleep" => attempt < MaxAttempts
          /\ exit' \in {exit, "fatal", "refused"}
          /\ UNCHANGED <<registrar, volume, from, attempt, resp, got, todo, local, ops, faults>>
      BY <1>3, <2>2 DEF Answer, Exit
    <3> QED
      BY <3>1
  <2> QED
    BY <1>3, <2>1, <2>2 DEF Answer, Permanent
<1>4. CASE Wake
  BY <1>4 DEF Wake
<1>5. CASE GracePoll
  BY <1>5 DEF GracePoll, Call
<1>6. CASE WatchPoll
  BY <1>6 DEF WatchPoll, Call
<1>7. ASSUME NEW p \in Path, WriteFile(p) PROVE Goal
  BY <1>7 DEF WriteFile
<1>8. CASE WriteSnapshot
  BY <1>8 DEF WriteSnapshot
<1>9. CASE WriteMarker
  BY <1>9 DEF WriteMarker, Watch
<1>10. CASE Fault
  BY <1>10 DEF Fault, Exit
<1>11. ASSUME NEW s \in {"active", "revoked"}, SetStatus(s) PROVE Goal
  BY <1>11 DEF SetStatus, Op
<1>12. CASE RegenKey
  <2>1. keyGood' \in BOOLEAN
    BY <1>12, Zenon DEF RegenKey
  <2>2. /\ ops < MaxOps /\ ops' = ops + 1
        /\ UNCHANGED <<status, blob, open, disk, snap, marker, pc, from, attempt, resp, got,
                       todo, local, exit, faults>>
    BY <1>12 DEF RegenKey, Op
  <2> QED
    BY <2>1, <2>2
<1>13. CASE SetDeviceKey
  BY <1>13 DEF SetDeviceKey
<1>14. CASE Rearm
  BY <1>14 DEF Rearm, Op
<1>15. CASE WindowElapses
  BY <1>15 DEF WindowElapses
<1>16. ASSUME NEW files \in SUBSET Path \ {{}}, Rotate(files) PROVE Goal
  BY <1>16 DEF Rotate
<1>17. CASE UNCHANGED vars
  BY <1>17 DEF vars
<1> QED
  BY <1>0, <1>1, <1>2, <1>3, <1>4, <1>5, <1>6, <1>7, <1>8, <1>9, <1>10, <1>11, <1>12,
     <1>13, <1>14, <1>15, <1>16, <1>17 DEF Next, Step

(* A container that starts with an empty store satisfies the invariant.    *)
LEMMA IInvInit == Init => IInv
BY BoundAssumption DEF Init, IInv, TypeOK, Bundles, None, Versioned, AttemptLeft, InHand, Written, BehindBlob,
   Unmarked, SnapshotComplete, MarkerCovered, WatchesBehind

(* Wherever crashes hit applyBundle, the snapshot names only files that are  *)
(* on the volume (identity-store.ts applyBundle, run.ts identity check).     *)
THEOREM SnapshotAlwaysComplete == Spec => []SnapshotComplete
<1>1. IInv => SnapshotComplete
  BY DEF IInv
<1> QED
  BY <1>1, IInvInit, IInvStep, PTL DEF Spec

(* The watcher compares with the version that is on the volume.              *)
THEOREM WatcherNeverAhead == Spec => []WatchesBehind
<1>1. IInv => WatchesBehind
  BY DEF IInv
<1> QED
  BY <1>1, IInvInit, IInvStep, PTL DEF Spec

(* No sequence of fetches, crashes, re-applies and rotations puts an older   *)
(* file over a newer one (identity-store.ts applyBundle).                    *)
THEOREM NoFileGoesBack == Spec => FilesNeverGoBack
<1>1. IInv /\ [Next]_vars => [\A p \in Path : disk'[p] >= disk[p]]_vars
  BY IInvStep
<1> QED
  BY <1>1, IInvInit, IInvStep, PTL DEF Spec, FilesNeverGoBack

-------------------------------------------------------------------------------
(* The content gate *)

(* If none of several checks is the first to fail, none fails.                *)
LEMMA NoneBad ==
    ASSUME NEW codes, DOMAIN codes \in SUBSET Nat, FirstBad(codes) = "ok",
           NEW i \in DOMAIN codes
    PROVE  codes[i] = "ok"
<1> DEFINE bad == {j \in DOMAIN codes : codes[j] # "ok"}
<1>1. FirstBad(codes) = IF bad = {} THEN "ok" ELSE codes[Min(bad)]
  BY DEF FirstBad
<1>2. ASSUME bad # {} PROVE codes[Min(bad)] # "ok"
  <2>1. \E x \in bad : \A y \in bad : ~(<<y, x>> \in OpToRel(<, Nat))
    <3>1. bad \in SUBSET Nat
      OBVIOUS
    <3> HIDE DEF bad
    <3> QED
      BY <1>2, <3>1, NatLessThanWellFounded, WFMin, Zenon
  <2>2. \E x \in bad : \A y \in bad : x <= y
    <3>1. PICK x \in bad : \A y \in bad : ~(<<y, x>> \in OpToRel(<, Nat))
      BY <2>1, Zenon
    <3>2. \A y \in bad : x \in Nat /\ y \in Nat
      OBVIOUS
    <3>3. \A y \in bad : ~(y < x)
      BY <3>1, <3>2, Zenon DEF OpToRel
    <3> QED
      BY <3>2, <3>3
  <2>3. Min(bad) \in bad
    <3> HIDE DEF bad
    <3> QED
      BY <2>2 DEF Min
  <2> QED
    BY <2>3
<1> QED
  BY <1>1, <1>2

(* What a blob was loaded as, it is: the bytes its descriptor names, of the    *)
(* right kind (validateDescriptorAgainstBlob and the parse after it).          *)
LEMMA LoadedIntact ==
    ASSUME NEW blobs, NEW d, NEW kind, Load(blobs, d, kind) = "ok"
    PROVE  Intact(blobs, d, kind)
BY DEF Load, CheckBlob, Intact

(* So is every layer that was walked (walkAllLayers).                         *)
LEMMA WalkedIntact ==
    ASSUME NEW blobs, NEW manifest, IsList(manifest.refs), Walk(blobs, manifest) = "ok",
           NEW j \in DOMAIN manifest.refs, j # 1
    PROVE  Intact(blobs, manifest.refs[j], "layer")
<1> DEFINE Code(l) == IF CheckBlob(blobs, l) # "ok" THEN CheckBlob(blobs, l)
                      ELSE IF blobs[l.digest].kind # "layer" THEN "corrupt_layer"
                      ELSE IF \E e \in Range(blobs[l.digest].entries) : ".." \in Range(e.path)
                           THEN "path_traversal" ELSE "ok"
           codes == [i \in 1..Len(manifest.refs)-1 |-> Code(manifest.refs[i+1])]
<1>1. FirstBad(codes) = "ok"
  BY DEF Walk
<1>2. Len(manifest.refs) \in Nat /\ j \in 1..Len(manifest.refs)
  BY DEF IsList
<1>3. j - 1 \in 1..Len(manifest.refs)-1 /\ (j - 1) + 1 = j
  BY <1>2
<1>4. DOMAIN codes \in SUBSET Nat /\ j - 1 \in DOMAIN codes /\ codes[j-1] = Code(manifest.refs[j])
  <2> HIDE DEF Code
  <2> QED
    BY <1>2, <1>3
<1>5. Code(manifest.refs[j]) = "ok"
  <2> HIDE DEF Code, codes
  <2> QED
    BY <1>1, <1>4, NoneBad
<1> QED
  BY <1>5 DEF CheckBlob, Intact

(* A text without findings was reviewed for its path, up to the occurrences    *)
(* that an entry without the pattern's flags does not look at                  *)
(* (isPatternFullyExcusedByAllowlist).                                         *)
LEMMA NoFindingReviewed ==
    ASSUME NEW path, NEW text, Findings(path, text) = {}
    PROVE  Reviewed(path, text, FALSE)
<1> SUFFICES ASSUME ~text.binary, NEW o \in text.occurrences
             PROVE  \E a \in Allowlist : /\ Applies(a, o[1], path, text)
                                         /\ o[2] \in a.pins \/ (~FALSE /\ ~a.flags /\ ~o[3])
  BY DEF Reviewed
<1>1. Excused(o[1], path, text)
  BY DEF Findings
<1>2. PICK a \in Allowlist : /\ Applies(a, o[1], path, text)
                             /\ \A x \in Enumerated(a, o[1], text) : x[2] \in a.pins
  BY <1>1 DEF Excused
<1>3. a.flags \/ o[3] => o \in Enumerated(a, o[1], text)
  BY Zenon DEF Enumerated
<1> QED
  BY <1>2, <1>3, Zenon

(* What passing the gate says of one layout: its image's manifest and          *)
(* configuration were loaded, its layers walked, and all texts scanned         *)
(* (scanPlatformLayout).                                                       *)
LEMMA ScannedOk ==
    ASSUME NEW input, ScanPlatformLayout(input) = "ok",
           NEW blobs, blobs = input.layout.blobs,
           NEW image, image = Resolve(blobs, input.layout.index).images[1],
           NEW manifest, manifest = blobs[image.digest]
    PROVE  /\ Load(blobs, image, "manifest") = "ok"
           /\ Walk(blobs, manifest) = "ok"
           /\ ScanLayers(LayersOf(blobs, manifest))
           /\ Load(blobs, manifest.refs[1], "config") = "ok"
           /\ ScanConfig(blobs[manifest.refs[1].digest])
BY DEF ScanPlatformLayout

(* A layer that was walked and scanned is clean, whatever later layers delete   *)
(* (scanLayersForSecretsAndTopology).                                          *)
LEMMA LayerClean ==
    ASSUME NEW blobs, NEW manifest, IsList(manifest.refs),
           ScanLayers(LayersOf(blobs, manifest)),
           NEW j \in DOMAIN manifest.refs, j # 1,
           NEW b, b = blobs[manifest.refs[j].digest], b.kind = "layer"
    PROVE  CleanBlob(b, FALSE)
<1> DEFINE layers == LayersOf(blobs, manifest)
<1>1. Len(manifest.refs) \in Nat /\ j \in 1..Len(manifest.refs)
  BY DEF IsList
<1>2. j - 1 \in 1..Len(manifest.refs)-1 /\ (j - 1) + 1 = j
  BY <1>1
<1>3. j - 1 \in DOMAIN layers /\ layers[j-1] = b.entries
  BY <1>2 DEF LayersOf
<1>4. \A e \in Range(b.entries) : e.type = "file" => Findings(e.path, e.text) = {}
  <2> HIDE DEF layers
  <2>1. \A i \in DOMAIN layers : \A e \in Range(layers[i]) :
           e.type = "file" => Findings(e.path, e.text) = {}
    BY DEF ScanLayers, layers
  <2> QED
    BY <1>3, <2>1, Zenon
<1>5. \A e \in Range(b.entries) : e.type = "file" => Reviewed(e.path, e.text, FALSE)
  BY <1>4, NoFindingReviewed
<1> QED
  BY <1>5 DEF CleanBlob

(* So is a configuration that was scanned (scanConfigForSecretsAndTopology).   *)
LEMMA ConfigClean ==
    ASSUME NEW b, b.kind = "config", ScanConfig(b)
    PROVE  CleanBlob(b, FALSE)
<1>1. \A f \in ScannedFields \cap DOMAIN b.fields : Findings(<<f>>, b.fields[f]) = {}
  BY DEF ScanConfig
<1>2. \A f \in ScannedFields \cap DOMAIN b.fields : Reviewed(<<f>>, b.fields[f], FALSE)
  BY <1>1, NoFindingReviewed
<1> QED
  BY <1>2 DEF CleanBlob

(* What is promised of a layout and of the descriptor published for it.        *)
IntactImage(blobs, d) ==
    /\ Intact(blobs, d, "manifest")
    /\ \A j \in DOMAIN blobs[d.digest].refs :
         Intact(blobs, blobs[d.digest].refs[j], IF j = 1 THEN "config" ELSE "layer")

CleanImage(blobs, d) ==
    \A j \in DOMAIN blobs[d.digest].refs :
      CleanBlob(blobs[blobs[d.digest].refs[j].digest], FALSE)

(* The gate's verdict on one layout is what it promises of it.                 *)
LEMMA ScannedImage ==
    ASSUME NEW input, ScanPlatformLayout(input) = "ok",
           NEW blobs, blobs = input.layout.blobs,
           \A b \in DOMAIN blobs : IsList(blobs[b].refs)
    PROVE  /\ IntactImage(blobs, Scanned(input))
           /\ CleanImage(blobs, Scanned(input))
<1> DEFINE image == Resolve(blobs, input.layout.index).images[1]
           d == Scanned(input)
           manifest == blobs[image.digest]
<1>1. d.digest = image.digest /\ d.size = image.size
  BY DEF Scanned
<1> HIDE DEF d
<1>2. /\ Load(blobs, image, "manifest") = "ok"
      /\ Walk(blobs, manifest) = "ok"
      /\ ScanLayers(LayersOf(blobs, manifest))
      /\ Load(blobs, manifest.refs[1], "config") = "ok"
      /\ ScanConfig(blobs[manifest.refs[1].digest])
  BY ScannedOk
<1> HIDE DEF image
<1>3. Intact(blobs, image, "manifest") /\ Intact(blobs, manifest.refs[1], "config")
  BY <1>2, LoadedIntact
<1>4. Intact(blobs, d, "manifest") /\ IsList(manifest.refs)
  BY <1>1, <1>3 DEF Intact
<1> HIDE DEF manifest
<1>5. ASSUME NEW j \in DOMAIN manifest.refs
      PROVE  /\ Intact(blobs, manifest.refs[j], IF j = 1 THEN "config" ELSE "layer")
             /\ CleanBlob(blobs[manifest.refs[j].digest], FALSE)
  <2>1. CASE j = 1
    <3>1. blobs[manifest.refs[1].digest].kind = "config"
      BY <1>3 DEF Intact
    <3> QED
      BY <1>2, <1>3, <2>1, <3>1, ConfigClean
  <2>2. CASE j # 1
    <3>1. Intact(blobs, manifest.refs[j], "layer")
      BY <1>2, <1>4, <2>2, WalkedIntact
    <3>2. blobs[manifest.refs[j].digest].kind = "layer"
      BY <3>1 DEF Intact
    <3> QED
      BY <1>2, <1>4, <2>2, <3>1, <3>2, LayerClean
  <2> QED
    BY <2>1, <2>2
<1>6. blobs[d.digest] = manifest
  BY <1>1 DEF manifest
<1> QED
  BY <1>4, <1>5, <1>6 DEF IntactImage, CleanImage, d

(* Every result so far is the image of a layout that passed, and all layouts    *)
(* have passed once the gate says so.                                          *)
GateInv == verdict \in {"running", "pass"} =>
    /\ inputs \in Inputs
    /\ at \in 1..Len(inputs)+1
    /\ results \in Seq({Scanned(inputs[i]) : i \in 1..Len(inputs)}) /\ Len(results) = at - 1
    /\ \A i \in 1..at-1 : /\ ScanPlatformLayout(inputs[i]) = "ok"
                          /\ results[i] = Scanned(inputs[i])
    /\ verdict = "pass" => at > Len(inputs)

(* Scanning the next layout keeps that, and so does a throw (runContentGate).   *)
LEMMA GateStep == InputShape /\ GateInv /\ [GateNext]_gateVars => GateInv'
<1> SUFFICES ASSUME InputShape, GateInv, [GateNext]_gateVars PROVE GateInv'
  OBVIOUS
<1>1. CASE ScanNext
  <2>0. /\ verdict = "running" /\ at <= Len(inputs) /\ inputs' = inputs
        /\ IF ScanPlatformLayout(inputs[at]) = "ok"
           THEN /\ results' = Append(results, Scanned(inputs[at])) /\ at' = at + 1
                /\ verdict' = verdict
           ELSE verdict' = "thrown"
    BY <1>1 DEF ScanNext, Throw
  <2>1. CASE ScanPlatformLayout(inputs[at]) # "ok"
    BY <2>0, <2>1 DEF GateInv
  <2>2. CASE ScanPlatformLayout(inputs[at]) = "ok"
    <3> DEFINE S == {Scanned(inputs[i]) : i \in 1..Len(inputs)}
               x == Scanned(inputs[at])
    <3>1. /\ inputs \in Inputs /\ at \in 1..Len(inputs)+1 /\ Len(inputs) \in Nat
          /\ results \in Seq(S) /\ Len(results) = at - 1
          /\ \A i \in 1..at-1 : /\ ScanPlatformLayout(inputs[i]) = "ok"
                                /\ results[i] = Scanned(inputs[i])
      BY <2>0 DEF GateInv, InputShape, IsList
    <3>2. at \in 1..Len(inputs) /\ x \in S /\ at' \in 1..Len(inputs)+1
      BY <2>0, <2>2, <3>1
    <3> HIDE DEF S, x
    <3>3. results' = Append(results, x) /\ at' = at + 1 /\ verdict' = "running"
      BY <2>0, <2>2 DEF x
    <3>4. /\ results' \in Seq(S) /\ Len(results') = at' - 1 /\ results'[at] = x
          /\ \A i \in 1..at-1 : results'[i] = results[i]
      BY <3>1, <3>2, <3>3
    <3>5. \A i \in 1..at'-1 : /\ ScanPlatformLayout(inputs[i]) = "ok"
                              /\ results'[i] = Scanned(inputs[i])
      <4> SUFFICES ASSUME NEW i \in 1..at'-1
                   PROVE  /\ ScanPlatformLayout(inputs[i]) = "ok"
                          /\ results'[i] = Scanned(inputs[i])
        OBVIOUS
      <4>1. i = at \/ i \in 1..at-1
        BY <3>2, <3>3
      <4> QED
        BY <2>2, <3>1, <3>4, <4>1 DEF x
    <3> QED
      BY <2>0, <3>1, <3>2, <3>3, <3>4, <3>5 DEF GateInv, S
  <2> QED
    BY <2>1, <2>2
<1>2. CASE Assemble
  <2>1. /\ verdict = "running" /\ at > Len(inputs) /\ UNCHANGED <<inputs, at, results>>
        /\ verdict' \in {"pass", "thrown"}
    BY <1>2 DEF Assemble, Throw
  <2> QED
    BY <2>1 DEF GateInv
<1>3. CASE \E n \in 1..Len(EncodeAll(archive.entries)) : CutShort(n)
  BY <1>3 DEF CutShort, GateInv
<1>4. CASE UNCHANGED gateVars
  BY <1>4 DEF gateVars, GateInv
<1> QED
  BY <1>1, <1>2, <1>3, <1>4 DEF GateNext

(* It holds from the call on.                                                  *)
LEMMA GateInvInit == InputShape /\ GateInit => GateInv
<1> SUFFICES ASSUME InputShape, GateInit, verdict \in {"running", "pass"} PROVE GateInv
  BY DEF GateInv
<1>1. inputs \in Inputs /\ verdict = "running" /\ at = 1 /\ results = <<>>
  BY DEF GateInit
<1>2. Len(inputs) \in Nat
  BY <1>1 DEF InputShape, IsList
<1> QED
  BY <1>1, <1>2 DEF GateInv

(* A pass says of every layout what the verdict on it said.                    *)
LEMMA PassedImages ==
    ASSUME InputShape, GateInv, verdict = "pass", NEW i \in 1..Len(inputs)
    PROVE  /\ IntactImage(inputs[i].layout.blobs, results[i])
           /\ CleanImage(inputs[i].layout.blobs, results[i])
<1>1. inputs \in Inputs /\ at > Len(inputs) /\ at \in 1..Len(inputs)+1
  BY DEF GateInv
<1>2. /\ Len(inputs) \in Nat /\ i \in DOMAIN inputs
      /\ \A b \in DOMAIN inputs[i].layout.blobs : IsList(inputs[i].layout.blobs[b].refs)
  BY <1>1 DEF InputShape, IsList
<1>3. i \in 1..at-1
  BY <1>1, <1>2
<1>4. ScanPlatformLayout(inputs[i]) = "ok" /\ results[i] = Scanned(inputs[i])
  BY <1>3 DEF GateInv
<1> QED
  BY <1>2, <1>4, ScannedImage

(* For any layouts made of lists, the published index only leads to bytes that  *)
(* are what their descriptors say: manifest, configuration and every layer      *)
(* (validateDescriptorAgainstBlob in loadManifest, loadConfig, walkAllLayers).  *)
THEOREM OnlyIntactShips == GateSpec => []ShippedIntact
<1>1. GateInv => ShippedIntact
  BY GateAssumption, PassedImages DEF ShippedIntact, IntactImage
<1>2. GateInit => GateInv
  BY GateAssumption, GateInvInit
<1>3. GateInv /\ [GateNext]_gateVars => GateInv'
  BY GateAssumption, GateStep
<1> QED
  BY <1>1, <1>2, <1>3, PTL DEF GateSpec

(* For any layouts and any allowlist, no text file in any layer of a published  *)
(* image and no string in its configuration holds an occurrence that was not    *)
(* reviewed for that file, unless the entry for it does not look at that case   *)
(* (assertNoSecretsOrTopologyLiterals, assertConfigHasNoSecretsOrTopologyLiterals). *)
THEOREM OnlyCleanShips == GateSpec => []ShippedClean
<1>1. GateInv => ShippedClean
  BY GateAssumption, PassedImages DEF ShippedClean, CleanImage
<1>2. GateInit => GateInv
  BY GateAssumption, GateInvInit
<1>3. GateInv /\ [GateNext]_gateVars => GateInv'
  BY GateAssumption, GateStep
<1> QED
  BY <1>1, <1>2, <1>3, PTL DEF GateSpec

=============================================================================
