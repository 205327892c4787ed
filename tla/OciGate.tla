------------------------------ MODULE OciGate ------------------------------
(***************************************************************************)
(* The content gate in front of publishing an image (src/registrar/src/     *)
(* oci-gate): per platform the layout's index is resolved down to one image *)
(* manifest, every blob compared with its descriptor, every layer walked    *)
(* and scanned, the configuration scanned; then the published index is put  *)
(* together.  The run gives the gate one set of layouts after another, and  *)
(* the archive reader one archive after another.                            *)
(*                                                                         *)
(* A blob has the digest and size its bytes really have (hash, size), next  *)
(* to the name it is filed under, and the descriptors in it (refs): those   *)
(* of an index, or a manifest's configuration and then its layers.  A text  *)
(* is what the scan sees of it: the occurrences <<pattern, value, exact>>   *)
(* in it (the value with its surroundings, and whether it is in the case    *)
(* the pattern is written in) and whether the marks of a reviewed upstream  *)
(* file are there.  A path is a sequence of components.                     *)
(***************************************************************************)
EXTENDS OciTar, FiniteSets

CONSTANTS Platforms,   \* REQUIRED_PLATFORMS
          MaxNesting,  \* MAX_INDEX_NESTING_DEPTH
          Allowlist,   \* [patterns, path, pins, flags]: the reviewed upstream files; flags
                       \* where the pattern is applied with its own flags again (allowlist.ts)
          Inputs,      \* what the gate is called with: sequences of [platform, layout]
          Archives     \* sequences of archive entries

\* Lists are lists: of layouts, and of descriptors in every blob.
IsList(s) == Len(s) \in Nat /\ DOMAIN s = 1..Len(s)
InputShape == \A ins \in Inputs :
    /\ IsList(ins)
    /\ \A i \in DOMAIN ins : LET blobs == ins[i].layout.blobs IN
         \A b \in DOMAIN blobs : IsList(blobs[b].refs)

ASSUME GateAssumption == MaxNesting \in Nat /\ InputShape

VARIABLES
    inputs,   \* the call
    at,       \* the input being scanned
    results,  \* scanned and passed: one manifest descriptor each
    verdict,  \* "running", "pass" or "thrown"; "reader": not the gate, the archive reader
    error,    \* the code of the error thrown
    archive   \* an archive given to the reader: its entries and where it is cut off

gateVars == <<inputs, at, results, verdict, error, archive>>

NoPlatform == "none"

-----------------------------------------------------------------------------
(* oci-layout.ts *)

\* Mutant: present and of the right size is enough.
CheckSize(blobs, d) ==
    IF d.digest \notin DOMAIN blobs THEN "missing_blob"
    ELSE IF blobs[d.digest].size # d.size THEN "size_mismatch" ELSE "ok"

CheckBlob(blobs, d) ==
    IF d.digest \notin DOMAIN blobs THEN "missing_blob"
    ELSE IF blobs[d.digest].size # d.size THEN "size_mismatch"
    ELSE IF blobs[d.digest].hash # d.digest THEN "digest_mismatch" ELSE "ok"

CheckShape(descs) == IF \E d \in Range(descs) : d.size < 0 THEN "malformed_descriptor" ELSE "ok"

\* validateDescriptorAgainstBlob, then the parse of what the blob should be.
Load(blobs, d, kind) ==
    IF CheckBlob(blobs, d) # "ok" THEN CheckBlob(blobs, d)
    ELSE IF blobs[d.digest].kind # kind THEN "malformed_layout"
    ELSE CheckShape(blobs[d.digest].refs)

Failure(code) == [code |-> code, images |-> <<>>, attestations |-> <<>>]

\* What one descriptor leads to, then what the next one does; the first error is thrown.
Join(found, more) ==
    IF found.code # "ok" THEN found
    ELSE IF more.code # "ok" THEN more
    ELSE [code |-> "ok", images |-> found.images \o more.images,
          attestations |-> found.attestations \o more.attestations]

\* Mutant: the first descriptor is the image, whatever it says it is.
ResolveFirst(blobs, descs) == [Failure("ok") EXCEPT !.images = <<descs[1]>>]

\* resolveIndexDescriptors: the leaves below a list of descriptors, in order, where indexes may
\* be nested so many levels more.
Resolve(blobs, descs) ==
    LET all == Range(descs) \cup UNION {Range(blobs[b].refs) : b \in DOMAIN blobs}
        Leaves(of, ds) == FoldLeft(LAMBDA found, d : Join(found, of[d]), Failure("ok"), ds)
        below[levels \in 0..MaxNesting] == [d \in all |->
          IF d.media = "index"
          THEN IF Load(blobs, d, "index") # "ok" THEN Failure(Load(blobs, d, "index"))
               ELSE IF levels = 0 THEN Failure("malformed_layout")
               ELSE Leaves(below[levels-1], blobs[d.digest].refs)
          ELSE IF d.attestation THEN [Failure("ok") EXCEPT !.attestations = <<d>>]
          ELSE [Failure("ok") EXCEPT !.images = <<d>>]]
    IN  Leaves(below[MaxNesting], descs)

\* The first of several checks to fail.
FirstBad(codes) == LET bad == {i \in DOMAIN codes : codes[i] # "ok"}
                   IN IF bad = {} THEN "ok" ELSE codes[Min(bad)]

-----------------------------------------------------------------------------
(* layer-walk.ts.  Entries are files and whiteout markers: "whiteout" for   *)
(* the path it deletes, "opaque" for the directory it is in.  A leading     *)
(* slash is gone from a path before anything looks at it.                   *)

LayersOf(blobs, manifest) ==
    [i \in 1..Len(manifest.refs)-1 |-> blobs[manifest.refs[i+1].digest].entries]

Walk(blobs, manifest) ==
    FirstBad([i \in 1..Len(manifest.refs)-1 |->
      LET l == manifest.refs[i+1] IN
      IF CheckBlob(blobs, l) # "ok" THEN CheckBlob(blobs, l)
      ELSE IF blobs[l.digest].kind # "layer" THEN "corrupt_layer"
      ELSE IF \E e \in Range(blobs[l.digest].entries) : ".." \in Range(e.path) THEN "path_traversal"
      ELSE "ok"])

\* isDeletedAtOrAbove, for a file of layer i (the lowest layer is the first).
Deleted(layers, i, path) ==
    \E j \in i..Len(layers) : \E m \in Range(layers[j]) :
      \/ m.type = "whiteout" /\ m.path = path
      \/ j > i /\ m.type = "opaque" /\ IsStrictPrefix(m.path, path)

-----------------------------------------------------------------------------
(* secret-scan.ts, allowlist.ts, config-scan.ts *)

\* The occurrences of a pattern that an entry looks at: without the pattern's flags those of
\* another case are not found.
Enumerated(a, pattern, text) == {o \in text.occurrences : o[1] = pattern /\ (a.flags \/ o[3])}

Applies(a, pattern, path, text) == pattern \in a.patterns /\ IsSuffix(a.path, path) /\ text.marks

\* Mutant: one reviewed occurrence excuses the file.
ExcusedByOne(pattern, path, text) ==
    \E a \in Allowlist : /\ Applies(a, pattern, path, text)
                         /\ \E o \in Enumerated(a, pattern, text) : o[2] \in a.pins

\* One entry has to account for every occurrence of the pattern it finds in the file.
Excused(pattern, path, text) ==
    \E a \in Allowlist : /\ Applies(a, pattern, path, text)
                         /\ Enumerated(a, pattern, text) # {}
                         /\ \A o \in Enumerated(a, pattern, text) : o[2] \in a.pins

Findings(path, text) ==
    IF text.binary THEN {}
    ELSE {p \in {o[1] : o \in text.occurrences} : ~Excused(p, path, text)}

\* Mutant: what a later layer deletes is left out.
ScanMerged(layers) ==
    \A i \in 1..Len(layers) : \A e \in Range(layers[i]) :
      e.type = "file" /\ ~Deleted(layers, i, e.path) => Findings(e.path, e.text) = {}

\* scanLayersForSecretsAndTopology: every file of every layer, whiteouts or not.
ScanLayers(layers) ==
    \A i \in DOMAIN layers : \A e \in Range(layers[i]) :
      e.type = "file" => Findings(e.path, e.text) = {}

\* extractConfigStrings, scanned as files named after their place in the configuration.
ScannedFields == {"Env", "Cmd", "Entrypoint", "Labels", "history"}

ScanConfig(config) == \A f \in ScannedFields \cap DOMAIN config.fields :
    Findings(<<f>>, config.fields[f]) = {}

-----------------------------------------------------------------------------
(* gate.ts *)

ScanPlatformLayout(input) ==
    LET blobs == input.layout.blobs
        found == Resolve(blobs, input.layout.index)
        image == found.images[1]
        attested == FirstBad([i \in DOMAIN found.attestations |-> CheckBlob(blobs, found.attestations[i])])
        manifest == blobs[image.digest]
        config == manifest.refs[1]
    IN  IF input.layout.index = <<>> THEN "malformed_layout"
        ELSE IF CheckShape(input.layout.index) # "ok" THEN "malformed_descriptor"
        ELSE IF found.code # "ok" THEN found.code
        ELSE IF Len(found.images) # 1 THEN "malformed_layout"
        ELSE IF image.platform \notin {NoPlatform, input.platform} THEN "malformed_layout"
        ELSE IF attested # "ok" THEN attested
        ELSE IF Load(blobs, image, "manifest") # "ok" THEN Load(blobs, image, "manifest")
        ELSE IF Walk(blobs, manifest) # "ok" THEN Walk(blobs, manifest)
        ELSE IF ~ScanLayers(LayersOf(blobs, manifest)) THEN "finding"
        ELSE IF Load(blobs, config, "config") # "ok" THEN Load(blobs, config, "config")
        ELSE IF ~ScanConfig(blobs[config.digest]) THEN "finding"
        ELSE "ok"

\* The manifest that passed; a platform it does not declare is the one it was asked for.
Scanned(input) ==
    LET image == Resolve(input.layout.blobs, input.layout.index).images[1]
    IN  [digest |-> image.digest, size |-> image.size, media |-> image.media,
         attestation |-> image.attestation,
         platform |-> IF image.platform = NoPlatform THEN input.platform ELSE image.platform]

\* runContentGate over the platforms supplied, and assembleLocalOciIndex over the results.
CheckPlatforms(res) ==
    LET seen == [i \in 1..Len(res) |-> res[i].platform] IN
    IF Cardinality(Range(seen)) < Len(seen) THEN "duplicate_platform"
    ELSE IF ~(Range(seen) \subseteq Platforms) THEN "extra_platform"
    ELSE IF Range(seen) # Platforms THEN "missing_platform"
    ELSE "ok"

Throw(code) == verdict' = "thrown" /\ error' = code

ScanNext ==
    /\ verdict = "running" /\ at <= Len(inputs)
    /\ LET code == ScanPlatformLayout(inputs[at]) IN
         IF code = "ok"
         THEN /\ results' = Append(results, Scanned(inputs[at])) /\ at' = at + 1
              /\ UNCHANGED <<verdict, error>>
         ELSE Throw(code) /\ UNCHANGED <<results, at>>
    /\ UNCHANGED <<inputs, archive>>

Assemble ==
    /\ verdict = "running" /\ at > Len(inputs)
    /\ LET code == CheckPlatforms(results) IN
         IF code = "ok" THEN verdict' = "pass" /\ UNCHANGED error ELSE Throw(code)
    /\ UNCHANGED <<inputs, at, results, archive>>

NoArchive == [entries |-> <<>>, cut |-> 0]

GateInit ==
    /\ at = 1 /\ results = <<>> /\ error = "none"
    /\ \/ inputs \in Inputs /\ verdict = "running" /\ archive = NoArchive
       \/ /\ inputs = <<>> /\ verdict = "reader"
          /\ archive \in {[entries |-> es, cut |-> 0] : es \in Archives}

\* The archive ends n units early.
CutShort(n) ==
    /\ verdict = "reader" /\ archive.cut = 0
    /\ archive' = [archive EXCEPT !.cut = n]
    /\ UNCHANGED <<inputs, at, results, verdict, error>>

GateNext == \/ ScanNext \/ Assemble
        \/ \E n \in 1..Len(EncodeAll(archive.entries)) : CutShort(n)

GateSpec == GateInit /\ [][GateNext]_gateVars

-----------------------------------------------------------------------------
(* What the gate is for, said without its order of checks.                  *)

\* Everything below a list of descriptors, as deep as the gate goes: indexes, manifests, and
\* their configurations and layers.
Below(blobs, descs) ==
    LET refs(D) == UNION {Range(blobs[d.digest].refs) : d \in {x \in D : x.digest \in DOMAIN blobs}}
        reach[n \in Nat] == IF n = 0 THEN Range(descs) ELSE reach[n-1] \cup refs(reach[n-1])
    IN  reach[MaxNesting + 2]

\* Every occurrence in the text was reviewed for a file of that path or, unless anyCase, is of
\* a case that the entry for that path does not look at.
Reviewed(path, text, anyCase) == text.binary \/ \A o \in text.occurrences :
    \E a \in Allowlist : /\ Applies(a, o[1], path, text)
                         /\ o[2] \in a.pins \/ (~anyCase /\ ~a.flags /\ ~o[3])

CleanBlob(b, anyCase) ==
    CASE b.kind = "layer" ->
           \A e \in Range(b.entries) : e.type = "file" => Reviewed(e.path, e.text, anyCase)
      [] b.kind = "config" ->
           \A f \in ScannedFields \cap DOMAIN b.fields : Reviewed(<<f>>, b.fields[f], anyCase)
      [] OTHER -> TRUE

Intact(blobs, d, kind) ==
    /\ d.digest \in DOMAIN blobs
    /\ blobs[d.digest].hash = d.digest /\ blobs[d.digest].size = d.size
    /\ blobs[d.digest].kind = kind

\* The published index only leads to bytes that are what their descriptors say: to a manifest,
\* and through it to a configuration and to layers (validateDescriptorAgainstBlob at each place
\* it is called).
ShippedIntact == verdict = "pass" => \A i \in 1..Len(inputs) :
    LET blobs == inputs[i].layout.blobs
        refs == blobs[results[i].digest].refs
    IN  /\ Intact(blobs, results[i], "manifest")
        /\ \A j \in DOMAIN refs : Intact(blobs, refs[j], IF j = 1 THEN "config" ELSE "layer")

\* No text file in any layer of a published image and no string in its configuration holds
\* an occurrence that was not reviewed for that file, be it deleted again by a later layer
\* (walkAllLayers, the scan and both allowlists).  The exception is what the older allowlist
\* does not look at: its copy of a pattern has lost the flags.
ShippedClean == verdict = "pass" => \A i \in 1..Len(inputs) :
    LET blobs == inputs[i].layout.blobs
        refs == blobs[results[i].digest].refs
    IN  \A j \in DOMAIN refs : CleanBlob(blobs[refs[j].digest], FALSE)

\* One clean, intact image that the layout declares for the platform it is supplied for.
Acceptable(input) ==
    LET all == Below(input.layout.blobs, input.layout.index)
        images == {d \in all : d.media = "manifest" /\ ~d.attestation}
    IN  /\ \A d \in all : /\ Intact(input.layout.blobs, d, d.media)
                           /\ CleanBlob(input.layout.blobs[d.digest], TRUE)
        /\ Cardinality(images) = 1 /\ \A d \in images : d.platform \in {NoPlatform, input.platform}
        /\ \A d \in all : d.media = "layer" =>
             \A e \in Range(input.layout.blobs[d.digest].entries) : ".." \notin Range(e.path)
        /\ input.layout.depth <= MaxNesting

\* Whatever the shape of the index (flat, nested, attestations before or after the image),
\* a complete set of layouts with one clean, intact image each is let through.
CleanPasses ==
    (/\ verdict \notin {"running", "reader"} /\ Len(inputs) = Cardinality(Platforms)
     /\ {inputs[i].platform : i \in 1..Len(inputs)} = Platforms
     /\ \A i \in 1..Len(inputs) : Acceptable(inputs[i])) => verdict = "pass"

\* The reader yields what was written, also where a body looks like a header or like the end
\* of the archive and where the size is only in an extended header (parseTar).
ReadsBack == verdict = "reader" /\ archive.cut = 0 =>
    Parse(EncodeAll(archive.entries)) = [ok |-> TRUE, entries |-> Plainly(archive.entries)]

\* Of an archive that ends early the reader takes whole entries or fails; it never takes a
\* part of one for the whole ("never silently drops a trailing partial entry").
CutIsSeen == verdict = "reader" /\ archive.cut > 0 =>
    LET whole == EncodeAll(archive.entries)
        read == Parse(SubSeq(whole, 1, Len(whole) - archive.cut))
    IN  read.ok => IsPrefix(read.entries, Plainly(archive.entries))
=============================================================================
