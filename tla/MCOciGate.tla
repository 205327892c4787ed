----------------------------- MODULE MCOciGate -----------------------------
(* Layouts and archives for TLC: a good layout with one thing changed.        *)
EXTENDS OciGate

Txt(occ, marks, binary) == [occurrences |-> occ, marks |-> marks, binary |-> binary]
Clean == Txt({}, FALSE, FALSE)
Secret == Txt({<<"key", "s", TRUE>>}, FALSE, FALSE)
Texts == {Clean, Secret,
          Txt({<<"assign", "doc", TRUE>>}, TRUE, FALSE),                 \* the upstream file as reviewed
          Txt({<<"assign", "doc", TRUE>>}, FALSE, FALSE),                \* not that file
          Txt({<<"assign", "doc", TRUE>>, <<"assign", "live", TRUE>>}, TRUE, FALSE),  \* with a line added
          Txt({<<"assign", "doc", TRUE>>, <<"key", "s", TRUE>>}, TRUE, FALSE), \* with a key added
          Txt({<<"assign", "doc", TRUE>>, <<"assign", "live", FALSE>>}, TRUE, FALSE), \* in another case
          Txt({<<"key", "s", TRUE>>}, FALSE, TRUE)}

Conf == <<"etc", "app.conf">>
Readme == <<"arborist", "README.md">>
Upstream == <<"usr", "lib", "ipaddress.py">>
MCAllowlist == {[patterns |-> {"assign"}, path |-> <<"lib", "ipaddress.py">>, pins |-> {"doc", "doc2"}, flags |-> TRUE],
                [patterns |-> {"assign"}, path |-> <<"npm-token.md">>, pins |-> {"live"}, flags |-> TRUE],
                [patterns |-> {"assign"}, path |-> <<"README.md">>, pins |-> {"doc"}, flags |-> FALSE]}

File(path, text) == [type |-> "file", path |-> path, text |-> text]
Marker(type, path) == [type |-> type, path |-> path, text |-> Clean]
Lower == {<<File(p, t)>> : p \in {Conf, Upstream, Readme}, t \in Texts}
Upper == {<<>>, <<Marker("whiteout", Conf)>>, <<Marker("opaque", <<"etc">>)>>,
          <<File(Conf, Clean), Marker("whiteout", Upstream)>>, <<File(<<"..", "x">>, Clean)>>}

Desc(digest, media, platform, att) ==
    [digest |-> digest, size |-> 1, media |-> media, platform |-> platform, attestation |-> att]
Blob(digest, kind, refs) == [hash |-> digest, size |-> 1, kind |-> kind, refs |-> refs]

Cfg(t) == [Env |-> t, Comment |-> Secret]
GoodContent == [low |-> <<File(Conf, Clean)>>, up |-> <<>>, env |-> Clean]
Contents == [low : Lower, up : Upper, env : {Clean}] \cup [low : {GoodContent.low}, up : Upper, env : {Secret}]

Image(p) == Desc("manifest", "manifest", p, FALSE)
Att == Desc("att", "manifest", "unknown", TRUE)
Nested(n) == Desc("nested" \o ToString(n), "index", NoPlatform, FALSE)
Shapes(p) == {[index |-> <<Image(p)>>, depth |-> 0], [index |-> <<Att, Image(p)>>, depth |-> 0],
              [index |-> <<Image(p), [Image(p) EXCEPT !.digest = "manifest2"]>>, depth |-> 0],
              [index |-> <<Att>>, depth |-> 0], [index |-> <<>>, depth |-> 0],
              [index |-> <<[Image(p) EXCEPT !.size = -1]>>, depth |-> 0],
              [index |-> <<Nested(1)>>, depth |-> 1], [index |-> <<Nested(2)>>, depth |-> 2]}

Blobs(p, c) ==
    [d \in {"manifest", "manifest2", "config", "low", "up", "att", "nested1", "nested2"} |->
      CASE d \in {"manifest", "manifest2"} ->
             Blob(d, "manifest", <<Desc("config", "config", NoPlatform, FALSE),
                                   Desc("low", "layer", NoPlatform, FALSE), Desc("up", "layer", NoPlatform, FALSE)>>)
        [] d = "config" -> [hash |-> d, size |-> 1, kind |-> "config", refs |-> <<>>, fields |-> Cfg(c.env)]
        [] d \in {"low", "up"} -> [hash |-> d, size |-> 1, kind |-> "layer", refs |-> <<>>,
                                   entries |-> IF d = "low" THEN c.low ELSE c.up]
        [] d = "att" -> Blob(d, "manifest", <<>>)
        [] d = "nested1" -> Blob(d, "index", <<Att, Image(p)>>)
        [] d = "nested2" -> Blob(d, "index", <<Nested(1)>>)]

Damage(blobs, how, d) ==
    CASE how = "none" -> blobs
      [] how = "missing" -> [x \in DOMAIN blobs \ {d} |-> blobs[x]]
      [] how = "tampered" -> [blobs EXCEPT ![d].hash = "other"]
      [] how = "resized" -> [blobs EXCEPT ![d].size = 2]
      [] how = "junk" -> [blobs EXCEPT ![d].kind = "junk"]

Layout(p, s, c, how, d) == [index |-> s.index, depth |-> s.depth, blobs |-> Damage(Blobs(p, c), how, d)]
Good(p) == Layout(p, [index |-> <<Image(p)>>, depth |-> 0], GoodContent, "none", "low")

Variants(p) ==
    {Layout(p, s, c, "none", "low") : s \in {[index |-> <<Image(p)>>, depth |-> 0]}, c \in Contents}
    \cup UNION {{Layout(q, s, GoodContent, how, d) : s \in Shapes(q),
                   how \in {"none", "missing", "tampered", "resized", "junk"},
                   d \in {"manifest", "config", "low", "up", "att", "nested1"}} : q \in {NoPlatform, p, "other"}}

In(p, layout) == [platform |-> p, layout |-> layout]
MCInputs == UNION {{<<In("amd64", v), In("arm64", Good("arm64"))>>, <<In("amd64", v)>>,
                    <<In("amd64", v), In("amd64", Good("amd64"))>>,
                    <<In("amd64", v), In("arm64", Good("arm64")), In("riscv", Good("riscv"))>>} : v \in Variants("amd64")}
            \cup {<<In("amd64", Good(NoPlatform)), In("arm64", v)>> : v \in Variants("arm64")}

Decoy == Header("0", 1, "decoy")
Bodies == UNION {[1..n -> {Zero, Text, Decoy}] : n \in 0..3}
Entry(name, style, data) == [name |-> name, style |-> style, data |-> data]
Entries(name) == {Entry(name, style, data) : style \in {"plain", "pax", "long"}, data \in Bodies}
MCArchives == {<<e>> : e \in Entries("a")}
              \cup {<<e, Entry("b", style, <<Text>>)>> : e \in Entries("a"), style \in {"plain", "pax", "long"}}
=============================================================================
