------------------------------- MODULE OciTar -------------------------------
(***************************************************************************)
(* The archive reader of the content gate (src/registrar/src/oci-gate/      *)
(* tar.ts).  A buffer is a sequence of units; BlockSize units make a block  *)
(* (512 bytes in the code).  The first unit of a header block carries the   *)
(* header's fields; a unit of a body may be anything, zeros and another     *)
(* header included.                                                         *)
(***************************************************************************)
EXTENDS Integers, SequencesExt

CONSTANT BlockSize

ASSUME BlockAssumption == BlockSize \in Nat \ {0}

Zero == [unit |-> "zero"]
Text == [unit |-> "text"]
Header(type, size, name) == [unit |-> "header", type |-> type, size |-> size, name |-> name]
Value(v) == [unit |-> "value", value |-> v]

\* What extended headers have said of the entry to come.
NoSize == -1
NoPax == [size |-> NoSize, path |-> ""]
MergePax(old, new) == [size |-> IF new.size # NoSize THEN new.size ELSE old.size,
                       path |-> IF new.path # "" THEN new.path ELSE old.path]

Malformed == [ok |-> FALSE, entries |-> <<>>]
Padded(n) == ((n + BlockSize - 1) \div BlockSize) * BlockSize

IsZeroBlock(buf, off) == \A i \in off+1..off+BlockSize : buf[i] = Zero

\* Mutant: the size of the header's own field.
UstarSize(h, pax) == h.size

\* An extended header's size record governs the body of the entry after it.
BodySize(h, pax) ==
    IF h.type \notin {"L", "x"} /\ pax.size # NoSize THEN pax.size ELSE h.size

\* Mutant: a body that is cut off is taken as far as it goes.
FitsAlways(buf, end) == TRUE

Fits(buf, end) == end <= Len(buf)

\* The fields of a block that is taken for a header: all empty where it is zero, and no number
\* for a size where it is text (readOctal throws).
NoHeader == Header("none", 0, "")
ReadHeader(u) == IF u = Zero THEN Header("0", 0, "") ELSE IF u.unit = "header" THEN u ELSE NoHeader

\* One turn of parseTar's loop, with a long name or extended fields pending.  A block without a
\* size and a body that does not fit fail the archive; less than a block at the end is ignored.
ParseBlock(buf, s) ==
    LET h == ReadHeader(buf[s.off+1])
        start == s.off + BlockSize
        size == BodySize(h, s.pax)
        data == SubSeq(buf, start + 1, IF start + size < Len(buf) THEN start + size ELSE Len(buf))
        read == [s EXCEPT !.off = start + Padded(size), !.zeros = 0]
        name == CASE s.pax.path # "" -> s.pax.path
                  [] s.pax.path = "" /\ s.longName # "" -> s.longName
                  [] OTHER -> h.name
    IN  IF ~s.ok \/ s.zeros = 2 \/ start > Len(buf) THEN s
        ELSE IF IsZeroBlock(buf, s.off) THEN [s EXCEPT !.off = start, !.zeros = @ + 1]
        ELSE IF h = NoHeader \/ ~Fits(buf, start + size) THEN [s EXCEPT !.ok = FALSE]
        ELSE CASE h.type = "L" -> [read EXCEPT !.longName = data[1].value]
               [] h.type = "x" -> [read EXCEPT !.pax = MergePax(@, data[1].value)]
               [] OTHER -> [read EXCEPT !.longName = "", !.pax = NoPax,
                              !.entries = Append(@, [name |-> name, data |-> data])]

\* parseTar: every turn but the last ones takes a block at least.
Parse(buf) ==
    LET begin == [ok |-> TRUE, off |-> 0, longName |-> "", pax |-> NoPax, zeros |-> 0, entries |-> <<>>]
        turn[n \in Nat] == IF n = 0 THEN begin ELSE ParseBlock(buf, turn[n-1])
        end == turn[Len(buf) \div BlockSize]
    IN  IF end.ok THEN [ok |-> TRUE, entries |-> end.entries] ELSE Malformed

-----------------------------------------------------------------------------
(* Archives as writers make them: an entry is plain, has its name in a      *)
(* long-name entry, or its size and its name in two extended headers and     *)
(* neither in its own.                                                       *)

Block(h) == <<h>> \o [i \in 1..BlockSize-1 |-> Text]
Body(data) == data \o [i \in 1..Padded(Len(data)) - Len(data) |-> Zero]

Encode(e) ==
    CASE e.style = "plain" -> Block(Header("0", Len(e.data), e.name)) \o Body(e.data)
      [] e.style = "pax" -> Block(Header("x", 1, "")) \o Body(<<Value([NoPax EXCEPT !.size = Len(e.data)])>>)
                            \o Block(Header("x", 1, "")) \o Body(<<Value([NoPax EXCEPT !.path = e.name])>>)
                            \o Block(Header("0", 0, "short")) \o Body(e.data)
      [] e.style = "long" -> Block(Header("L", 1, "")) \o Body(<<Value(e.name)>>)
                             \o Block(Header("0", Len(e.data), "short")) \o Body(e.data)

EncodeAll(es) == FlattenSeq([i \in 1..Len(es) |-> Encode(es[i])]) \o [i \in 1..2*BlockSize |-> Zero]

\* What an archive is to yield.
Plainly(es) == [i \in 1..Len(es) |-> [name |-> es[i].name, data |-> es[i].data]]
=============================================================================
