------------------------------- MODULE Layout -------------------------------
(***************************************************************************)
(* Region layouts: musefs-format/src/layout.rs, ogg/b64.rs and the loop of *)
(* musefs-core/src/reader.rs that serves a window of a layout.             *)
(*                                                                         *)
(* Bytes are abstract.  An image is a sequence of pieces [c, lo, hi]: the  *)
(* bytes lo..hi-1 of a content c.  A content is a header with its fields,  *)
(* a text, or a blob known by its name; what a header declares (a length,  *)
(* a count) is a field of it, so a reader that trusts a wrong length ends  *)
(* up off a boundary and finds no content there.  A payload of the store   *)
(* (a picture, a binary tag) is named by its own bytes.                    *)
(***************************************************************************)
EXTENDS Integers, Sequences, SequencesExt, FiniteSetsExt

\* The left fold (the library's takes cubic time).  Each accumulator is bound
\* to a variable, so that TLC evaluates it before it goes on.
Fold(op(_, _), base, seq) ==
    LET RECURSIVE From(_, _)
        From(acc, i) ==
            IF i > Len(seq) THEN acc
            ELSE CHOOSE r \in {From(next, i + 1) : next \in {op(acc, seq[i])}} : TRUE
    IN  From(base, 1)

Larger(a, b) == IF a > b THEN a ELSE b
Smaller(a, b) == IF a < b THEN a ELSE b

Ok(v) == [st |-> "ok", v |-> v]
NeedMore(up_to) == [st |-> "more", up_to |-> up_to]
Err(e) == [st |-> "err", e |-> e]

\* What F makes of a value; an error, or a call for more, is passed on.
Then(r, F(_)) == IF r.st = "ok" THEN Ok(F(r.v)) ELSE r
AndThen(r, F(_)) == IF r.st = "ok" THEN F(r.v) ELSE r
OrEmpty(r) == IF r.st = "ok" THEN r.v ELSE <<>>

(***************************************************************************)
(* Images.                                                                 *)
(***************************************************************************)
Piece(c, lo, hi) == [c |-> c, lo |-> lo, hi |-> hi]

\* A content of n bytes as a whole; the content carries its length.
Cell(c) == Piece(c, 0, c.n)

\* A blob's content does not end at a length it carries.
BlobContent(name) == [k |-> "blob", name |-> name, n |-> 0]

Blob(name, n) == <<Piece(BlobContent(name), 0, n)>>

SizeOf(img) == Fold(LAMBDA acc, p : acc + p.hi - p.lo, 0, img)

Continues(p, q) == p.c = q.c /\ p.hi = q.lo

\* Pieces that follow each other in one content are one piece; none is empty.
Join(img) ==
    Fold(LAMBDA acc, p :
                IF p.lo = p.hi THEN acc
                ELSE IF acc # <<>> /\ Continues(Last(acc), p)
                     THEN Append(Front(acc), [Last(acc) EXCEPT !.hi = p.hi])
                     ELSE Append(acc, p),
             <<>>, img)

\* The bytes a..b-1 of an image.
Cut(img, a, b) ==
    Join(Fold(LAMBDA acc, p :
            LET from == Larger(a, acc.pos)
                to == Smaller(b, acc.pos + p.hi - p.lo)
            IN  [pos |-> acc.pos + p.hi - p.lo,
                 out |-> IF from >= to THEN acc.out
                         ELSE Append(acc.out, Piece(p.c, p.lo + from - acc.pos, p.lo + to - acc.pos))],
            [pos |-> 0, out |-> <<>>], img).out)

NoContent == [k |-> "none", n |-> 0]

\* The content that begins at offset p, whole, or none.
At(img, p) ==
    Fold(LAMBDA acc, q :
                [pos |-> acc.pos + q.hi - q.lo,
                 c |-> IF acc.pos = p /\ q.lo = 0 /\ q.c.n \in {0, q.hi} THEN q.c ELSE acc.c],
             [pos |-> 0, c |-> NoContent], img).c

Is(img, p, kind) == At(img, p).k = kind

Concat(imgs) == Fold(LAMBDA acc, s : acc \o s, <<>>, imgs)

Each(seq, F(_)) == [i \in 1..Len(seq) |-> F(seq[i])]
ConcatEach(seq, F(_)) == Concat(Each(seq, F))

(***************************************************************************)
(* Segments.                                                               *)
(***************************************************************************)
Inline(img) == [t |-> "Inline", img |-> img]
ArtImage(art) == [t |-> "ArtImage", id |-> art, len |-> SizeOf(art)]
BinaryTag(payload) == [t |-> "BinaryTag", id |-> payload, len |-> SizeOf(payload)]
BackingAudio(offset, len) == [t |-> "BackingAudio", offset |-> offset, len |-> len]
OggAudio(offset, len, delta) ==
    [t |-> "OggAudio", offset |-> offset, len |-> len, seq_delta |-> delta]
OggArtSlice(art, offset, len, base64) ==
    [t |-> "OggArtSlice", id |-> art, offset |-> offset, len |-> len, base64 |-> base64,
     art_total |-> SizeOf(art)]

LenOf(seg) == IF seg.t = "Inline" THEN SizeOf(seg.img) ELSE seg.len

total_len(segs) == Fold(LAMBDA acc, s : acc + LenOf(s), 0, segs)

b64_len(n) == ((n + 2) \div 3) * 4

\* RegionLayout::validated
validated(segs) ==
    IF \E i \in 1..Len(segs) : LenOf(segs[i]) = 0 /\ segs[i].t \notin {"BackingAudio", "OggAudio"}
    THEN Err("EmptySegment")
    ELSE IF \E i \in 1..Len(segs) :
                /\ segs[i].t = "OggArtSlice"
                /\ segs[i].offset + segs[i].len >
                      IF segs[i].base64 THEN b64_len(segs[i].art_total) ELSE segs[i].art_total
         THEN Err("OggArtSliceOutOfBounds")
         ELSE Ok(segs)

(***************************************************************************)
(* base64, served by windows.                                              *)
(***************************************************************************)

\* The encoding of the bytes a..b-1 of a picture: whole groups of three are
\* known by where in the picture they lie, a short last group is padded.
Encoded(art, a, b) ==
    LET whole == (b - a) \div 3
    IN  Join(<<Piece([k |-> "b64", art |-> art, phase |-> a % 3, n |-> 0], 4 * (a \div 3), 4 * (a \div 3 + whole))>>
             \o (IF (b - a) % 3 = 0 THEN <<>>
                 ELSE <<Cell([k |-> "b64end", art |-> art, from |-> a + 3 * whole, to |-> b, n |-> 4])>>))

\* The image these characters decode to: whole groups, and a padded group
\* only at the end.
Decoded(chars) ==
    LET ok(i) == LET p == chars[i] IN
            \/ p.c.k = "b64" /\ p.c.phase = 0 /\ p.lo % 4 = 0 /\ p.hi % 4 = 0
            \/ p.c.k = "b64end" /\ i = Len(chars) /\ p.hi - p.lo = 4
        raw(p) == IF p.c.k = "b64" THEN Cut(p.c.art, 3 * (p.lo \div 4), 3 * (p.hi \div 4))
                  ELSE Cut(p.c.art, p.c.from, p.c.to)
    IN  IF \A i \in 1..Len(chars) : ok(i)
        THEN Ok(Join(ConcatEach(chars, raw))) ELSE Err("Malformed")

b64_window(out_offset, take, total) ==
    LET g0 == out_offset \div 4
        g1 == (out_offset + take - 1) \div 4
    IN  [in_start |-> g0 * 3, in_end |-> Smaller((g1 + 1) * 3, total), skip |-> out_offset - g0 * 4]

encode_b64_slice(art, w, take) ==
    LET enc == Encoded(art, w.in_start, w.in_end)
    IN  IF w.skip + take > SizeOf(enc) THEN Err("BackingChanged") ELSE Ok(Cut(enc, w.skip, w.skip + take))

(***************************************************************************)
(* Serving.  The part of a window that is Ogg audio comes from             *)
(* serve_ogg_window of module Ogg and is given as ogg.                     *)
(***************************************************************************)

\* What n bytes from `within` of one segment are.
ReadSegment(seg, within, n, file, ogg) ==
    CASE seg.t = "Inline" -> Ok(Cut(seg.img, within, within + n))
      [] seg.t = "BackingAudio" ->
            IF seg.offset + within + n > SizeOf(file) THEN Err("UnexpectedEof")
            ELSE Ok(Cut(file, seg.offset + within, seg.offset + within + n))
      [] seg.t \in {"ArtImage", "BinaryTag"} -> Ok(Cut(seg.id, within, within + n))
      [] seg.t = "OggAudio" -> ogg
      [] seg.t = "OggArtSlice" ->
            IF seg.base64
            THEN encode_b64_slice(seg.id, b64_window(seg.offset + within, n, seg.art_total), n)
            ELSE Ok(Cut(seg.id, seg.offset + within, seg.offset + within + n))

\* read_segments_into: the overlaps of the window with the segments, in order.
read_segments(segs, file, offset, size, ogg) ==
    LET end == Smaller(offset + size, total_len(segs))
        overlap(acc, seg, from, to) ==
            IF from >= to THEN acc.r
            ELSE AndThen(acc.r, LAMBDA out :
                    Then(ReadSegment(seg, from - acc.pos, to - from, file, ogg), LAMBDA more : out \o more))
        step(acc, seg) ==
            [pos |-> acc.pos + LenOf(seg),
             r |-> overlap(acc, seg, Larger(offset, acc.pos), Smaller(end, acc.pos + LenOf(seg)))]
    IN  Then(Fold(step, [pos |-> 0, r |-> Ok(<<>>)], segs).r, Join)
=============================================================================
