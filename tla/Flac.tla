-------------------------------- MODULE Flac --------------------------------
(***************************************************************************)
(* FLAC files and Vorbis comments: musefs-format/src/flac.rs and           *)
(* vorbiscomment.rs.                                                       *)
(***************************************************************************)
EXTENDS Id3

MAX_BLOCK_BODY == 2^24 - 1
STREAMINFO_BODY_LEN == 34
VENDOR == 6                     \* the length of "musefs"

Marker == Cell([k |-> "fLaC", n |-> 4])

BlockHeader(type, len, last) == Cell([k |-> "block", type |-> type, len |-> len, last |-> last, n |-> 4])

Preserved == {"STREAMINFO", "APPLICATION", "SEEKTABLE", "CUESHEET"}

\* The order of the block types' codes.
TypeCode == [STREAMINFO |-> 0, PADDING |-> 1, APPLICATION |-> 2, SEEKTABLE |-> 3,
             VORBIS_COMMENT |-> 4, CUESHEET |-> 5, PICTURE |-> 6]

Block(type, body) == [type |-> type, body |-> body]

(***************************************************************************)
(* Vorbis comments.                                                        *)
(***************************************************************************)
FieldComment(field, v) ==
    <<Cell([k |-> "vclen", len |-> Width(field) + 1 + Width(v), n |-> 4]),
      Cell([k |-> "comment", field |-> field, v |-> v, n |-> Width(field) + 1 + Width(v)])>>

Comment(t) == FieldComment(key_to_vorbis(t.key), t.value)

\* vorbiscomment::build leaves out keys that are no field names.
VorbisBuild(tags) ==
    LET valid == SelectSeq(tags, LAMBDA t : t.key \notin NotVorbis)
    IN  <<Cell([k |-> "vendor", len |-> VENDOR, n |-> 4 + VENDOR]),
          Cell([k |-> "vccount", count |-> Len(valid), n |-> 4])>>
        \o ConcatEach(valid, Comment)

\* A picture among the comments, in base64.
PICTURE_KEY == "METADATA_BLOCK_PICTURE"

\* A comment without "=" is skipped.
RECURSIVE ReadComments(_, _, _)
ReadComments(body, p, left) ==
    LET h == At(body, p)
        c == At(body, p + 4)
        rest == ReadComments(body, p + 4 + h.len, left - 1)
    IN  IF left = 0 THEN Ok(<<>>)
        ELSE IF h.k # "vclen" \/ p + 4 + h.len > SizeOf(body) THEN Err("Malformed")
        ELSE IF rest.st # "ok" THEN rest
        ELSE CASE c.k = "comment" -> Ok(<<Tag(vorbis_to_key(c.field), c.v)>> \o rest.v)
               [] c.k = PICTURE_KEY -> Ok(<<Tag(PICTURE_KEY, Cut(body, p + 4 + c.n, p + 4 + h.len))>> \o rest.v)
               [] OTHER -> rest

VorbisParse(body) ==
    LET v == At(body, 0)
        count == At(body, 4 + v.len)
    IN  IF v.k # "vendor" THEN Err("Malformed")
        ELSE IF count.k # "vccount" THEN Err("Malformed")
        ELSE ReadComments(body, 8 + v.len, count.count)

(***************************************************************************)
(* The blocks of a file.                                                   *)
(***************************************************************************)

\* check_streaminfo_position: STREAMINFO is first, of its length, and once.
StreamInfoMisplaced(index, h) ==
    IF index = 0 THEN h.type # "STREAMINFO" \/ h.len # STREAMINFO_BODY_LEN
    ELSE h.type = "STREAMINFO"

\* A header whose body is not there yet is checked before more is read.
Truncated(index, h, up_to) ==
    IF StreamInfoMisplaced(index, h) THEN Err("Malformed") ELSE NeedMore(up_to)

\* BlockWalker, with the checks of read_metadata_bounded: the blocks and
\* where they end.
RECURSIVE WalkBlocks(_, _, _)
WalkBlocks(img, p, index) ==
    LET h == At(img, p)
        end == p + 4 + h.len
        rest == WalkBlocks(img, end, index + 1)
        here == <<Block(h.type, Cut(img, p + 4, end))>>
    IN  IF p + 4 > SizeOf(img) THEN NeedMore(p + 4)
        ELSE IF h.k # "block" THEN Err("Malformed")
        ELSE IF end > SizeOf(img) THEN Truncated(index, h, end)
        ELSE IF StreamInfoMisplaced(index, h) THEN Err("Malformed")
        ELSE IF h.last THEN Ok([blocks |-> here, audio_offset |-> end])
        ELSE IF rest.st = "ok" THEN Ok([rest.v EXCEPT !.blocks = here \o @])
        ELSE rest

\* BlockWalker::new_bounded
read_blocks_bounded(img) ==
    AndThen(leading_tags_len(img), LAMBDA base :
        IF SizeOf(img) < base + 4 THEN IF base = 0 THEN Err("NotFlac") ELSE NeedMore(base + 4)
        ELSE IF ~Is(img, base, "fLaC") THEN Err("NotFlac")
        ELSE WalkBlocks(img, base + 4, 0))

\* The unbounded readers have no more to ask for.
Whole(r) == IF r.st = "more" THEN Err("Malformed") ELSE r

\* audio_end: an ID3v1 trailer counts only behind a leading ID3v2 tag.
FlacBounds(file, m) ==
    LET len == SizeOf(file)
        end == IF starts_with_tag(file) /\ len >= m.audio_offset + 128 /\ HasId3v1(file)
               THEN len - 128 ELSE len
    IN  Bounds(m.audio_offset, end - m.audio_offset)

flac_locate_audio_bounded(prefix, file) ==
    AndThen(read_blocks_bounded(prefix), LAMBDA m :
        IF m.audio_offset > SizeOf(file) THEN Err("Malformed")
        ELSE Ok([bounds |-> FlacBounds(file, m), blocks |-> m.blocks]))

OfType(blocks, types) == SelectSeq(blocks, LAMBDA b : b.type \in types)

PictureFraming(art, desc) ==
    Cell([k |-> "picture", mime |-> art.mime, type |-> art.type, desc |-> desc,
          len |-> SizeOf(art.image), n |-> 32 + Width(art.mime) + Width(desc)])

parse_picture_block(body) ==
    LET c == At(body, 0) IN
    IF c.k # "picture" THEN Err("Malformed")
    ELSE IF c.n + c.len > SizeOf(body) THEN Err("Malformed")
    ELSE Ok(Art(Cut(body, c.n, c.n + c.len), c.mime, IF c.type \in 0..20 THEN c.type ELSE 0, c.desc))

\* All of them, or the first error.
AllOk(rs) ==
    LET bad == SelectSeq(rs, LAMBDA r : r.st # "ok")
    IN  IF bad # <<>> THEN Head(bad) ELSE Ok(Each(rs, LAMBDA r : r.v))

read_vorbis_comments(blocks) ==
    LET vc == OfType(blocks, {"VORBIS_COMMENT"}) IN IF vc = <<>> THEN Ok(<<>>) ELSE VorbisParse(Head(vc).body)

flac_read_pictures(blocks) ==
    AllOk(Each(OfType(blocks, {"PICTURE"}), LAMBDA b : parse_picture_block(b.body)))

\* split_preserved
structural_of(blocks) ==
    Each(OfType(blocks, {"STREAMINFO", "SEEKTABLE"}), LAMBDA b : [kind |-> b.type, body |-> b.body])

binary_of(blocks) ==
    Each(OfType(blocks, {"APPLICATION", "CUESHEET"}), LAMBDA b : Binary(b.type, b.body))

(***************************************************************************)
(* Synthesis.                                                              *)
(***************************************************************************)

\* A block to write: its type, what is inline of it, and what is streamed.
Out(type, head, streamed) == [type |-> type, head |-> head, streamed |-> streamed]

BodyLen(b) == SizeOf(b.head) + total_len(b.streamed)

IsLast(bs, i) == i = Len(bs)

\* The inline bytes of a block open the next inline segment.
BlockSegments(bs) ==
    LET step(acc, i) ==
            LET b == bs[i]
                buf == acc.buf \o <<BlockHeader(b.type, BodyLen(b), IsLast(bs, i))>> \o b.head
            IN  IF b.streamed = <<>> THEN [acc EXCEPT !.buf = buf]
                ELSE [segs |-> acc.segs \o <<Inline(buf)>> \o b.streamed, buf |-> <<>>]
        done == Fold(step, [segs |-> <<>>, buf |-> <<Marker>>], [i \in 1..Len(bs) |-> i])
    IN  done.segs \o IF done.buf = <<>> THEN <<>> ELSE <<Inline(done.buf)>>

\* The blocks in the order they are written.
OutBlocks(structural, tags, binary, arts) ==
    Each(SortSeq(structural, LAMBDA a, b : TypeCode[a.kind] < TypeCode[b.kind]), LAMBDA b : Out(b.kind, b.body, <<>>))
    \o <<Out("VORBIS_COMMENT", VorbisBuild(tags), <<>>)>>
    \o Each(SelectSeq(binary, LAMBDA b : b.key \in {"APPLICATION", "CUESHEET"}),
            LAMBDA b : Out(b.key, <<>>, <<BinaryTag(b.payload)>>))
    \o Each(arts, LAMBDA a : Out("PICTURE", <<PictureFraming(a, a.desc)>>, <<ArtImage(a.image)>>))

BlocksThenAudio(blocks, bounds) ==
    IF \E i \in 1..Len(blocks) : BodyLen(blocks[i]) > MAX_BLOCK_BODY THEN Err("TooLarge")
    ELSE validated(Append(BlockSegments(blocks), BackingAudio(bounds.audio_offset, bounds.audio_length)))

flac_synthesize_layout(structural, bounds, tags, binary, arts) ==
    LET infos == SelectSeq(structural, LAMBDA b : b.kind = "STREAMINFO")
    IN  IF Len(infos) # 1 \/ SizeOf(Head(infos).body) # STREAMINFO_BODY_LEN THEN Err("Malformed")
        ELSE BlocksThenAudio(OutBlocks(structural, tags, binary, arts), bounds)
=============================================================================
