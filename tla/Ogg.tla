--------------------------------- MODULE Ogg ---------------------------------
(***************************************************************************)
(* Ogg streams: musefs-format/src/ogg and musefs-core/src/ogg_index.rs.    *)
(*                                                                         *)
(* A page is a header content and its payload.  The segment table is kept  *)
(* as the fragments of packets on the page, each with its length and       *)
(* whether the packet ends there; a checksum is what it was computed over. *)
(***************************************************************************)
EXTENDS Mp4

CONSTANTS
    SeqModulus,      \* sequence numbers wrap here: 2^32, scaled
    MAX_CRC_CHECKS   \* pages one backward scan may validate

PAGE_PAYLOAD == 255 * 255
MAX_OGG_PAGE_BYTES == 27 + 255 + PAGE_PAYLOAD

Crc(seq, payload) == [seq |-> seq, of |-> payload]

Fragment(len, ends) == [len |-> len, ends |-> ends]

Laces(f) == f.len \div 255 + IF f.ends THEN 1 ELSE 0

PageHeader(serial, seq, bos, frags, crc) ==
    Cell([k |-> "page", serial |-> serial, seq |-> seq, bos |-> bos, frags |-> frags, crc |-> crc,
          n |-> 27 + Fold(LAMBDA acc, f : acc + Laces(f), 0, frags)])

PayloadLen(h) == Fold(LAMBDA acc, f : acc + f.len, 0, h.frags)
PageLen(h) == h.n + PayloadLen(h)

(***************************************************************************)
(* Packets.                                                                *)
(***************************************************************************)

\* The packets of a page's fragments, after the unfinished one of the page
\* before, until enough are there.
PacketsOn(img, pos, h, acc, want) ==
    LET step(a, f) ==
            LET data == a.cur \o Cut(img, a.at, a.at + f.len)
                end == [a EXCEPT !.at = @ + f.len]
            IN  IF a.err \/ Len(a.out) = want THEN a
                ELSE IF a.at + f.len > SizeOf(img) THEN [a EXCEPT !.err = TRUE]
                ELSE IF ~f.ends THEN [end EXCEPT !.cur = data]
                ELSE [end EXCEPT !.cur = <<>>,
                                 !.out = Append(@, [data |-> Join(data), end |-> pos + PageLen(h),
                                                    pages |-> a.pages])]
    IN  Fold(step, [acc EXCEPT !.at = pos + h.n, !.pages = @ + 1], h.frags)

RECURSIVE PacketsFrom(_, _, _, _)
PacketsFrom(img, pos, acc, want) ==
    LET h == At(img, pos)
        here == PacketsOn(img, pos, h, acc, want)
    IN  IF Len(acc.out) = want THEN Ok(acc.out)
        ELSE IF h.k # "page" THEN Err("Malformed")
        ELSE IF here.err THEN Err("Malformed")
        ELSE PacketsFrom(img, pos + PageLen(h), here, want)

read_packets(img, want) ==
    PacketsFrom(img, 0, [at |-> 0, cur |-> <<>>, out |-> <<>>, pages |-> 0, err |-> FALSE], want)

Codecs == [OpusHead |-> "Opus", vorbis1 |-> "Vorbis", flacmap |-> "OggFlac"]

\* validate_single_bitstream
RECURSIVE SingleBitstream(_, _, _, _)
SingleBitstream(img, pos, end, serial) ==
    LET h == At(img, pos) IN
    \/ pos >= end
    \/ /\ h.k = "page"
       /\ h.serial = serial
       /\ h.bos => pos = 0
       /\ SingleBitstream(img, pos + PageLen(h), end, serial)

PacketCount(c) == CASE c.k = "OpusHead" -> 2 [] c.k = "vorbis1" -> 3 [] OTHER -> 1 + c.count

HeaderOf(img, c, serial) ==
    IF c.k \notin DOMAIN Codecs THEN Err("Malformed")
    ELSE AndThen(read_packets(img, PacketCount(c)), LAMBDA ps :
            IF ~SingleBitstream(img, 0, Last(ps).end, serial) THEN Err("Malformed")
            ELSE Ok([codec |-> Codecs[c.k], serial |-> serial, packets |-> Each(ps, LAMBDA p : p.data),
                     header_pages |-> Last(ps).pages, audio_offset |-> Last(ps).end]))

\* The first packet tells the codec, and the codec how many packets there are.
read_header(img) ==
    AndThen(read_packets(img, 1), LAMBDA ps : HeaderOf(img, At(ps[1].data, 0), At(img, 0).serial))

\* Seeded fault: what the front cannot tell is an error at once.
ogg_read_metadata_boundedNever(prefix, file_len) == read_header(prefix)

\* A front that does not parse is read again, twice as long.
OrWiden(r, len, file_len) ==
    IF r.st # "ok" /\ len < file_len THEN NeedMore(Smaller(Larger(2 * len, 65536), file_len)) ELSE r

ogg_read_metadata_bounded(prefix, file_len) == OrWiden(read_header(prefix), SizeOf(prefix), file_len)

(***************************************************************************)
(* Tags and pictures.                                                      *)
(***************************************************************************)
BlockType(packet) == LET c == At(packet, 0) IN IF c.k = "block" THEN c.type ELSE "none"

\* comment_packet_index and comment_body
CommentBody(header) ==
    LET of == SelectSeq(header.packets, LAMBDA p : BlockType(p) = "VORBIS_COMMENT") IN
    CASE header.codec = "Opus" -> Cut(header.packets[2], 8, SizeOf(header.packets[2]))
      [] header.codec = "Vorbis" -> Cut(header.packets[2], 7, SizeOf(header.packets[2]))
      [] header.codec = "OggFlac" -> IF of = <<>> THEN <<>> ELSE Cut(Head(of), 4, SizeOf(Head(of)))

CommentsIn(body) == IF body = <<>> THEN <<>> ELSE OrEmpty(VorbisParse(body))
Comments(header) == CommentsIn(CommentBody(header))

ogg_read_tags(header) == SelectSeq(Comments(header), LAMBDA t : t.key # PICTURE_KEY)

\* read_pictures_reporting: a picture that does not decode costs itself only.
ogg_read_pictures(header) ==
    LET good(rs) == Each(SelectSeq(rs, LAMBDA r : r.st = "ok"), LAMBDA r : r.v) IN
    IF header.codec = "OggFlac"
    THEN good(Each(SelectSeq(Tail(header.packets), LAMBDA p : BlockType(p) = "PICTURE"),
                   LAMBDA p : parse_picture_block(Cut(p, 4, SizeOf(p)))))
    ELSE good(Each(SelectSeq(Comments(header), LAMBDA t : t.key = PICTURE_KEY),
                   LAMBDA t : AndThen(Decoded(t.value), parse_picture_block)))

(***************************************************************************)
(* Synthesis.  A packet is a list of segments before it is paged.          *)
(***************************************************************************)
Spaces(n) == CASE n = 0 -> "" [] n = 1 -> " " [] n = 2 -> "  "

\* Spaces make the prefix a whole number of base64 groups.
prefix_pad(art) == (3 - ((32 + Width(art.mime) + Width(art.desc)) % 3)) % 3

picture_prefix(art) == <<PictureFraming(art, art.desc \o Spaces(prefix_pad(art)))>>

ArtChunk(art, base64) ==
    OggArtSlice(art.image, 0, IF base64 THEN b64_len(SizeOf(art.image)) ELSE SizeOf(art.image), base64)

\* What goes before a picture among the comments.
EncodedComment(art, encoded) ==
    <<Cell([k |-> "vclen", len |-> 23 + SizeOf(encoded) + b64_len(SizeOf(art.image)), n |-> 4]),
      Cell([k |-> PICTURE_KEY, n |-> 23])>> \o encoded

PictureComment(art) == EncodedComment(art, Encoded(picture_prefix(art), 0, SizeOf(picture_prefix(art))))

CommentWithArt(art) == [head |-> PictureComment(art), seg |-> ArtChunk(art, TRUE)]

\* The comments are counted with the pictures, which come last.
comment_packet_chunks(magic, tags, arts, framing_bit) ==
    LET text == <<magic>> \o [VorbisBuild(tags) EXCEPT ![2].c.count = @ + Len(arts)]
        tail == IF framing_bit THEN <<Cell([k |-> "framing", n |-> 1])>> ELSE <<>>
    IN  IF arts = <<>> THEN <<Inline(text \o tail)>>
        ELSE Concat(Interleaved(text, Each(arts, CommentWithArt))) \o IF tail = <<>> THEN <<>> ELSE <<Inline(tail)>>

OggBlock(type, head, more) == Inline(<<BlockHeader(type, SizeOf(head) + more, FALSE)>> \o head)

\* One packet for each block; the last one says so, and the first packet
\* counts them.
FlaggedBlocks(mapping, blocks) ==
    IF \E i \in 1..Len(blocks) : total_len(blocks[i]) - 4 > MAX_BLOCK_BODY THEN Err("TooLarge")
    ELSE Ok(<<(<<Inline([mapping EXCEPT ![1].c.count = Len(blocks)])>>)>>
            \o [i \in 1..Len(blocks) |-> [blocks[i] EXCEPT ![1].img[1].c.last = (i = Len(blocks))]])

oggflac_packets_with_art(header, tags, arts) ==
    FlaggedBlocks(header.packets[1],
        Each(SelectSeq(Tail(header.packets), LAMBDA p : BlockType(p) \in {"APPLICATION", "SEEKTABLE", "CUESHEET"}),
             LAMBDA p : <<Inline(p)>>)
        \o <<(<<OggBlock("VORBIS_COMMENT", VorbisBuild(tags), 0)>>)>>
        \o Each(arts, LAMBDA a : <<OggBlock("PICTURE", picture_prefix(a), SizeOf(a.image)), ArtChunk(a, FALSE)>>))

build_packets_with_art(header, tags, arts) ==
    LET setup == <<(<<Inline(header.packets[1])>>)>>
        comments(magic, n, framed) == <<comment_packet_chunks(Cell([k |-> magic, n |-> n]), tags, arts, framed)>>
    IN  IF header.codec = "OggFlac" THEN oggflac_packets_with_art(header, tags, arts)
        ELSE IF \E i \in 1..Len(arts) : Head(PictureComment(arts[i])).c.len > U32Max THEN Err("TooLarge")
        ELSE Ok(IF header.codec = "Opus" THEN setup \o comments("OpusTags", 8, FALSE)
                ELSE setup \o comments("vorbis3", 7, TRUE) \o <<(<<Inline(header.packets[3])>>)>>)

\* The segments of the bytes a..b-1 of a list of segments.
Slice(segs, a, b) ==
    Fold(LAMBDA acc, s :
                LET from == Larger(a, acc.pos) - acc.pos
                    to == Smaller(b, acc.pos + LenOf(s)) - acc.pos
                IN  [pos |-> acc.pos + LenOf(s),
                     out |-> IF from >= to THEN acc.out
                             ELSE Append(acc.out, IF s.t = "Inline" THEN Inline(Cut(s.img, from, to))
                                                  ELSE [s EXCEPT !.offset = from, !.len = to - from])],
             [pos |-> 0, out |-> <<>>], segs).out

\* crc_feed_payload: the checksum is over what will be served.
Fed(segs) == read_segments(segs, <<>>, 0, total_len(segs), Err("none"))

\* emit_segments: the header and the inline bytes after it are one segment.
Emitted(header, segs) ==
    IF segs # <<>> /\ Head(segs).t = "Inline" THEN <<Inline(<<header>> \o Head(segs).img)>> \o Tail(segs)
    ELSE <<Inline(<<header>>)>> \o segs

\* There is always a last lacing value below 255.
PagesNeeded(total) == (total \div 255 + 255) \div 255

\* One page of a packet.
LacedPage(serial, seq, bos, last, payload) ==
    Emitted(PageHeader(serial, seq, bos, <<Fragment(total_len(payload), last)>>, Crc(seq, Fed(payload).v)), payload)

\* lace_chunks_to_segments: the pages of one packet.
LacedPages(serial, seq, bos, chunks) ==
    LET total == total_len(chunks)
        n == PagesNeeded(total)
    IN  [segs |-> Concat([i \in 1..n |->
                    LacedPage(serial, seq + i - 1, bos /\ i = 1, i = n,
                              Slice(chunks, (i - 1) * PAGE_PAYLOAD, Smaller(i * PAGE_PAYLOAD, total)))]),
         used |-> n]

seq_delta(seq, header) == seq - header.header_pages

AddPages(acc, pages) == [segs |-> acc.segs \o pages.segs, seq |-> acc.seq + pages.used]

LacedPackets(serial, packets) ==
    LET lace(acc, i) == AddPages(acc, LacedPages(serial, acc.seq, i = 1, packets[i]))
    IN  Fold(lace, [segs |-> <<>>, seq |-> 0], [i \in 1..Len(packets) |-> i])

PagesThenAudio(header, bounds, laced) ==
    validated(Append(laced.segs, OggAudio(bounds.audio_offset, bounds.audio_length, seq_delta(laced.seq, header))))

ogg_synthesize_layout(header, bounds, tags, arts) ==
    AndThen(build_packets_with_art(header, tags, arts), LAMBDA packets :
        PagesThenAudio(header, bounds, LacedPackets(header.serial, packets)))

(***************************************************************************)
(* Serving the audio pages.                                                *)
(***************************************************************************)
NoMemo == [rel |-> -1, len |-> 0, hdr |-> NoContent]

\* Where a page header, or bytes that look like one, begins.
Captures(file) ==
    Fold(LAMBDA acc, q :
                [pos |-> acc.pos + q.hi - q.lo,
                 at |-> IF q.c.k = "page" /\ q.lo = 0 /\ q.hi >= 4 THEN acc.at \cup {acc.pos} ELSE acc.at],
             [pos |-> 0, at |-> {}], file).at

page_crc_ok(file, p) ==
    LET h == At(file, p) IN
    /\ h.k = "page"
    /\ p + PageLen(h) <= SizeOf(file)
    /\ h.crc = Crc(h.seq, Cut(file, p + h.n, p + PageLen(h)))

\* Seeded fault: the last capture before the target is taken for a page.
page_crc_okAlways(file, p) == TRUE

Valid(file, p) == page_crc_ok(file, p)

\* The last valid capture, if it is not too far back.
LastValid(captures, valid) ==
    IF valid = {} THEN Err("Malformed")
    ELSE IF Cardinality({p \in captures : p > Max(valid)}) >= MAX_CRC_CHECKS THEN Err("Malformed")
    ELSE Ok(Max(valid))

\* The page a read begins in: the first one, the one of the memo, or the
\* last valid capture that lies before the target within a page's length.
find_page_start(file, audio_offset, target, memo) ==
    LET start == Larger(audio_offset, target - MAX_OGG_PAGE_BYTES)
        captures == {p \in Captures(file) : start <= p /\ p + 4 <= target}
    IN  IF target - audio_offset < 4 THEN Ok(audio_offset)
        ELSE IF memo # NoMemo /\ target - audio_offset \in memo.rel .. memo.rel + memo.len - 1
        THEN Ok(audio_offset + memo.rel)
        ELSE LastValid(captures, {p \in captures : Valid(file, p)})

\* patch_page_header_algebraic: the checksum is as right as it was.
patch_page_header(h, new) ==
    [h EXCEPT !.seq = new, !.crc.seq = IF @ = h.seq THEN new ELSE @]

RECURSIVE ServePages(_, _, _, _, _, _)
ServePages(file, seg, pos, rstart, rend, acc) ==
    LET h == At(file, pos)
        rel == pos - seg.offset
        patched == IF acc.memo.rel = rel THEN acc.memo.hdr
                   ELSE patch_page_header(h, (h.seq + seg.seq_delta) % SeqModulus)
        page == <<Cell(patched)>> \o Cut(file, pos + h.n, pos + PageLen(h))
        from == Larger(rstart, rel) - rel
        to == Smaller(rend, rel + PageLen(h)) - rel
    IN  IF pos >= seg.offset + seg.len \/ rel >= rend THEN [acc EXCEPT !.r = Ok(Join(acc.out))]
        ELSE IF h.k # "page" \/ pos + PageLen(h) > seg.offset + seg.len THEN [acc EXCEPT !.r = Err("Malformed")]
        ELSE ServePages(file, seg, pos + PageLen(h), rstart, rend,
                [acc EXCEPT !.out = IF from < to THEN @ \o Cut(page, from, to) ELSE @,
                            !.last = [rel |-> rel, len |-> PageLen(h), hdr |-> patched]])

\* The bytes and the memo the read leaves behind.
WindowServed(done, memo) == [r |-> done.r, memo |-> IF done.r.st = "ok" THEN done.last ELSE memo]

ServedFrom(pos, file, seg, rstart, rend, memo) ==
    IF pos.st # "ok" THEN [r |-> pos, memo |-> memo]
    ELSE WindowServed(ServePages(file, seg, pos.v, rstart, rend,
                                 [out |-> <<>>, memo |-> memo, last |-> memo, r |-> Ok(<<>>)]), memo)

serve_ogg_window(file, seg, rstart, rend, memo) ==
    ServedFrom(find_page_start(file, seg.offset, seg.offset + rstart, memo), file, seg, rstart, rend, memo)
=============================================================================
