--------------------------------- MODULE Mp4 ---------------------------------
(***************************************************************************)
(* MP4/M4A files: musefs-format/src/mp4.rs and mp4/synth.rs.  A box is a   *)
(* header content followed by its payload; a chunk-offset table is one     *)
(* content with the offsets as the file has them.                          *)
(***************************************************************************)
EXTENDS Wav

CONSTANTS
    NumberPairs,     \* text "N/M" -> <<N, M>>
    FreeformKeys     \* key "----:<mean>:<name>" -> the name

MAX_MP4_METADATA_BYTES == 2^28
CHAPTER_HANDLERS == {"text", "sbtl"}

BoxHead(kind, size, hl) == Cell([k |-> "box", kind |-> kind, size |-> size, n |-> hl])

\* boxed, and the head of a box whose payload is streamed.
Boxed(kind, payload) == <<BoxHead(kind, 8 + SizeOf(payload), 8)>> \o payload

FullBox == Cell([k |-> "fullbox", n |-> 4])
Handler(h) == Boxed("hdlr", <<Cell([k |-> "handler", h |-> h, n |-> 25])>>)
OffsetTable(kind, offsets) ==
    Boxed(kind, <<Cell([k |-> "offsets", offsets |-> offsets,
                        n |-> 8 + Len(offsets) * IF kind = "stco" THEN 4 ELSE 8])>>)

(***************************************************************************)
(* Boxes.                                                                  *)
(***************************************************************************)
BoxAt(h, img, p) ==
    LET total == IF h.size = 0 THEN SizeOf(img) - p ELSE h.size
    IN  IF h.k # "box" THEN Err("Malformed")
        ELSE IF total < h.n \/ p + total > SizeOf(img) THEN Err("Malformed")
        ELSE Ok([kind |-> h.kind, start |-> p, payload |-> p + h.n, end |-> p + total])

read_box(img, p) == BoxAt(At(img, p), img, p)

\* The boxes one after another, as far as they can be read.
RECURSIVE BoxesFrom(_, _)
BoxesFrom(img, p) ==
    LET b == read_box(img, p)
        rest == BoxesFrom(img, b.v.end)
    IN  IF p + 8 > SizeOf(img) THEN [clean |-> TRUE, boxes |-> <<>>]
        ELSE IF b.st # "ok" THEN [clean |-> FALSE, boxes |-> <<>>]
        ELSE [rest EXCEPT !.boxes = <<b.v>> \o @]

AllRead(bs) == IF bs.clean THEN Ok(bs.boxes) ELSE Err("Malformed")

child_boxes(img) == AllRead(BoxesFrom(img, 0))

child_boxes_lenient(img) == BoxesFrom(img, 0).boxes

OfKind(bs, kind) == SelectSeq(bs, LAMBDA b : b.kind = kind)

Payload(img, b) == Cut(img, b.payload, b.end)

NotFound == [start |-> -1, end |-> -1]

\* find_path: each step looks from the start of its parent's payload to the
\* end of the buffer.
RECURSIVE find_path_from(_, _, _)
find_path_from(img, base, path) ==
    AndThen(child_boxes(Cut(img, base, SizeOf(img))), LAMBDA bs :
        LET hits == OfKind(bs, Head(path))
        IN  IF hits = <<>> THEN Ok(NotFound)
            ELSE IF Len(path) = 1 THEN Ok([start |-> base + Head(hits).payload, end |-> base + Head(hits).end])
            ELSE find_path_from(img, base + Head(hits).payload, Tail(path)))

find_path(img, path) == find_path_from(img, 0, path)

HandlerOf(trak) ==
    Then(find_path(trak, <<"mdia", "hdlr">>), LAMBDA at :
        LET c == At(trak, at.start) IN IF at # NotFound /\ c.k = "handler" THEN c.h ELSE "none")

\* One audio track, all others chapters.
ValidTracks(handlers) ==
    IF \/ Len(SelectSeq(handlers, LAMBDA h : h = "soun")) # 1
       \/ \E i \in 1..Len(handlers) : handlers[i] \notin {"soun"} \cup CHAPTER_HANDLERS
    THEN Err("Mp4Tracks") ELSE Ok(handlers)

\* validate_moov: no fragments, and the tracks it can serve.
validate_moov(payload) ==
    AndThen(child_boxes(payload), LAMBDA bs :
        IF OfKind(bs, "mvex") # <<>> THEN Err("NotMp4")
        ELSE AndThen(AllOk(Each(OfKind(bs, "trak"), LAMBDA t : HandlerOf(Payload(payload, t)))), ValidTracks))

Mp4Scan(img, ftyp, moov, mdat) ==
    [ftyp |-> Cut(img, ftyp.start, ftyp.end), moov |-> Cut(img, moov.start, moov.end),
     mdat_header |-> Cut(img, mdat.start, mdat.payload),
     bounds |-> Bounds(mdat.payload, mdat.end - mdat.payload)]

One(bs, kind) == Head(OfKind(bs, kind))

\* The file, once its boxes are known and its moov can be served.
Scanned(img, bs) ==
    Then(validate_moov(Payload(img, One(bs, "moov"))), LAMBDA handlers :
        Mp4Scan(img, One(bs, "ftyp"), One(bs, "moov"), One(bs, "mdat")))

OneOfEach(bs) == \A k \in {"ftyp", "moov", "mdat"} : Len(OfKind(bs, k)) = 1

\* locate and read_structure, on the whole file.
StructureOf(img, top) ==
    IF top.st # "ok" THEN Err("NotMp4")
    ELSE IF OfKind(top.v, "moof") # <<>> \/ ~OneOfEach(top.v) THEN Err("NotMp4")
    ELSE Scanned(img, top.v)

mp4_read_structure(img) == StructureOf(img, child_boxes(img))

box_total(h, remaining) == IF h.size = 0 THEN remaining ELSE h.size

\* read_structure_from walks the headers only.
RECURSIVE SeekBoxes(_, _)
SeekBoxes(file, p) ==
    LET h == At(file, p)
        total == box_total(h, SizeOf(file) - p)
        rest == SeekBoxes(file, p + total)
    IN  IF p + 8 > SizeOf(file) THEN Ok(<<>>)
        ELSE IF h.k # "box" THEN Err("Malformed")
        ELSE IF total < h.n \/ total > SizeOf(file) - p THEN Err("Malformed")
        ELSE IF h.kind = "moof" THEN Err("NotMp4")
        ELSE IF rest.st # "ok" THEN rest
        ELSE Ok(<<[kind |-> h.kind, start |-> p, payload |-> p + h.n, end |-> p + total]>> \o rest.v)

read_structure_from(file) ==
    AndThen(SeekBoxes(file, 0), LAMBDA top :
        IF ~OneOfEach(top) THEN Err("NotMp4")
        ELSE IF \E k \in {"ftyp", "moov"} : One(top, k).end - One(top, k).start > MAX_MP4_METADATA_BYTES
        THEN Err("MetadataTooLarge")
        ELSE Scanned(file, top))

(***************************************************************************)
(* Reading tags: what can be found, nothing fails.                         *)
(***************************************************************************)

\* The payload of the first box of a kind, empty if there is none.
FirstPayload(img, bs) == IF bs = <<>> THEN <<>> ELSE Payload(img, Head(bs))
Inside(img, kind) == FirstPayload(img, OfKind(child_boxes_lenient(img), kind))

\* ilst_region; moov is the box itself, where the scanner keeps it.
AfterFullBox(meta) == IF Is(meta, 0, "fullbox") THEN Cut(meta, 4, SizeOf(meta)) ELSE meta
ilst_region(moov) == Inside(AfterFullBox(Inside(Inside(Inside(moov, "moov"), "udta"), "meta")), "ilst")

\* The data boxes of an atom.
DataOf(kind, inner) ==
    Each(SelectSeq(child_boxes_lenient(inner), LAMBDA d : d.kind = "data" /\ Is(inner, d.payload, "data")),
         LAMBDA d : [kind |-> kind, inner |-> inner, type |-> At(inner, d.payload).type,
                     value |-> Cut(inner, d.payload + 8, d.end)])

AtomData(ilst) == ConcatEach(child_boxes_lenient(ilst), LAMBDA a : DataOf(a.kind, Payload(ilst, a)))

\* Every data box of every atom.
DataBoxes(moov) == AtomData(ilst_region(moov))

NameIn(c) == IF c.k = "name" THEN c.s ELSE ""
NameOf(inner) == NameIn(At(Inside(inner, "name"), 0))

number_total(c) ==
    IF c.total = 0 THEN to_string(c.number)
    ELSE CHOOSE s \in DOMAIN NumberPairs : NumberPairs[s] = <<c.number, c.total>>

\* The tag of a data box, as a sequence of none or one: key is what the atom
\* is called, integer what it is called as a number.
TagOfData(b, c, key, integer, name) ==
    CASE b.kind = "----" ->
            IF b.type = 1 /\ c.k = "utf8" /\ name # "" THEN <<Tag(mp4_freeform_to_key(name), c.v)>> ELSE <<>>
      [] b.kind # "----" /\ c.k = "utf8" /\ key # b.kind -> <<Tag(key, c.v)>>
      [] b.kind = "trkn" /\ c.k = "number" -> <<Tag("tracknumber", number_total(c))>>
      [] b.kind = "disk" /\ c.k = "number" -> <<Tag("discnumber", number_total(c))>>
      [] b.kind # "----" /\ c.k = "integer" /\ integer # b.kind -> <<Tag(integer, to_string(c.v))>>
      [] OTHER -> <<>>

mp4_read_tags(boxes) ==
    ConcatEach(boxes, LAMBDA b :
        TagOfData(b, At(b.value, 0), mp4_atom_to_key(b.kind), mp4_integer_atom_to_key(b.kind), NameOf(b.inner)))

\* A payload over the cap is skipped.
mp4_read_pictures(boxes, max) ==
    Each(SelectSeq(boxes, LAMBDA b : b.kind = "covr" /\ b.type \in {13, 14} /\ SizeOf(b.value) <= max),
         LAMBDA b : Art(b.value, IF b.type = 13 THEN "image/jpeg" ELSE "image/png", 3, ""))

FreeformKey(name) == CHOOSE key \in DOMAIN FreeformKeys : FreeformKeys[key] = name

mp4_read_binary_tags(boxes, max) ==
    Each(SelectSeq(boxes, LAMBDA b :
                /\ b.kind = "----" /\ b.type # 1
                /\ NameOf(b.inner) # "" /\ SizeOf(b.value) <= max),
         LAMBDA b : Binary(FreeformKey(NameOf(b.inner)), b.value))

(***************************************************************************)
(* Synthesis.                                                              *)
(***************************************************************************)
DataHead(type) == Cell([k |-> "data", type |-> type, n |-> 8])

utf8_data_box(v) == Boxed("data", <<DataHead(1), Cell([k |-> "utf8", v |-> v, n |-> Width(v)])>>)

NameBox(s) == Boxed("name", <<Cell([k |-> "name", s |-> s, n |-> 4 + Width(s)])>>)
MeanBox == Boxed("mean", <<Cell([k |-> "mean", n |-> 20])>>)

parse_number_total(s) ==
    IF s \in DOMAIN NumberPairs THEN NumberPairs[s] ELSE <<parse(s), 0>>

Utf8Boxes(vs) == ConcatEach(vs, utf8_data_box)

FreeformAtom(name, vs) == Boxed("----", MeanBox \o NameBox(name) \o Utf8Boxes(vs))

\* The atom of a group of values, by the slot of its key: numbers keep the
\* first value only, and none that does not parse.
AtomIn(slot, key, vs) ==
    LET nt == parse_number_total(Head(vs)) IN
    CASE slot.slot = "Text" -> Boxed(slot.id, Utf8Boxes(vs))
      [] slot.slot = "Number" ->
            IF nt[1] \notin 0..65535 THEN <<>>
            ELSE Boxed(slot.id, Boxed("data", <<DataHead(0),
                    Cell([k |-> "number", number |-> nt[1], total |-> nt[2], n |-> slot.width])>>))
      [] slot.slot = "Integer" ->
            IF parse(Head(vs)) < 0 THEN <<>>
            ELSE Boxed(slot.id, Boxed("data", <<DataHead(21),
                    Cell([k |-> "integer", v |-> parse(Head(vs)) % 256^slot.width, n |-> slot.width])>>))
      [] slot.slot = "Freeform" -> FreeformAtom(slot.id, vs)
      [] slot.slot = "none" -> FreeformAtom(key, vs)

AtomOf(g) == AtomIn(key_to_mp4(g.key), g.key, g.vs)

\* freeform_binary_prefix
BinaryPrefix(name, len) ==
    LET head == MeanBox \o NameBox(name)
    IN  <<BoxHead("----", 8 + SizeOf(head) + 16 + len, 8)>> \o head \o <<BoxHead("data", 16 + len, 8), DataHead(0)>>

\* What is streamed inside the ilst belongs to the size of every box around it.
Streamed(streamed) == Fold(LAMBDA acc, s : acc + LenOf(s.seg), 0, streamed)

StreamedAtom(b) ==
    [head |-> BinaryPrefix(FreeformKeys[b.key], SizeOf(b.payload)), seg |-> BinaryTag(b.payload)]

\* One covr atom has all the pictures.
StreamedCovers(arts) ==
    LET covr == Fold(LAMBDA acc, a : acc + 16 + SizeOf(a.image), 8, arts)
    IN  [i \in 1..Len(arts) |->
            [head |-> (IF i = 1 THEN <<BoxHead("covr", covr, 8)>> ELSE <<>>)
                      \o <<BoxHead("data", 16 + SizeOf(arts[i].image), 8),
                           DataHead(IF arts[i].mime = "image/png" THEN 14 ELSE 13)>>,
             seg |-> ArtImage(arts[i].image)]]

\* The boxes around the atoms; inline and streamed are lengths.
UdtaLead(atoms, inline, streamed, chpl) ==
    LET meta_inline == 4 + SizeOf(Handler("mdir")) + 8 + inline
    IN  <<BoxHead("udta", 8 + 8 + meta_inline + chpl + streamed, 8), BoxHead("meta", 8 + meta_inline + streamed, 8),
          FullBox>> \o Handler("mdir") \o <<BoxHead("ilst", 8 + inline + streamed, 8)>> \o atoms

UdtaSegments(lead, streamed, chpl) ==
    IF Head(lead).c.size > U32Max THEN Err("TooLarge")
    ELSE Ok(IF streamed = <<>> THEN <<Inline(lead \o chpl)>>
            ELSE Concat(Interleaved(lead, streamed)) \o IF chpl = <<>> THEN <<>> ELSE <<Inline(chpl)>>)

UdtaOf(atoms, streamed, chpl) ==
    UdtaSegments(UdtaLead(atoms, Fold(LAMBDA acc, s : acc + SizeOf(s.head), SizeOf(atoms), streamed),
                          Streamed(streamed), SizeOf(chpl)),
                 streamed, chpl)

\* build_udta, as a list of segments that opens and, with a chapter list,
\* closes inline.
build_udta(tags, binary, arts, chpl) ==
    UdtaOf(ConcatEach(Grouped(tags), AtomOf),
           Each(SelectSeq(binary, LAMBDA b : b.key \in DOMAIN FreeformKeys), StreamedAtom) \o StreamedCovers(arts),
           chpl)

\* One table moved by delta: an offset must stay one of its width.
MovedTable(kind, c, delta) ==
    LET moved == Each(c.offsets, LAMBDA o : o + delta) IN
    IF \E i \in 1..Len(moved) : moved[i] < 0 \/ (kind = "stco" /\ moved[i] > U32Max)
    THEN Err(IF kind = "stco" THEN "TooLarge" ELSE "Malformed") ELSE Ok([c EXCEPT !.offsets = moved])

TablePath(kind) == <<"mdia", "minf", "stbl", kind>>

\* Where a track has its table.
TableOf(trak) ==
    AndThen(find_path(trak, TablePath("stco")), LAMBDA stco :
        IF stco # NotFound THEN Ok([kind |-> "stco", at |-> stco.start])
        ELSE AndThen(find_path(trak, TablePath("co64")), LAMBDA co64 :
                IF co64 # NotFound THEN Ok([kind |-> "co64", at |-> co64.start]) ELSE Err("Malformed")))

\* Seeded fault: only the first track is moved.
TracksFirst(bs) == IF OfKind(bs, "trak") = <<>> THEN <<>> ELSE <<Head(OfKind(bs, "trak"))>>

Tracks(bs) == OfKind(bs, "trak")

\* The tables of all tracks, where they are in kept.
Tables(kept, traks) ==
    AllOk(Each(traks, LAMBDA t :
        Then(TableOf(Payload(kept, t)), LAMBDA table : [table EXCEPT !.at = @ + t.payload])))

Replaced(img, p, c) == Cut(img, 0, p) \o <<Cell(c)>> \o Cut(img, p + c.n, SizeOf(img))

PatchTable(img, table, c, delta) ==
    IF c.k # "offsets" THEN Err("Malformed")
    ELSE Then(MovedTable(table.kind, c, delta), LAMBDA moved : Replaced(img, table.at, moved))

\* All tables are found before one is patched.
patch_chunk_offsets(kept, delta) ==
    LET patch(acc, table) == AndThen(acc, LAMBDA img : PatchTable(img, table, At(img, table.at), delta))
    IN  AndThen(Tables(kept, Tracks(child_boxes(kept).v)), LAMBDA tables :
            IF tables = <<>> THEN Err("Malformed") ELSE Fold(patch, Ok(kept), tables))

\* The moov without its user data, and the chapter list of the user data.
KeptBoxes(payload, bs) ==
    ConcatEach(SelectSeq(bs, LAMBDA b : b.kind # "udta"), LAMBDA b : Cut(payload, b.start, b.end))

ChapterList(udta, cs) == IF cs = <<>> THEN <<>> ELSE <<Cut(udta, Head(cs).start, Head(cs).end)>>

Chapters(payload, bs) ==
    ConcatEach(OfKind(bs, "udta"), LAMBDA b :
        ChapterList(Payload(payload, b), OfKind(child_boxes_lenient(Payload(payload, b)), "chpl")))

LastOrEmpty(s) == IF s = <<>> THEN <<>> ELSE Last(s)

\* The header of the audio box goes into the last inline segment.
EndInline(segs, img) ==
    IF Last(segs).t = "Inline" THEN Append(Front(segs), Inline(Last(segs).img \o img)) ELSE Append(segs, Inline(img))

StartInline(img, segs) == <<Inline(img \o Head(segs).img)>> \o Tail(segs)

\* The audio moves by as much as what lies before it grew.
MoovThenAudio(scan, kept, udta, moov_size) ==
    IF moov_size > U32Max THEN Err("TooLarge")
    ELSE AndThen(patch_chunk_offsets(kept, SizeOf(scan.ftyp) + moov_size + SizeOf(scan.mdat_header)
                                           - scan.bounds.audio_offset), LAMBDA patched :
            validated(Append(EndInline(StartInline(scan.ftyp \o <<BoxHead("moov", moov_size, 8)>> \o patched, udta),
                                       scan.mdat_header),
                             BackingAudio(scan.bounds.audio_offset, scan.bounds.audio_length))))

MoovOf(scan, kept, udta) == MoovThenAudio(scan, kept, udta, 8 + SizeOf(kept) + total_len(udta))

Resynthesized(scan, payload, tags, binary, arts) ==
    AndThen(child_boxes(payload), LAMBDA bs :
        AndThen(build_udta(tags, binary, arts, LastOrEmpty(Chapters(payload, bs))), LAMBDA udta :
            MoovOf(scan, KeptBoxes(payload, bs), udta)))

mp4_synthesize_layout(scan, tags, binary, arts) ==
    Resynthesized(scan, Inside(scan.moov, "moov"), tags, binary, arts)
=============================================================================
