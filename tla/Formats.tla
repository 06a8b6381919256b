------------------------------- MODULE Formats -------------------------------
(***************************************************************************)
(* What becomes of one file: the probe of the scanner with its widening    *)
(* window (musefs-core/src/scan.rs), the rows it leaves in the store, the  *)
(* layout synthesized from the rows (HeaderCache::build of reader.rs), the *)
(* reads of the layout, and the scan of a served file as a new one.        *)
(***************************************************************************)
EXTENDS Ogg

CONSTANTS
    Sources,          \* the files: [ext, img]
    Windows,          \* how much a scan reads at first
    MAX_WIDEN_RETRIES,
    MAX_PROBE_BYTES,
    MAX_ART_BYTES,
    MAX_TAG_VALUE_LEN,
    KeyOrder,         \* all keys, in the order the store returns them
    NewTags,          \* tag lists a tagger may write
    NewArts,          \* picture lists a tagger may write
    ReadSizes,
    MaxRescans        \* bound: how often a served file is scanned again

VARIABLES
    file,      \* the backing file, [ext, img]
    phase,     \* "new", "probing", "probed", "row", "ready", "answered", "failed", "refused", "unservable"
    want,      \* the window of the probe, in bytes
    tries,     \* widenings left
    probed,    \* what the probe found
    row,       \* what the store has of the file
    segs,      \* the layout
    image,     \* the bytes the layout stands for, read in one go
    memo,      \* the last-page memo of the resolved file
    got,       \* the last read: [offset, size, r]
    edited,    \* the rows were changed since the scan
    rescans    \* how many times a served file has been scanned

vars == <<file, phase, want, tries, probed, row, segs, image, memo, got, edited, rescans>>

(***************************************************************************)
(* Probes.                                                                 *)
(***************************************************************************)
Probed(format, bounds, tags, pictures, binary, structural) ==
    [format |-> format, bounds |-> bounds, tags |-> tags, pictures |-> pictures,
     binary |-> binary, structural |-> structural]

fill_absent_keys(tags, fallback) ==
    tags \o SelectSeq(fallback, LAMBDA t :
        ~\E i \in 1..Len(tags) : to_ascii_lowercase(tags[i].key) = to_ascii_lowercase(t.key))

\* A leading ID3 tag fills what the comments and pictures leave open.
FilledFromTag(prefix, p) ==
    IF ~starts_with_tag(prefix) THEN p
    ELSE [p EXCEPT !.tags = fill_absent_keys(@, id3_read_tags(prefix)),
                   !.pictures = IF @ = <<>> THEN id3_read_pictures(prefix) ELSE @]

flac_probed(prefix, scan) ==
    FilledFromTag(prefix, Probed("Flac", scan.bounds, OrEmpty(read_vorbis_comments(scan.blocks)),
                                 OrEmpty(flac_read_pictures(scan.blocks)),
                                 binary_of(scan.blocks), structural_of(scan.blocks)))

Id3Probed(format, bounds, tags, pictures, binary) ==
    Probed(format, bounds, tags \o binary.promoted, pictures, binary.opaque, <<>>)

mp3_probed(prefix, bounds) ==
    Id3Probed("Mp3", bounds, id3_read_tags(prefix), id3_read_pictures(prefix), id3_read_binary_tags(prefix))

wav_probed(prefix, bounds) ==
    Id3Probed("Wav", bounds, wav_read_tags(prefix), id3_read_pictures(Id3Chunk(prefix)),
              id3_read_binary_tags(Id3Chunk(prefix)))

\* A payload too large for the store fails the file.
Mp4Found(bounds, boxes, pictures, binary) ==
    IF \/ Len(pictures) # Len(mp4_read_pictures(boxes, MAX_MP4_METADATA_BYTES))
       \/ Len(binary) # Len(mp4_read_binary_tags(boxes, MAX_MP4_METADATA_BYTES))
    THEN Err("Oversize")
    ELSE Ok(Probed("M4a", bounds, mp4_read_tags(boxes), pictures, binary, <<>>))

Mp4Probed(bounds, boxes) ==
    Mp4Found(bounds, boxes, mp4_read_pictures(boxes, MAX_ART_BYTES), mp4_read_binary_tags(boxes, MAX_ART_BYTES))

mp4_probed(scan) == Mp4Probed(scan.bounds, DataBoxes(scan.moov))

ogg_probed(header, bounds) ==
    Probed(header.codec, bounds, ogg_read_tags(header), ogg_read_pictures(header), <<>>, <<>>)

\* probe_full: everything at hand is taken for the file.
probe_full(ext, img) ==
    CASE ext = "flac" -> Then(Whole(read_blocks_bounded(img)), LAMBDA m :
                            flac_probed(img, [bounds |-> FlacBounds(img, m), blocks |-> m.blocks]))
      [] ext = "mp3" -> Then(mp3_locate_audio(img), LAMBDA b : mp3_probed(img, b))
      [] ext = "m4a" -> AndThen(mp4_read_structure(img), mp4_probed)
      [] ext = "ogg" -> Then(read_header(img), LAMBDA h :
                            ogg_probed(h, Bounds(h.audio_offset, SizeOf(img) - h.audio_offset)))
      [] ext = "wav" -> Then(wav_bounds(img, SizeOf(img)), LAMBDA b : wav_probed(img, b))

\* probe_prefix: the front of the file, and its length.
probe_prefix(ext, prefix, whole) ==
    CASE ext = "flac" -> Then(flac_locate_audio_bounded(prefix, whole), LAMBDA s : flac_probed(prefix, s))
      [] ext = "mp3" -> Then(mp3_locate_audio_bounded(prefix, whole), LAMBDA b : mp3_probed(prefix, b))
      [] ext = "ogg" -> Then(ogg_read_metadata_bounded(prefix, SizeOf(whole)), LAMBDA h :
                            ogg_probed(h, Bounds(h.audio_offset, SizeOf(whole) - h.audio_offset)))
      [] ext = "wav" -> Then(wav_locate_audio_bounded(prefix, whole), LAMBDA b : wav_probed(prefix, b))

(***************************************************************************)
(* What the store keeps.                                                   *)
(***************************************************************************)
TagBytes(tags) == Fold(LAMBDA acc, t : acc + 5 + Width(t.key) + Width(t.value), 8, tags)

\* Seeded fault: a file with two sources of tags is not measured.
metadata_fitsAlways(p) == TRUE

\* check_metadata_fits_format
metadata_fits(p) == p.format \in {"Flac", "OggFlac"} => TagBytes(p.tags) <= MAX_BLOCK_BODY

check_storable(p) ==
    /\ \A i \in 1..Len(p.tags) : Width(p.tags[i].value) <= MAX_TAG_VALUE_LEN
    /\ \A i \in 1..Len(p.binary) : SizeOf(p.binary[i].payload) <= MAX_ART_BYTES
    /\ \A i \in 1..Len(p.pictures) : SizeOf(p.pictures[i].image) <= MAX_ART_BYTES
    /\ metadata_fits(p)

\* Rows come back by key and, within a key, as they were written.
ByKey(rows) == Concat([i \in 1..Len(KeyOrder) |-> SelectSeq(rows, LAMBDA r : r.key = KeyOrder[i])])

\* ingest_into: a binary tag of no bytes is not kept.
ingest_into(p) ==
    [p EXCEPT !.tags = ByKey(@),
              !.binary = ByKey(SelectSeq(@, LAMBDA b : SizeOf(b.payload) > 0))]

\* What depends on the file alone; tags, binary tags and pictures stay.
refresh_structural_into(r, p) == [r EXCEPT !.format = p.format, !.bounds = p.bounds, !.structural = p.structural]

(***************************************************************************)
(* HeaderCache::build.                                                     *)
(***************************************************************************)
\* A front larger than the probe's ceiling is not read again.
read_front(f, r) ==
    IF r.bounds.audio_offset > MAX_PROBE_BYTES THEN Err("HeaderTooLarge")
    ELSE Ok(Cut(f.img, 0, r.bounds.audio_offset))

\* track_art_to_inputs: a picture of no bytes is left out.
ArtInputs(r) == SelectSeq(r.pictures, LAMBDA a : SizeOf(a.image) > 0)

\* Rows of an older schema have no structural blocks; the front has them all.
flac_build(f, r) ==
    LET inline(bs) == Each(bs, LAMBDA b : [kind |-> b.type, body |-> b.body])
    IN  IF r.structural # <<>>
        THEN flac_synthesize_layout(r.structural, r.bounds, r.tags, r.binary, ArtInputs(r))
        ELSE AndThen(AndThen(read_front(f, r), LAMBDA front : Whole(read_blocks_bounded(front))),
                LAMBDA m : flac_synthesize_layout(inline(OfType(m.blocks, Preserved)), r.bounds,
                                                  r.tags, <<>>, ArtInputs(r)))

build(f, r) ==
    LET arts == ArtInputs(r) IN
    IF r.bounds.audio_offset + r.bounds.audio_length > SizeOf(f.img) THEN Err("BackingChanged")
    ELSE CASE r.format = "Flac" -> flac_build(f, r)
           [] r.format = "Mp3" -> mp3_synthesize_layout(r.bounds, r.tags, r.binary, arts)
           [] r.format = "Wav" ->
                AndThen(AndThen(read_front(f, r), read_structure),
                        LAMBDA scan : wav_synthesize_layout(scan, r.bounds, r.tags, r.binary, arts))
           [] r.format = "M4a" ->
                AndThen(read_structure_from(f.img),
                        LAMBDA scan : mp4_synthesize_layout(scan, r.tags, r.binary, arts))
           [] r.format \in {"Opus", "Vorbis", "OggFlac"} ->
                AndThen(AndThen(read_front(f, r), read_header),
                        LAMBDA header : ogg_synthesize_layout(header, r.bounds, r.tags, arts))

\* What the window has of Ogg audio, which is the last segment, and the memo
\* after it.
OggPart(f, layout, m, offset, size) ==
    LET seg == Last(layout)
        start == total_len(layout) - seg.len
        from == Larger(offset, start)
        to == Smaller(offset + size, total_len(layout))
    IN  IF seg.t = "OggAudio" /\ from < to
        THEN serve_ogg_window(f.img, seg, from - start, to - start, m)
        ELSE [r |-> Err("none"), memo |-> m]

\* A read with the memo as it stands.
ReadWith(f, layout, m, offset, size) ==
    read_segments(layout, f.img, offset, size, OggPart(f, layout, m, offset, size).r)

MemoAfter(f, layout, m, offset, size) == OggPart(f, layout, m, offset, size).memo

(***************************************************************************)
(* Actions.                                                                *)
(***************************************************************************)
Nothing == Err("nothing yet")
NoRead == [offset |-> 0, size |-> 0, r |-> Ok(<<>>)]

Fresh(f, n) ==
    /\ file' = f
    /\ \E w \in Windows : want' = Min({w, SizeOf(f.img), MAX_PROBE_BYTES})
    /\ phase' = "probing" /\ tries' = MAX_WIDEN_RETRIES
    /\ probed' = Nothing /\ row' = Nothing /\ segs' = <<>> /\ image' = <<>>
    /\ memo' = NoMemo /\ got' = NoRead /\ edited' = FALSE /\ rescans' = n

Init ==
    /\ phase = "new" /\ file = [ext |-> "none", img |-> <<>>] /\ want = 0 /\ tries = 0
    /\ probed = Nothing /\ row = Nothing /\ segs = <<>> /\ image = <<>>
    /\ memo = NoMemo /\ got = NoRead /\ edited = FALSE /\ rescans = 0

\* A walk finds a file.
Discover == phase = "new" /\ \E f \in Sources : Fresh(f, 0)

Prefix == Cut(file.img, 0, want)
ProbeCap == Smaller(SizeOf(file.img), MAX_PROBE_BYTES)

ProbeEnds(r) ==
    /\ probed' = r
    /\ phase' = IF r.st = "ok" THEN "probed" ELSE "failed"
    /\ want' = 0 /\ tries' = 0
    /\ UNCHANGED <<file, row, segs, image, memo, got, edited, rescans>>

\* MP4 is read by seeking.
ProbeMp4 ==
    /\ phase = "probing" /\ file.ext = "m4a"
    /\ ProbeEnds(AndThen(read_structure_from(file.img), mp4_probed))

Decided(r) == r.st # "more" /\ ProbeEnds(r)

\* One turn of the loop that decides the probe.
ProbeDecides ==
    /\ phase = "probing" /\ file.ext # "m4a" /\ tries > 0
    /\ Decided(probe_prefix(file.ext, Prefix, file.img))

Widened(r) ==
    /\ r.st = "more"
    /\ want' = Smaller(Larger(Smaller(r.up_to, ProbeCap), want + 1), ProbeCap)

\* One turn that asks for more and gets it.
ProbeWidens ==
    /\ phase = "probing" /\ file.ext # "m4a" /\ tries > 0 /\ want < ProbeCap
    /\ Widened(probe_prefix(file.ext, Prefix, file.img))
    /\ tries' = tries - 1
    /\ UNCHANGED <<file, phase, probed, row, segs, image, memo, got, edited, rescans>>

AllReadable == Cut(file.img, 0, ProbeCap)

OrCeiling(full, prefix) ==
    IF full.st # "ok" /\ file.ext = "wav" /\ SizeOf(file.img) > MAX_PROBE_BYTES
    THEN Then(wav_bounds(prefix, SizeOf(file.img)), LAMBDA b : wav_probed(prefix, b)) ELSE full

\* No more turns, or no more to read: all that may be read is read, and
\* taken for the file; a WAV larger than that is believed its header.
ProbeFallsBack ==
    /\ phase = "probing" /\ file.ext # "m4a"
    /\ tries = 0 \/ want = ProbeCap
    /\ tries > 0 => probe_prefix(file.ext, Prefix, file.img).st = "more"
    /\ ProbeEnds(OrCeiling(probe_full(file.ext, AllReadable), AllReadable))

\* The rows are written, or the file is refused.
Ingest ==
    /\ phase = "probed"
    /\ IF check_storable(probed.v)
       THEN row' = Ok(ingest_into(probed.v)) /\ phase' = "row"
       ELSE phase' = "refused" /\ UNCHANGED row
    /\ UNCHANGED <<file, want, tries, probed, segs, image, memo, got, edited, rescans>>

Edit(r) ==
    /\ phase = "row" /\ ~edited /\ rescans = 0
    /\ row' = Ok(r) /\ edited' = TRUE
    /\ UNCHANGED <<file, phase, want, tries, probed, segs, image, memo, got, rescans>>

\* A tagger writes other tags, or other pictures.
Retag == row.st = "ok" /\ \E ts \in NewTags : Edit([row.v EXCEPT !.tags = ByKey(ts)])
Repicture == row.st = "ok" /\ \E as \in NewArts : Edit([row.v EXCEPT !.pictures = as])

\* The row was written before the store had structural blocks.
Legacy == row.st = "ok" /\ row.v.structural # <<>> /\ Edit([row.v EXCEPT !.structural = <<>>])

\* revalidate_with probes such a FLAC again.
Revalidate ==
    /\ phase = "row" /\ row.v.format = "Flac" /\ row.v.structural = <<>>
    /\ row' = Ok(refresh_structural_into(row.v, probed.v))
    /\ UNCHANGED <<file, phase, want, tries, probed, segs, image, memo, got, edited, rescans>>

Resolved(r) ==
    IF r.st = "ok"
    THEN /\ segs' = r.v
         /\ image' = ReadWith(file, r.v, NoMemo, 0, total_len(r.v)).v
         /\ phase' = "ready"
    ELSE phase' = "unservable" /\ UNCHANGED <<segs, image>>

Resolve ==
    /\ phase = "row"
    /\ Resolved(build(file, row.v))
    /\ UNCHANGED <<file, want, tries, probed, row, memo, got, edited, rescans>>

\* Where reads begin: at, and around, the ends of segments and of pages.
Edges ==
    LET ends == Fold(LAMBDA acc, s : [pos |-> acc.pos + LenOf(s), at |-> acc.at \cup {acc.pos}],
                         [pos |-> 0, at |-> {}], segs).at
        pages == IF Last(segs).t = "OggAudio" THEN Captures(image) ELSE {}
        low == IF pages = {} THEN 0 ELSE Max(ends) - 1
    IN  {o \in {p + d : p \in ends \cup {q \in pages : q >= low}, d \in {-1, 0, 1, 5}} :
            0 <= o /\ o < SizeOf(image)}

Read ==
    /\ phase = "ready" /\ rescans = 0
    /\ \E o \in Edges, n \in ReadSizes :
        /\ got' = [offset |-> o, size |-> n, r |-> ReadWith(file, segs, memo, o, n)]
        /\ memo' = MemoAfter(file, segs, memo, o, n)
    /\ phase' = "answered"
    /\ UNCHANGED <<file, want, tries, probed, row, segs, image, edited, rescans>>

\* The same reader goes on.
Respond ==
    /\ phase = "answered" /\ memo # NoMemo
    /\ phase' = "ready" /\ got' = NoRead
    /\ UNCHANGED <<file, want, tries, probed, row, segs, image, memo, edited, rescans>>

\* The served file, copied out of the mount, is found by a scan.
Rescan ==
    /\ phase = "ready" /\ memo = NoMemo /\ rescans < MaxRescans
    /\ Fresh([ext |-> file.ext, img |-> image], rescans + 1)

Next ==
    \/ Discover \/ ProbeMp4 \/ ProbeDecides \/ ProbeWidens \/ ProbeFallsBack \/ Ingest
    \/ Retag \/ Repicture \/ Legacy \/ Revalidate \/ Resolve \/ Read \/ Respond \/ Rescan

Spec == Init /\ [][Next]_vars

(***************************************************************************)
(* Properties.                                                             *)
(***************************************************************************)

\* What the file holds: the reference the bounded probe is tested against.
Reference == probe_full(file.ext, file.img)

AgreesWith(reference) ==
    /\ probed.st = reference.st
    /\ probed.st = "ok" =>
        /\ probed.v.bounds = reference.v.bounds
        /\ (file.ext = "wav" /\ SizeOf(file.img) > MAX_PROBE_BYTES) \/ probed = reference

\* ProbeAgrees: whatever the first window and however often it was widened,
\* probe_body finds what a probe of the whole file finds: the same verdict,
\* audio bounds, tags, pictures and blocks.  A WAV larger than the ceiling
\* may lose the tags behind its audio, never its audio.
ProbeAgrees ==
    phase \in {"probed", "failed"} => AgreesWith(Reference)

\* AudioIsWhole: the audio region probe_body records is the whole audio of
\* the file.
AudioIsWhole == phase = "probed" => probed.v.bounds = Reference.v.bounds

\* ScannedIsServable: a file the scanner stored can be synthesized from the
\* rows the scanner wrote; only an edit can make it unservable.
ScannedIsServable == phase = "unservable" => edited

\* Keys are compared without their case.
Values(tags, key) ==
    LET of == SelectSeq(tags, LAMBDA t : to_ascii_lowercase(t.key) = key) IN [i \in 1..Len(of) |-> of[i].value]

VorbisFormats == {"Flac", "Opus", "Vorbis", "OggFlac"}
OggFormats == {"Opus", "Vorbis", "OggFlac"}

\* The tags come back, but for keys that are no Vorbis field names.
TagsBack(back) ==
    \A i \in 1..Len(KeyOrder) :
        LET key == to_ascii_lowercase(KeyOrder[i]) IN
        Values(back.tags, key) = IF row.v.format \in VorbisFormats /\ key \in NotVorbis THEN <<>>
                                 ELSE Values(row.v.tags, key)

\* MP4 keeps no type and no description; Ogg pads the description.
PicturesBack(back) ==
    LET arts == ArtInputs(row.v) IN
    /\ Len(back.pictures) = Len(arts)
    /\ \A i \in 1..Len(arts) :
        LET a == arts[i]
            b == back.pictures[i]
        IN  /\ b.image = a.image /\ b.mime = a.mime
            /\ row.v.format = "M4a" \/ b.type = a.type
            /\ \/ row.v.format = "M4a"
               \/ b.desc = a.desc
               \/ row.v.format \in OggFormats /\ \E n \in 1..2 : b.desc = a.desc \o Spaces(n)

BinaryBack(back) == row.v.format \in OggFormats \/ ByKey(back.binary) = row.v.binary

RECURSIVE PagesFrom(_, _)
PagesFrom(img, p) ==
    LET h == At(img, p) IN
    IF h.k # "page" THEN <<>>
    ELSE <<[seq |-> h.seq, ok |-> h.n <= 27 + 255 /\ page_crc_ok(img, p),
            page |-> <<h.serial, h.bos, h.frags, Cut(img, p + h.n, p + PageLen(h))>>]>>
         \o PagesFrom(img, p + PageLen(h))

\* The audio is the same bytes; Ogg pages are the same but for their numbers,
\* which count on from the header's, under checksums that hold; no page has
\* more lacing values than a byte counts.
AudioBack(back) ==
    LET audio(img, b) == Cut(img, b.audio_offset, b.audio_offset + b.audio_length)
        is == audio(image, back.bounds)
        was == audio(file.img, row.v.bounds)
        pages(img) == Each(PagesFrom(img, 0), LAMBDA p : p.page)
        counted(all) == \A i \in 1..Len(all) : all[i].ok /\ all[i].seq = i - 1
    IN  IF row.v.format \notin OggFormats THEN is = was
        ELSE SizeOf(is) = SizeOf(was) /\ pages(is) = pages(was) /\ counted(PagesFrom(image, 0))

\* Every chunk offset of every track leads to the byte it led to.
ChunksBack ==
    LET chunks(img, moov) ==
            Each(Tables(moov, OfKind(child_boxes(moov).v, "trak")).v, LAMBDA table :
                Each(At(moov, table.at).offsets, LAMBDA o : Cut(img, o, o + 1)))
    IN  row.v.format = "M4a" => chunks(image, Inside(image, "moov")) = chunks(file.img, Inside(file.img, "moov"))

AllBack(back) ==
    /\ back.st = "ok"
    /\ TagsBack(back.v) /\ PicturesBack(back.v) /\ BinaryBack(back.v) /\ AudioBack(back.v)

\* ServedParsesBack: the synthesized file is a well-formed file of its format:
\* its own readers find in it the tags, pictures and binary tags of the rows,
\* and behind them the audio of the backing file; lengths, counts, offsets,
\* page numbers and checksums are all right at once.
ServedParsesBack ==
    phase = "ready" =>
        AllBack(probe_full(file.ext, image)) /\ ChunksBack

\* RescanIsStable: scanning a served file and serving it again serves the same
\* bytes.  The first round may still reorder comments, since a user-defined
\* key comes back in upper case and sorts elsewhere; no later one changes
\* anything.
RescanIsStable == phase = "ready" /\ rescans > 1 => image = file.img

\* ReadsAreSlices: a read of any window, after any earlier reads, returns
\* those bytes of the one file the layout stands for.
ReadsAreSlices ==
    phase = "answered" => got.r = Ok(Cut(image, got.offset, got.offset + got.size))
=============================================================================
