--------------------------------- MODULE Wav ---------------------------------
(***************************************************************************)
(* WAV files: musefs-format/src/wav.rs.  Chunks are padded to even         *)
(* lengths.                                                                *)
(***************************************************************************)
EXTENDS Flac

RiffHeader(size) == Cell([k |-> "riff", size |-> size, n |-> 12])
ChunkHeader(id, len) == Cell([k |-> "chunk", id |-> id, len |-> len, n |-> 8])
PadByte == Cell([k |-> "pad", n |-> 1])

Padding(len) == IF len % 2 = 1 THEN <<PadByte>> ELSE <<>>

Chunk(id, payload) == <<ChunkHeader(id, SizeOf(payload))>> \o payload \o Padding(SizeOf(payload))

(***************************************************************************)
(* Reading.                                                                *)
(***************************************************************************)
form_end(img) == 8 + At(img, 0).size

RECURSIVE ChunksFrom(_, _, _)
ChunksFrom(img, p, ceiling) ==
    LET h == At(img, p)
        next == p + 8 + h.len + (h.len % 2)
    IN  IF p + 8 > ceiling \/ h.k # "chunk" THEN <<>>
        ELSE <<[id |-> h.id, off |-> p + 8, len |-> h.len]>>
             \o IF next <= ceiling THEN ChunksFrom(img, next, ceiling) ELSE <<>>

\* walk_chunks: the chunks whose headers are there, within the RIFF form.
walk_chunks(img) ==
    IF ~Is(img, 0, "riff") THEN <<>>
    ELSE ChunksFrom(img, 12, Smaller(form_end(img), SizeOf(img)))

Find(img, ids) == SelectSeq(walk_chunks(img), LAMBDA c : c.id \in ids)

chunk_slice(img, c) ==
    IF c.off + c.len > SizeOf(img) THEN Err("Malformed") ELSE Ok(Cut(img, c.off, c.off + c.len))

data_fits(img, c) == c.off + c.len <= form_end(img)

\* locate_audio with the payload present, and locate_audio_at_ceiling with
\* the front of the file only: the payload must lie inside the form and the
\* form inside the file.
wav_bounds(img, file_len) ==
    IF ~Is(img, 0, "riff") THEN Err("NotWav")
    ELSE IF form_end(img) > file_len THEN Err("Malformed")
    ELSE IF Find(img, {"fmt "}) = <<>> \/ Find(img, {"data"}) = <<>> THEN Err("NotWav")
    ELSE LET d == Head(Find(img, {"data"})) IN
         IF data_fits(img, d) THEN Ok(Bounds(d.off, d.len)) ELSE Err("Malformed")

wav_locate_audio_bounded(prefix, file) ==
    IF SizeOf(prefix) < SizeOf(file) THEN NeedMore(SizeOf(file))
    ELSE wav_bounds(prefix, SizeOf(file))

First(cs) == IF cs = <<>> THEN <<>> ELSE <<Head(cs)>>

\* The payload of the first of some chunks, empty if there is none.
SliceOfFirst(img, cs) == IF cs = <<>> THEN <<>> ELSE OrEmpty(chunk_slice(img, Head(cs)))

\* read_structure of the front, what lies before the audio.
read_structure(front) ==
    IF ~Is(front, 0, "riff") \/ Find(front, {"fmt "}) = <<>> THEN Err("NotWav")
    ELSE AllOk(Each(First(Find(front, {"fmt "})) \o First(Find(front, {"fact"})), LAMBDA c :
                Then(chunk_slice(front, c), LAMBDA body : [id |-> c.id, body |-> body])))

Id3Chunk(img) ==
    SliceOfFirst(img, Find(img, {"id3 ", "ID3 "}))

InfoFor == [title |-> "INAM", artist |-> "IART", album |-> "IPRD", date |-> "ICRD",
            genre |-> "IGNR", comment |-> "ICMT", tracknumber |-> "ITRK"]

RECURSIVE InfoFrom(_, _)
InfoFrom(body, p) ==
    LET h == At(body, p)
        v == At(body, p + 8)
    IN  IF p + 8 > SizeOf(body) \/ h.k # "chunk" THEN <<>>
        ELSE (IF v.k = "info" /\ v.v # "" /\ \E k \in DOMAIN InfoFor : InfoFor[k] = h.id
              THEN <<Tag(CHOOSE k \in DOMAIN InfoFor : InfoFor[k] = h.id, v.v)>> ELSE <<>>)
             \o InfoFrom(body, p + 8 + h.len + (h.len % 2))

InfoTags(list) == IF Is(list, 0, "INFO") THEN InfoFrom(list, 4) ELSE <<>>

read_info_tags(img) == InfoTags(SliceOfFirst(img, Find(img, {"LIST"})))

\* Seeded fault: INFO adds its values to those of ID3.
wav_read_tagsBoth(img) == id3_read_tags(Id3Chunk(img)) \o read_info_tags(img)

\* ID3 first; INFO fills the keys it does not have.
WithInfo(id3, info) == id3 \o SelectSeq(info, LAMBDA t : ~\E i \in 1..Len(id3) : id3[i].key = t.key)

wav_read_tags(img) == WithInfo(id3_read_tags(Id3Chunk(img)), read_info_tags(img))

(***************************************************************************)
(* Synthesis.                                                              *)
(***************************************************************************)

\* The first value of each key INFO knows, ended by a NUL.
build_info_payload(tags) ==
    LET firsts == SelectSeq([i \in 1..Len(tags) |-> [t |-> tags[i], i |-> i]],
                    LAMBDA e : /\ e.t.key \in DOMAIN InfoFor
                               /\ \A j \in 1..(e.i - 1) : tags[j].key # e.t.key)
        sub(t) == Chunk(InfoFor[t.key], <<Cell([k |-> "info", v |-> t.value, n |-> Width(t.value) + 1])>>)
    IN  IF firsts = <<>> THEN <<>>
        ELSE <<Cell([k |-> "INFO", n |-> 4])>> \o ConcatEach(firsts, LAMBDA e : sub(e.t))

tag_padding(len) == IF Padding(len) = <<>> THEN <<>> ELSE <<Inline(Padding(len))>>

\* The chunks kept, the tags, and the audio.
WavBody(scan, bounds, info, tag, tag_len_) ==
    Each(scan, LAMBDA c : Inline(Chunk(c.id, c.body)))
    \o (IF info = <<>> THEN <<>> ELSE <<Inline(Chunk("LIST", info))>>)
    \o <<Inline(<<ChunkHeader("id3 ", tag_len_)>>)>> \o tag \o tag_padding(tag_len_)
    \o <<Inline(<<ChunkHeader("data", bounds.audio_length)>>),
         BackingAudio(bounds.audio_offset, bounds.audio_length)>>
    \o tag_padding(bounds.audio_length)

WavForm(body) ==
    IF total_len(body) + 4 > U32Max THEN Err("TooLarge")
    ELSE validated(<<Inline(<<RiffHeader(total_len(body) + 4)>>)>> \o body)

wav_synthesize_layout(scan, bounds, tags, binary, arts) ==
    IF bounds.audio_length > U32Max \/ SizeOf(build_info_payload(tags)) > U32Max THEN Err("TooLarge")
    ELSE AndThen(build_id3v2_segments(tags, binary, arts), LAMBDA tag :
            WavForm(WavBody(scan, bounds, build_info_payload(tags), tag, total_len(tag))))
=============================================================================
