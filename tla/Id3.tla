--------------------------------- MODULE Id3 ---------------------------------
(***************************************************************************)
(* ID3v2 tags and MP3 files: musefs-format/src/id3v2.rs and mp3.rs.  The   *)
(* id3 crate, which reads frames, is external: a frame's data is one       *)
(* content with the fields the crate returns.  Frames the crate would take *)
(* for the same frame (equal descriptions) are not given to it here.       *)
(***************************************************************************)
EXTENDS TagMap

CONSTANTS
    U32Max,      \* the largest 32-bit length, scaled to the checker's integers
    FrameIds,    \* keys shaped like a text frame id: T and three of A-Z0-9
    CommKeys     \* key "id3:<frame>:<lang>:<desc>" -> its parts

SYNCHSAFE_MAX == 2^28 - 1
HEADER_LEN == 10
FOOTER_LEN == 10
MAX_LEADING_TAGS == 64
UFID_OWNER == "http://musicbrainz.org"

Id3Header(major, size) ==
    Cell([k |-> "id3", major |-> major, odd |-> FALSE, footer |-> FALSE, size |-> size, n |-> HEADER_LEN])

FrameHeader(id, len) == Cell([k |-> "frame", id |-> id, len |-> len, n |-> 10])

(***************************************************************************)
(* Tag boundaries.                                                         *)
(***************************************************************************)
starts_with_tag(img) == img # <<>> /\ Head(img).c.k = "id3" /\ Head(img).lo = 0 /\ Head(img).hi >= 3

\* The length of the tag at the front, 0 for none.
tag_len(img) ==
    IF ~Is(img, 0, "id3") THEN 0
    ELSE LET h == At(img, 0) IN
         HEADER_LEN + h.size + IF h.major = 4 /\ h.footer THEN FOOTER_LEN ELSE 0

RECURSIVE leading_tags_from(_, _, _)
leading_tags_from(img, off, left) ==
    LET rest == Cut(img, off, SizeOf(img)) IN
    IF left = 0 THEN Err("Malformed")
    ELSE IF ~starts_with_tag(rest) THEN Ok(off)
    ELSE IF SizeOf(rest) < HEADER_LEN THEN NeedMore(off + HEADER_LEN)
    ELSE IF off + tag_len(rest) > SizeOf(img) THEN NeedMore(off + tag_len(rest))
    ELSE leading_tags_from(img, off + tag_len(rest), left - 1)

leading_tags_len(img) == leading_tags_from(img, 0, MAX_LEADING_TAGS)

\* The last 128 bytes are an ID3v1 tag.
HasId3v1(file) == SizeOf(file) >= 128 /\ Is(file, SizeOf(file) - 128, "id3v1")

(***************************************************************************)
(* Where the audio is.                                                     *)
(***************************************************************************)
FrameSync(img, p) == At(img, p) = BlobContent("mpeg")

Bounds(offset, length) == [audio_offset |-> offset, audio_length |-> length]

mp3_locate_audio(img) ==
    LET len == SizeOf(img)
        off == tag_len(img)
    IN  IF off > len THEN Err("Malformed")
        ELSE IF off + 1 >= len \/ ~FrameSync(img, off) THEN Err("NotMp3")
        ELSE Ok(Bounds(off, (IF len >= off + 128 /\ HasId3v1(img) THEN len - 128 ELSE len) - off))

mp3_locate_audio_bounded(prefix, file) ==
    LET file_len == SizeOf(file)
        off == tag_len(prefix)
    IN  IF SizeOf(prefix) < 10 /\ file_len >= 10 THEN NeedMore(10)
        ELSE IF off > file_len THEN Err("Malformed")
        ELSE IF off + 2 > file_len THEN Err("NotMp3")
        ELSE IF off + 2 > SizeOf(prefix) THEN NeedMore(off + 2)
        ELSE IF ~FrameSync(Cut(file, 0, SizeOf(prefix)), off) THEN Err("NotMp3")
        ELSE Ok(Bounds(off, (IF file_len >= off + 128 /\ HasId3v1(file) THEN file_len - 128
                             ELSE file_len) - off))

(***************************************************************************)
(* Building a tag.                                                         *)
(***************************************************************************)
Frame(id, c) == [id |-> id, c |-> c]

TextWidth(vs) == Fold(LAMBDA acc, v : acc + Width(v), 1 + Len(vs) - 1, vs)

text_frame(id, vs) == Frame(id, [k |-> "text", vs |-> vs, n |-> TextWidth(vs)])
txxx_frame(desc, v) == Frame("TXXX", [k |-> "txxx", desc |-> desc, v |-> v, n |-> 2 + Width(desc) + Width(v)])
comm_like_frame(id, lang, desc, v) ==
    Frame(id, [k |-> "comm", lang |-> lang, desc |-> desc, v |-> v, n |-> 5 + Width(desc) + Width(v)])
popm_frame(rating, count) ==
    Frame("POPM", [k |-> "popm", rating |-> rating, count |-> count, n |-> IF count > 0 THEN 6 ELSE 2])
ufid_frame(owner, v) ==
    Frame("UFID", [k |-> "ufid", owner |-> owner, v |-> v, n |-> Width(owner) + 1 + Width(v)])
apic_framing(art) ==
    Cell([k |-> "apic", mime |-> art.mime, type |-> art.type, desc |-> art.desc,
          n |-> 4 + Width(art.mime) + Width(art.desc)])

comm_like_key(frame, lang, desc, default) ==
    IF desc = "" /\ lang \in {"", "XXX", "und"} THEN default
    ELSE CHOOSE key \in DOMAIN CommKeys : CommKeys[key] = [frame |-> frame, lang |-> lang, desc |-> desc]

is_promoted_key(key) == key \in {"rating", "playcount", "musicbrainz_trackid"}

ValuesOf(tags, key) ==
    LET of == SelectSeq(tags, LAMBDA t : t.key = key) IN [i \in 1..Len(of) |-> of[i].value]

\* Consecutive values of one key.
Grouped(tags) ==
    Fold(LAMBDA acc, t :
            IF acc # <<>> /\ Last(acc).key = t.key
            THEN Append(Front(acc), [Last(acc) EXCEPT !.vs = Append(@, t.value)])
            ELSE Append(acc, [key |-> t.key, vs |-> <<t.value>>]),
         <<>>, tags)

Groups(tags) == Grouped(SelectSeq(tags, LAMBDA t : ~is_promoted_key(t.key)))

\* The frames of a group, by the slot of its key.
FramesIn(slot, key, vs) ==
    CASE slot.slot = "Text" -> <<text_frame(slot.id, vs)>>
      [] slot.slot = "Txxx" -> Each(vs, LAMBDA v : txxx_frame(slot.id, v))
      [] slot.slot \in {"Comment", "Lyrics"} -> Each(vs, LAMBDA v : comm_like_frame(slot.id, "XXX", "", v))
      [] slot.slot = "none" /\ key \in FrameIds -> <<text_frame(key, vs)>>
      [] slot.slot = "none" /\ key \in DOMAIN CommKeys ->
            LET ck == CommKeys[key] IN Each(vs, LAMBDA v : comm_like_frame(ck.frame, ck.lang, ck.desc, v))
      [] OTHER -> Each(vs, LAMBDA v : txxx_frame(key, v))

FramesOf(g) == FramesIn(key_to_id3(g.key), g.key, g.vs)

\* POPM and UFID from the promoted keys: the first rating that is a byte, the
\* last play count that is a number, the first MusicBrainz id.
PromotedFrames(tags) ==
    LET ratings == SelectSeq(ValuesOf(tags, "rating"), LAMBDA v : parse(v) \in 0..255)
        counts == SelectSeq(ValuesOf(tags, "playcount"), LAMBDA v : parse(v) >= 0)
        ids == ValuesOf(tags, "musicbrainz_trackid")
    IN  (IF ratings = <<>> THEN <<>>
         ELSE <<popm_frame(parse(Head(ratings)), IF counts = <<>> THEN 0 ELSE parse(Last(counts)))>>)
        \o (IF ids = <<>> THEN <<>> ELSE <<ufid_frame(UFID_OWNER, Head(ids))>>)

FrameBytes(f) == <<FrameHeader(f.id, f.c.n), Cell(f.c)>>

HasNul(tags, arts) ==
    \/ \E i \in 1..Len(tags) : {tags[i].key, tags[i].value} \cap WithNul # {}
    \/ \E i \in 1..Len(arts) : {arts[i].mime, arts[i].desc} \cap WithNul # {}

apic_len(art) == apic_framing(art).hi + SizeOf(art.image)

\* A frame with a streamed payload: what is inline of it, and its length.
StreamedFrame(head, seg, len) == [head |-> head, seg |-> seg, len |-> len]

OpaqueFrame(b) == StreamedFrame(<<FrameHeader(b.key, SizeOf(b.payload))>>, BinaryTag(b.payload), SizeOf(b.payload))

ApicFrame(a) == StreamedFrame(<<FrameHeader("APIC", apic_len(a)), apic_framing(a)>>, ArtImage(a.image), apic_len(a))

\* What is inline goes in front of the streamed payload after it.
Interleaved(lead, streamed) ==
    [i \in 1..Len(streamed) |-> <<Inline((IF i = 1 THEN lead ELSE <<>>) \o streamed[i].head), streamed[i].seg>>]

BodySegments(text, streamed) ==
    IF streamed # <<>> THEN Concat(Interleaved(text, streamed))
    ELSE IF text = <<>> THEN <<>> ELSE <<Inline(text)>>

\* The header comes last and goes first.
WithHeader(lens, body) ==
    IF (\E i \in 1..Len(lens) : lens[i] > SYNCHSAFE_MAX) \/ total_len(body) > SYNCHSAFE_MAX
    THEN Err("TooLarge")
    ELSE Ok(<<Inline(<<Id3Header(4, total_len(body))>>)>> \o body)

TagSegments(texts, streamed) ==
    WithHeader(Each(texts, LAMBDA f : f.c.n) \o Each(streamed, LAMBDA s : s.len),
               BodySegments(ConcatEach(texts, FrameBytes), streamed))

\* build_id3v2_segments: text frames, promoted frames, binary frames, then
\* pictures.
build_id3v2_segments(tags, binary, arts) ==
    IF HasNul(tags, arts) THEN Err("EmbeddedNul")
    ELSE TagSegments(ConcatEach(Groups(tags), FramesOf) \o PromotedFrames(tags),
                     Each(SelectSeq(binary, LAMBDA b : Width(b.key) = 4), OpaqueFrame) \o Each(arts, ApicFrame))

mp3_synthesize_layout(bounds, tags, binary, arts) ==
    AndThen(build_id3v2_segments(tags, binary, arts), LAMBDA tag :
        validated(Append(tag, BackingAudio(bounds.audio_offset, bounds.audio_length))))

(***************************************************************************)
(* Reading a tag.                                                          *)
(***************************************************************************)

\* The frames from p on, up to the padding; FALSE in `safe` when a frame
\* reaches past the tag or nothing parseable is there.
RECURSIVE WalkFrames(_, _, _)
WalkFrames(img, p, end) ==
    LET h == At(img, p) IN
    IF p >= end \/ p + 10 > SizeOf(img) \/ h.k = "pad" THEN [safe |-> TRUE, frames |-> <<>>]
    ELSE IF h.k # "frame" \/ p + 10 + h.len > end THEN [safe |-> FALSE, frames |-> <<>>]
    ELSE LET rest == WalkFrames(img, p + 10 + h.len, end)
         IN  [safe |-> rest.safe /\ h.id \notin {"CHAP", "CTOC"},
              frames |-> <<[id |-> h.id, body |-> Cut(img, p + 10, p + 10 + h.len)]>> \o rest.frames]

\* id3v2_alloc_safe; no frames when it refuses the tag.
SafeFrames(img) ==
    LET h == At(img, 0)
        w == WalkFrames(img, HEADER_LEN, HEADER_LEN + h.size)
    IN  IF h.k # "id3" \/ h.major \notin 2..4 \/ h.odd \/ HEADER_LEN + h.size > SizeOf(img) \/ ~w.safe
        THEN <<>> ELSE w.frames

TagsOfFrame(f) ==
    LET c == At(f.body, 0) IN
    IF SizeOf(f.body) # c.n THEN <<>>
    ELSE CASE c.k = "txxx" -> <<Tag(id3_txxx_to_key(c.desc), c.v)>>
           [] c.k = "comm" ->
                <<Tag(comm_like_key(f.id, c.lang, c.desc, IF f.id = "COMM" THEN "comment" ELSE "lyrics"), c.v)>>
           [] c.k = "text" ->
                LET vs == SelectSeq(c.vs, LAMBDA v : v # "")
                IN  Each(vs, LAMBDA v : Tag(id3_text_to_key(f.id), v))
           [] OTHER -> <<>>

id3_read_tags(img) ==
    ConcatEach(SafeFrames(img), TagsOfFrame)

PictureOfFrame(f) ==
    LET c == At(f.body, 0) IN
    IF f.id # "APIC" \/ c.k # "apic" THEN <<>>
    ELSE <<Art(Cut(f.body, c.n, SizeOf(f.body)), c.mime, IF c.type \in 0..20 THEN c.type ELSE 0, c.desc)>>

id3_read_pictures(img) ==
    ConcatEach(SafeFrames(img), PictureOfFrame)

\* classify_binary_frame
PromotedOf(f) ==
    LET c == At(f.body, 0) IN
    CASE f.id = "POPM" /\ c.k = "popm" ->
            <<Tag("rating", to_string(c.rating))>>
            \o (IF c.count > 0 THEN <<Tag("playcount", to_string(c.count))>> ELSE <<>>)
      [] f.id = "UFID" /\ c.k = "ufid" /\ c.owner = UFID_OWNER -> <<Tag("musicbrainz_trackid", c.v)>>
      [] OTHER -> <<>>

OpaqueOf(f) ==
    IF f.id \in {"COMM", "USLT", "APIC", "POPM", "TXXX"} \cup FrameIds
       \/ PromotedOf(f) # <<>> \/ id3_text_to_key(f.id) # f.id
    THEN <<>> ELSE <<Binary(f.id, f.body)>>

Classified(fs) == [opaque |-> ConcatEach(fs, OpaqueOf), promoted |-> ConcatEach(fs, PromotedOf)]

id3_read_binary_tags(img) ==
    Classified(IF Is(img, 0, "id3") /\ At(img, 0).major >= 3 THEN SafeFrames(img) ELSE <<>>)
=============================================================================
