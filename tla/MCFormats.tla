------------------------------ MODULE MCFormats ------------------------------
(***************************************************************************)
(* Files of every format for module Formats: with and without tags, with   *)
(* metadata at odd places, metadata over several pages or widenings, sizes *)
(* at the limits.                                                          *)
(***************************************************************************)
EXTENDS Formats

MCLongText == [Epic |-> 10000000, Saga |-> 70000, Page |-> 64993, Note |-> 300]
MCWithNul == {"Nul"}
MCUpper == [mood |-> "MOOD", energy |-> "ENERGY"]
MCNotVorbis == {"a=b"}
MCNumerals == [x \in {"3", "200", "7", "120", "1", "0", "9"} |->
    CASE x = "3" -> 3 [] x = "200" -> 200 [] x = "7" -> 7 [] x = "120" -> 120 [] x = "1" -> 1
      [] x = "0" -> 0 [] x = "9" -> 9]
MCCommKeys == ("id3:COMM:eng:note" :> [frame |-> "COMM", lang |-> "eng", desc |-> "note"])
MCFrameIds == {"TENC"}
MCNumberPairs == ("3/9" :> <<3, 9>>)
MCFreeformKeys == ("----:com.apple.iTunes:hash" :> "hash")
MCKeyOrder == <<"----:com.apple.iTunes:hash", "APPLICATION", "CUESHEET", "ENERGY", "MOOD", "PRIV", "TENC", "a=b",
    "artist", "bpm", "comment", "copyright", "discnumber", "energy", "id3:COMM:eng:note", "lyrics", "mood", "musicbrainz_trackid",
    "playcount", "rating", "replaygain_track_gain", "title", "tracknumber">>

\* Pictures and payloads.
Jpeg == Blob("jpeg", 1000)
Png == Blob("png", 150001)
Poster == Blob("poster", 2000000)
Cover == Art(Jpeg, "image/jpeg", 3, "front")
Back == Art(Png, "image/png", 4, "")
Big(i) == Art(Blob(<<"big", i>>, 2000000), "image/jpeg", 3, "")

Plain == <<Tag("artist", "A"), Tag("artist", "B"), Tag("title", "T"), Tag("tracknumber", "3/9")>>
Custom == <<Tag("mood", "calm"), Tag("a=b", "c"), Tag("comment", "hi"), Tag("replaygain_track_gain", "-3 dB")>>
\* With "Page" the comments of an Opus stream fill a page to its last byte.
MCNewTags == {Plain, Custom, <<>>, <<Tag("title", "Page")>>, <<Tag("title", "Saga"), Tag("bpm", "120"), Tag("lyrics", "Note")>>,
              <<Tag("title", "Nul")>>}
MCNewArts == {<<>>, <<Back>>, <<Cover, Back, Art(<<>>, "image/png", 3, "")>>}

\* FLAC
FlacBlock(type, body, last) == <<BlockHeader(type, SizeOf(body), last)>> \o body
Info == FlacBlock("STREAMINFO", Blob("info", 34), FALSE)
PictureBody(a) == <<PictureFraming(a, a.desc)>> \o a.image
FlacAudio == Blob("flac", 5000)
FlacFile(pre, blocks, pad, audio) ==
    pre \o <<Marker>> \o Info \o blocks \o FlacBlock("PADDING", Blob("zeros", pad), TRUE) \o audio

FullFlac == FlacFile(<<>>,
    FlacBlock("APPLICATION", Blob("app", 40), FALSE) \o FlacBlock("VORBIS_COMMENT", VorbisBuild(Plain \o Custom), FALSE)
    \o FlacBlock("SEEKTABLE", Blob("seek", 180), FALSE) \o FlacBlock("PICTURE", PictureBody(Cover), FALSE)
    \o FlacBlock("CUESHEET", Blob("cue", 396), FALSE), 64, FlacAudio)

TagOf(fs) ==
    LET body == Concat([i \in 1..Len(fs) |-> FrameBytes(fs[i])]) IN <<Id3Header(4, SizeOf(body))>> \o body
Id3v1 == <<Cell([k |-> "id3v1", n |-> 128])>>
Titled == <<text_frame("TIT2", <<"Other">>), text_frame("TPE1", <<"A">>), comm_like_frame("COMM", "eng", "note", "n")>>
Id3Flac == FlacFile(TagOf(Titled), FlacBlock("VORBIS_COMMENT", VorbisBuild(<<Tag("title", "T")>>), FALSE),
                    0, FlacAudio \o Id3v1)
\* Two sources of tags that fit no comment block together.
EpicFlac == FlacFile(TagOf(<<text_frame("TPE1", <<"Epic">>)>>),
                     FlacBlock("VORBIS_COMMENT", VorbisBuild(<<Tag("title", "Epic")>>), FALSE), 0, FlacAudio)
BadFlac == FlacFile(<<>>, FlacBlock("STREAMINFO", Blob("info2", 34), FALSE), 0, FlacAudio)
\* Pictures behind the window: each costs the probe two widenings.
Gallery(n) == Concat([i \in 1..n |-> FlacBlock("PICTURE", PictureBody(Big(i)), FALSE)])
GalleryFlac(n, audio) == FlacFile(<<>>, Gallery(n), 8, Blob("flac", audio))

\* MP3
Mpeg == Blob("mpeg", 700)
FullMp3 == TagOf(<<text_frame("TPE1", <<"A", "B">>), text_frame("TENC", <<"lame">>),
                   txxx_frame("MOOD", "calm"), txxx_frame("REPLAYGAIN_TRACK_GAIN", "-3 dB"),
                   comm_like_frame("COMM", "eng", "note", "n"), comm_like_frame("USLT", "XXX", "", "Note"),
                   popm_frame(200, 7), ufid_frame(UFID_OWNER, "mbid")>>)
WithFrames(tag, more) == <<[tag[1] EXCEPT !.c.size = @ + SizeOf(more)]>> \o Tail(tag) \o more
Priv == <<FrameHeader("PRIV", 50)>> \o Blob("priv", 50)
Apic(a) == <<FrameHeader("APIC", apic_len(a)), apic_framing(a)>> \o a.image
TaggedMp3 == WithFrames(FullMp3, Priv \o Apic(Cover)) \o Mpeg \o Id3v1
PaddedMp3 == WithFrames(TagOf(<<text_frame("TIT2", <<"T">>)>>), <<Cell([k |-> "pad", n |-> 512])>>) \o Mpeg

\* WAV
WavAudio(n) == Blob("pcm", n)
Riff(chunks) == <<RiffHeader(4 + SizeOf(chunks))>> \o chunks
Fmt == Chunk("fmt ", Blob("fmt", 18))
InfoList == Chunk("LIST", build_info_payload(<<Tag("title", "T"), Tag("artist", "Z")>>))
FullWav == Riff(Fmt \o Chunk("fact", Blob("fact", 4)) \o InfoList \o Chunk("data", WavAudio(333))
                \o Chunk("id3 ", WithFrames(TagOf(<<text_frame("TPE1", <<"A">>)>>), Priv \o Apic(Cover))))
BareWav == Riff(Fmt \o Chunk("data", WavAudio(100)))
HugeWav == Riff(Fmt \o Chunk("data", WavAudio(70000000)) \o InfoList)
CutWav == Cut(FullWav, 0, SizeOf(FullWav) - 20)

\* MP4
Stbl(kind, offsets) == Boxed("stbl", OffsetTable(kind, offsets))
Trak(handler, kind, offsets) ==
    Boxed("trak", Boxed("tkhd", Blob("tkhd", 84))
        \o Boxed("mdia", Handler(handler) \o Boxed("minf", Stbl(kind, offsets))))
TextAtom(kind, v) == Boxed(kind, utf8_data_box(v))
Ilst == TextAtom("(c)nam", "T") \o TextAtom("(c)ART", "A")
    \o Boxed("trkn", Boxed("data", <<DataHead(0), Cell([k |-> "number", number |-> 3, total |-> 9, n |-> 8])>>))
    \o Boxed("covr", Boxed("data", <<DataHead(13)>> \o Jpeg))
    \o Boxed("----", MeanBox \o NameBox("hash") \o Boxed("data", <<DataHead(0)>> \o Blob("hash", 32)))
Udta == Boxed("udta", Boxed("meta", <<FullBox>> \o Handler("mdir") \o Boxed("ilst", Ilst))
                      \o Boxed("chpl", Blob("chapters", 60)))
Ftyp == Boxed("ftyp", Blob("brands", 24))
Mdat == Boxed("mdat", Blob("aac", 900))
Moov(o, udta) == Boxed("moov", Boxed("mvhd", Blob("mvhd", 100)) \o Trak("soun", "stco", <<o, o + 300>>)
                               \o Trak("text", "co64", <<o + 800>>) \o udta)
EarlyM4a == Ftyp \o Moov(SizeOf(Ftyp) + SizeOf(Moov(0, Udta)) + 8, Udta) \o Mdat
LateM4a == Ftyp \o Mdat \o Moov(SizeOf(Ftyp) + 8, <<>>)
\* The audio box runs to the end of the file.
OpenM4a == Ftyp \o Moov(SizeOf(Ftyp) + SizeOf(Moov(0, <<>>)) + 8, <<>>) \o <<BoxHead("mdat", 0, 8)>> \o Blob("aac", 900)

\* Ogg
Laced(packets) ==
    Fold(LAMBDA acc, i :
                LET p == LacedPages(77, acc.seq, i = 1, <<Inline(packets[i])>>)
                IN  [seq |-> acc.seq + p.used, img |-> acc.img \o Fed(p.segs).v],
             [seq |-> 0, img |-> <<>>], [i \in 1..Len(packets) |-> i])
AudioPage(seq, frags, payload) == <<PageHeader(77, seq, FALSE, frags, Crc(seq, payload))>> \o payload
\* Bytes of a packet that look like a page.
Decoy == <<PageHeader(77, 1, FALSE, <<Fragment(10, TRUE)>>, Crc(9, <<>>))>>
Voice(lo, hi) == <<Piece(BlobContent("voice"), lo, hi)>>
WithDecoy == Voice(0, 200) \o Decoy \o Voice(200, 300)
Pages(s) == AudioPage(s, <<Fragment(SizeOf(WithDecoy), TRUE)>>, WithDecoy)
    \o AudioPage(s + 1, <<Fragment(120, TRUE), Fragment(510, FALSE)>>, Voice(300, 930))
    \o AudioPage(s + 2, <<Fragment(40, TRUE)>>, Voice(930, 970))
OggFile(packets) == LET h == Laced(packets) IN h.img \o Pages(h.seq)
OpusHead == <<Cell([k |-> "OpusHead", n |-> 19])>>
VorbisHead == <<Cell([k |-> "vorbis1", n |-> 30])>>
Mapping(n) == <<Cell([k |-> "flacmap", count |-> n, n |-> 51])>>
CommentPacket(magic, n, tags, arts, framed) ==
    Fed(comment_packet_chunks(Cell([k |-> magic, n |-> n]), tags, arts, framed)).v
\* The art makes the comment packet longer than a page.
OpusFile == OggFile(<<OpusHead, CommentPacket("OpusTags", 8, Plain \o Custom, <<Cover, Back>>, FALSE)>>)
VorbisFile == OggFile(<<VorbisHead, CommentPacket("vorbis3", 7, <<Tag("title", "Saga")>>, <<>>, TRUE), Blob("books", 4000)>>)
OggFlacFile == OggFile(<<Mapping(3), FlacBlock("SEEKTABLE", Blob("seek", 180), FALSE),
                         FlacBlock("VORBIS_COMMENT", VorbisBuild(Plain), FALSE),
                         FlacBlock("PICTURE", PictureBody(Back), TRUE)>>)
\* A comment packet of a multiple of 255 bytes, as long as a page may be.
FullPage == OggFile(<<OpusHead, <<Cell([k |-> "OpusTags", n |-> 8])>> \o VorbisBuild(<<>>) \o Blob("slack", 65025 - 22)>>)
ChainedOgg == Laced(<<OpusHead>>).img \o Laced(<<OpusHead, CommentPacket("OpusTags", 8, Plain, <<>>, FALSE)>>).img

Source(ext, img) == [ext |-> ext, img |-> img]
MCSources == {Source("flac", f) : f \in {FullFlac, Id3Flac, EpicFlac, BadFlac, GalleryFlac(5, 1000)}}
    \cup {Source("mp3", f) : f \in {TaggedMp3, PaddedMp3, Mpeg}}
    \cup {Source("wav", f) : f \in {FullWav, BareWav, HugeWav, CutWav}}
    \cup {Source("m4a", f) : f \in {EarlyM4a, LateM4a, OpenM4a}}
    \cup {Source("ogg", f) : f \in {OpusFile, VorbisFile, OggFlacFile, FullPage, ChainedOgg}}

\* A long recording with many pictures.
LongSources == {Source("flac", GalleryFlac(5, 70000000))}

\* Audio pages of the largest size there is.
LargestPages == AudioPage(2, <<Fragment(65025, FALSE)>>, Voice(0, 65025))
    \o AudioPage(3, <<Fragment(65025, FALSE)>>, Voice(65025, 130050))
    \o AudioPage(4, <<Fragment(40, TRUE)>>, Voice(130050, 130090))
LargestSources == {Source("ogg", Laced(<<OpusHead, CommentPacket("OpusTags", 8, Plain, <<>>, FALSE)>>).img
                                 \o LargestPages)}
=============================================================================
