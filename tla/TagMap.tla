------------------------------- MODULE TagMap -------------------------------
(***************************************************************************)
(* The tag vocabulary: musefs-format/src/tagmap.rs, and texts.             *)
(*                                                                         *)
(* Keys and values are strings; what depends on their characters is given  *)
(* by constants: the length of the long ones, which hold a NUL, how        *)
(* user-defined keys change case, which texts are numbers.                 *)
(***************************************************************************)
EXTENDS Layout

CONSTANTS
    LongText,    \* text -> its length, for texts standing for long ones
    WithNul,     \* texts that hold a NUL byte
    Upper,       \* user-defined key -> the key in upper case
    NotVorbis,   \* keys outside the grammar of Vorbis field names
    Numerals     \* text -> the number it spells

Width(s) == IF s \in DOMAIN LongText THEN LongText[s] ELSE Len(s)

to_ascii_uppercase(s) == IF s \in DOMAIN Upper THEN Upper[s] ELSE s

to_ascii_lowercase(s) ==
    IF \E k \in DOMAIN Upper : Upper[k] = s THEN CHOOSE k \in DOMAIN Upper : Upper[k] = s ELSE s

\* The text of a number, and the number of a text: -1 for no number.
parse(s) == IF s \in DOMAIN Numerals THEN Numerals[s] ELSE -1

to_string(n) == CHOOSE s \in DOMAIN Numerals : Numerals[s] = n /\ Len(s) = Min({Len(t) : t \in
                        {u \in DOMAIN Numerals : Numerals[u] = n}})

Text(id) == [slot |-> "Text", id |-> id]
Txxx(desc) == [slot |-> "Txxx", id |-> desc]
Number(atom, width) == [slot |-> "Number", id |-> atom, width |-> width]
Integer(atom, width) == [slot |-> "Integer", id |-> atom, width |-> width]
Freeform(name) == [slot |-> "Freeform", id |-> name]
NoSlot == [slot |-> "none", id |-> ""]

Entry(key, id3, mp4, vorbis) == [key |-> key, id3 |-> id3, mp4 |-> mp4, vorbis |-> vorbis]

VOCAB == {
    Entry("title", Text("TIT2"), Text("(c)nam"), "TITLE"),
    Entry("artist", Text("TPE1"), Text("(c)ART"), "ARTIST"),
    Entry("album", Text("TALB"), Text("(c)alb"), "ALBUM"),
    Entry("albumartist", Text("TPE2"), Text("aART"), "ALBUMARTIST"),
    Entry("genre", Text("TCON"), Text("(c)gen"), "GENRE"),
    Entry("date", Text("TDRC"), Text("(c)day"), "DATE"),
    Entry("composer", Text("TCOM"), Text("(c)wrt"), "COMPOSER"),
    Entry("grouping", Text("TIT1"), Text("(c)grp"), "GROUPING"),
    Entry("tracknumber", Text("TRCK"), Number("trkn", 8), "TRACKNUMBER"),
    Entry("discnumber", Text("TPOS"), Number("disk", 6), "DISCNUMBER"),
    Entry("comment", [slot |-> "Comment", id |-> "COMM"], Text("(c)cmt"), "COMMENT"),
    Entry("lyrics", [slot |-> "Lyrics", id |-> "USLT"], Text("(c)lyr"), "LYRICS"),
    Entry("copyright", Text("TCOP"), Freeform("COPYRIGHT"), "COPYRIGHT"),
    Entry("isrc", Text("TSRC"), Freeform("ISRC"), "ISRC"),
    Entry("lyricist", Text("TEXT"), Freeform("LYRICIST"), "LYRICIST"),
    Entry("conductor", Text("TPE3"), Freeform("CONDUCTOR"), "CONDUCTOR"),
    Entry("replaygain_track_gain", Txxx("REPLAYGAIN_TRACK_GAIN"),
          Freeform("replaygain_track_gain"), "REPLAYGAIN_TRACK_GAIN"),
    Entry("replaygain_album_gain", Txxx("REPLAYGAIN_ALBUM_GAIN"),
          Freeform("replaygain_album_gain"), "REPLAYGAIN_ALBUM_GAIN"),
    Entry("replaygain_track_peak", Txxx("REPLAYGAIN_TRACK_PEAK"),
          Freeform("replaygain_track_peak"), "REPLAYGAIN_TRACK_PEAK"),
    Entry("replaygain_album_peak", Txxx("REPLAYGAIN_ALBUM_PEAK"),
          Freeform("replaygain_album_peak"), "REPLAYGAIN_ALBUM_PEAK"),
    Entry("musicbrainz_albumid", Txxx("MusicBrainz Album Id"),
          Freeform("MusicBrainz Album Id"), "MUSICBRAINZ_ALBUMID"),
    Entry("musicbrainz_artistid", Txxx("MusicBrainz Artist Id"),
          Freeform("MusicBrainz Artist Id"), "MUSICBRAINZ_ARTISTID"),
    Entry("bpm", Text("TBPM"), Integer("tmpo", 2), "BPM"),
    Entry("compilation", Text("TCMP"), Integer("cpil", 1), "COMPILATION"),
    Entry("gapless", Txxx("GAPLESS"), Integer("pgap", 1), "GAPLESS") }

AnyOr(S, default) == IF S = {} THEN default ELSE CHOOSE x \in S : TRUE

\* The canonical key of a native name, or the name itself.
id3_text_to_key(id) == AnyOr({e.key : e \in {f \in VOCAB : f.id3 = Text(id)}}, id)
id3_txxx_to_key(desc) == AnyOr({e.key : e \in {f \in VOCAB : f.id3 = Txxx(desc)}}, desc)
mp4_atom_to_key(atom) == AnyOr({e.key : e \in {f \in VOCAB : f.mp4 = Text(atom)}}, atom)
mp4_integer_atom_to_key(atom) ==
    AnyOr({e.key : e \in {f \in VOCAB : f.mp4.slot = "Integer" /\ f.mp4.id = atom}}, atom)
mp4_freeform_to_key(name) == AnyOr({e.key : e \in {f \in VOCAB : f.mp4 = Freeform(name)}}, name)
vorbis_to_key(field) == AnyOr({e.key : e \in {f \in VOCAB : f.vorbis = field}}, field)

\* The entry of a key, whatever its case.
EntryOf(key) == {e \in VOCAB : e.key = to_ascii_lowercase(key)}

key_to_id3(key) == AnyOr({e.id3 : e \in EntryOf(key)}, NoSlot)
key_to_mp4(key) == AnyOr({e.mp4 : e \in EntryOf(key)}, NoSlot)
key_to_vorbis(key) == AnyOr({e.vorbis : e \in EntryOf(key)}, to_ascii_uppercase(key))

Tag(key, value) == [key |-> key, value |-> value]
Art(image, mime, type, desc) == [image |-> image, mime |-> mime, type |-> type, desc |-> desc]
Binary(key, payload) == [key |-> key, payload |-> payload]
=============================================================================
