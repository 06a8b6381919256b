------------------------------ MODULE Template ------------------------------
(***************************************************************************)
(* Path templates, musefs-core/src/template.rs: a template is parsed once  *)
(* per mount; a track's path is rendered from the tags that were loaded    *)
(* for it.                                                                 *)
(*                                                                         *)
(* Text is a sequence of words.  A word is the name it spells: its base,   *)
(* then the ranks that follow, so <<"a", 2>> is "a (2)".  The characters   *)
(* that matter on their own are words too.                                 *)
(***************************************************************************)
EXTENDS Integers, Sequences, FiniteSets, SequencesExt, FiniteSetsExt

CONSTANTS
    TemplateText,     \* the --template, a sequence of lexemes
    MAX_SECTION_DEPTH,
    MAX_PATH_FIELD_SEGMENTS,
    Lower,            \* key with capitals -> its lower-case form
    fallbacks,        \* MountConfig.fallbacks: field -> text
    default_fallback, \* MountConfig.default_fallback
    skip_on_missing,  \* MountConfig.skip_on_missing
    Extension,        \* the word "." and the format's name
    Spelled,          \* what a run of several words spells
    Unrendered        \* no path: the track is not shown

Slash == <<"/">>
Control == <<"\t">>
Underscore == <<"_">>

\* Lexemes of a template, and the parts it is parsed into.
Open == [t |-> "open"]
Close == [t |-> "close"]
Literal(text) == [t |-> "literal", text |-> text]
Field(names, raw) == [t |-> "field", names |-> names, raw |-> raw]
Section(parts) == [t |-> "section", parts |-> parts]

(***************************************************************************)
(* parse_parts.  The result: the parts up to the "]" that ends them, what  *)
(* is left behind it, and an error.                                        *)
(***************************************************************************)
Parsing(parts, rest, error) == [parts |-> parts, rest |-> rest, error |-> error]
Before(part, r) == [r EXCEPT !.parts = <<part>> \o @]

RECURSIVE parse_parts(_, _)
parse_parts(text, depth) ==
    IF text = <<>> THEN Parsing(<<>>, <<>>, IF depth > 0 THEN "UnclosedSection" ELSE "none")
    ELSE CASE Head(text).t = "close" /\ depth > 0 -> Parsing(<<>>, Tail(text), "none")
           \* Outside a section a "]" is text.
           [] Head(text).t = "close" /\ depth = 0 ->
                Before(Literal(<<<<"]">>>>), parse_parts(Tail(text), depth))
           [] Head(text).t = "literal" /\ \E i \in DOMAIN Head(text).text : Head(text).text[i] = Control ->
                Parsing(<<>>, <<>>, "ControlByte")
           [] Head(text).t = "open" /\ depth + 1 > MAX_SECTION_DEPTH ->
                Parsing(<<>>, <<>>, "NestingTooDeep")
           [] Head(text).t = "open" /\ depth + 1 <= MAX_SECTION_DEPTH ->
                LET inner == parse_parts(Tail(text), depth + 1) IN
                IF inner.error # "none" THEN inner
                ELSE Before(Section(inner.parts), parse_parts(inner.rest, depth))
           [] OTHER -> Before(Head(text), parse_parts(Tail(text), depth))

template == parse_parts(TemplateText, 0)

\* Musefs::open refuses a template that does not parse.
ASSUME TemplateAssumption ==
    /\ MAX_SECTION_DEPTH \in Nat /\ MAX_PATH_FIELD_SEGMENTS \in Nat
    /\ skip_on_missing \in BOOLEAN
    /\ template.error = "none"

\* Seeded fault: the fields inside sections are forgotten.
collect_field_names_flat(parts) ==
    UNION {IF parts[i].t = "field" THEN Range(parts[i].names) ELSE {} : i \in DOMAIN parts}

\* The fields a template can ask for.
RECURSIVE collect_field_names(_)
collect_field_names(parts) ==
    UNION {CASE parts[i].t = "literal" -> {}
             [] parts[i].t = "field" -> Range(parts[i].names)
             [] parts[i].t = "section" -> collect_field_names(parts[i].parts) : i \in DOMAIN parts}

referenced_fields == collect_field_names(template.parts)

(***************************************************************************)
(* Tags.  Rows come from the store by key and ordinal, capitals first.     *)
(***************************************************************************)
to_ascii_lowercase(key) == IF key \in DOMAIN Lower THEN Lower[key] ELSE key

\* What a full rebuild loads, and what an incremental one does.
tags_grouped_for_keys(rows) == SelectSeq(rows, LAMBDA r : to_ascii_lowercase(r.key) \in referenced_fields)
tags_for_tracks(rows) == rows

\* The first value of each key.
tags_to_fields(rows) ==
    LET of(k) == SelectSeq(rows, LAMBDA r : to_ascii_lowercase(r.key) = k)
    IN  [k \in {to_ascii_lowercase(rows[i].key) : i \in DOMAIN rows} |-> Head(of(k)).value]

(***************************************************************************)
(* Rendering.                                                              *)
(***************************************************************************)
Split(text) ==
    FoldLeft(LAMBDA acc, w : IF w = Slash THEN Append(acc, <<>>)
                             ELSE [acc EXCEPT ![Len(acc)] = Append(@, w)], <<<<>>>>, text)

DotNames == {<<>>, <<<<".">>>>, <<<<"..">>>>}

sanitize_into(value) ==
    [i \in DOMAIN value |-> IF value[i] \in {Slash, Control} THEN Underscore ELSE value[i]]

sanitize_path(value) ==
    LET kept == SelectSeq(Split(value), LAMBDA s : s \notin DotNames)
        some == SubSeq(kept, 1, Min({Len(kept), MAX_PATH_FIELD_SEGMENTS}))
    IN  FlattenSeq([i \in DOMAIN some |->
            (IF i > 1 THEN <<Slash>> ELSE <<>>) \o sanitize_into(some[i])])

NonEmpty(text) == text # <<>>
Get(map, name) == IF name \in DOMAIN map THEN map[name] ELSE <<>>

\* The candidates of a chain that are there, as they would be rendered.
resolve_plain(names, fields) ==
    LET values(n) == SelectSeq(<<Get(fields, n), Get(fallbacks, n)>>, NonEmpty)
        found == FlattenSeq([i \in DOMAIN names |-> values(names[i])])
    IN  [i \in DOMAIN found |-> sanitize_into(found[i])]

resolve_path(names, fields) ==
    LET value(n) == IF n \in DOMAIN fields THEN fields[n] ELSE Get(fallbacks, n)
    IN  SelectSeq([i \in DOMAIN names |-> sanitize_path(value(names[i]))], NonEmpty)

RECURSIVE render_parts(_, _, _)
render_parts(parts, fields, in_section) ==
    LET Step(acc, part) ==
            CASE part.t = "literal" -> [acc EXCEPT !.out = @ \o part.text]
              [] part.t = "section" ->
                   LET inner == render_parts(part.parts, fields, TRUE) IN
                   IF inner.present THEN [acc EXCEPT !.out = @ \o inner.out, !.present = TRUE] ELSE acc
              [] part.t = "field" ->
                   LET found == IF part.raw THEN resolve_path(part.names, fields)
                                ELSE resolve_plain(part.names, fields)
                   IN  IF found # <<>> THEN [acc EXCEPT !.out = @ \o found[1], !.present = TRUE]
                       ELSE IF in_section THEN acc
                       ELSE [acc EXCEPT !.out = @ \o sanitize_into(default_fallback), !.top_complete = FALSE]
    IN  FoldLeft(Step, [out |-> <<>>, present |-> FALSE, top_complete |-> TRUE], parts)

\* render, render_checked: the components between the slashes, as names with
\* their base and their ranks.
Name(words) ==
    LET word == IF words = <<>> THEN <<"">> ELSE IF Len(words) = 1 THEN words[1] ELSE Spelled[words]
    IN  [base |-> Head(word), ranks |-> Tail(word)]

render_one(rows) ==
    LET r == render_parts(template.parts, tags_to_fields(rows), FALSE)
        pieces == Split(Append(r.out, Extension))
    IN  IF skip_on_missing /\ ~r.top_complete THEN Unrendered
        ELSE [i \in DOMAIN pieces |-> Name(pieces[i])]

\* The path of a track by the two ways to load its tags.
keyed_path(rows) == render_one(tags_grouped_for_keys(rows))
loaded_path(rows) == render_one(tags_for_tracks(rows))
=============================================================================
