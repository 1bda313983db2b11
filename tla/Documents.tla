------------------------------ MODULE Documents ------------------------------
(***************************************************************************)
(* Two parts of a model kept as one JSON document in a column of it.       *)
(*                                                                         *)
(* attachments/: its files.  A relation holds one file or many; the column *)
(* may have been written when a relation of many files held one.  A file   *)
(* is its key, its size when it is known, and the caller's own metadata;   *)
(* names, dates and URLs are left out.                                     *)
(*                                                                         *)
(* translations.rs and translations/input.rs: its translations, by field   *)
(* and language.  A call works on a copy, which it stores when nothing is  *)
(* wrong.                                                                  *)
(***************************************************************************)
EXTENDS Naturals, Sequences, SequencesExt

LOCAL INSTANCE TLC

CONSTANTS
    Keys, MaxFiles,
    Texts, Untranslated     \* Untranslated: the text of the model's own column

VARIABLES
    document,       \* relation |-> the JSON value stored: null, an object, or an array;
                    \* or field |-> language |-> text, for the fields the column has
    meant           \* relation |-> the files the calls so far ask for; or the
                    \* translations <<field, language, text>> they ask for

has_one_files == {"avatar"}
has_many_files == {"photos"}
all_file_relations == has_one_files \cup has_many_files

-------------------------------------------------------------------------------
(* FileAttachment: its fields, and beside them the metadata they do not own *)

Metadata == {<<>>, "note" :> "text", "size" :> "text", "size" :> "number"}
Files == [key : Keys, size : {"unset", "number"}, metadata : Metadata]

owned_by_field_any(file, name) == name \in {"key", "size"}
owned_by_field(file, name) == name = "key" \/ (name = "size" /\ file.size # "unset")

to_json(file) ==
    [name \in {n \in {"key", "size"} : owned_by_field(file, n)} \cup DOMAIN file.metadata |->
        IF owned_by_field(file, name) THEN file[name] ELSE file.metadata[name]]

\* A member of its field's type is the field; any other stays metadata
from_json(members) ==
    LET sized == "size" \in DOMAIN members /\ members["size"] = "number"
    IN  [key |-> members["key"], size |-> IF sized THEN "number" ELSE "unset",
         metadata |-> [name \in DOMAIN members \ ({"key"} \cup IF sized THEN {"size"} ELSE {}) |-> members[name]]]

-------------------------------------------------------------------------------
(* FilesData                                                               *)

NoFile == [shape |-> "null", items |-> <<>>]
One(item) == [shape |-> "one", items |-> <<item>>]
Many(items) == [shape |-> "many", items |-> items]

\* The array of a relation, with what was there before as its first entries
many_mut_fresh(value) == IF value.shape = "many" THEN value.items ELSE <<>>
many_mut(value) == value.items

set_one(files, relation, file) == [files EXCEPT ![relation] = One(to_json(file))]
remove_one(files, relation) == [files EXCEPT ![relation] = NoFile]
add_many(files, relation, file) == [files EXCEPT ![relation] = Many(Append(many_mut(@), to_json(file)))]
remove_many(files, relation, keys) ==
    [files EXCEPT ![relation] = Many(SelectSeq(many_mut(@), LAMBDA item : item["key"] \notin keys))]
clear_many(files, relation) == [files EXCEPT ![relation] = Many(<<>>)]

get_files(files, relation) == [i \in DOMAIN files[relation].items |-> from_json(files[relation].items[i])]

-------------------------------------------------------------------------------
(* HasAttachments: a call that is refused edits nothing                    *)

Edit(relation, files, wanted) ==
    /\ document' = files
    /\ meant' = [meant EXCEPT ![relation] = wanted]

attach_with_metadata(relation, file) ==
    IF relation \in has_one_files
    THEN Edit(relation, set_one(document, relation, file), <<file>>)
    ELSE Edit(relation, add_many(document, relation, file), Append(meant[relation], file))

attach_many(relation, files) ==
    /\ relation \in has_many_files
    /\ Edit(relation, FoldLeft(LAMBDA all, file : add_many(all, relation, file), document, files), meant[relation] \o files)

Detached(relation, keys) == SelectSeq(meant[relation], LAMBDA file : file.key \notin keys)
detach(relation, key) ==
    IF relation \in has_one_files
    THEN Edit(relation, IF \E i \in DOMAIN document[relation].items : document[relation].items[i]["key"] = key
                        THEN remove_one(document, relation) ELSE document,
              Detached(relation, {key}))
    ELSE Edit(relation, remove_many(document, relation, {key}), Detached(relation, {key}))
detach_all(relation) ==
    Edit(relation, IF relation \in has_one_files THEN remove_one(document, relation) ELSE clear_many(document, relation), <<>>)
detach_many(relation, keys) ==
    /\ relation \in has_many_files
    /\ Edit(relation, remove_many(document, relation, keys), Detached(relation, keys))

sync_with_metadata(relation, files) ==
    IF relation \in has_one_files
    THEN Edit(relation, IF files = <<>> THEN remove_one(document, relation) ELSE set_one(document, relation, files[1]),
              IF files = <<>> THEN <<>> ELSE <<files[1]>>)
    ELSE Edit(relation, FoldLeft(LAMBDA all, file : add_many(all, relation, file), clear_many(document, relation), files), files)

FewFiles == {file \in Files : file.metadata # ("size" :> "number") /\ (file.metadata = <<>> \/ file.size = "unset")}
Lists == {<<>>} \cup {<<file>> : file \in FewFiles} \cup {<<[key |-> a, size |-> "unset", metadata |-> <<>>], file>> : a \in Keys, file \in FewFiles}

\* A column from before photos became a relation of many files
AttachmentsInit ==
    \E file \in FewFiles, before \in BOOLEAN :
        /\ document = [avatar |-> NoFile, photos |-> IF before THEN One(to_json(file)) ELSE Many(<<>>)]
        /\ meant = [avatar |-> <<>>, photos |-> IF before THEN <<file>> ELSE <<>>]

AttachmentsNext ==
    \E relation \in all_file_relations :
        \/ \E file \in FewFiles : Len(meant[relation]) < MaxFiles /\ attach_with_metadata(relation, file)
        \/ \E files \in Lists : Len(meant[relation]) + Len(files) <= MaxFiles /\ attach_many(relation, files)
        \/ \E files \in Lists : Len(files) <= MaxFiles /\ sync_with_metadata(relation, files)
        \/ \E key \in Keys : detach(relation, key)
        \/ \E keys \in SUBSET Keys : detach_many(relation, keys)
        \/ detach_all(relation)

-------------------------------------------------------------------------------
\* The column reads back as the files the calls asked for, in their order, also
\* when a relation of many files held one before (FilesData::many_mut, entries).
FilesAreAsAsked == \A relation \in all_file_relations : get_files(document, relation) = meant[relation]

\* What is written of a file reads back and is written again the same, and no
\* metadata is lost but what a set field of that name owns (FileAttachment).
FilesKeepTheirMetadata ==
    \A file \in Files :
        /\ to_json(from_json(to_json(file))) = to_json(file)
        /\ \A name \in DOMAIN file.metadata :
               to_json(file)[name] = IF name = "size" /\ file.size # "unset" THEN file.size ELSE file.metadata[name]

-------------------------------------------------------------------------------
(* Translations                                                            *)

translatable_fields == {"title", "body"}
Fields == translatable_fields \cup {"sku"}
allowed_languages == {"en", "fr"}
Languages == allowed_languages \cup {"xx"}
fallback_language == "en"

-------------------------------------------------------------------------------
(* TranslationsData                                                        *)

FieldOf(data, field) == IF field \in DOMAIN data THEN data[field] ELSE <<>>
Has(data, field, lang) == lang \in DOMAIN FieldOf(data, field)

set(data, field, lang, text) == (field :> (lang :> text @@ FieldOf(data, field))) @@ data
remove(data, field, lang) ==
    IF field \notin DOMAIN data THEN data
    ELSE [data EXCEPT ![field] = [other \in DOMAIN @ \ {lang} |-> @[other]]]
remove_field(data, field) == [other \in DOMAIN data \ {field} |-> data[other]]

get_or_fallback_unset(data, field, lang) ==
    IF Has(data, field, lang) THEN data[field][lang] ELSE Untranslated
get_or_fallback(data, field, lang) ==
    IF Has(data, field, lang) THEN data[field][lang]
    ELSE IF Has(data, field, fallback_language) THEN data[field][fallback_language]
    ELSE Untranslated

-------------------------------------------------------------------------------
(* HasTranslations.  `pairs` is a map of languages in the order it is read *)

LanguagesOf(pairs) == {pairs[i][1] : i \in DOMAIN pairs}

Valid(pairs) == LanguagesOf(pairs) \subseteq allowed_languages
put_translations(data, field, pairs) ==
    FoldLeft(LAMBDA all, pair : set(all, field, pair[1], pair[2]), data, pairs)

\* The copy replaces the column, or the column stays as it is
Store_in_place(accepted, data) == document' = data
Store(accepted, data) == document' = IF accepted THEN data ELSE document

Kept(field, langs) == {said \in meant : said[1] # field \/ said[2] \notin langs}
Said(field, pairs) == {<<field, pairs[i][1], pairs[i][2]>> : i \in DOMAIN pairs}

set_translations(field, pairs) ==
    LET accepted == field \in translatable_fields /\ Valid(pairs)
    IN  /\ Store(accepted, put_translations(document, field, pairs))
        /\ meant' = IF accepted THEN Kept(field, LanguagesOf(pairs)) \cup Said(field, pairs) ELSE meant
sync_translations(field, pairs) ==
    LET accepted == field \in translatable_fields /\ Valid(pairs)
    IN  /\ Store(accepted, put_translations(remove_field(document, field), field, pairs))
        /\ meant' = IF accepted THEN Kept(field, Languages) \cup Said(field, pairs) ELSE meant
\* An input of several fields is applied as a whole
apply_translations(first, second, pairs) ==
    LET accepted == {first, second} \subseteq translatable_fields /\ Valid(pairs)
    IN  /\ Store(accepted, put_translations(put_translations(document, first, pairs), second, pairs))
        /\ meant' = IF accepted
                    THEN {said \in meant : said[1] \notin {first, second} \/ said[2] \notin LanguagesOf(pairs)}
                         \cup Said(first, pairs) \cup Said(second, pairs)
                    ELSE meant
remove_translation(field, lang) ==
    Store(TRUE, remove(document, field, lang)) /\ meant' = Kept(field, {lang})
remove_field_translations(field) ==
    Store(TRUE, remove_field(document, field)) /\ meant' = Kept(field, Languages)
clear_translations == Store(TRUE, <<>>) /\ meant' = {}

\* A document rendered in a language: its own text where there is no translation
render_translations(data, lang) == [field \in translatable_fields |-> get_or_fallback(data, field, lang)]

Maps == {<<>>} \cup {<<<<lang, text>>>> : lang \in Languages, text \in Texts}
        \cup {<<<<one, a>>, <<other, b>>>> : one, other \in Languages, a, b \in Texts}
Ordered == {pairs \in Maps : Len(pairs) = 2 => pairs[1][1] # pairs[2][1]}

TranslationsInit == document = <<>> /\ meant = {}
TranslationsNext ==
    \/ \E field \in Fields, pairs \in Ordered : set_translations(field, pairs) \/ sync_translations(field, pairs)
    \/ \E first, second \in Fields, pairs \in Ordered : first # second /\ apply_translations(first, second, pairs)
    \/ \E field \in Fields, lang \in Languages : remove_translation(field, lang)
    \/ \E field \in Fields : remove_field_translations(field)
    \/ clear_translations

-------------------------------------------------------------------------------
\* The column holds what the accepted calls asked for and nothing of a refused
\* one, also when an entry after the first was at fault; and a field is rendered
\* in the language asked for, else in the fallback language, else as it stands.
TranslationsAreAsAsked ==
    /\ meant = {<<field, lang, FieldOf(document, field)[lang]>> :
                    <<field, lang>> \in {p \in Fields \X Languages : Has(document, p[1], p[2])}}
    /\ \A field \in translatable_fields, lang \in Languages :
           LET Saying(language) == {said[3] : said \in {t \in meant : t[1] = field /\ t[2] = language}}
           IN  render_translations(document, lang)[field] \in
                   IF Saying(lang) # {} THEN Saying(lang)
                   ELSE IF Saying(fallback_language) # {} THEN Saying(fallback_language) ELSE {Untranslated}
===============================================================================
