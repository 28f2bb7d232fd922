----------------------------- MODULE Frontmatter ------------------------------
(***************************************************************************)
(* The edits the editor makes for its author: a front-matter schema        *)
(* applied from a dialog (lib/frontmatterSchema.ts and                     *)
(* FrontmatterSchemaDialog.tsx) and a snippet put at the caret             *)
(* (lib/insertMarkdownSnippet.ts).                                         *)
(*                                                                         *)
(* Front matter is a sequence of lines, each an entry "key: scalar" or     *)
(* something else: an item of a block list, a nested value, a comment.     *)
(* Texts are sequences of words, a comma or a blank between two.           *)
(***************************************************************************)
EXTENDS Naturals, SequencesExt, FiniteSetsExt

CONSTANTS
  Key, Word,
  Schemas,   \* the schemas offered: sets of sequences of fields
  Contents,  \* the front matter the editor may hold: sequences of lines, or None
  Bodies,    \* texts to put a snippet in: sequences over "word" and "newline"
  MaxEdits,  \* bound on the edits
  None

VARIABLES
  content,   \* the front matter in the editor, None without any
  body,
  dialog,    \* None while closed, or the schema selected and the values typed
  last,      \* the last edit made for the author (history)
  edits

vars == <<content, body, dialog, last, edits>>

\* allowed: the options of a select, the two booleans, numerals, dates; {} for
\* a text or a list.
Field == [key: Key, type: {"text", "list", "choice"}, required: BOOLEAN,
          allowed: SUBSET Word, default: {<<>>} \cup {<<w>> : w \in Word}]

\* normalizeFields: what the service lets into a schema.  The default of a date
\* is the one that is not looked at.
WellFormed(fields) ==
  /\ \A i, j \in DOMAIN fields : i # j => fields[i].key # fields[j].key
  /\ \A i \in DOMAIN fields :
       /\ (fields[i].type = "choice") <=> (fields[i].allowed # {})
       /\ fields[i].default = <<>> \/ fields[i].type # "choice" \/ fields[i].default[1] \in fields[i].allowed

\* What the editor is offered went through the service.
Offered(fields) == WellFormed(fields) /\ \A i \in DOMAIN fields : fields[i] \in Field

-----------------------------------------------------------------------------
(* Lines, scalars and values. *)

\* items: one item, or the items of an inline list.
Line(key, style, items) == [key |-> key, style |-> style, items |-> items]
LineOf(words) == [key: Key \cup {None}, style: {"list", "quoted", "plain", "other"}, items: Seq(Seq(words))]

Marked(mark, words) == [i \in DOMAIN words |-> <<mark, words[i]>>]

\* splitInlineList: the items of an inline list, None for anything else.
SplitInlineList(line) == IF line.style = "list" THEN line.items ELSE None

\* decodeValue: the items of a list are joined, so that a comma within an item
\* is one between two items from then on; other scalars of a list keep their
\* quotation marks, and a text keeps the brackets of a list.
DecodeValue(field, line) ==
  IF field.type = "list"
  THEN CASE SplitInlineList(line) # None -> FlattenSeq(line.items)
         [] line.style = "quoted" -> Marked("quoted", FlattenSeq(line.items))
         [] OTHER -> FlattenSeq(line.items)
  ELSE IF line.style = "list" THEN Marked("bracket", FlattenSeq(line.items)) ELSE FlattenSeq(line.items)

\* validateValue
Valid(field, value) ==
  /\ field.required => value # <<>>
  /\ value # <<>> /\ field.type = "choice" => Len(value) = 1 /\ value[1] \in field.allowed

\* serializeValue; an empty text is the quoted empty one.
SerializeValue(field, value) ==
  CASE field.type = "list"   -> Line(field.key, "list", [i \in DOMAIN value |-> <<value[i]>>])
    [] field.type = "choice" -> Line(field.key, IF value = <<>> THEN "quoted" ELSE "plain", <<value>>)
    [] field.type = "text"   -> Line(field.key, "quoted", <<value>>)

\* parseDocument, parseBlocks: a block is an entry and what follows it up to the next.
Lines == IF content = None THEN <<>> ELSE content
KeysOf(lines) == {lines[i].key : i \in DOMAIN lines} \ {None}
OwnerOf(lines, i) == LET heads == {j \in 1..i : lines[j].key # None}
                     IN  IF heads = {} THEN None ELSE lines[Max(heads)].key

\* readFrontmatterValues: of several blocks with one key the last one counts.
ReadValue(field, lines) ==
  LET at == {i \in DOMAIN lines : lines[i].key = field.key}
  IN  IF at = {} THEN field.default ELSE DecodeValue(field, lines[Max(at)])

ReadValues(fields, lines) == [i \in DOMAIN fields |-> ReadValue(fields[i], lines)]

-----------------------------------------------------------------------------
(* applyFrontmatterSchema *)

Replacement(fields, values, key) ==
  LET i == CHOOSE j \in DOMAIN fields : fields[j].key = key IN SerializeValue(fields[i], values[i])

Managed(fields) == {fields[i].key : i \in DOMAIN fields}

\* The numbers of S from the least to the greatest: each where its rank puts it.
Rank(S, k)   == Cardinality({j \in S : j <= k})
Ascending(S) == [n \in 1..Cardinality(S) |-> CHOOSE k \in S : Rank(S, k) = n]

\* Faulty variant: of several blocks with one key the first is replaced and the others kept.
UpdatedFirst(fields, values, lines) ==
  [i \in DOMAIN lines |-> IF lines[i].key \in Managed(fields) \ KeysOf(SubSeq(lines, 1, i - 1))
                          THEN Replacement(fields, values, lines[i].key) ELSE lines[i]]

\* Every block with a managed key becomes one line; the others stay as they are.
Updated(fields, values, lines) ==
  LET kept == Ascending({i \in DOMAIN lines : lines[i].key \in Managed(fields) \/ OwnerOf(lines, i) \notin Managed(fields)})
  IN  [n \in DOMAIN kept |-> IF lines[kept[n]].key \in Managed(fields)
                             THEN Replacement(fields, values, lines[kept[n]].key) ELSE lines[kept[n]]]

\* Fields without a block follow in the order of the schema.
Added(fields, values, lines) ==
  LET absent == Ascending({i \in DOMAIN fields : fields[i].key \notin KeysOf(lines)})
  IN  [n \in DOMAIN absent |-> SerializeValue(fields[absent[n]], values[absent[n]])]

Applied(fields, values, lines) == Updated(fields, values, lines) \o Added(fields, values, lines)

-----------------------------------------------------------------------------
(* The dialog. *)

\* What may be typed: up to two words.
Typed == {<<>>} \cup {<<w>> : w \in Word} \cup {<<v, w>> : v \in Word, w \in Word}

Edit == edits < MaxEdits /\ edits' = edits + 1

\* Opening it, and choosing another schema, reads the values from the content;
\* so does every change of the content or of the list of schemas meanwhile.
SelectSchema(fields) ==
  /\ dialog' = [fields |-> fields, values |-> ReadValues(fields, Lines)]
  /\ UNCHANGED <<content, body, last, edits>>

ChangeValue(i, value) ==
  /\ dialog # None /\ i \in DOMAIN dialog.fields /\ dialog.values[i] # value
  /\ Edit /\ dialog' = [dialog EXCEPT !.values[i] = value]
  /\ UNCHANGED <<content, body, last>>

CloseDialog == dialog # None /\ dialog' = None /\ UNCHANGED <<content, body, last, edits>>

\* A value that is refused leaves everything as it is; otherwise the page closes
\* the dialog and puts the caret after the front matter.
Apply ==
  /\ dialog # None /\ Edit
  /\ \A i \in DOMAIN dialog.fields : Valid(dialog.fields[i], dialog.values[i])
  /\ content' = Applied(dialog.fields, dialog.values, Lines)
  /\ last' = [fields |-> dialog.fields, values |-> dialog.values, before |-> Lines, after |-> content']
  /\ dialog' = None
  /\ UNCHANGED body

-----------------------------------------------------------------------------
(* insertMarkdownSnippet *)

Newline == "newline"
Trailing(s) == Max({k \in 0..Len(s) : \A i \in (Len(s) - k + 1)..Len(s) : s[i] = Newline})
Leading(s)  == Trailing(Reverse(s))
Newlines(n) == [i \in 1..n |-> Newline]
Missing(n)  == IF n >= 2 THEN 0 ELSE 2 - n

\* The selection is replaced; blank lines are added where text adjoins.
InsertSnippet(from, to) ==
  /\ Edit /\ from <= to /\ to <= Len(body)
  /\ LET before == SubSeq(body, 1, from)
         after  == SubSeq(body, to + 1, Len(body))
         prefix == IF before = <<>> THEN <<>> ELSE Newlines(Missing(Trailing(before)))
         suffix == IF after = <<>> THEN <<>> ELSE Newlines(Missing(Leading(after)))
     IN  /\ body' = before \o prefix \o <<"snippet">> \o suffix \o after
         /\ last' = [before |-> before, after |-> after,
                     caret |-> Len(before) + Len(prefix) + 1, body |-> body']
  /\ UNCHANGED <<content, dialog>>

-----------------------------------------------------------------------------
\* What the system starts from.
Given ==
  /\ None \notin Key /\ MaxEdits \in Nat
  /\ \A fields \in Schemas : fields \in Seq(Field) /\ Offered(fields)
  /\ \A lines \in Contents \ {None} : lines \in Seq(LineOf(Word))
  /\ \A text \in Bodies : text \in Seq({"word", Newline})

Init ==
  /\ \/ content \in Contents /\ body = <<>>
     \/ content = None /\ body \in Bodies
  /\ dialog = None /\ last = None /\ edits = 0

Next ==
  \/ \E fields \in Schemas : SelectSchema(fields)
  \/ \E i \in 1..2, value \in Typed : ChangeValue(i, value)
  \/ CloseDialog \/ Apply
  \/ \E from, to \in 0..4 : InsertSnippet(from, to)

Spec == Init /\ [][Next]_vars

TypeOK ==
  /\ \A fields \in Schemas : Offered(fields)
  /\ \A i \in DOMAIN Lines : Lines[i].key \in Key \cup {None}
  /\ \A i \in DOMAIN body : body[i] \in {"word", "snippet", Newline}
  /\ dialog # None => dialog.fields \in Schemas /\ DOMAIN dialog.values = DOMAIN dialog.fields
  /\ edits \in 0..MaxEdits

-----------------------------------------------------------------------------
(* Properties. *)

\* After a schema was applied, the front matter reads as the values that were
\* typed, whatever it held before (a key twice, a list in another style); the
\* lines of other keys are the same in the same order; and applying the schema
\* once more to what is read changes nothing.
FrontmatterExact ==
  last # None /\ "fields" \in DOMAIN last =>
    LET Rest(lines) ==
          LET kept == Ascending({i \in DOMAIN lines : OwnerOf(lines, i) \notin Managed(last.fields)})
          IN  [n \in DOMAIN kept |-> <<OwnerOf(lines, kept[n]), lines[kept[n]]>>]
    IN  /\ ReadValues(last.fields, last.after) = last.values
        /\ Rest(last.after) = Rest(last.before)
        /\ Applied(last.fields, ReadValues(last.fields, last.after), last.after) = last.after

\* A snippet replaces the selection and nothing else, stands apart from the text
\* around it by a blank line, and leaves the caret behind it.
SnippetApart ==
  last # None /\ "caret" \in DOMAIN last =>
    LET left == SubSeq(last.body, 1, last.caret - 1)
        right == SubSeq(last.body, last.caret + 1, Len(last.body))
    IN  /\ last.body[last.caret] = "snippet"
        /\ IsPrefix(last.before, left) /\ IsSuffix(last.after, right)
        /\ last.before # <<>> => Trailing(left) >= 2
        /\ last.after # <<>> => Leading(right) >= 2

EditsExact == FrontmatterExact /\ SnippetApart
=============================================================================
