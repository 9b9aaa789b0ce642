------------------------------ MODULE PlistXml ------------------------------
(***************************************************************************)
(* crates/ipa/src/plist.rs: the XML reader of an Info.plist, and the       *)
(* choice between the two encodings.                                       *)
(*                                                                         *)
(* Abstraction.  A document is its sequence of elements, those with text   *)
(* as one; the text is the one that unescape gives.                        *)
(***************************************************************************)
EXTENDS Plist

CONSTANTS
  Trimmed,      \* [text with blanks around it -> the text without them]
  Numerals,     \* [text that reads as a number -> the number]
  Base64        \* [bytes of a data object -> the text they are written as]

Zero == <<"0">>
TrimText(text) == IF text \in DOMAIN Trimmed THEN Trimmed[text] ELSE text
\* trim().parse().unwrap_or(0): what is no number is zero.
ParseNumber(text) ==
  IF TrimText(text) \in DOMAIN Numerals THEN Numerals[TrimText(text)] ELSE Zero

(* xml::Parser: recursive descent from element i; at is the element behind. *)

Element(name, text) == [name |-> name, text |-> text]
Tag(name) == Element(name, << >>)
Prologue == {"<?xml", "<!DOCTYPE", "<!--"}

RECURSIVE XmlValue(_, _), XmlDict(_, _, _), XmlArray(_, _, _)
XmlFails(i) == [value |-> Failed, at |-> i]

\* The elements without a value below them; data stays in base 64.
XmlScalar(e) ==
  CASE e.name = "string" -> Leaf("string", e.text)
    [] e.name \in {"integer", "real"} -> Leaf(e.name, ParseNumber(e.text))
    [] e.name = "<true/>" -> Leaf("bool", <<"true">>)
    [] e.name = "<false/>" -> Leaf("bool", <<"false">>)
    [] e.name = "data" -> Leaf("data", TrimText(e.text))
    [] OTHER -> Failed

XmlValue(s, i) ==
  IF i > Len(s) THEN XmlFails(i)
  ELSE CASE s[i].name = "<dict>" -> XmlDict(s, i + 1, << >>)
         [] s[i].name = "<array>" -> XmlArray(s, i + 1, << >>)
         [] OTHER -> [value |-> XmlScalar(s[i]), at |-> i + 1]

\* BTreeMap::insert: the last of two equal keys stays.
Inserted(map, key, value) == (key :> value) @@ map

XmlDict(s, i, map) ==
  IF i > Len(s) \/ s[i].name \notin {"</dict>", "key"} THEN XmlFails(i)
  ELSE IF s[i].name = "</dict>" THEN [value |-> Dict(map), at |-> i + 1]
  ELSE LET got == XmlValue(s, i + 1)
       IN  IF got.value.tag = "failed" THEN got
           ELSE XmlDict(s, got.at, Inserted(map, s[i].text, got.value))

XmlArray(s, i, items) ==
  IF i > Len(s) THEN XmlFails(i)
  ELSE IF s[i].name = "</array>" THEN [value |-> Array(items), at |-> i + 1]
  ELSE LET got == XmlValue(s, i)
       IN  IF got.value.tag = "failed" THEN got
           ELSE XmlArray(s, got.at, Append(items, got.value))

\* skip_prologue, expect_open("plist") and the value; what follows is not read.
XmlParse(s) ==
  LET body == {i \in DOMAIN s : s[i].name \notin Prologue}
      start == IF body = {} THEN Len(s) + 1 ELSE Min(body)
  IN  IF body = {} \/ s[start].name # "<plist>" THEN Failed
      ELSE XmlValue(s, start + 1).value

-----------------------------------------------------------------------------
(* plist::parse *)
Parse(doc) ==
  CASE doc.enc = "binary" -> ParseBinary(doc)
    [] doc.enc = "xml" -> XmlParse(doc.elements)
    [] OTHER -> Failed

-----------------------------------------------------------------------------
(* Reference definitions *)

\* The elements of a value as a writer of XML puts them down, which may set a
\* number or the text of a data object between blanks.
Indented(text) ==
  IF \E t \in DOMAIN Trimmed : Trimmed[t] = text
  THEN CHOOSE t \in DOMAIN Trimmed : Trimmed[t] = text ELSE text
RECURSIVE XmlOf(_)
XmlOf(value) ==
  CASE value.tag = "array" ->
         <<Tag("<array>")>> \o FlattenSeq([i \in DOMAIN value.items |-> XmlOf(value.items[i])])
           \o <<Tag("</array>")>>
    [] value.tag = "dict" ->
         LET keys == SetToSeq(DOMAIN value.map)
         IN  <<Tag("<dict>")>>
               \o FlattenSeq([i \in DOMAIN keys |->
                    <<Element("key", keys[i])>> \o XmlOf(value.map[keys[i]])])
               \o <<Tag("</dict>")>>
    [] value.tag = "bool" -> <<Tag(IF value.text = <<"true">> THEN "<true/>" ELSE "<false/>")>>
    [] value.tag = "string" -> <<Element("string", value.text)>>
    [] value.tag = "data" -> <<Element("data", Indented(Base64[value.text]))>>
    [] OTHER -> <<Element(value.tag, Indented(value.text))>>

\* A value of the binary encoding as the XML reader has it: its data encoded.
RECURSIVE DataEncoded(_)
DataEncoded(value) ==
  CASE value.tag = "array" -> Array([i \in DOMAIN value.items |-> DataEncoded(value.items[i])])
    [] value.tag = "dict" -> Dict([k \in DOMAIN value.map |-> DataEncoded(value.map[k])])
    [] value.tag = "data" -> Leaf("data", Base64[value.text])
    [] OTHER -> value
=============================================================================
