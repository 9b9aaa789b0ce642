-------------------------------- MODULE Plist --------------------------------
(***************************************************************************)
(* crates/ipa/src/plist.rs: the value of an Info.plist and the reader of   *)
(* its binary encoding.  PlistXml adds the other encoding.                 *)
(*                                                                         *)
(* Abstraction.  A binary document is its table of objects and the number  *)
(* of the top one.  A string is the sequence of its pieces between         *)
(* slashes, as in Sandbox.  A number is a text.  What the byte decoder     *)
(* refuses (bad trailer, truncation, unknown marker) is an object          *)
(* "unsupported" or an encoding "other".                                   *)
(***************************************************************************)
EXTENDS Integers, Sequences, SequencesExt

CONSTANT MaxDepth       \* bound on nesting; 128 in the code

ASSUME DepthAssumption == MaxDepth \in Nat

(* PlistValue, and the error in its place. *)
Failed == [tag |-> "failed"]
Leaf(tag, text) == [tag |-> tag, text |-> text]
Array(items) == [tag |-> "array", items |-> items]
Dict(map) == [tag |-> "dict", map |-> map]
Scalars == {"string", "integer", "real", "bool", "data"}

\* BTreeMap::insert of each key in turn.
Pairs(keys, vals) ==
  FoldLeft(LAMBDA map, i : (keys[i].text :> vals[i]) @@ map, << >>, [i \in DOMAIN keys |-> i])
AllStrings(values) == \A i \in DOMAIN values : values[i].tag = "string"
NoneFailed(values) == \A i \in DOMAIN values : values[i].tag # "failed"

-----------------------------------------------------------------------------
(* BinaryPlist::object_at *)

\* Mutant: one level too few.
TooDeep_AtLimit(depth) == depth >= MaxDepth
TooDeep(depth) == depth > MaxDepth

Indices(doc) == 0 .. Len(doc.objects) - 1
\* The value of an object, or an error for one that is not in the table.
ValueAt(values, index) == IF index \in DOMAIN values THEN values[index] ELSE Failed
ValuesAt(values, refs) == [i \in DOMAIN refs |-> ValueAt(values, refs[i])]

\* Object o, with the values of the objects one level down.
DecodeObject(o, values) ==
  CASE o.tag \in Scalars -> Leaf(o.tag, o.text)
    [] o.tag = "array" ->
         LET items == ValuesAt(values, o.refs)
         IN  IF NoneFailed(items) THEN Array(items) ELSE Failed
    [] o.tag = "dict" ->
         LET keys == ValuesAt(values, o.keys)
             vals == ValuesAt(values, o.refs)
         IN  IF AllStrings(keys) /\ NoneFailed(vals) THEN Dict(Pairs(keys, vals)) ELSE Failed
    [] OTHER -> Failed

\* object_at(index, depth) for every depth and index.
ObjectAt(doc) ==
  LET object[depth \in 0 .. MaxDepth + 1] ==
        [index \in Indices(doc) |->
           IF TooDeep(depth) THEN Failed
           ELSE DecodeObject(doc.objects[index + 1], object[depth + 1])]
  IN  object

ParseBinary(doc) == ValueAt(ObjectAt(doc)[0], doc.top)

-----------------------------------------------------------------------------
(* Reference definitions *)

\* What the entry for object k refers to.
RefsOf(doc, k) ==
  IF k \notin Indices(doc) \/ doc.objects[k + 1].tag \notin {"array", "dict"} THEN {}
  ELSE LET o == doc.objects[k + 1]
       IN  Range(o.refs) \cup (IF o.tag = "dict" THEN Range(o.keys) ELSE {})

\* The objects at the end of the walks of n references from the top.
Level(doc) ==
  LET level[n \in 0 .. MaxDepth + 1] ==
        IF n = 0 THEN {doc.top} ELSE UNION {RefsOf(doc, k) : k \in level[n - 1]}
  IN  level

\* Object k is in the table and decodes, and its keys are strings.
SoundObject(doc, k) ==
  /\ k \in Indices(doc) /\ doc.objects[k + 1].tag # "unsupported"
  /\ doc.objects[k + 1].tag = "dict" =>
       \A key \in Range(doc.objects[k + 1].keys) :
         key \in Indices(doc) /\ doc.objects[key + 1].tag = "string"

\* Every object in reach is sound, and no walk is longer than MaxDepth, so none
\* is in a cycle.
WellFormed(doc) ==
  /\ Level(doc)[MaxDepth + 1] = {}
  /\ \A n \in 0 .. MaxDepth : \A k \in Level(doc)[n] : SoundObject(doc, k)

\* What the byte decoder makes of a document: a table of objects and numbers.
BinaryDocument(doc) ==
  /\ doc.top \in Nat /\ doc.objects \in Seq(Range(doc.objects))
  /\ \A o \in Range(doc.objects) :
       /\ o.tag \in Scalars \cup {"array", "dict", "unsupported"}
       /\ o.tag \in {"array", "dict"} => o.refs \in Seq(Nat)
       /\ o.tag = "dict" => o.keys \in Seq(Nat)

(* BinaryPlist on untrusted documents: it accepts exactly the tables whose
   objects in reach are sound and nest no deeper than the bound, so that a cycle
   is refused. *)
AcceptsWellFormed(doc) == (ParseBinary(doc).tag # "failed") <=> WellFormed(doc)
=============================================================================
