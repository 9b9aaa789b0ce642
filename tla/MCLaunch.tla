------------------------------ MODULE MCLaunch ------------------------------
(* Two launches, two archives in the directory, and the kinds of archives that
   the code tells apart. *)
EXTENDS Launch, PlistXml, Bitwise

Ref(tag, refs) == [tag |-> tag, refs |-> refs]
DictOf(keys, refs) == [tag |-> "dict", keys |-> keys, refs |-> refs]
Doc(objects, top) == [enc |-> "binary", objects |-> objects, top |-> top]
Key(k) == Element("key", <<k>>)
Keys == <<"CFBundleDisplayName", "CFBundleName", "CFBundleExecutable">>
\* Info.plist in both encodings.
Info(display, name, exe) ==
  Doc(<<DictOf(<<1, 2, 3>>, <<4, 5, 6>>)>> \o [i \in 1 .. 3 |-> Leaf("string", <<Keys[i]>>)]
        \o <<Leaf("string", display), Leaf("string", name), Leaf("string", exe)>>, 0)
XmlInfo(name) ==
  [enc |-> "xml", elements |->
     <<Tag("<?xml"), Tag("<!DOCTYPE"), Tag("<plist>"), Tag("<dict>"), Key(Keys[2]),
       Element("string", name), Key("Size"), Tag("<array>"), Element("integer", <<" 1 ">>),
       Tag("</array>"), Tag("</dict>"), Tag("</plist>")>>]
At1(dir, rest, data) == [path |-> <<"Payload", dir>> \o rest, data |-> data]

\* An app with a name that is stored twice.
Demo == <<At1("Demo.app", <<"Info.plist">>, Info(<<"Demo">>, <<"d">>, <<"Demo">>)),
          At1("Demo.app", <<"Demo">>, Bytes("code1")),
          At1("Demo.app", <<"Demo">>, Bytes("code2"))>>
\* Its next version: no executable named, a separator in its name, a plug-in.
Demo2 == <<At1("Demo.app", <<"Ext.app", "Info.plist">>, Info(<<"Ext">>, <<"Ext">>, <<"Ext">>)),
           At1("Demo.app", <<"Info.plist">>, XmlInfo(<<"A", "B">>)),
           At1("Demo.app", <<"Demo">>, Bytes("code3"))>>
\* Directories, an entry that is not unzipped, and a name that is no file name.
Half == <<At1("Half.app", <<"">>, Bytes("")),
          At1("Half.app", <<"Info.plist">>, Info(<<"..">>, <<"h">>, <<"Bin">>)),
          At1("Half.app", <<"Lib", "">>, Bytes("")),
          At1("Half.app", <<"", "x">>, Bytes("x"))>>
\* An array that holds itself.
Broken == <<At1("Demo.app", <<"Info.plist">>, Doc(<<Ref("array", <<0>>)>>, 0))>>
\* Two bundles at the same depth, with executables that join takes elsewhere:
\* up and down again, and to a path of the host.
Odd == <<At1("Odd.app", <<"Info.plist">>, Info(<<"Odd">>, <<"o">>, <<"..", "Odd.app", "", "Bin">>)),
         At1("Odd.app", <<"Bin">>, Bytes("code4")),
         At1("Far.app", <<"Info.plist">>, Info(<<"Far">>, <<"f">>, <<"", "bin", "sh">>))>>
MCHostData == {Bytes("host")}
MCArchives == {Demo2}
Shelf(a, b) == [p \in IpaPaths |-> IF p = CHOOSE q \in IpaPaths : TRUE THEN a ELSE b]
MCDirectories == {Shelf(Demo, Half), Shelf(Odd, Broken)}

MCAppNames == ("Demo.app" :> "Demo") @@ ("Half.app" :> "Half") @@ ("Ext.app" :> "Ext")
                @@ ("Odd.app" :> "Odd") @@ ("Far.app" :> "Far")
MCSortKey == (<<"Demo">> :> 2) @@ (<<"A", "B">> :> 1) @@ (<<"..">> :> 0)
               @@ (<<"Odd">> :> 3) @@ (<<"Far">> :> 4)
MCPadded == ("b " :> "b")

Heads == {IosPrefix("UUID"), IosPrefix("OTHER"), <<"", "System">>,
             <<"", "private", "var", "db">>, <<"", "private">>, <<"", "Applications">>,
             <<"">>, << >>}
Tails == {<< >>} \cup [1 .. 1 -> {"", ".", "..", "a", "b ", " ", "nul"}]
           \cup [1 .. 2 -> {"", "..", "a"}] \cup {<<"a", x, y>> : x, y \in {"..", "a"}}
           \cup {<<"a", "nul", "..">>, <<"a", ".", " ">>, <<"b ", "">>, <<"b ", "b ">>}
MCGuestPaths == {p \o q : p \in Heads, q \in Tails} \ {<< >>}
MCSavePaths == {<<"..", "Documents", "s">>}

\* Blanks around a number, and bytes with their text in base 64.
MCTrimmed == (<<" 1 ">> :> <<"1">>) @@ (<<" cmF3 ">> :> <<"cmF3">>)
MCNumerals == (<<"1">> :> <<"1">>)
MCBase64 == (<<"raw">> :> <<"cmF3">>)
\* Tables of three objects; 3 is past the table.
Objects ==
  {Leaf("string", <<"k">>), Leaf("integer", <<"1">>), Leaf("data", <<"raw">>),
   Leaf("bool", <<"false">>), [tag |-> "unsupported"],
   Ref("array", << >>), Ref("array", <<1, 2>>), DictOf(<< >>, << >>), DictOf(<<1, 1>>, <<1, 2>>)}
    \cup {Ref("array", <<r>>) : r \in 0 .. 3}
    \cup {DictOf(<<k>>, <<r>>) : k \in 1 .. 2, r \in 0 .. 3}
PlistDocs == {Doc(objects, top) : objects \in [1 .. 3 -> Objects], top \in {0, 3}}

\* The hypotheses of the theorems.
ASSUME HypothesesAssumption ==
  TrimmedNames /\ \A doc \in PlistDocs : BinaryDocument(doc)

\* plist::parse, tabulated for the documents there are.
ParseTable == [doc \in Documents |-> Parse(doc)]
MCParsed == ParseTable
MCXor(a, b) == a ^^ b

(* plist::parse on untrusted documents, before the first scan: the binary reader
   accepts exactly the tables whose objects in reach are sound and nest no
   deeper than the bound, so that a cycle is refused; and what it accepts, the
   XML reader reads from the same value written as XML, blanks around its numbers
   or not, whatever stands behind it; but for data, which stays encoded. *)
PlistExact ==
  scan.phase = "idle" =>
    \A doc \in PlistDocs :
      /\ AcceptsWellFormed(doc)
      /\ WellFormed(doc) =>
           XmlParse(<<Tag("<?xml"), Tag("<plist>")>> \o XmlOf(Parse(doc)) \o <<Tag("</plist>")>>)
             = DataEncoded(Parse(doc))
=============================================================================
