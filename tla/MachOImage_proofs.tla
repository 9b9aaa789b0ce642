-------------------------- MODULE MachOImage_proofs --------------------------
(***************************************************************************)
(* Proofs about MachOImage: the slice that is selected, the image that is  *)
(* built and the work that is done, for files of every length with any     *)
(* number of slices and of load commands.                                  *)
(***************************************************************************)
EXTENDS MachOImage, TLAPS

-----------------------------------------------------------------------------
(* Sequences and extreme elements *)

LEMMA AppendFacts ==
  ASSUME NEW S, NEW s \in Seq(S), NEW x \in S
  PROVE  /\ Append(s, x) \in Seq(S) /\ Append(s, x) # << >>
         /\ Len(s) \in Nat /\ Len(Append(s, x)) = Len(s) + 1
         /\ DOMAIN s = 1 .. Len(s)
         /\ DOMAIN Append(s, x) = DOMAIN s \cup {Len(s) + 1}
         /\ Len(s) + 1 \notin DOMAIN s
         /\ \A i \in DOMAIN s : Append(s, x)[i] = s[i] /\ i < Len(s) + 1
         /\ Append(s, x)[Len(s) + 1] = x
OBVIOUS

\* A least element is the one that Min returns, a greatest one is Max.
LEMMA MinIs ==
  ASSUME NEW S, S \subseteq Nat, NEW m \in S, \A x \in S : m <= x
  PROVE  Min(S) = m
<1>1. \E y \in S : \A x \in S : y <= x
  OBVIOUS
<1>2. PICK y : y = Min(S)
  OBVIOUS
<1>3. y \in S /\ \A x \in S : y <= x
  BY <1>1, <1>2 DEF Min
<1>4. y = m
  BY <1>3
<1> QED BY <1>2, <1>4

LEMMA MaxIs ==
  ASSUME NEW S, S \subseteq Nat, NEW m \in S, \A x \in S : m >= x
  PROVE  Max(S) = m
<1>1. \E y \in S : \A x \in S : y >= x
  OBVIOUS
<1>2. PICK y : y = Max(S)
  OBVIOUS
<1>3. y \in S /\ \A x \in S : y >= x
  BY <1>1, <1>2 DEF Max
<1>4. y = m
  BY <1>3
<1> QED BY <1>2, <1>4

\* A number above all of an ascending list goes to its end.
LEMMA InOrderAppend ==
  ASSUME NEW s \in Seq(Nat), NEW ns, InOrder(s, ns), NEW n \in Nat, \A m \in ns : m < n
  PROVE  InOrder(Append(s, n), ns \cup {n})
<1> DEFINE t == Append(s, n)
<1>1. /\ t \in Seq(Nat) /\ Len(s) \in Nat
      /\ DOMAIN s = 1 .. Len(s)
      /\ DOMAIN t = DOMAIN s \cup {Len(s) + 1}
      /\ \A i \in DOMAIN s : t[i] = s[i] /\ i < Len(s) + 1
      /\ t[Len(s) + 1] = n
  BY AppendFacts
<1>2. Range(s) = ns /\ \A i, j \in DOMAIN s : i < j => s[i] < s[j]
  BY DEF InOrder
<1> HIDE DEF t
<1>3. \A x : x \in Range(t) <=> x \in ns \cup {n}
  BY <1>1, <1>2 DEF Range
<1>4. Range(t) = ns \cup {n}
  BY <1>3, Zenon
<1>5. ASSUME NEW i \in DOMAIN t, NEW j \in DOMAIN t, i < j PROVE t[i] < t[j]
  <2>1. CASE j \in DOMAIN s
    <3>1. i \in DOMAIN s
      BY <1>1, <1>5, <2>1
    <3> QED BY <1>1, <1>2, <1>5, <2>1, <3>1
  <2>2. CASE j = Len(s) + 1
    <3>1. i \in DOMAIN s
      BY <1>1, <1>5, <2>2
    <3>2. s[i] \in ns
      BY <1>2, <3>1 DEF Range
    <3> QED BY <1>1, <2>2, <3>1, <3>2
  <2> QED BY <1>1, <2>1, <2>2
<1>6. InOrder(t, ns \cup {n})
  BY <1>4, <1>5 DEF InOrder
<1> QED BY <1>6 DEF t

-----------------------------------------------------------------------------
(* The inductive invariant *)

Arch == [arm64 : BOOLEAN, e : BOOLEAN, place : SlicePlaces]
Command == [kind : Kinds, size : CmdSizes, nsects : SectCounts, name_off : NameOffs]

\* How far the parse has come.
Progress ==
  /\ phase = "magic" => arches = << >>
  /\ phase \in {"magic", "fat", "thin"} => seen = << >>

\* The place of the next command, and of those that were read.
Room ==
  /\ phase = "cmds" => base + HeaderSize + 2 * Len(seen) <= cmd_off
  /\ seen # << >> => base + HeaderSize + 2 * Len(seen) <= len
  /\ \A n \in DOMAIN seen :
       seen[n].kind = "segment" => base + HeaderSize + 2 * n + 16 + 20 * seen[n].nsects <= len

\* m is the last of the commands in ns, or None.
IsLast(m, ns) == IF ns = {} THEN m = None ELSE m \in ns /\ \A n \in ns : n <= m

\* The image after some of the commands.
EntrySoFar ==
  IF OfKind({"main"}) # {}
  THEN \E m \in OfKind({"main"}) :
         img.entry = <<"main", m>> /\ \A n \in OfKind({"main"}) : n <= m
  ELSE IF OfKind({"thread"}) # {}
  THEN \E m \in OfKind({"thread"}) :
         img.entry = <<"thread", m>> /\ \A n \in OfKind({"thread"}) : m <= n
  ELSE img.entry = <<"none", None>>

Filled ==
  /\ InOrder(img.segments, OfKind({"segment"}))
  /\ InOrder(img.dylibs, OfKind(Dylibs))
  /\ \A k \in Singles : IsLast(img.single[k], OfKind({k}))
  /\ EntrySoFar
  /\ phase = "parsed" => img.segments # << >>

Inv == TypeOK /\ Progress /\ Room /\ Filled

\* The types again, with the names used here.
LEMMA Types ==
  ASSUME TypeOK
  PROVE  /\ arches \in Seq(Arch) /\ seen \in Seq(Command)
         /\ Len(arches) \in Nat /\ DOMAIN arches = 1 .. Len(arches)
         /\ Len(seen) \in Nat /\ DOMAIN seen = 1 .. Len(seen)
         /\ len \in Nat /\ base \in Nat /\ cmd_off \in Nat
         /\ \A n \in DOMAIN seen : seen[n] \in Command /\ seen[n].nsects \in Nat
         /\ \A n \in DOMAIN arches : arches[n] \in Arch /\ arches[n].place.off \in Nat
                                     /\ arches[n].place.size \in Nat
<1>1. arches \in Seq(Arch) /\ seen \in Seq(Command) /\ base \in Nat /\ cmd_off \in Nat
  BY DEF TypeOK, Arch, Command
<1>2. len \in Nat
  BY MachOAssumption DEF TypeOK
<1>3. /\ Len(arches) \in Nat /\ DOMAIN arches = 1 .. Len(arches)
      /\ Len(seen) \in Nat /\ DOMAIN seen = 1 .. Len(seen)
  BY <1>1
<1>4. ASSUME NEW n \in DOMAIN seen PROVE seen[n] \in Command /\ seen[n].nsects \in Nat
  <2>1. seen[n] \in Command
    BY <1>1
  <2> QED BY <2>1, MachOAssumption DEF Command
<1>5. ASSUME NEW n \in DOMAIN arches
      PROVE  arches[n] \in Arch /\ arches[n].place.off \in Nat /\ arches[n].place.size \in Nat
  <2>1. arches[n] \in Arch
    BY <1>1
  <2>2. arches[n].place \in SlicePlaces
    BY <2>1 DEF Arch
  <2>3. arches[n].place \in [off : Nat, size : Nat]
    BY <2>2, MachOAssumption
  <2> QED BY <2>1, <2>3
<1> QED BY <1>1, <1>2, <1>3, <1>4, <1>5

LEMMA InitInv == Init => Inv
<1> SUFFICES ASSUME Init PROVE Inv
  OBVIOUS
<1>1. arches = << >> /\ seen = << >> /\ DOMAIN seen = {} /\ DOMAIN arches = {} /\ best = None
  BY DEF Init
<1>2. img = EmptyImage /\ phase = "magic"
  BY DEF Init
<1>3. /\ img.segments = << >> /\ img.dylibs = << >> /\ img.entry = <<"none", None>>
      /\ img.single = [k \in Singles |-> None]
  BY <1>2 DEF EmptyImage
<1>4. img \in [segments : Seq(DOMAIN seen), dylibs : Seq(DOMAIN seen),
               entry : {"none", "main", "thread"} \X (DOMAIN seen \cup {None}),
               single : [Singles -> DOMAIN seen \cup {None}]]
  <2>1. << >> \in Seq(DOMAIN seen)
    OBVIOUS
  <2>2. <<"none", None>> \in {"none", "main", "thread"} \X (DOMAIN seen \cup {None})
    OBVIOUS
  <2>3. [k \in Singles |-> None] \in [Singles -> DOMAIN seen \cup {None}]
    OBVIOUS
  <2> QED BY <1>2, <2>1, <2>2, <2>3 DEF EmptyImage
<1>5. TypeOK
  BY <1>1, <1>4 DEF Init, TypeOK
<1>6. \A ks : OfKind(ks) = {}
  BY <1>1 DEF OfKind
<1>7. InOrder(<< >>, {})
  BY DEF InOrder, Range
<1>8. EntrySoFar
  BY <1>3, <1>6 DEF EntrySoFar
<1>9. \A k \in Singles : IsLast(img.single[k], OfKind({k}))
  BY <1>3, <1>6 DEF IsLast
<1>10. Filled
  BY <1>2, <1>3, <1>6, <1>7, <1>8, <1>9 DEF Filled
<1> QED BY <1>1, <1>2, <1>5, <1>10 DEF Inv, Progress, Room

-----------------------------------------------------------------------------
(* The steps *)

\* A step that reads no command leaves the image as it was.
LEMMA KeptFilled ==
  ASSUME Filled, UNCHANGED <<img, seen>>, phase' = "parsed" => img.segments # << >>
  PROVE  Filled'
<1>1. ASSUME NEW ks PROVE OfKind(ks)' = OfKind(ks)
  BY DEF OfKind
<1>2. EntrySoFar'
  BY <1>1 DEF Filled, EntrySoFar
<1>3. InOrder(img.segments, OfKind({"segment"}))' /\ InOrder(img.dylibs, OfKind(Dylibs))'
  BY <1>1 DEF Filled, InOrder
<1>4. ASSUME NEW k \in Singles PROVE IsLast(img.single[k], OfKind({k}))'
  BY <1>1 DEF Filled, IsLast
<1> QED BY <1>2, <1>3, <1>4 DEF Filled

\* A fat_arch record is compared with the best one before it.
LEMMA ArchStep ==
  ASSUME Inv, ReadArch
  PROVE  Inv'
<1>1. PICK a \in Arch :
        /\ arches' = Append(arches, a)
        /\ best' = IF Better(a, best) THEN Len(arches) + 1 ELSE best
  BY DEF ReadArch, Arch
<1>2. UNCHANGED <<len, magic, phase, nfat, base, ncmds, cmd_off, img, seen>> /\ phase = "fat"
  BY DEF ReadArch
<1>3. arches \in Seq(Arch)
  BY Types DEF Inv
<1>4. /\ arches' \in Seq(Arch) /\ Len(arches) \in Nat
      /\ DOMAIN arches = 1 .. Len(arches)
      /\ DOMAIN arches' = DOMAIN arches \cup {Len(arches) + 1}
      /\ Len(arches) + 1 \notin DOMAIN arches
      /\ \A i \in DOMAIN arches : arches'[i] = arches[i] /\ i < Len(arches) + 1
      /\ arches'[Len(arches) + 1] = a
  BY <1>1, <1>3, AppendFacts
<1>5. best \in DOMAIN arches \cup {None}
  BY DEF Inv, TypeOK
<1>6. TypeOK'
  <2>1. best' \in DOMAIN arches' \cup {None}
    BY <1>1, <1>4, <1>5
  <2> QED BY <1>2, <1>4, <2>1 DEF Inv, TypeOK, Arch
<1>8. Filled'
  BY <1>2, KeptFilled DEF Inv
<1>9. Room'
  BY <1>2 DEF Inv, Room, HeaderSize
<1>10. Progress'
  BY <1>2 DEF Inv, Progress
<1> QED BY <1>6, <1>8, <1>9, <1>10 DEF Inv

\* The commands of some kinds after one more was read.
LEMMA OfKindGrows ==
  ASSUME TypeOK, NEW c \in Command, seen' = Append(seen, c), NEW ks
  PROVE  /\ OfKind(ks)' = IF c.kind \in ks THEN OfKind(ks) \cup {Len(seen) + 1} ELSE OfKind(ks)
         /\ OfKind(ks) \subseteq DOMAIN seen /\ OfKind(ks) \subseteq Nat
         /\ \A n \in OfKind(ks) : n < Len(seen) + 1
<1>1. seen \in Seq(Command)
  BY Types
<1>2. /\ DOMAIN seen = 1 .. Len(seen) /\ Len(seen) \in Nat
      /\ DOMAIN seen' = DOMAIN seen \cup {Len(seen) + 1}
      /\ \A i \in DOMAIN seen : seen'[i] = seen[i] /\ i < Len(seen) + 1
      /\ seen'[Len(seen) + 1] = c
  BY <1>1, AppendFacts
<1>3. \A n : n \in OfKind(ks)' <=>
               n \in (IF c.kind \in ks THEN OfKind(ks) \cup {Len(seen) + 1} ELSE OfKind(ks))
  BY <1>2 DEF OfKind
<1>4. OfKind(ks)' = IF c.kind \in ks THEN OfKind(ks) \cup {Len(seen) + 1} ELSE OfKind(ks)
  BY <1>3, Zenon
<1> QED BY <1>2, <1>4 DEF OfKind

\* What parse_command does to the image keeps its description.
LEMMA CommandFills ==
  ASSUME Inv, NEW c \in Command, seen' = Append(seen, c),
         img' = ParseCommand(img, c, Len(seen) + 1), phase' # "parsed"
  PROVE  Filled'
<1>0. TypeOK /\ Filled
  BY DEF Inv
<1>1. PICK n \in Nat : n = Len(seen) + 1
  BY <1>0, Types
<1>2. /\ \A ks : OfKind(ks)' = IF c.kind \in ks THEN OfKind(ks) \cup {n} ELSE OfKind(ks)
      /\ \A ks : OfKind(ks) \subseteq Nat /\ \A m \in OfKind(ks) : m < n
  BY <1>0, <1>1, OfKindGrows
<1>3. /\ img'.segments = IF c.kind = "segment" THEN Append(img.segments, n) ELSE img.segments
      /\ img'.dylibs = IF c.kind \in Dylibs THEN Append(img.dylibs, n) ELSE img.dylibs
      /\ img'.entry = Entry(img.entry, c, n)
      /\ img'.single = [k \in Singles |-> IF c.kind = k THEN n ELSE img.single[k]]
  BY <1>1 DEF ParseCommand
<1>4. img.segments \in Seq(Nat) /\ img.dylibs \in Seq(Nat)
  <2>1. DOMAIN seen \subseteq Nat
    BY <1>0, Types
  <2>2. Seq(DOMAIN seen) \subseteq Seq(Nat)
    BY <2>1
  <2>3. img.segments \in Seq(DOMAIN seen) /\ img.dylibs \in Seq(DOMAIN seen)
    BY <1>0 DEF TypeOK
  <2> QED BY <2>2, <2>3
<1>5. InOrder(img.segments, OfKind({"segment"}))'
  <2>1. CASE c.kind = "segment"
    <3>1. InOrder(Append(img.segments, n), OfKind({"segment"}) \cup {n})
      BY <1>0, <1>2, <1>4, InOrderAppend DEF Filled
    <3>2. OfKind({"segment"})' = OfKind({"segment"}) \cup {n}
      BY <1>2, <2>1
    <3> QED BY <1>3, <2>1, <3>1, <3>2 DEF InOrder
  <2>2. CASE c.kind # "segment"
    <3>1. OfKind({"segment"})' = OfKind({"segment"})
      BY <1>2, <2>2
    <3> QED BY <1>0, <1>3, <2>2, <3>1 DEF Filled, InOrder
  <2> QED BY <2>1, <2>2
<1>6. InOrder(img.dylibs, OfKind(Dylibs))'
  <2>1. CASE c.kind \in Dylibs
    <3>1. InOrder(Append(img.dylibs, n), OfKind(Dylibs) \cup {n})
      BY <1>0, <1>2, <1>4, InOrderAppend DEF Filled
    <3>2. OfKind(Dylibs)' = OfKind(Dylibs) \cup {n}
      BY <1>2, <2>1
    <3> QED BY <1>3, <2>1, <3>1, <3>2 DEF InOrder
  <2>2. CASE c.kind \notin Dylibs
    <3>1. OfKind(Dylibs)' = OfKind(Dylibs)
      BY <1>2, <2>2
    <3> QED BY <1>0, <1>3, <2>2, <3>1 DEF Filled, InOrder
  <2> QED BY <2>1, <2>2
<1>7. ASSUME NEW k \in Singles PROVE IsLast(img.single[k], OfKind({k}))'
  <2>0. IsLast(img.single[k], OfKind({k}))
    BY <1>0 DEF Filled
  <2>1. CASE c.kind = k
    <3>1. OfKind({k})' = OfKind({k}) \cup {n} /\ img'.single[k] = n
      BY <1>2, <1>3, <2>1
    <3> QED BY <1>2, <3>1 DEF IsLast
  <2>2. CASE c.kind # k
    <3>1. OfKind({k})' = OfKind({k}) /\ img'.single[k] = img.single[k]
      BY <1>2, <1>3, <2>2
    <3> QED BY <2>0, <3>1 DEF IsLast
  <2> QED BY <2>1, <2>2
<1>8. EntrySoFar'
  <2>0. EntrySoFar
    BY <1>0 DEF Filled
  <2>1. CASE c.kind = "main"
    <3>1. OfKind({"main"})' = OfKind({"main"}) \cup {n} /\ img'.entry = <<"main", n>>
      BY <1>2, <1>3, <2>1 DEF Entry
    <3> QED BY <1>2, <3>1 DEF EntrySoFar
  <2>2. CASE c.kind = "thread"
    <3>1. /\ OfKind({"main"})' = OfKind({"main"})
          /\ OfKind({"thread"})' = OfKind({"thread"}) \cup {n}
      BY <1>2, <2>2
    <3>2. CASE img.entry[1] = "none"
      <4>1. OfKind({"main"}) = {} /\ OfKind({"thread"}) = {}
        BY <2>0, <3>2 DEF EntrySoFar
      <4>2. img'.entry = <<"thread", n>>
        BY <1>3, <2>2, <3>2 DEF Entry
      <4> QED BY <3>1, <4>1, <4>2 DEF EntrySoFar
    <3>3. CASE img.entry[1] # "none"
      <4>1. img'.entry = img.entry
        BY <1>3, <2>2, <3>3 DEF Entry
      <4>2. OfKind({"main"}) # {} \/ OfKind({"thread"}) # {}
        BY <2>0, <3>3 DEF EntrySoFar
      <4>3. CASE OfKind({"main"}) # {}
        BY <2>0, <3>1, <4>1, <4>3 DEF EntrySoFar
      <4>4. CASE OfKind({"main"}) = {}
        <5>1. PICK m \in OfKind({"thread"}) :
                img.entry = <<"thread", m>> /\ \A q \in OfKind({"thread"}) : m <= q
          BY <2>0, <4>2, <4>4 DEF EntrySoFar
        <5>2. m <= n /\ m \in OfKind({"thread"})'
          BY <1>2, <3>1, <5>1
        <5> QED BY <3>1, <4>1, <4>4, <5>1, <5>2 DEF EntrySoFar
      <4> QED BY <4>3, <4>4
    <3> QED BY <3>2, <3>3
  <2>3. CASE c.kind \notin {"main", "thread"}
    <3>1. OfKind({"main"})' = OfKind({"main"}) /\ OfKind({"thread"})' = OfKind({"thread"})
      BY <1>2, <2>3
    <3>2. img'.entry = img.entry
      BY <1>3, <2>3 DEF Entry
    <3> QED BY <2>0, <3>1, <3>2 DEF EntrySoFar
  <2> QED BY <2>1, <2>2, <2>3
<1> QED BY <1>5, <1>6, <1>7, <1>8 DEF Filled

LEMMA CommandTypes ==
  ASSUME Inv, NEW c \in Command, seen' = Append(seen, c),
         img' = ParseCommand(img, c, Len(seen) + 1)
  PROVE  img' \in [segments : Seq(DOMAIN seen'), dylibs : Seq(DOMAIN seen'),
                   entry : {"none", "main", "thread"} \X (DOMAIN seen' \cup {None}),
                   single : [Singles -> DOMAIN seen' \cup {None}]]
<1>0. TypeOK
  BY DEF Inv
<1>1. PICK n \in Nat : n = Len(seen) + 1
  BY <1>0, Types
<1>2. PICK D : D = DOMAIN seen
  OBVIOUS
<1>3. PICK E : E = DOMAIN seen'
  OBVIOUS
<1>4. E = D \cup {n}
  <2>1. seen \in Seq(Command)
    BY <1>0, Types
  <2> QED BY <1>1, <1>2, <1>3, <2>1, AppendFacts
<1>5. /\ img.segments \in Seq(D) /\ img.dylibs \in Seq(D)
      /\ img.entry \in {"none", "main", "thread"} \X (D \cup {None})
      /\ img.single \in [Singles -> D \cup {None}]
  BY <1>0, <1>2 DEF TypeOK
<1>6. PICK segs, dys, ent, sing :
        /\ segs = IF c.kind = "segment" THEN Append(img.segments, n) ELSE img.segments
        /\ dys = IF c.kind \in Dylibs THEN Append(img.dylibs, n) ELSE img.dylibs
        /\ ent = Entry(img.entry, c, n)
        /\ sing = [k \in Singles |-> IF c.kind = k THEN n ELSE img.single[k]]
  OBVIOUS
<1>7. img' = [segments |-> segs, dylibs |-> dys, entry |-> ent, single |-> sing]
  BY <1>1, <1>6 DEF ParseCommand
<1>8. Seq(D) \subseteq Seq(E) /\ n \in E
  BY <1>4
<1>9. segs \in Seq(E) /\ dys \in Seq(E)
  <2>1. img.segments \in Seq(E) /\ img.dylibs \in Seq(E)
    BY <1>5, <1>8
  <2>2. Append(img.segments, n) \in Seq(E) /\ Append(img.dylibs, n) \in Seq(E)
    BY <1>8, <2>1
  <2> QED BY <1>6, <2>1, <2>2
<1>10. ent \in {"none", "main", "thread"} \X (E \cup {None})
  BY <1>4, <1>5, <1>6 DEF Entry
<1>11. sing \in [Singles -> E \cup {None}]
  BY <1>4, <1>5, <1>6
<1>12. img' \in [segments : Seq(E), dylibs : Seq(E),
                 entry : {"none", "main", "thread"} \X (E \cup {None}),
                 single : [Singles -> E \cup {None}]]
  BY <1>7, <1>9, <1>10, <1>11
<1> QED BY <1>3, <1>12

\* A load command is read at cmd_off, inside the file.
LEMMA CommandStep ==
  ASSUME Inv, ReadCommand
  PROVE  Inv'
<1>0. TypeOK /\ Room
  BY DEF Inv
<1>1. PICK c \in Command :
        /\ Sound(c)
        /\ img' = ParseCommand(img, c, Len(seen) + 1)
        /\ seen' = Append(seen, c)
        /\ cmd_off' = cmd_off + c.size
  BY DEF ReadCommand, Commands, Command
<1>2. /\ UNCHANGED <<len, magic, phase, nfat, best, arches, base, ncmds>>
      /\ phase = "cmds" /\ Fits(cmd_off, 2)
  BY DEF ReadCommand
<1>3. c.size \in Nat /\ c.size >= 2 /\ c.nsects \in Nat
  BY <1>1, MachOAssumption DEF Command, Sound
<1>4. len \in Nat /\ base \in Nat /\ cmd_off \in Nat /\ seen \in Seq(Command)
  BY <1>0, Types
<1>5. /\ seen' \in Seq(Command) /\ Len(seen) \in Nat /\ Len(seen') = Len(seen) + 1
      /\ DOMAIN seen = 1 .. Len(seen)
      /\ DOMAIN seen' = DOMAIN seen \cup {Len(seen) + 1}
      /\ \A i \in DOMAIN seen : seen'[i] = seen[i]
      /\ seen'[Len(seen) + 1] = c
  BY <1>1, <1>4, AppendFacts
<1>6. TypeOK'
  <2>1. cmd_off' \in Nat
    BY <1>1, <1>3, <1>4
  <2>2. img' \in [segments : Seq(DOMAIN seen'), dylibs : Seq(DOMAIN seen'),
                   entry : {"none", "main", "thread"} \X (DOMAIN seen' \cup {None}),
                   single : [Singles -> DOMAIN seen' \cup {None}]]
    BY <1>1, CommandTypes
  <2> QED BY <1>0, <1>2, <1>5, <2>1, <2>2 DEF TypeOK, Command
<1>7. base + HeaderSize + 2 * Len(seen) <= cmd_off
  BY <1>0, <1>2 DEF Room
<1>8. Room'
  <2>1. base' + HeaderSize + 2 * Len(seen') <= cmd_off'
    BY <1>1, <1>2, <1>3, <1>4, <1>5, <1>7 DEF HeaderSize
  <2>2. base' + HeaderSize + 2 * Len(seen') <= len'
    BY <1>2, <1>4, <1>5, <1>7 DEF HeaderSize, Fits
  <2>3. ASSUME NEW n \in DOMAIN seen', seen'[n].kind = "segment"
        PROVE  base' + HeaderSize + 2 * n + 16 + 20 * seen'[n].nsects <= len'
    <3>1. CASE n \in DOMAIN seen
      BY <1>0, <1>2, <1>5, <2>3, <3>1 DEF Room
    <3>2. CASE n = Len(seen) + 1
      <4>1. c.kind = "segment" /\ seen'[n] = c
        BY <1>5, <2>3, <3>2
      <4>2. BodySize(c) = 16 + 20 * c.nsects
        BY <4>1 DEF BodySize, Dylibs
      <4>3. cmd_off + 2 + (16 + 20 * c.nsects) <= len
        BY <1>1, <4>2 DEF Sound, Fits
      <4>4. PICK x \in Nat : x = c.nsects
        BY <1>3
      <4>5. PICK l \in Nat : l = Len(seen)
        BY <1>5
      <4>6. base + 8 + 2 * l <= cmd_off /\ cmd_off + 2 + (16 + 20 * x) <= len
        BY <1>7, <4>3, <4>4, <4>5 DEF HeaderSize
      <4>7. base + 8 + 2 * (l + 1) + 16 + 20 * x <= len
        BY <1>4, <4>6
      <4> QED BY <1>2, <3>2, <4>1, <4>4, <4>5, <4>7 DEF HeaderSize
    <3> QED BY <1>5, <3>1, <3>2
  <2> QED BY <2>1, <2>2, <2>3 DEF Room
<1>9. Filled'
  BY <1>1, <1>2, CommandFills
<1>10. Progress'
  BY <1>2 DEF Inv, Progress
<1> QED BY <1>6, <1>8, <1>9, <1>10 DEF Inv

\* The slice that is selected begins in the file.
LEMMA SelectStep ==
  ASSUME Inv, SelectSlice
  PROVE  Inv'
<1>1. /\ phase = "fat" /\ SliceInFile /\ base' = arches[best].place.off /\ phase' = "thin"
      /\ UNCHANGED <<len, magic, nfat, best, arches, ncmds, cmd_off, img, seen>>
  BY DEF SelectSlice
<1>2. best \in DOMAIN arches /\ best # None
  BY <1>1 DEF Inv, TypeOK, SliceInFile
<1>3. arches[best].place.off \in Nat /\ arches[best].place.size \in Nat /\ len \in Nat
  BY <1>2, Types DEF Inv
<1>4. base' \in Nat /\ base' <= len
  BY <1>1, <1>3 DEF SliceInFile
<1>5. TypeOK'
  BY <1>1, <1>4 DEF Inv, TypeOK
<1>6. seen = << >>
  BY <1>1 DEF Inv, Progress
<1>7. Filled'
  BY <1>1, KeptFilled DEF Inv
<1>8. Room'
  BY <1>1, <1>6 DEF Room
<1>9. Progress'
  BY <1>1, <1>2, <1>4, <1>6 DEF Inv, Progress
<1> QED BY <1>5, <1>7, <1>8, <1>9 DEF Inv

LEMMA HeaderStep ==
  ASSUME Inv, ReadHeader
  PROVE  Inv'
<1>1. /\ phase = "thin" /\ cmd_off' = base + HeaderSize /\ phase' = "cmds"
      /\ ncmds' \in CmdCounts
      /\ UNCHANGED <<len, magic, nfat, best, arches, base, img, seen>>
  BY DEF ReadHeader
<1>2. seen = << >> /\ base \in Nat
  BY <1>1 DEF Inv, Progress, TypeOK
<1>3. TypeOK'
  <2>1. cmd_off' \in Nat
    BY <1>1, <1>2 DEF HeaderSize
  <2> QED BY <1>1, <2>1 DEF Inv, TypeOK
<1>4. Room'
  <2>1. Len(seen') = 0 /\ DOMAIN seen' = {} /\ seen' = << >>
    BY <1>1, <1>2
  <2> QED BY <1>1, <1>2, <2>1 DEF Room, HeaderSize
<1>5. Filled'
  BY <1>1, KeptFilled DEF Inv
<1>6. Progress'
  BY <1>1 DEF Inv, Progress
<1> QED BY <1>3, <1>4, <1>5, <1>6 DEF Inv

\* The steps that only change the phase, or read nfat.
LEMMA PhaseStep ==
  ASSUME Inv,
         UNCHANGED <<len, magic, best, arches, base, ncmds, cmd_off, img, seen>>,
         nfat' \in ArchCounts \cup {0},
         \/ phase' = "refused"
         \/ phase = "magic" /\ phase' \in {"thin", "fat"}
         \/ phase = "cmds" /\ phase' = "parsed" /\ img.segments # << >>
  PROVE  Inv'
<1>1. phase' \in {"refused", "thin", "fat", "parsed"}
  OBVIOUS
<1>2. TypeOK'
  BY <1>1 DEF Inv, TypeOK
<1>3. Room'
  BY <1>1 DEF Inv, Room, HeaderSize
<1>4. Filled'
  BY KeptFilled DEF Inv
<1>5. Progress'
  BY DEF Inv, Progress
<1> QED BY <1>2, <1>3, <1>4, <1>5 DEF Inv

LEMMA NextInv == Inv /\ [Next]_vars => Inv'
<1> SUFFICES ASSUME Inv, [Next]_vars PROVE Inv'
  OBVIOUS
<1>0. nfat \in ArchCounts \cup {0}
  BY DEF Inv, TypeOK
<1>1. CASE ParseThin
  BY <1>0, <1>1, PhaseStep DEF ParseThin
<1>2. CASE ParseFat
  BY <1>2, PhaseStep DEF ParseFat
<1>3. CASE Refuse
  BY <1>0, <1>3, PhaseStep DEF Refuse
<1>4. CASE Finish
  BY <1>0, <1>4, PhaseStep DEF Finish
<1>5. CASE UNCHANGED vars
  <2>1. UNCHANGED <<len, magic, phase, nfat, best, arches, base, ncmds, cmd_off, img, seen>>
    BY <1>5 DEF vars
  <2>2. Filled'
    BY <2>1, KeptFilled DEF Inv, Filled
  <2>3. Room'
    BY <2>1 DEF Inv, Room, HeaderSize
  <2> QED BY <2>1, <2>2, <2>3 DEF Inv, TypeOK, Progress
<1>6. ParseRefuses \/ FatRefuses \/ HeaderRefuses \/ CommandRefuses => Refuse
  BY DEF ParseRefuses, FatRefuses, HeaderRefuses, CommandRefuses
<1> QED BY <1>1, <1>2, <1>3, <1>4, <1>5, <1>6, ArchStep, SelectStep, HeaderStep, CommandStep
        DEF Next

LEMMA Invariance == Spec => []Inv
BY InitInv, NextInv, PTL DEF Spec

-----------------------------------------------------------------------------
(* The results *)

\* The parser reads at most one command per two words of the file and only
\* sections that lie in it, whatever ncmds and nsects say; and its state keeps
\* its types.
THEOREM WorkBoundedByFile == Spec => []WorkBounded
<1>1. ASSUME Inv PROVE WorkBounded
  <2>1. Len(seen) \in Nat /\ len \in Nat /\ base \in Nat /\ (seen = << >> => Len(seen) = 0)
    BY <1>1, Types DEF Inv
  <2>2. 2 * Len(seen) <= (IF seen = << >> THEN 0 ELSE len - base - HeaderSize)
    BY <1>1, <2>1 DEF Inv, Room, HeaderSize
  <2> QED BY <1>1, <2>2 DEF Inv, Room, WorkBounded
<1> QED BY <1>1, Invariance, PTL

\* A parsed image has every segment and library in file order, the last command
\* of each other kind, and the entry point that LC_MAIN or else the first ARM64
\* thread state gives, for any commands in any order.
THEOREM ImageIsTheFile == Spec => []ImageExact
<1>1. ASSUME Inv PROVE ImageExact
  <2> SUFFICES ASSUME phase = "parsed" PROVE ImageExact
    BY DEF ImageExact
  <2>1. \A ks : OfKind(ks) \subseteq Nat
    BY <1>1, Types DEF Inv, OfKind
  <2>2. ASSUME NEW k \in Singles PROVE img.single[k] = LastOf(OfKind({k}))
    <3>1. IsLast(img.single[k], OfKind({k}))
      BY <1>1 DEF Inv, Filled
    <3>2. CASE OfKind({k}) = {}
      BY <3>1, <3>2 DEF IsLast, LastOf
    <3>3. CASE OfKind({k}) # {}
      <4>1. PICK m : m = img.single[k]
        OBVIOUS
      <4>2. m \in OfKind({k}) /\ \A n \in OfKind({k}) : m >= n
        BY <2>1, <3>1, <3>3, <4>1 DEF IsLast
      <4>3. Max(OfKind({k})) = m
        BY <2>1, <4>2, MaxIs
      <4> QED BY <3>3, <4>1, <4>3 DEF LastOf
    <3> QED BY <3>2, <3>3
  <2>3. EntrySoFar
    BY <1>1 DEF Inv, Filled
  <2>4. img.entry = IF OfKind({"main"}) # {} THEN <<"main", Max(OfKind({"main"}))>>
                    ELSE IF OfKind({"thread"}) # {} THEN <<"thread", Min(OfKind({"thread"}))>>
                    ELSE <<"none", None>>
    <3>1. CASE OfKind({"main"}) # {}
      <4>1. PICK m \in OfKind({"main"}) :
              img.entry = <<"main", m>> /\ \A n \in OfKind({"main"}) : n <= m
        BY <2>3, <3>1 DEF EntrySoFar
      <4>2. \A n \in OfKind({"main"}) : m >= n
        BY <2>1, <4>1
      <4>3. Max(OfKind({"main"})) = m
        BY <2>1, <4>2, MaxIs
      <4> QED BY <3>1, <4>1, <4>3
    <3>2. CASE OfKind({"main"}) = {} /\ OfKind({"thread"}) # {}
      <4>1. PICK m \in OfKind({"thread"}) :
              img.entry = <<"thread", m>> /\ \A n \in OfKind({"thread"}) : m <= n
        BY <2>3, <3>2 DEF EntrySoFar
      <4>2. Min(OfKind({"thread"})) = m
        BY <2>1, <4>1, MinIs
      <4> QED BY <3>2, <4>1, <4>2
    <3>3. CASE OfKind({"main"}) = {} /\ OfKind({"thread"}) = {}
      BY <2>3, <3>3 DEF EntrySoFar
    <3> QED BY <3>1, <3>2, <3>3
  <2> QED BY <1>1, <2>2, <2>4 DEF Inv, Filled, ImageExact
<1> QED BY <1>1, Invariance, PTL
=============================================================================
