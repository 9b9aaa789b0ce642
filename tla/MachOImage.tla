----------------------------- MODULE MachOImage -----------------------------
(***************************************************************************)
(* MachOImage::parse (crates/loader/src/macho): pick a slice of the file,  *)
(* then read its load commands one after the other into an image.          *)
(*                                                                         *)
(* Abstraction.  Offsets and lengths count 4-byte words of the file.  What *)
(* a record of the file says is chosen when the parser comes to it; where  *)
(* two records overlap, because a command is larger than its cmdsize, this *)
(* allows contents that no file has.  A value taken from a command is the  *)
(* number of the command.                                                  *)
(***************************************************************************)
EXTENDS Integers, Sequences, SequencesExt

CONSTANTS
  FileLens,         \* lengths of a file
  SlicePlaces,      \* [off, size] of the slices of a universal file
  ArchCounts,       \* nfat
  CmdCounts,        \* ncmds
  CmdSizes,         \* cmdsize
  SectCounts,       \* nsects
  NameOffs          \* offset of a string in its command

ASSUME MachOAssumption ==
  /\ FileLens \subseteq Nat /\ SlicePlaces \subseteq [off : Nat, size : Nat]
  /\ ArchCounts \subseteq Nat /\ CmdCounts \subseteq Nat
  /\ CmdSizes \subseteq Nat /\ SectCounts \subseteq Nat

VARIABLES
  len, magic,       \* of the file; the magic by its bytes, see Le and Be
  phase,            \* "magic", "fat", "thin", "cmds", then "parsed" or "refused"
  nfat, best,       \* select_fat_slice; best = 0 for None, else the number of the arch
  arches,           \* history: the fat_arch records read
  base, ncmds, cmd_off,
  img,              \* the MachOImage under construction
  seen              \* history: the commands read

vars == <<len, magic, phase, nfat, best, arches, base, ncmds, cmd_off, img, seen>>

-----------------------------------------------------------------------------
(* Reader *)

Fits(pos, n) == pos + n <= len      \* Reader::at and take

\* The magic of the file's first bytes, read in either byte order.
Magics == {"MH_64", "MH_64_swapped", "FAT", "FAT_64", "FAT_swapped", "FAT_64_swapped", "other"}
Le(m) == CASE m = "MH_64" -> "MH_MAGIC_64"
           [] m = "MH_64_swapped" -> "MH_CIGAM_64"
           [] m = "FAT_swapped" -> "FAT_MAGIC"
           [] m = "FAT_64_swapped" -> "FAT_MAGIC_64"
           [] OTHER -> "unknown"
Be(m) == CASE m = "FAT" -> "FAT_MAGIC"
           [] m = "FAT_64" -> "FAT_MAGIC_64"
           [] OTHER -> "unknown"

-----------------------------------------------------------------------------
\* Fields that a later command of the same kind replaces.
Singles == {"dylinker", "symtab", "dyld_info", "encryption", "uuid", "function_starts",
            "version_min"}
Dylibs == {"dylib", "weak_dylib", "reexport_dylib"}
Kinds == Singles \cup Dylibs \cup {"segment", "main", "thread", "foreign_thread", "unhandled"}

None == 0
EmptyImage == [segments |-> << >>, dylibs |-> << >>, entry |-> <<"none", None>>,
               single |-> [k \in Singles |-> None]]

Init ==
  /\ len \in FileLens /\ magic \in Magics
  /\ phase = "magic"
  /\ nfat = 0 /\ best = None /\ arches = << >>
  /\ base = 0 /\ ncmds = 0 /\ cmd_off = 0
  /\ img = EmptyImage /\ seen = << >>

Refuse ==
  /\ phase' = "refused"
  /\ UNCHANGED <<len, magic, nfat, best, arches, base, ncmds, cmd_off, img, seen>>

(* parse *)
ParseThin ==
  /\ phase = "magic" /\ Fits(0, 1) /\ Le(magic) = "MH_MAGIC_64"
  /\ phase' = "thin"
  /\ UNCHANGED <<len, magic, nfat, best, arches, base, ncmds, cmd_off, img, seen>>

ParseFat ==
  /\ phase = "magic" /\ Le(magic) \in {"FAT_MAGIC", "FAT_MAGIC_64"} /\ Fits(0, 2)
  /\ \E n \in ArchCounts : nfat' = n
  /\ phase' = "fat"
  /\ UNCHANGED <<len, magic, best, arches, base, ncmds, cmd_off, img, seen>>

ParseRefuses ==
  /\ phase = "magic"
  /\ \/ ~ Fits(0, 1)
     \/ Le(magic) \in {"FAT_MAGIC", "FAT_MAGIC_64"} /\ ~ Fits(0, 2)
     \/ Le(magic) \in {"MH_CIGAM_64", "unknown"}
  /\ Refuse

-----------------------------------------------------------------------------
(* select_fat_slice *)

Is64 == Be(magic) = "FAT_MAGIC_64"
ArchSize == IF Is64 THEN 8 ELSE 5
ArchFits == Fits(2 + Len(arches) * ArchSize, ArchSize)

\* Should arch a replace the best one so far, b, which is None or the number of an arch?
Better(a, b) ==
  a.arm64 /\ (b = None \/ (a.e /\ ~ arches[b].e))

ReadArch ==
  /\ phase = "fat" /\ Len(arches) < nfat /\ ArchFits
  /\ \E a \in [arm64 : BOOLEAN, e : BOOLEAN, place : SlicePlaces] :
       /\ arches' = Append(arches, a)
       /\ best' = IF Better(a, best) THEN Len(arches) + 1 ELSE best
  /\ UNCHANGED <<len, magic, phase, nfat, base, ncmds, cmd_off, img, seen>>

SliceInFile == best # None /\ arches[best].place.off + arches[best].place.size <= len

SelectSlice ==
  /\ phase = "fat" /\ Len(arches) = nfat /\ SliceInFile
  /\ base' = arches[best].place.off
  /\ phase' = "thin"
  /\ UNCHANGED <<len, magic, nfat, best, arches, ncmds, cmd_off, img, seen>>

FatRefuses ==
  /\ phase = "fat"
  /\ IF Len(arches) < nfat THEN ~ ArchFits ELSE ~ SliceInFile
  /\ Refuse

-----------------------------------------------------------------------------
(* parse_thin *)

HeaderSize == 8     \* mach_header_64

ReadHeader ==
  /\ phase = "thin" /\ Fits(base, HeaderSize)
  /\ \E n \in CmdCounts : ncmds' = n
  /\ cmd_off' = base + HeaderSize
  /\ phase' = "cmds"
  /\ UNCHANGED <<len, magic, nfat, best, arches, base, img, seen>>

\* Truncated, or the magic or the cputype of the slice is another one.
HeaderRefuses == phase = "thin" /\ Refuse

\* Words that parse_command reads after cmd and cmdsize.
BodySize(c) ==
  CASE c.kind \in Dylibs \cup {"dylinker", "version_min"} -> 1
    [] c.kind \in {"function_starts", "foreign_thread"} -> 2
    [] c.kind = "encryption" -> 3
    [] c.kind \in {"main", "symtab", "uuid"} -> 4
    [] c.kind = "dyld_info" -> 8
    [] c.kind = "segment" -> 16 + 20 * c.nsects
    [] c.kind = "thread" -> 2 + 64 + 2
    [] c.kind = "unhandled" -> 0

\* read_lc_str starts inside the file.
NameFits(c) == c.kind \in Dylibs \cup {"dylinker"} => cmd_off + c.name_off < len

\* Mutant: the thread state wins over LC_MAIN.
Entry_Thread(entry, c, n) ==
  IF c.kind \in {"main", "thread"} THEN <<c.kind, n>> ELSE entry
\* LC_MAIN always, LC_UNIXTHREAD only when there is no entry yet.
Entry(entry, c, n) ==
  IF c.kind = "main" \/ (c.kind = "thread" /\ entry[1] = "none") THEN <<c.kind, n>> ELSE entry

ParseCommand(image, c, n) ==
  [segments |-> IF c.kind = "segment" THEN Append(image.segments, n) ELSE image.segments,
   dylibs |-> IF c.kind \in Dylibs THEN Append(image.dylibs, n) ELSE image.dylibs,
   entry |-> Entry(image.entry, c, n),
   single |-> [k \in Singles |-> IF c.kind = k THEN n ELSE image.single[k]]]

\* The commands that a file may have at this place; a count or an offset is
\* told apart for the kinds that have one.
Commands ==
  {c \in [kind : Kinds, size : CmdSizes, nsects : SectCounts, name_off : NameOffs] :
     /\ c.kind # "segment" => c.nsects = Min(SectCounts)
     /\ c.kind \notin Dylibs \cup {"dylinker"} => c.name_off = Min(NameOffs)}

\* Mutant: a command may be as small as it says.
Sound_AnySize(c) == Fits(cmd_off + 2, BodySize(c)) /\ NameFits(c)
Sound(c) == c.size >= 2 /\ Fits(cmd_off + 2, BodySize(c)) /\ NameFits(c)

ReadCommand ==
  /\ phase = "cmds" /\ Len(seen) < ncmds /\ Fits(cmd_off, 2)
  /\ \E c \in Commands :
       /\ Sound(c)
       /\ img' = ParseCommand(img, c, Len(seen) + 1)
       /\ seen' = Append(seen, c)
       /\ cmd_off' = cmd_off + c.size
  /\ UNCHANGED <<len, magic, phase, nfat, best, arches, base, ncmds>>

CommandRefuses ==
  /\ phase = "cmds" /\ Len(seen) < ncmds
  /\ Fits(cmd_off, 2) => \E c \in Commands : ~ Sound(c)
  /\ Refuse

Finish ==
  /\ phase = "cmds" /\ Len(seen) = ncmds
  /\ phase' = IF img.segments = << >> THEN "refused" ELSE "parsed"
  /\ UNCHANGED <<len, magic, nfat, best, arches, base, ncmds, cmd_off, img, seen>>

Next ==
  \/ ParseThin \/ ParseFat \/ ParseRefuses
  \/ ReadArch \/ SelectSlice \/ FatRefuses
  \/ ReadHeader \/ HeaderRefuses
  \/ ReadCommand \/ CommandRefuses \/ Finish

Spec == Init /\ [][Next]_vars

-----------------------------------------------------------------------------
(* Properties *)

TypeOK ==
  /\ len \in FileLens /\ magic \in Magics
  /\ phase \in {"magic", "fat", "thin", "cmds", "parsed", "refused"}
  /\ nfat \in ArchCounts \cup {0}
  /\ arches \in Seq([arm64 : BOOLEAN, e : BOOLEAN, place : SlicePlaces])
  /\ best \in DOMAIN arches \cup {None}
  /\ base \in Nat /\ cmd_off \in Nat /\ ncmds \in CmdCounts \cup {0}
  /\ seen \in Seq([kind : Kinds, size : CmdSizes, nsects : SectCounts, name_off : NameOffs])
  /\ img \in [segments : Seq(DOMAIN seen), dylibs : Seq(DOMAIN seen),
              entry : {"none", "main", "thread"} \X (DOMAIN seen \cup {None}),
              single : [Singles -> DOMAIN seen \cup {None}]]

OfKind(kinds) == {n \in DOMAIN seen : seen[n].kind \in kinds}
InOrder(s, ns) == Range(s) = ns /\ \A i, j \in DOMAIN s : i < j => s[i] < s[j]
LastOf(ns) == IF ns = {} THEN None ELSE Max(ns)

(* Whatever order the commands come in, the image has every segment and every
   library in file order, the last command of each other kind, and as its entry
   the last LC_MAIN, or without one the first ARM64 thread state. *)
ImageExact ==
  phase = "parsed" =>
    /\ InOrder(img.segments, OfKind({"segment"})) /\ img.segments # << >>
    /\ InOrder(img.dylibs, OfKind(Dylibs))
    /\ \A k \in Singles : img.single[k] = LastOf(OfKind({k}))
    /\ img.entry = IF OfKind({"main"}) # {} THEN <<"main", Max(OfKind({"main"}))>>
                   ELSE IF OfKind({"thread"}) # {} THEN <<"thread", Min(OfKind({"thread"}))>>
                   ELSE <<"none", None>>

(* ncmds is whatever the file says, but the work is bounded by the length of the
   file: each command read takes at least its two words, and the sections of
   each segment lie behind it in the file. *)
WorkBounded ==
  /\ TypeOK
  /\ 2 * Len(seen) <= (IF seen = << >> THEN 0 ELSE len - base - HeaderSize)
  /\ \A n \in DOMAIN seen :
       seen[n].kind = "segment" => base + HeaderSize + 2 * n + 16 + 20 * seen[n].nsects <= len
=============================================================================
