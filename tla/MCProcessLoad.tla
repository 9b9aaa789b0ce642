--------------------------- MODULE MCProcessLoad ---------------------------
(* ProcessLoad on 64 bytes in pages of 2, for a few executables: a guard
   segment, __TEXT and __DATA at their preferred addresses 8 and up. *)
EXTENDS ProcessLoad

Seg(name, vmaddr, vmsize, filesize, prot) ==
  [name |-> name, vmaddr |-> vmaddr, vmsize |-> vmsize, filesize |-> filesize, prot |-> prot]
Guard == Seg("__PAGEZERO", 0, 8, 0, {})
Text(prot) == Seg("__TEXT", 8, 3, 3, prot)

Slots == {<<1, 0>>, <<3, 0>>, <<3, 1>>, <<3, 2>>}
B(loc, sym) == [loc |-> loc, sym |-> sym]

Image(segs, rebase, binds, encrypted, entry) ==
  [segs |-> segs, slots |-> Slots, rebase |-> rebase.stream, pointers |-> rebase.pointers,
   binds |-> binds, broken |-> "", encrypted |-> encrypted, entry |-> entry]

Datas == {Seg("__DATA", 12, 2, 1, {"r", "w"}),     \* with BSS
          Seg("__DATA", 14, 4, 4, {}),             \* a gap before it
          Seg("__DATA", 10, 2, 2, {"r", "w"}),     \* overlaps __TEXT
          Seg("__DATA", 12, 0, 0, {"r", "w"})}     \* empty

\* Rebase streams, each with the pointers that the linker meant by it.
O(op, a, b) == Dyld!Op(op, a, b)
SetSegment(seg, off) == O("SET_SEGMENT_AND_OFFSET_ULEB", seg, off)
Stream(stream, pointers) == [stream |-> stream, pointers |-> pointers]
NoPointers == Stream(<< >>, {})
TwoPointers == {<<3, 0>>, <<3, 1>>}
RebaseStreams ==
  {Stream(<<SetSegment(3, 0), O("DO_REBASE_IMM_TIMES", 2, 0), O("DONE", 0, 0)>>, TwoPointers),
   \* after a guard segment and a segment that is not there; one by one
   Stream(<<SetSegment(1, 0), O("DO_REBASE_ULEB_TIMES", 1, 0), SetSegment(9, 0),
            O("DO_REBASE_ULEB_TIMES", 1, 0), SetSegment(3, 0),
            O("DO_REBASE_ADD_ADDR_ULEB", 0, 0), O("DO_REBASE_ULEB_TIMES", 1, 0)>>, TwoPointers),
   Stream(<<SetSegment(3, 0), O("DO_REBASE_ULEB_TIMES_SKIPPING_ULEB", 2, 1)>>,
          {<<3, 0>>, <<3, 2>>}),
   \* an offset that wraps; a location of another type
   Stream(<<SetSegment(3, Word - 2), O("ADD_ADDR_ULEB", 1, 0), O("ADD_ADDR_IMM_SCALED", 1, 0),
            O("DO_REBASE_IMM_TIMES", 1, 0), O("SET_TYPE_IMM", 2, 0),
            O("DO_REBASE_IMM_TIMES", 1, 0)>>, {<<3, 0>>})}
Unknown == Stream(<<SetSegment(3, 0), O("unknown", 0, 0)>>, {})
BindLists == {<<B(<<3, 1>>, "f")>>,
              <<B(<<3, 0>>, "f"), B(<<1, 0>>, "h"), B(<<3, 1>>, "g"), B(<<3, 0>>, "h")>>}

\* Executables with every legal shape the loader distinguishes.
GoodImages ==
       {Image(<<Guard, Text({"r", "x"}), d>>, rs, bs, FALSE, TRUE) :
          d \in Datas, rs \in RebaseStreams, bs \in BindLists}
  \cup {Image(<<Guard, Text({"r", "x"}), d>>, NoPointers, << >>, e, ~ e) :
          d \in Datas, e \in BOOLEAN}
  \cup {Image(<<Guard, Text({"r", "x"}), Seg("__DATA", 12, 2, 2, {"r"})>>,
              Unknown, << >>, FALSE, FALSE),
        [Image(<<Guard>>, NoPointers, << >>, FALSE, TRUE) EXCEPT !.slots = {<<1, 0>>}]}
  \cup {[Image(<<Guard, Text({"r", "x"}), Seg("__DATA", 12, 2, 1, {"r", "w"})>>,
               NoPointers, <<B(<<3, 1>>, "f")>>, FALSE, TRUE)
           EXCEPT !.broken = b] : b \in {"bind", "lazy"}}

\* The hypotheses of the theorems, but for NamesPointersOnce: that the decoder
\* reads each of these streams as it was meant is what PointersFinal checks here.
ASSUME LinkerAssumption ==
  SeparateProts /\ StubsFit /\ LinkerLayout /\ DistinctStarts
=============================================================================
