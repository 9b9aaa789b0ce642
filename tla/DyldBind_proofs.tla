--------------------------- MODULE DyldBind_proofs ---------------------------
(***************************************************************************)
(* Proofs about DyldBind: the stub table, the pointers that binding writes *)
(* and the table of dyld_stub_binder, for streams of every length over any *)
(* symbols, segments and operands.                                         *)
(***************************************************************************)
EXTENDS DyldBind, TLAPS

-----------------------------------------------------------------------------
(* Functions, sequences and opcodes *)

LEMMA AppendFacts ==
  ASSUME NEW S, NEW s \in Seq(S), NEW x \in S
  PROVE  /\ Append(s, x) \in Seq(S)
         /\ Len(s) \in Nat /\ Len(Append(s, x)) = Len(s) + 1
         /\ DOMAIN s = 1 .. Len(s)
         /\ DOMAIN Append(s, x) = 1 .. Len(s) + 1
         /\ \A i \in DOMAIN s : Append(s, x)[i] = s[i]
         /\ Append(s, x)[Len(s) + 1] = x
OBVIOUS

LEMMA WrapType ==
  ASSUME NEW n \in Nat
  PROVE  Wrap(n) \in 0 .. OffsetWord - 1
BY BindAssumption DEF Wrap

\* A mapped segment's slots have addresses.
LEMMA TargetType ==
  ASSUME NEW g \in Mapped, NEW o \in 0 .. OffsetWord - 1
  PROVE  Target(g, o) \in Nat
<1>1. SegRuntime[g] + o \in Nat
  BY BindAssumption
<1>2. Wrap(SegRuntime[g] + o) \in 0 .. OffsetWord - 1
  BY <1>1, WrapType
<1> QED BY <1>2, BindAssumption DEF Target

LEMMA ProductType ==
  ASSUME NEW a \in Nat, NEW b \in Nat
  PROVE  a * b \in Nat
OBVIOUS

\* The opcodes of the two streams, with the operands that the readers use.
LEMMA CommonKinds ==
  ASSUME NEW c \in CommonOps
  PROVE  \/ c.op = "DONE" /\ c.len = 1
         \/ c.op = "DO_BIND" /\ c.len = 1
         \/ c.op = "SET_SYMBOL" /\ c.len = 3 /\ c.arg[1] \in Symbols
         \/ /\ c.op = "SET_SEGMENT_AND_OFFSET" /\ c.len = 2
            /\ \E g \in Segments, f \in Offsets : c.arg = <<g, f>>
<1> DEFINE A == {Op("DONE", << >>, 1), Op("DO_BIND", << >>, 1)}
           B == {Op("SET_SYMBOL", <<s>>, 3) : s \in Symbols}
           C == {Op("SET_SEGMENT_AND_OFFSET", <<g, o>>, 2) : g \in Segments, o \in Offsets}
<1>0. CommonOps = (A \cup B) \cup C
  BY DEF CommonOps
<1>1. CASE c \in A
  BY <1>1 DEF Op
<1>2. CASE c \in B
  <2>1. PICK s \in Symbols : c = Op("SET_SYMBOL", <<s>>, 3)
    BY <1>2
  <2>2. c.op = "SET_SYMBOL" /\ c.len = 3 /\ c.arg = <<s>>
    BY <2>1 DEF Op
  <2> QED BY <2>2
<1>3. CASE c \in C
  <2>1. PICK g \in Segments, f \in Offsets : c = Op("SET_SEGMENT_AND_OFFSET", <<g, f>>, 2)
    BY <1>3
  <2>2. c.op = "SET_SEGMENT_AND_OFFSET" /\ c.len = 2 /\ c.arg = <<g, f>>
    BY <2>1 DEF Op
  <2> QED BY <2>2
<1> HIDE DEF A, B, C
<1> QED BY <1>0, <1>1, <1>2, <1>3

LEMMA EagerKinds ==
  ASSUME NEW o \in EagerOps
  PROVE  \/ o.op \in {"DONE", "DO_BIND"}
         \/ o.op = "SET_SYMBOL" /\ o.arg[1] \in Symbols
         \/ o.op = "SET_SEGMENT_AND_OFFSET" /\ o.arg[1] \in Segments /\ o.arg[2] \in Offsets
         \/ o.op = "SET_ADDEND" /\ o.arg[1] \in Addends
         \/ o.op = "ADD_ADDR" /\ o.arg[1] \in Nat
         \/ o.op = "DO_BIND_ADD_ADDR_ULEB" /\ o.arg[1] \in Nat
         \/ o.op = "DO_BIND_ADD_ADDR_IMM_SCALED" /\ o.arg[1] \in Nat
         \/ o.op = "DO_BIND_ULEB_TIMES_SKIPPING_ULEB" /\ o.arg[1] \in Nat /\ o.arg[2] \in Nat
<1>1. CASE o \in CommonOps
  <2>1. CASE o.op = "SET_SEGMENT_AND_OFFSET"
    <3>1. PICK g \in Segments, f \in Offsets : o.arg = <<g, f>>
      BY <1>1, <2>1, CommonKinds
    <3> QED BY <2>1, <3>1
  <2> QED BY <1>1, <2>1, CommonKinds
<1>2. CASE o \in {Op("SET_ADDEND", <<a>>, 2) : a \in Addends}
  <2>1. PICK a \in Addends : o = Op("SET_ADDEND", <<a>>, 2)
    BY <1>2
  <2>2. o.op = "SET_ADDEND" /\ o.arg = <<a>>
    BY <2>1 DEF Op
  <2> QED BY <2>2
<1>3. CASE o \in {Op("ADD_ADDR", <<d>>, 2) : d \in Steps}
  <2>1. PICK d \in Steps : o = Op("ADD_ADDR", <<d>>, 2)
    BY <1>3
  <2>2. o.op = "ADD_ADDR" /\ o.arg = <<d>> /\ d \in Nat
    BY <2>1, BindAssumption DEF Op
  <2> QED BY <2>2
<1>4. CASE o \in {Op("DO_BIND_ADD_ADDR_ULEB", <<d>>, 2) : d \in Steps}
  <2>1. PICK d \in Steps : o = Op("DO_BIND_ADD_ADDR_ULEB", <<d>>, 2)
    BY <1>4
  <2>2. o.op = "DO_BIND_ADD_ADDR_ULEB" /\ o.arg = <<d>> /\ d \in Nat
    BY <2>1, BindAssumption DEF Op
  <2> QED BY <2>2
<1>5. CASE o \in {Op("DO_BIND_ADD_ADDR_IMM_SCALED", <<k>>, 1) : k \in Counts}
  <2>1. PICK k \in Counts : o = Op("DO_BIND_ADD_ADDR_IMM_SCALED", <<k>>, 1)
    BY <1>5
  <2>2. o.op = "DO_BIND_ADD_ADDR_IMM_SCALED" /\ o.arg = <<k>> /\ k \in Nat
    BY <2>1, BindAssumption DEF Op
  <2> QED BY <2>2
<1>6. CASE o \in {Op("DO_BIND_ULEB_TIMES_SKIPPING_ULEB", <<n, d>>, 3) : n \in Counts, d \in Steps}
  <2>1. PICK n \in Counts, d \in Steps : o = Op("DO_BIND_ULEB_TIMES_SKIPPING_ULEB", <<n, d>>, 3)
    BY <1>6
  <2>2. o.op = "DO_BIND_ULEB_TIMES_SKIPPING_ULEB" /\ o.arg = <<n, d>> /\ n \in Nat /\ d \in Nat
    BY <2>1, BindAssumption DEF Op
  <2> QED BY <2>2
<1> QED BY <1>1, <1>2, <1>3, <1>4, <1>5, <1>6 DEF EagerOps

LEMMA CommonIsEager == CommonOps \subseteq EagerOps
BY DEF EagerOps

LEMMA BindCounts ==
  ASSUME NEW o \in EagerOps
  PROVE  Times(o) \in Nat /\ Stride1(o) \in Nat
<1>0. Ptr \in Nat
  BY BindAssumption
<1>1. CASE o.op = "DO_BIND_ADD_ADDR_IMM_SCALED"
  <2>1. o.arg[1] \in Nat
    BY <1>1, EagerKinds
  <2>2. o.arg[1] * Ptr \in Nat
    BY <1>0, <2>1, ProductType
  <2>3. Stride1(o) = Ptr + o.arg[1] * Ptr /\ Times(o) = 1
    BY <1>1 DEF Stride1, Times
  <2> QED BY <1>0, <2>2, <2>3
<1>2. CASE o.op # "DO_BIND_ADD_ADDR_IMM_SCALED"
  BY <1>0, <1>2, EagerKinds DEF Times, Stride1
<1> QED BY <1>1, <1>2

-----------------------------------------------------------------------------
(* parse_bind_info *)

LEMMA ParseTypes ==
  ASSUME NEW o \in EagerOps, ParseBind(o), cur \in Cursor, records \in Seq(Cursor)
  PROVE  cur' \in Cursor /\ records' \in Seq(Cursor)
<1>0. /\ cur.off \in Nat /\ cur.seg \in Segments \cup {0} /\ cur.sym \in Symbols \cup {NoSymbol}
      /\ cur.addend \in Addends \cup {0}
  BY DEF Cursor
<1>1. Times(o) \in Nat /\ Stride1(o) \in Nat
  BY BindCounts
<1>2. ASSUME NEW off \in 0 .. OffsetWord - 1 PROVE [cur EXCEPT !.off = off] \in Cursor
  BY DEF Cursor
<1>3. ASSUME NEW n \in Nat PROVE [cur EXCEPT !.off = Wrap(cur.off + n)] \in Cursor
  <2>1. Wrap(cur.off + n) \in 0 .. OffsetWord - 1
    <3>1. cur.off + n \in Nat
      BY <1>0
    <3> QED BY <3>1, WrapType
  <2> QED BY <1>2, <2>1
<1>4. cur' \in Cursor
  <2>1. CASE o.op = "SET_SYMBOL"
    <3>1. cur' = [cur EXCEPT !.sym = o.arg[1]] /\ o.arg[1] \in Symbols
      BY <2>1, EagerKinds DEF ParseBind
    <3> QED BY <3>1 DEF Cursor
  <2>2. CASE o.op = "SET_ADDEND"
    <3>1. cur' = [cur EXCEPT !.addend = o.arg[1]] /\ o.arg[1] \in Addends
      BY <2>2, EagerKinds DEF ParseBind
    <3> QED BY <3>1 DEF Cursor
  <2>3. CASE o.op = "SET_SEGMENT_AND_OFFSET"
    <3>1. cur' = [cur EXCEPT !.seg = o.arg[1], !.off = o.arg[2]]
      BY <2>3 DEF ParseBind
    <3>2. o.arg[1] \in Segments /\ o.arg[2] \in 0 .. OffsetWord - 1
      BY <2>3, EagerKinds, BindAssumption
    <3> QED BY <3>1, <3>2 DEF Cursor
  <2>4. CASE o.op = "ADD_ADDR"
    <3>1. cur' = [cur EXCEPT !.off = Wrap(cur.off + o.arg[1])] /\ o.arg[1] \in Nat
      BY <2>4, EagerKinds DEF ParseBind
    <3> QED BY <1>3, <3>1
  <2>5. CASE o.op \notin {"SET_SYMBOL", "SET_ADDEND", "SET_SEGMENT_AND_OFFSET", "ADD_ADDR"}
    <3>1. cur' = [cur EXCEPT !.off = Wrap(cur.off + Times(o) * Stride1(o))]
      BY <2>5 DEF ParseBind
    <3>2. Times(o) * Stride1(o) \in Nat
      BY <1>1, ProductType
    <3> QED BY <1>3, <3>1, <3>2
  <2> QED BY <2>1, <2>2, <2>3, <2>4, <2>5
<1>5. records' \in Seq(Cursor)
  <2> DEFINE new == [k \in 1 .. Times(o) |-> [cur EXCEPT !.off = Wrap(@ + (k - 1) * Stride1(o))]]
  <2>1. ASSUME NEW k \in 1 .. Times(o)
        PROVE  [cur EXCEPT !.off = Wrap(@ + (k - 1) * Stride1(o))] \in Cursor
    <3>1. k - 1 \in Nat
      BY <1>1
    <3>2. (k - 1) * Stride1(o) \in Nat
      BY <1>1, <3>1, ProductType
    <3> QED BY <1>3, <3>2
  <2>2. new \in Seq(Cursor)
    <3>1. new \in [1 .. Times(o) -> Cursor]
      BY <2>1, Zenon
    <3> HIDE DEF new
    <3> QED BY <1>1, <3>1
  <2>3. records' = records \o new
    BY DEF ParseBind
  <2> HIDE DEF new
  <2> QED BY <2>2, <2>3
<1> QED BY <1>4, <1>5

\* On the opcodes of a lazy stream only DO_BIND makes a record.
LEMMA LazyRecords ==
  ASSUME NEW o \in CommonOps, ParseBind(o), cur \in Cursor, records \in Seq(Cursor)
  PROVE  records' = IF o.op = "DO_BIND" THEN Append(records, cur) ELSE records
<1>1. records' = records \o
        [k \in 1 .. Times(o) |-> [cur EXCEPT !.off = Wrap(@ + (k - 1) * Stride1(o))]]
  BY DEF ParseBind
<1>2. CASE o.op = "DO_BIND"
  <2>1. Times(o) = 1 /\ Stride1(o) = Ptr
    BY <1>2 DEF Times, Stride1
  <2>2. [cur EXCEPT !.off = Wrap(@ + (1 - 1) * Ptr)] = cur
    <3>1. cur.off \in 0 .. OffsetWord - 1 /\ OffsetWord \in Nat \ {0} /\ Ptr \in Nat
      BY BindAssumption DEF Cursor
    <3>2. cur.off + (1 - 1) * Ptr = cur.off
      BY <3>1
    <3>3. Wrap(cur.off) = cur.off
      BY <3>1 DEF Wrap
    <3> QED BY <3>2, <3>3 DEF Cursor
  <2>3. [k \in 1 .. Times(o) |-> [cur EXCEPT !.off = Wrap(@ + (k - 1) * Stride1(o))]]
          = [k \in 1 .. 1 |-> cur]
    <3>1. \A k \in 1 .. 1 : k = 1
      OBVIOUS
    <3>2. \A k \in 1 .. 1 : [cur EXCEPT !.off = Wrap(@ + (k - 1) * Ptr)] = cur
      BY <2>2, <3>1
    <3> QED BY <2>1, <3>2
  <2>4. [k \in 1 .. 1 |-> cur] = <<cur>>
    OBVIOUS
  <2>5. records' = records \o <<cur>>
    BY <1>1, <2>3, <2>4
  <2> QED BY <1>2, <2>5
<1>3. CASE o.op # "DO_BIND"
  <2>1. Times(o) = 0
    BY <1>3, CommonKinds DEF Times
  <2>2. [k \in 1 .. Times(o) |-> [cur EXCEPT !.off = Wrap(@ + (k - 1) * Stride1(o))]] = << >>
    BY <2>1
  <2>3. records' = records \o << >>
    BY <1>1, <2>2
  <2>4. records \o << >> = records
    OBVIOUS
  <2> QED BY <1>3, <2>3, <2>4
<1> QED BY <1>2, <1>3

-----------------------------------------------------------------------------
(* The inductive invariant *)

LazyCursor == [start : Nat, p : Nat, seg : Segments \cup {0}, off : 0 .. OffsetWord - 1,
               sym : Symbols \cup {NoSymbol}]
Lazy == [offset : Nat, seg : Segments \cup {0}, off : 0 .. OffsetWord - 1,
         sym : Symbols \cup {NoSymbol}]

Typed ==
  /\ TypeOK
  /\ records \in Seq(Cursor) /\ lcur \in LazyCursor /\ lazies \in Seq(Lazy)

\* StubResolver: the two tables undo each other, below next.
Stubs ==
  /\ next \in Nat /\ StubBase <= next /\ DOMAIN reverse \subseteq Nat
  /\ \A s \in DOMAIN forward : forward[s] \in DOMAIN reverse /\ reverse[forward[s]] = s
  /\ \A a \in DOMAIN reverse : /\ reverse[a] \in DOMAIN forward /\ forward[reverse[a]] = a
                               /\ StubBase <= a /\ a + Stride <= next

\* Which of the parts each phase has come to.
Phases ==
  /\ phase \in {"eager", "lazy"} => bound = 0
  /\ phase \in {"eager", "bindEager"} => lazies = << >> /\ lcur = LazyEmpty
  /\ phase \notin {"table", "done"} => lazy_binds = << >>
  /\ phase = "done" => bound = Len(lazies)

\* Where a record puts its pointer, the bytes it covers, and a byte it left.
Place(r) == <<r.seg, r.off>>
At(r) == Target(r.seg, r.off)
Covers(r, x) == Written(r) /\ x \in Bytes(At(r))
Byte(m, f, r, x) == x \in DOMAIN m /\ m[x] = <<Pointer(f[r.sym], r.addend), x - At(r)>>
Clear(l, k) == Apart(l.seg, l.off, k.seg, k.off)

\* The records that were applied: a stub for each symbol, and the bytes of each
\* pointer, but for those that a later record covers.
Applied(i) ==
  records[i].seg \in Mapped =>
    /\ records[i].sym \in DOMAIN forward
    /\ WriteOk(At(records[i])) => \A x \in Bytes(At(records[i])) :
         (\E j \in i + 1 .. bound : Covers(records[j], x)) \/ Byte(mem, forward, records[i], x)
AllApplied == phase \in {"bindEager", "bindLazy"} => \A i \in 1 .. bound : Applied(i)

\* The two readers of the lazy stream make the same binds.
SameBind(r, l) == r.seg = l.seg /\ r.off = l.off /\ r.sym = l.sym /\ r.addend = 0
Pairs ==
  phase \in {"lazy", "bindLazy"} =>
    Len(records) = Len(lazies) /\ \A i \in DOMAIN lazies : SameBind(records[i], lazies[i])

\* Between two opcodes of a lazy sequence.
Reader ==
  phase = "lazy" =>
    /\ cur.addend = 0 /\ lcur.start <= lcur.p
    /\ last \in {"SET_SEGMENT_AND_OFFSET", "SET_SYMBOL"} =>
         /\ cur.seg = lcur.seg /\ cur.off = lcur.off
         /\ \A i \in DOMAIN lazies : Clear(lazies[i], lcur)
    /\ last = "SET_SYMBOL" => cur.sym = lcur.sym
    /\ \A i \in DOMAIN lazies : /\ lazies[i].offset <= lcur.start
                                /\ last # "DO_BIND" => lazies[i].offset < lcur.start

\* The sequences have offsets of their own and slots of their own.
OwnSequences ==
  \A i, j \in DOMAIN lazies :
    i < j => lazies[i].offset < lazies[j].offset /\ Clear(lazies[i], lazies[j])

\* The slots of the lazy stream once all is bound.
LazyBound(l) ==
  l.seg \in Mapped =>
    /\ l.sym \in DOMAIN forward
    /\ WriteOk(At(l)) => \A x \in Bytes(At(l)) :
         x \in DOMAIN mem /\ mem[x] = <<Pointer(forward[l.sym], 0), x - At(l)>>
AllLazyBound == phase \in {"table", "done"} => \A i \in DOMAIN lazies : LazyBound(lazies[i])

Entry(l) == [sym |-> l.sym, slot |-> At(l)]
Table ==
  phase \in {"table", "done"} =>
    /\ \A i \in 1 .. bound : lazies[i].seg \in Mapped =>
         lazies[i].offset \in DOMAIN lazy_binds /\ lazy_binds[lazies[i].offset] = Entry(lazies[i])
    /\ \A k \in DOMAIN lazy_binds : \E i \in 1 .. bound :
         lazies[i].seg \in Mapped /\ lazy_binds[k] = Entry(lazies[i])

Inv ==
  /\ Typed /\ Stubs /\ Phases /\ AllApplied /\ Pairs /\ Reader /\ OwnSequences /\ AllLazyBound
  /\ Table

LEMMA Lengths ==
  ASSUME Typed
  PROVE  /\ Len(records) \in Nat /\ DOMAIN records = 1 .. Len(records)
         /\ Len(lazies) \in Nat /\ DOMAIN lazies = 1 .. Len(lazies)
         /\ \A i \in DOMAIN records : records[i] \in Cursor
         /\ \A i \in DOMAIN lazies : lazies[i] \in Lazy
         /\ bound \in Nat
BY DEF Typed, TypeOK

LEMMA EmptyTypes == Empty \in Cursor /\ LazyEmpty \in LazyCursor
<1>1. 0 \in 0 .. OffsetWord - 1
  BY BindAssumption
<1> QED BY <1>1 DEF Empty, LazyEmpty, Cursor, LazyCursor

LEMMA InitInv == Init => Inv
<1> SUFFICES ASSUME Init PROVE Inv
  OBVIOUS
<1>1. /\ phase = "eager" /\ records = << >> /\ lazies = << >> /\ bound = 0 /\ lazy_binds = << >>
      /\ nops = 0 /\ cur = Empty /\ lcur = LazyEmpty
      /\ forward = << >> /\ reverse = << >> /\ next = StubBase
  BY DEF Init
<1>2. Typed
  BY <1>1, EmptyTypes, BindAssumption DEF Typed, TypeOK
<1>3. Stubs
  BY <1>1, BindAssumption DEF Stubs
<1>4. Phases /\ AllApplied /\ Pairs /\ Reader /\ OwnSequences /\ AllLazyBound /\ Table
  BY <1>1 DEF Phases, AllApplied, Pairs, Reader, OwnSequences, AllLazyBound, Table
<1> QED BY <1>2, <1>3, <1>4 DEF Inv

-----------------------------------------------------------------------------
(* The steps *)

LEMMA EagerStep ==
  ASSUME Inv, NEW o \in EagerOps, ReadEager(o)
  PROVE  Inv'
<1>0. /\ phase = "eager" /\ nops < MaxEager /\ ParseBind(o) /\ nops' = nops + 1
      /\ UNCHANGED <<phase, lcur, lazies, bound, forward, reverse, next, mem, lazy_binds>>
  BY DEF ReadEager
<1>1. bound = 0
  BY <1>0 DEF Inv, Phases
<1>2. cur' \in Cursor /\ records' \in Seq(Cursor)
  BY <1>0, ParseTypes DEF Inv, Typed, TypeOK
<1>3. nops' \in 0 .. (IF MaxEager < MaxLazy THEN MaxLazy ELSE MaxEager)
  BY <1>0, BindAssumption DEF Inv, Typed, TypeOK
<1>4. Typed'
  <2>1. Len(records') \in Nat /\ \A i \in DOMAIN records' : records'[i] \in Cursor
    BY <1>2
  <2>2. bound' \in 0 .. Len(records')
    BY <1>0, <1>1, <2>1
  <2> QED BY <1>0, <1>2, <1>3, <2>1, <2>2 DEF Inv, Typed, TypeOK
<1>5. Stubs' /\ Phases' /\ OwnSequences'
  BY <1>0 DEF Inv, Stubs, Phases, OwnSequences, Clear, Apart, Target, Overlap, Wrap
<1>6. AllApplied' /\ Pairs' /\ Reader' /\ AllLazyBound' /\ Table'
  BY <1>0 DEF AllApplied, Pairs, Reader, AllLazyBound, Table
<1> QED BY <1>4, <1>5, <1>6 DEF Inv

\* What both readers do with an opcode of the lazy stream.
LEMMA LazyCursors ==
  ASSUME Inv, NEW o \in CommonOps, ReadLazy(o)
  PROVE  /\ lcur' \in LazyCursor /\ cur' \in Cursor /\ cur'.addend = 0
         /\ lcur'.p > lcur.p
         /\ lcur'.start = IF o.op = "DONE" THEN lcur'.p ELSE lcur.start
         /\ o.op = "SET_SEGMENT_AND_OFFSET" =>
              Place(lcur') = o.arg /\ cur'.seg = lcur'.seg /\ cur'.off = lcur'.off
         /\ o.op = "SET_SYMBOL" =>
              /\ lcur'.seg = lcur.seg /\ lcur'.off = lcur.off
              /\ cur'.seg = cur.seg /\ cur'.off = cur.off
              /\ cur'.sym = lcur'.sym
<1>0. phase = "lazy" /\ ParseBind(o) /\ ParseLazy(o)
  BY DEF ReadLazy
<1>1. cur \in Cursor /\ lcur \in LazyCursor /\ records \in Seq(Cursor) /\ cur.addend = 0
  BY <1>0 DEF Inv, Typed, TypeOK, Reader
<1>2. cur' \in Cursor
  BY <1>0, <1>1, CommonIsEager, ParseTypes
<1>3. lcur.p \in Nat /\ lcur.start \in Nat
  BY <1>1 DEF LazyCursor
<1>4. CASE o.op = "DONE"
  <2>0. PICK n \in Nat : n = lcur.p + o.len /\ n > lcur.p
    BY <1>3, <1>4, CommonKinds
  <2>1. lcur' = [lcur EXCEPT !.p = n, !.start = n]
    BY <1>0, <1>4, <2>0 DEF ParseLazy
  <2>4. lcur' \in LazyCursor
    BY <1>1, <2>1 DEF LazyCursor
  <2>5. lcur'.p = n /\ lcur'.start = n
    BY <1>1, <2>1 DEF LazyCursor
  <2>2. \E x : cur' = [cur EXCEPT !.off = x]
    BY <1>0, <1>4 DEF ParseBind
  <2>3. cur'.addend = cur.addend
    BY <1>1, <2>2 DEF Cursor
  <2> QED BY <1>1, <1>2, <1>4, <2>0, <2>3, <2>4, <2>5
<1>5. CASE o.op = "DO_BIND"
  <2>1. o.len = 1 /\ lcur' = [lcur EXCEPT !.p = lcur.p + o.len]
    BY <1>0, <1>5, CommonKinds DEF ParseLazy
  <2>2. \E x : cur' = [cur EXCEPT !.off = x]
    BY <1>0, <1>5 DEF ParseBind
  <2>3. cur'.addend = cur.addend
    BY <1>1, <2>2 DEF Cursor
  <2> QED BY <1>1, <1>2, <1>3, <1>5, <2>1, <2>3 DEF LazyCursor
<1>6. CASE o.op = "SET_SYMBOL"
  <2>0. PICK n \in Nat : n = lcur.p + o.len /\ n > lcur.p
    BY <1>3, <1>6, CommonKinds
  <2>1. lcur' = [lcur EXCEPT !.p = n, !.sym = o.arg[1]] /\ o.arg[1] \in Symbols
    BY <1>0, <1>6, <2>0, CommonKinds DEF ParseLazy
  <2>4. lcur' \in LazyCursor
    BY <1>1, <2>1 DEF LazyCursor
  <2>5. /\ lcur'.p = n /\ lcur'.start = lcur.start /\ lcur'.sym = o.arg[1]
        /\ lcur'.seg = lcur.seg /\ lcur'.off = lcur.off
    BY <1>1, <2>1 DEF LazyCursor
  <2>2. cur' = [cur EXCEPT !.sym = o.arg[1]]
    BY <1>0, <1>6 DEF ParseBind
  <2>3. /\ cur'.addend = cur.addend /\ cur'.seg = cur.seg /\ cur'.off = cur.off
        /\ cur'.sym = o.arg[1]
    BY <1>1, <2>2 DEF Cursor
  <2> QED BY <1>1, <1>2, <1>6, <2>0, <2>3, <2>4, <2>5
<1>7. CASE o.op = "SET_SEGMENT_AND_OFFSET"
  <2>1. PICK g \in Segments, f \in Offsets : o.arg = <<g, f>>
    BY <1>7, CommonKinds
  <2>2. f \in 0 .. OffsetWord - 1
    BY BindAssumption
  <2>0. PICK n \in Nat : n = lcur.p + o.len /\ n > lcur.p
    BY <1>3, <1>7, CommonKinds
  <2>3. lcur' = [lcur EXCEPT !.p = n, !.seg = g, !.off = f]
    BY <1>0, <1>7, <2>0, <2>1 DEF ParseLazy
  <2>4. cur' = [cur EXCEPT !.seg = g, !.off = f]
    BY <1>0, <1>7, <2>1 DEF ParseBind
  <2>5. cur'.addend = cur.addend /\ cur'.seg = g /\ cur'.off = f
    BY <1>1, <2>4 DEF Cursor
  <2>6. /\ lcur'.seg = g /\ lcur'.off = f /\ lcur'.start = lcur.start
        /\ lcur'.p = n
    BY <1>1, <2>3 DEF LazyCursor
  <2>8. lcur' \in LazyCursor
    BY <1>1, <2>2, <2>3 DEF LazyCursor
  <2>7. Place(lcur') = o.arg
    BY <2>1, <2>6 DEF Place
  <2> QED BY <1>1, <1>2, <1>7, <2>0, <2>5, <2>6, <2>7, <2>8
<1> QED BY <1>4, <1>5, <1>6, <1>7, CommonKinds

\* The two lists after an opcode of the lazy stream.
LEMMA LazyLists ==
  ASSUME Inv, NEW o \in CommonOps, ReadLazy(o)
  PROVE  IF o.op = "DO_BIND"
         THEN \E r \in Cursor, l \in Lazy :
                /\ SameBind(r, l) /\ l.offset = lcur.start /\ Place(l) = Place(lcur)
                /\ \A i \in DOMAIN lazies : Clear(lazies[i], l)
                /\ \A i \in DOMAIN lazies : lazies[i].offset < l.offset
                /\ records' = Append(records, r) /\ lazies' = Append(lazies, l)
         ELSE UNCHANGED <<records, lazies>>
<1>0. phase = "lazy" /\ ParseBind(o) /\ ParseLazy(o) /\ LazyShape(o)
  BY DEF ReadLazy
<1>1. cur \in Cursor /\ lcur \in LazyCursor /\ records \in Seq(Cursor) /\ Reader
  BY DEF Inv, Typed, TypeOK
<1>2. records' = IF o.op = "DO_BIND" THEN Append(records, cur) ELSE records
  BY <1>0, <1>1, LazyRecords
<1>3. CASE o.op = "DO_BIND"
  <2>1. last = "SET_SYMBOL"
    BY <1>0, <1>3 DEF LazyShape
  <2>2. PICK l : l = [offset |-> lcur.start, seg |-> lcur.seg, off |-> lcur.off, sym |-> lcur.sym]
    OBVIOUS
  <2>3. lazies' = Append(lazies, l)
    BY <1>0, <1>3, <2>2 DEF ParseLazy
  <2>4. l \in Lazy
    BY <1>1, <2>2 DEF Lazy, LazyCursor
  <2>5. /\ l.offset = lcur.start /\ l.seg = lcur.seg /\ l.off = lcur.off /\ l.sym = lcur.sym
    BY <2>2
  <2>6. SameBind(cur, l)
    BY <1>0, <1>1, <2>1, <2>5 DEF SameBind, Reader
  <2>7. Place(l) = Place(lcur)
    BY <2>5 DEF Place
  <2>8. \A i \in DOMAIN lazies : Clear(lazies[i], l) /\ lazies[i].offset < l.offset
    BY <1>0, <1>1, <2>1, <2>5 DEF Reader, Clear
  <2> QED BY <1>1, <1>2, <1>3, <2>3, <2>4, <2>5, <2>6, <2>7, <2>8
<1>4. CASE o.op # "DO_BIND"
  <2>1. lazies' = lazies
    BY <1>0, <1>4 DEF ParseLazy
  <2> QED BY <1>2, <1>4, <2>1
<1> QED BY <1>3, <1>4

LEMMA LazyStep ==
  ASSUME Inv, NEW o \in CommonOps, ReadLazy(o)
  PROVE  Inv'
<1>0. /\ phase = "lazy" /\ nops < MaxLazy /\ LazyShape(o) /\ nops' = nops + 1 /\ last' = o.op
      /\ UNCHANGED <<phase, bound, forward, reverse, next, mem, lazy_binds>>
      /\ ParseBind(o)
  BY DEF ReadLazy
<1>1. bound = 0 /\ Typed /\ Reader /\ Pairs
  BY <1>0 DEF Inv, Phases
<1>2. /\ lcur' \in LazyCursor /\ cur' \in Cursor /\ cur'.addend = 0
      /\ lcur'.p > lcur.p
      /\ lcur'.start = IF o.op = "DONE" THEN lcur'.p ELSE lcur.start
      /\ o.op = "SET_SEGMENT_AND_OFFSET" =>
           Place(lcur') = o.arg /\ cur'.seg = lcur'.seg /\ cur'.off = lcur'.off
      /\ o.op = "SET_SYMBOL" =>
           /\ lcur'.seg = lcur.seg /\ lcur'.off = lcur.off
           /\ cur'.seg = cur.seg /\ cur'.off = cur.off
           /\ cur'.sym = lcur'.sym
  BY LazyCursors
<1>3. records' \in Seq(Cursor)
  BY <1>0, <1>1, CommonIsEager, ParseTypes DEF Typed, TypeOK
<1>4. /\ Len(lazies) \in Nat /\ DOMAIN lazies = 1 .. Len(lazies)
      /\ Len(records) \in Nat /\ DOMAIN records = 1 .. Len(records)
      /\ \A i \in DOMAIN lazies : lazies[i].offset \in Nat
      /\ Len(records) = Len(lazies)
  <2>1. \A i \in DOMAIN lazies : lazies[i] \in Lazy
    BY <1>1, Lengths
  <2> QED BY <1>0, <1>1, <2>1, Lengths DEF Lazy, Pairs
<1>5. lcur.start \in Nat /\ lcur.p \in Nat /\ lcur'.p \in Nat
  BY <1>1, <1>2 DEF Typed, LazyCursor
<1>6. nops' \in 0 .. (IF MaxEager < MaxLazy THEN MaxLazy ELSE MaxEager)
  BY <1>0, <1>1, BindAssumption DEF Typed, TypeOK
<1>7. ASSUME lazies' \in Seq(Lazy) PROVE Typed'
  <2>1. Len(records') \in Nat /\ \A i \in DOMAIN records' : records'[i] \in Cursor
    BY <1>3
  <2>2. bound' \in 0 .. Len(records')
    BY <1>0, <1>1, <2>1
  <2> QED BY <1>0, <1>1, <1>2, <1>3, <1>6, <1>7, <2>1, <2>2 DEF Typed, TypeOK
<1>8. Stubs'
  BY <1>0 DEF Inv, Stubs
<1>9. Phases' /\ AllApplied' /\ AllLazyBound' /\ Table'
  BY <1>0 DEF Inv, Phases, AllApplied, AllLazyBound, Table
<1>10. CASE o.op = "DO_BIND"
  <2>1. PICK r \in Cursor, l \in Lazy :
                /\ SameBind(r, l) /\ l.offset = lcur.start /\ Place(l) = Place(lcur)
                /\ \A i \in DOMAIN lazies : Clear(lazies[i], l)
                /\ \A i \in DOMAIN lazies : lazies[i].offset < l.offset
                /\ records' = Append(records, r) /\ lazies' = Append(lazies, l)
    BY <1>10, LazyLists
  <2>2. /\ lazies' \in Seq(Lazy) /\ DOMAIN lazies' = 1 .. Len(lazies) + 1
        /\ Len(lazies') = Len(lazies) + 1
        /\ \A i \in DOMAIN lazies : lazies'[i] = lazies[i]
        /\ lazies'[Len(lazies) + 1] = l
    BY <1>1, <2>1, AppendFacts DEF Typed
  <2>3. /\ Len(records') = Len(records) + 1
        /\ \A i \in DOMAIN records : records'[i] = records[i]
        /\ records'[Len(records) + 1] = r
    BY <1>1, <2>1, AppendFacts DEF Typed
  <2>4. \A i \in DOMAIN lazies' : i \in DOMAIN lazies \/ i = Len(lazies) + 1
    BY <1>4, <2>2
  <2>5. Pairs'
    <3>1. ASSUME NEW i \in DOMAIN lazies' PROVE SameBind(records'[i], lazies'[i])
      <4>1. CASE i \in DOMAIN lazies
        <5>1. records'[i] = records[i] /\ lazies'[i] = lazies[i]
          BY <1>4, <2>2, <2>3, <4>1
        <5>2. SameBind(records[i], lazies[i])
          BY <1>0, <1>1, <4>1 DEF Pairs
        <5> QED BY <5>1, <5>2
      <4>2. CASE i = Len(lazies) + 1
        BY <1>4, <2>1, <2>2, <2>3, <4>2
      <4> QED BY <2>4, <4>1, <4>2
    <3> QED BY <1>4, <2>2, <2>3, <3>1 DEF Pairs, SameBind
  <2>6. OwnSequences'
    <3>1. ASSUME NEW i \in DOMAIN lazies', NEW j \in DOMAIN lazies', i < j
          PROVE  lazies'[i].offset < lazies'[j].offset /\ Clear(lazies'[i], lazies'[j])
      <4>1. i \in DOMAIN lazies /\ lazies'[i] = lazies[i]
        BY <1>4, <2>2, <2>4, <3>1
      <4>2. CASE j \in DOMAIN lazies
        BY <2>2, <3>1, <4>1, <4>2 DEF Inv, OwnSequences
      <4>3. CASE j = Len(lazies) + 1
        BY <2>1, <2>2, <4>1, <4>3
      <4> QED BY <2>4, <4>2, <4>3
    <3> QED BY <3>1 DEF OwnSequences, Clear, Apart, Target, Overlap, Wrap
  <2>7. Reader'
    <3>1. lcur'.start = lcur.start /\ lcur'.start <= lcur'.p
      BY <1>0, <1>1, <1>2, <1>5, <1>10 DEF Reader
    <3>2. ASSUME NEW i \in DOMAIN lazies' PROVE lazies'[i].offset <= lcur'.start
      <4>1. CASE i \in DOMAIN lazies
        BY <1>4, <1>5, <2>1, <2>2, <3>1, <4>1
      <4>2. CASE i = Len(lazies) + 1
        BY <1>5, <2>1, <2>2, <3>1, <4>2
      <4> QED BY <2>4, <4>1, <4>2
    <3> QED BY <1>0, <1>2, <1>10, <3>1, <3>2 DEF Reader
  <2> QED BY <1>7, <1>8, <1>9, <2>2, <2>5, <2>6, <2>7 DEF Inv
<1>11. CASE o.op # "DO_BIND"
  <2>1. UNCHANGED <<records, lazies>>
    BY <1>11, LazyLists
  <2>2. Pairs' /\ OwnSequences'
    BY <1>0, <2>1 DEF Inv, Pairs, SameBind, OwnSequences, Clear, Apart, Target, Overlap, Wrap
  <2>3. /\ lcur'.start <= lcur'.p /\ lcur.start <= lcur'.start
        /\ o.op = "DONE" => lcur.start < lcur'.start
    BY <1>0, <1>1, <1>2, <1>5 DEF Reader
  <2>4. ASSUME NEW i \in DOMAIN lazies PROVE lazies[i].offset < lcur'.start
    <3>0. lazies[i].offset \in Nat /\ lazies[i].offset <= lcur.start
      BY <1>0, <1>1, <1>4 DEF Reader
    <3>1. CASE o.op = "DONE"
      BY <1>2, <1>5, <2>3, <3>0, <3>1
    <3>2. CASE o.op # "DONE"
      <4>1. last # "DO_BIND"
        BY <1>0, <1>11, <3>2, CommonKinds DEF LazyShape
      <4>2. lazies[i].offset < lcur.start
        BY <1>0, <1>1, <4>1 DEF Reader
      <4>3. lcur'.start = lcur.start
        BY <1>2, <3>2
      <4> QED BY <4>2, <4>3
    <3> QED BY <3>1, <3>2
  <2>5. CASE o.op = "SET_SEGMENT_AND_OFFSET"
    <3>1. \A i \in DOMAIN lazies : Apart(lazies[i].seg, lazies[i].off, o.arg[1], o.arg[2])
      BY <1>0, <2>5 DEF LazyShape
    <3>4. o.arg[1] = lcur'.seg /\ o.arg[2] = lcur'.off
      <4>1. o.arg = <<lcur'.seg, lcur'.off>>
        BY <1>2, <2>5 DEF Place
      <4> QED BY <4>1
    <3>2. \A i \in DOMAIN lazies : Clear(lazies[i], lcur')
      BY <3>1, <3>4 DEF Clear
    <3>3. Reader'
      BY <1>0, <1>2, <1>4, <1>5, <2>1, <2>3, <2>4, <2>5, <3>2 DEF Reader, Clear, Apart, Target, Overlap, Wrap
    <3> QED BY <1>1, <1>7, <1>8, <1>9, <2>1, <2>2, <3>3 DEF Inv, Typed
  <2>6. CASE o.op = "SET_SYMBOL"
    <3>1. last = "SET_SEGMENT_AND_OFFSET"
      BY <1>0, <2>6 DEF LazyShape
    <3>2. /\ cur'.seg = lcur'.seg /\ cur'.off = lcur'.off
          /\ \A i \in DOMAIN lazies : Clear(lazies[i], lcur')
      BY <1>0, <1>1, <1>2, <2>6, <3>1 DEF Reader, Clear
    <3>3. Reader'
      BY <1>0, <1>2, <1>4, <1>5, <2>1, <2>3, <2>4, <2>6, <3>2 DEF Reader, Clear, Apart, Target, Overlap, Wrap
    <3> QED BY <1>1, <1>7, <1>8, <1>9, <2>1, <2>2, <3>3 DEF Inv, Typed
  <2>7. CASE o.op = "DONE"
    <3>1. Reader'
      BY <1>0, <1>2, <1>4, <1>5, <2>1, <2>3, <2>4, <2>7 DEF Reader
    <3> QED BY <1>1, <1>7, <1>8, <1>9, <2>1, <2>2, <3>1 DEF Inv, Typed
  <2> QED BY <1>11, <2>5, <2>6, <2>7, CommonKinds
<1> QED BY <1>10, <1>11

\* StubResolver::resolve: the tables stay exact, the symbol has a stub and no
\* stub that was handed out moves.
LEMMA ResolveFacts ==
  ASSUME Stubs, NEW sym, Resolve(sym)
  PROVE  /\ Stubs'
         /\ DOMAIN forward' = DOMAIN forward \cup {sym}
         /\ \A s \in DOMAIN forward : forward'[s] = forward[s]
         /\ forward'[sym] \in Nat
<1>0. Stride \in Nat \ {0} /\ StubBase \in Nat
  BY BindAssumption
<1>1. CASE sym \in DOMAIN forward
  <2>1. UNCHANGED <<forward, reverse, next>>
    BY <1>1 DEF Resolve
  <2> QED BY <1>1, <2>1 DEF Stubs
<1>2. CASE sym \notin DOMAIN forward
  <2>1. /\ forward' = Extend(forward, sym, next)
        /\ reverse' = Extend(reverse, next, sym)
        /\ next' = next + Stride
    BY <1>2 DEF Resolve
  <2>2. /\ DOMAIN forward' = DOMAIN forward \cup {sym} /\ forward'[sym] = next
        /\ \A s \in DOMAIN forward : s # sym => forward'[s] = forward[s]
    BY <2>1 DEF Extend
  <2>3. /\ DOMAIN reverse' = DOMAIN reverse \cup {next} /\ reverse'[next] = sym
        /\ \A a \in DOMAIN reverse : a # next => reverse'[a] = reverse[a]
    BY <2>1 DEF Extend
  <2>4. /\ next \in Nat /\ next' \in Nat /\ next < next' /\ next + Stride <= next'
        /\ StubBase <= next'
    BY <1>0, <2>1 DEF Stubs
  <2>5. next \notin DOMAIN reverse
    BY <1>0, <2>4 DEF Stubs
  <2>6. \A s \in DOMAIN forward : forward'[s] = forward[s]
    BY <1>2, <2>2
  <2>7. \A a \in DOMAIN reverse : reverse'[a] = reverse[a]
    BY <2>3, <2>5
  <2>8. StubBase <= next
    BY DEF Stubs
  <2>9. DOMAIN reverse' \subseteq Nat
    BY <2>3, <2>4 DEF Stubs
  <2>10. ASSUME NEW s \in DOMAIN forward'
         PROVE  forward'[s] \in DOMAIN reverse' /\ reverse'[forward'[s]] = s
    BY <2>2, <2>3, <2>6, <2>7 DEF Stubs
  <2>11. ASSUME NEW a \in DOMAIN reverse'
         PROVE  /\ reverse'[a] \in DOMAIN forward' /\ forward'[reverse'[a]] = a
                /\ StubBase <= a /\ a + Stride <= next'
    <3>1. CASE a = next
      BY <2>2, <2>3, <2>4, <2>8, <3>1
    <3>2. CASE a \in DOMAIN reverse
      <4>1. a + Stride <= next /\ a \in Nat /\ StubBase <= a
        BY <3>2 DEF Stubs
      <4>2. a + Stride <= next'
        BY <1>0, <2>4, <4>1
      <4> QED BY <2>2, <2>6, <2>7, <3>2, <4>1, <4>2 DEF Stubs
    <3> QED BY <2>3, <3>1, <3>2
  <2> QED BY <2>2, <2>4, <2>6, <2>9, <2>10, <2>11 DEF Stubs
<1> QED BY <1>1, <1>2

\* A record is applied: its symbol has a stub, the bytes it covers are its own
\* and the others stay.
LEMMA BindEffect ==
  ASSUME Inv, BindRecord
  PROVE  LET r == records[bound + 1] IN
         /\ r \in Cursor /\ Stubs'
         /\ DOMAIN forward \subseteq DOMAIN forward'
         /\ DOMAIN forward' \subseteq DOMAIN forward \cup {r.sym}
         /\ \A s \in DOMAIN forward : forward'[s] = forward[s]
         /\ r.seg \in Mapped => r.sym \in DOMAIN forward'
         /\ \A x : Covers(r, x) => Byte(mem', forward', r, x)
         /\ \A x \in DOMAIN mem : ~ Covers(r, x) => x \in DOMAIN mem' /\ mem'[x] = mem[x]
<1>0. Typed /\ Stubs /\ phase \in {"bindEager", "bindLazy"} /\ bound < Len(records)
  BY DEF Inv, BindRecord
<1>1. PICK r : r = records[bound + 1]
  OBVIOUS
<1>2. r \in Cursor
  BY <1>0, <1>1, Lengths
<1>3. CASE r.seg \in Mapped
  <2>1. /\ Resolve(r.sym)
        /\ mem' = IF WriteOk(At(r)) THEN Stored(mem, At(r), Pointer(forward'[r.sym], r.addend))
                  ELSE mem
    BY <1>1, <1>3 DEF BindRecord, At
  <2>2. /\ Stubs'
        /\ DOMAIN forward' = DOMAIN forward \cup {r.sym}
        /\ \A s \in DOMAIN forward : forward'[s] = forward[s]
    BY <1>0, <2>1, ResolveFacts
  <2>3. CASE WriteOk(At(r))
    <3>1. mem' = Stored(mem, At(r), Pointer(forward'[r.sym], r.addend))
      BY <2>1, <2>3
    <3>2. /\ DOMAIN mem' = DOMAIN mem \cup Bytes(At(r))
          /\ \A x \in Bytes(At(r)) : mem'[x] = <<Pointer(forward'[r.sym], r.addend), x - At(r)>>
          /\ \A x \in DOMAIN mem : x \notin Bytes(At(r)) => mem'[x] = mem[x]
      BY <3>1 DEF Stored
    <3>3. \A x : Covers(r, x) <=> x \in Bytes(At(r))
      BY <1>3, <2>3 DEF Covers, Written, At
    <3> QED BY <1>1, <1>2, <2>2, <3>2, <3>3 DEF Byte
  <2>4. CASE ~ WriteOk(At(r))
    <3>1. \A x : ~ Covers(r, x)
      BY <2>4 DEF Covers, Written, At
    <3> QED BY <1>1, <1>2, <2>1, <2>2, <2>4, <3>1
  <2> QED BY <2>3, <2>4
<1>4. CASE r.seg \notin Mapped
  <2>1. UNCHANGED <<forward, reverse, next, mem>>
    BY <1>1, <1>4 DEF BindRecord
  <2>2. Stubs'
    BY <1>0, <2>1 DEF Stubs
  <2>3. \A x : ~ Covers(r, x)
    BY <1>4 DEF Covers, Written
  <2> QED BY <1>1, <1>2, <1>4, <2>1, <2>2, <2>3
<1> QED BY <1>3, <1>4

LEMMA BindStep ==
  ASSUME Inv, BindRecord
  PROVE  Inv'
<1>0. /\ phase \in {"bindEager", "bindLazy"} /\ bound < Len(records) /\ bound' = bound + 1
      /\ UNCHANGED <<phase, nops, last, cur, records, lcur, lazies, lazy_binds>>
      /\ Typed
  BY DEF Inv, BindRecord
<1>1. PICK r : r = records[bound + 1]
  OBVIOUS
<1>2. /\ r \in Cursor /\ Stubs'
      /\ DOMAIN forward \subseteq DOMAIN forward'
      /\ DOMAIN forward' \subseteq DOMAIN forward \cup {r.sym}
      /\ \A s \in DOMAIN forward : forward'[s] = forward[s]
      /\ r.seg \in Mapped => r.sym \in DOMAIN forward'
      /\ \A x : Covers(r, x) => Byte(mem', forward', r, x)
      /\ \A x \in DOMAIN mem : ~ Covers(r, x) => x \in DOMAIN mem' /\ mem'[x] = mem[x]
  BY <1>1, BindEffect
<1>3. bound \in Nat /\ Len(records) \in Nat /\ DOMAIN records = 1 .. Len(records)
  BY <1>0, Lengths
<1>4. Typed'
  <2>1. bound' \in 0 .. Len(records)
    BY <1>0, <1>3
  <2>2. DOMAIN forward' \subseteq Symbols \cup {NoSymbol}
    BY <1>0, <1>2 DEF Typed, TypeOK, Cursor
  <2> QED BY <1>0, <2>1, <2>2 DEF Typed, TypeOK
<1>5. ASSUME NEW q, NEW x, q.sym \in DOMAIN forward, Byte(mem, forward, q, x), ~ Covers(r, x)
      PROVE  Byte(mem', forward', q, x)
  BY <1>2, <1>5 DEF Byte
<1>6. ASSUME NEW i \in 1 .. bound, Applied(i) PROVE Applied(i)'
  <2>0. PICK q : q = records[i]
    OBVIOUS
  <2> SUFFICES ASSUME q.seg \in Mapped
               PROVE  /\ q.sym \in DOMAIN forward'
                      /\ WriteOk(At(q)) => \A x \in Bytes(At(q)) :
                           \/ \E j \in i + 1 .. bound' : Covers(records[j], x)
                           \/ Byte(mem', forward', q, x)
    BY <1>0, <2>0 DEF Applied, Byte, Covers, Written, At, WriteOk, Target, Wrap, Bytes, Pointer
  <2>1. q.sym \in DOMAIN forward /\ q.sym \in DOMAIN forward'
    BY <1>2, <1>6, <2>0 DEF Applied
  <2>2. ASSUME WriteOk(At(q)), NEW x \in Bytes(At(q))
        PROVE  (\E j \in i + 1 .. bound' : Covers(records[j], x)) \/ Byte(mem', forward', q, x)
    <3>1. (\E j \in i + 1 .. bound : Covers(records[j], x)) \/ Byte(mem, forward, q, x)
      BY <1>6, <2>0, <2>2 DEF Applied
    <3>2. bound + 1 \in i + 1 .. bound' /\ \A j \in i + 1 .. bound : j \in i + 1 .. bound'
      BY <1>0, <1>3
    <3>3. CASE Covers(r, x)
      BY <1>1, <3>2, <3>3
    <3>4. CASE ~ Covers(r, x)
      BY <1>5, <2>1, <3>1, <3>2, <3>4
    <3> QED BY <3>3, <3>4
  <2> QED BY <2>1, <2>2
<1>7. Applied(bound)'
  <2>1. records'[bound'] = r
    BY <1>0, <1>1
  <2>2. \A x \in Bytes(At(r)) : r.seg \in Mapped /\ WriteOk(At(r)) => Byte(mem', forward', r, x)
    BY <1>2 DEF Covers, Written, At
  <2> QED BY <1>2, <2>1, <2>2
          DEF Applied, Byte, At, WriteOk, Target, Wrap, Bytes, Pointer
<1>8. AllApplied'
  <2>1. \A i \in 1 .. bound' : i \in 1 .. bound \/ i = bound'
    BY <1>0, <1>3
  <2>2. \A i \in 1 .. bound : Applied(i)
    BY <1>0 DEF Inv, AllApplied
  <2>3. ASSUME NEW i \in 1 .. bound' PROVE Applied(i)'
    <3>1. CASE i \in 1 .. bound
      BY <1>6, <2>2, <3>1
    <3>2. CASE i = bound'
      BY <1>7, <3>2 DEF Applied, Byte, Covers, Written, At, WriteOk, Target, Wrap, Bytes, Pointer
    <3> QED BY <2>1, <3>1, <3>2
  <2> QED BY <2>3 DEF AllApplied
<1>9. Phases' /\ Pairs' /\ Reader' /\ OwnSequences' /\ AllLazyBound' /\ Table'
  BY <1>0 DEF Inv, Phases, Pairs, SameBind, Reader, OwnSequences, Clear, Apart, Target, Overlap, Wrap,
            AllLazyBound, Table
<1> QED BY <1>2, <1>4, <1>8, <1>9 DEF Inv

LEMMA EndStep ==
  ASSUME Inv, EndStream
  PROVE  Inv'
<1>0. /\ phase \in {"eager", "lazy"}
      /\ phase' = IF phase = "eager" THEN "bindEager" ELSE "bindLazy"
      /\ UNCHANGED <<nops, last, cur, records, lcur, lazies, bound, forward, reverse, next, mem,
                     lazy_binds>>
  BY DEF EndStream
<1>1. bound = 0
  BY <1>0 DEF Inv, Phases
<1>2. Typed'
  BY <1>0 DEF Inv, Typed, TypeOK
<1>3. Stubs' /\ Phases' /\ OwnSequences'
  BY <1>0 DEF Inv, Stubs, Phases, OwnSequences, Clear, Apart, Target, Overlap, Wrap
<1>4. AllApplied'
  BY <1>0, <1>1 DEF AllApplied
<1>5. Pairs'
  BY <1>0 DEF Inv, Pairs, SameBind
<1>6. Reader' /\ AllLazyBound' /\ Table'
  BY <1>0 DEF Reader, AllLazyBound, Table
<1> QED BY <1>2, <1>3, <1>4, <1>5, <1>6 DEF Inv

LEMMA StartLazyStep ==
  ASSUME Inv, StartLazy
  PROVE  Inv'
<1>0. /\ phase = "bindEager" /\ phase' = "lazy" /\ nops' = 0 /\ last' = "DONE" /\ cur' = Empty
      /\ records' = << >> /\ bound' = 0
      /\ UNCHANGED <<lcur, lazies, forward, reverse, next, mem, lazy_binds>>
  BY DEF StartLazy
<1>1. lazies = << >> /\ lcur = LazyEmpty /\ lazy_binds = << >>
  BY <1>0 DEF Inv, Phases
<1>2. Typed'
  <2>1. records' \in Seq(Cursor) /\ Len(records') = 0 /\ DOMAIN records' = {}
    BY <1>0
  <2> QED BY <1>0, <2>1, EmptyTypes, BindAssumption DEF Inv, Typed, TypeOK
<1>3. Stubs'
  BY <1>0 DEF Inv, Stubs
<1>4. Phases' /\ OwnSequences' /\ AllApplied' /\ AllLazyBound' /\ Table'
  BY <1>0, <1>1 DEF Phases, OwnSequences, AllApplied, AllLazyBound, Table
<1>5. Pairs'
  BY <1>0, <1>1 DEF Pairs
<1>6. Reader'
  <2>1. cur'.addend = 0 /\ lcur'.start = 0 /\ lcur'.p = 0 /\ DOMAIN lazies' = {}
    BY <1>0, <1>1 DEF Empty, LazyEmpty
  <2> QED BY <1>0, <2>1 DEF Reader
<1> QED BY <1>2, <1>3, <1>4, <1>5, <1>6 DEF Inv

\* Once the records of the lazy stream are applied, each of its slots holds the
\* stub of its own symbol.
LEMMA StartTableStep ==
  ASSUME Inv, StartTable
  PROVE  Inv'
<1>0. /\ phase = "bindLazy" /\ bound = Len(records) /\ phase' = "table" /\ bound' = 0
      /\ UNCHANGED <<nops, last, cur, records, lcur, lazies, forward, reverse, next, mem,
                     lazy_binds>>
  BY DEF StartTable
<1>1. /\ Typed /\ Len(records) = Len(lazies) /\ lazy_binds = << >>
      /\ \A i \in DOMAIN lazies : SameBind(records[i], lazies[i])
  BY <1>0 DEF Inv, Pairs, Phases
<1>2. Len(lazies) \in Nat /\ DOMAIN lazies = 1 .. Len(lazies)
  BY <1>1, Lengths
<1>3. Typed'
  BY <1>0, <1>1, <1>2 DEF Typed, TypeOK
<1>4. ASSUME NEW i \in DOMAIN lazies PROVE LazyBound(lazies[i])
  <2>0. PICK l : l = lazies[i]
    OBVIOUS
  <2> SUFFICES ASSUME l.seg \in Mapped PROVE LazyBound(l)
    BY <2>0 DEF LazyBound
  <2>1. Applied(i) /\ SameBind(records[i], l)
    BY <1>0, <1>1, <1>2, <2>0 DEF Inv, AllApplied
  <2>2. l.sym \in DOMAIN forward
    BY <2>1 DEF Applied, SameBind
  <2>3. ASSUME WriteOk(At(l)), NEW x \in Bytes(At(l))
        PROVE  x \in DOMAIN mem /\ mem[x] = <<Pointer(forward[l.sym], 0), x - At(l)>>
    <3>1. At(records[i]) = At(l)
      BY <2>1 DEF SameBind, At
    <3>2. (\E j \in i + 1 .. bound : Covers(records[j], x)) \/ Byte(mem, forward, records[i], x)
      BY <2>1, <2>3, <3>1 DEF Applied, SameBind
    <3>3. ASSUME NEW j \in i + 1 .. bound, Covers(records[j], x) PROVE FALSE
      <4>1. j \in DOMAIN lazies /\ i < j
        BY <1>0, <1>1, <1>2
      <4>2. SameBind(records[j], lazies[j]) /\ Clear(l, lazies[j])
        BY <1>1, <2>0, <4>1 DEF Inv, OwnSequences
      <4>3. lazies[j].seg \in Mapped /\ x \in Bytes(At(lazies[j]))
        BY <3>3, <4>2 DEF SameBind, Covers, Written, At
      <4>4. ~ Overlap(At(l), At(lazies[j]))
        BY <4>2, <4>3 DEF Clear, Apart, At
      <4>5. At(l) \in Nat /\ At(lazies[j]) \in Nat
        <5>1. lazies[j] \in Lazy /\ l \in Lazy
          BY <1>1, <2>0, <4>1, Lengths
        <5> QED BY <4>3, <5>1, TargetType DEF Lazy, At
      <4> QED BY <2>3, <4>3, <4>4, <4>5, BindAssumption DEF Bytes, Overlap
    <3> QED BY <2>1, <3>1, <3>2, <3>3 DEF Byte, SameBind
  <2> QED BY <2>2, <2>3 DEF LazyBound
<1>5. AllLazyBound'
  BY <1>0, <1>4 DEF AllLazyBound, LazyBound, At, WriteOk, Target, Wrap, Bytes, Pointer
<1>6. Stubs' /\ OwnSequences'
  BY <1>0 DEF Inv, Stubs, OwnSequences, Clear, Apart, Target, Overlap, Wrap
<1>7. Phases' /\ AllApplied' /\ Pairs' /\ Reader'
  BY <1>0 DEF Phases, AllApplied, Pairs, Reader
<1>8. Table'
  BY <1>0, <1>1 DEF Table
<1> QED BY <1>3, <1>5, <1>6, <1>7, <1>8 DEF Inv

\* Each mapped LazyBind is entered under the offset of its own sequence.
LEMMA TableStep ==
  ASSUME Inv, TableEntry
  PROVE  Inv'
<1>0. /\ phase = "table" /\ bound < Len(lazies) /\ bound' = bound + 1
      /\ UNCHANGED <<phase, nops, last, cur, records, lcur, lazies, forward, reverse, next, mem>>
      /\ Typed /\ Table
  BY DEF Inv, TableEntry
<1>1. PICK l : l = lazies[bound + 1]
  OBVIOUS
<1>2. lazy_binds' = IF l.seg \in Mapped THEN Extend(lazy_binds, l.offset, Entry(l)) ELSE lazy_binds
  BY <1>1 DEF TableEntry, Entry, At
<1>3. bound \in Nat /\ Len(lazies) \in Nat /\ DOMAIN lazies = 1 .. Len(lazies)
  BY <1>0, Lengths
<1>4. /\ \A i \in 1 .. bound' : i \in 1 .. bound \/ i = bound + 1
      /\ \A i \in 1 .. bound : i \in 1 .. bound' /\ i \in DOMAIN lazies /\ i < bound + 1
      /\ bound + 1 \in 1 .. bound' /\ bound + 1 \in DOMAIN lazies
  BY <1>0, <1>3
<1>5. /\ DOMAIN lazy_binds \subseteq DOMAIN lazy_binds'
      /\ \A k \in DOMAIN lazy_binds : k # l.offset => lazy_binds'[k] = lazy_binds[k]
      /\ \A k \in DOMAIN lazy_binds' :
           k \in DOMAIN lazy_binds \/ (k = l.offset /\ l.seg \in Mapped)
      /\ l.seg \in Mapped => l.offset \in DOMAIN lazy_binds' /\ lazy_binds'[l.offset] = Entry(l)
      /\ l.seg \notin Mapped => lazy_binds' = lazy_binds
  BY <1>2 DEF Extend
<1>6. \A i \in 1 .. bound : lazies[i].offset # l.offset
  <2>1. ASSUME NEW i \in 1 .. bound PROVE lazies[i].offset # l.offset
    <3>1. lazies[i].offset < l.offset
      BY <1>1, <1>4 DEF Inv, OwnSequences
    <3>2. lazies[i] \in Lazy /\ l \in Lazy
      BY <1>0, <1>1, <1>4, Lengths
    <3>3. lazies[i].offset \in Nat /\ l.offset \in Nat
      BY <3>2 DEF Lazy
    <3> QED BY <3>1, <3>3
  <2> QED BY <2>1
<1>7. ASSUME NEW i \in 1 .. bound', lazies[i].seg \in Mapped
      PROVE  /\ lazies[i].offset \in DOMAIN lazy_binds'
             /\ lazy_binds'[lazies[i].offset] = Entry(lazies[i])
  <2>1. CASE i \in 1 .. bound
    <3>1. /\ lazies[i].offset \in DOMAIN lazy_binds
          /\ lazy_binds[lazies[i].offset] = Entry(lazies[i])
      BY <1>0, <1>7, <2>1 DEF Table
    <3> QED BY <1>5, <1>6, <2>1, <3>1
  <2>2. CASE i = bound + 1
    BY <1>1, <1>5, <1>7, <2>2
  <2> QED BY <1>4, <2>1, <2>2
<1>8. ASSUME NEW k \in DOMAIN lazy_binds'
      PROVE  \E i \in 1 .. bound' :
               lazies[i].seg \in Mapped /\ lazy_binds'[k] = Entry(lazies[i])
  <2>1. CASE k = l.offset /\ l.seg \in Mapped
    BY <1>1, <1>4, <1>5, <2>1
  <2>2. CASE ~ (k = l.offset /\ l.seg \in Mapped)
    <3>1. k \in DOMAIN lazy_binds /\ lazy_binds'[k] = lazy_binds[k]
      BY <1>5, <2>2
    <3>2. PICK i \in 1 .. bound :
            lazies[i].seg \in Mapped /\ lazy_binds[k] = Entry(lazies[i])
      BY <1>0, <3>1 DEF Table
    <3> QED BY <1>4, <3>1, <3>2
  <2> QED BY <2>1, <2>2
<1>9. Table'
  BY <1>0, <1>7, <1>8 DEF Table, Entry, At, Target, Wrap
<1>10. Typed'
  <2>1. bound' \in 0 .. Len(lazies)
    BY <1>0, <1>3
  <2> QED BY <1>0, <2>1 DEF Typed, TypeOK
<1>11. Stubs' /\ OwnSequences'
  BY <1>0 DEF Inv, Stubs, OwnSequences, Clear, Apart, Target, Overlap, Wrap
<1>12. AllLazyBound'
  BY <1>0 DEF Inv, AllLazyBound, LazyBound, At, WriteOk, Target, Wrap, Bytes, Pointer
<1>13. Phases' /\ AllApplied' /\ Pairs' /\ Reader'
  BY <1>0 DEF Phases, AllApplied, Pairs, Reader
<1> QED BY <1>9, <1>10, <1>11, <1>12, <1>13 DEF Inv

LEMMA FinishStep ==
  ASSUME Inv, Finish
  PROVE  Inv'
<1>0. /\ phase = "table" /\ bound = Len(lazies) /\ phase' = "done"
      /\ UNCHANGED <<nops, last, cur, records, lcur, lazies, bound, forward, reverse, next, mem,
                     lazy_binds>>
  BY DEF Finish
<1>1. Typed'
  BY <1>0 DEF Inv, Typed, TypeOK
<1>2. Stubs' /\ OwnSequences'
  BY <1>0 DEF Inv, Stubs, OwnSequences, Clear, Apart, Target, Overlap, Wrap
<1>3. AllLazyBound'
  BY <1>0 DEF Inv, AllLazyBound, LazyBound, At, WriteOk, Target, Wrap, Bytes, Pointer
<1>4. Table'
  BY <1>0 DEF Inv, Table, Entry, At, Target, Wrap
<1>5. Phases' /\ AllApplied' /\ Pairs' /\ Reader'
  BY <1>0 DEF Phases, AllApplied, Pairs, Reader
<1> QED BY <1>1, <1>2, <1>3, <1>4, <1>5 DEF Inv

LEMMA NextInv == Inv /\ [Next]_vars => Inv'
<1> SUFFICES ASSUME Inv, [Next]_vars PROVE Inv'
  OBVIOUS
<1>1. CASE UNCHANGED vars
  <2>0. UNCHANGED <<phase, nops, last, cur, records, lcur, lazies, bound, forward, reverse, next,
                    mem, lazy_binds>>
    BY <1>1 DEF vars
  <2>1. Typed'
    BY <2>0 DEF Inv, Typed, TypeOK
  <2>2. Stubs' /\ Phases' /\ OwnSequences' /\ Pairs' /\ Reader'
    BY <2>0 DEF Inv, Stubs, Phases, OwnSequences, Pairs, SameBind, Reader, Clear, Apart, Target, Overlap, Wrap
  <2>3. AllApplied'
    BY <2>0 DEF Inv, AllApplied, Applied, Byte, Covers, Written, At, WriteOk, Target, Wrap, Bytes, Pointer
  <2>4. AllLazyBound' /\ Table'
    BY <2>0 DEF Inv, AllLazyBound, LazyBound, Table, Entry, At, WriteOk, Target, Wrap, Bytes, Pointer
  <2> QED BY <2>1, <2>2, <2>3, <2>4 DEF Inv
<1> QED BY <1>1, EagerStep, LazyStep, EndStep, BindStep, StartLazyStep, StartTableStep, TableStep,
           FinishStep DEF Next

LEMMA Invariance == Spec => []Inv
BY InitInv, NextInv, PTL DEF Spec

-----------------------------------------------------------------------------
(* The results *)

\* StubResolver gives each symbol one stub, the executor's reverse table undoes
\* the forward one, and every stub lies in the bytes that used() reports, for any
\* number of imports and records.
THEOREM StubsExact == Spec => []StubTableExact
<1>1. Inv => StubTableExact
  BY DEF Inv, Typed, Stubs, StubTableExact
<1> QED BY <1>1, Invariance, PTL

\* Whatever the streams name, overlapping slots and offsets that leave their
\* segment included: the bytes that binding wrote are those of the last record
\* that covers them, and the stubs in them do not move.
THEOREM SlotsAreBound == Spec => []SlotsHoldStubs
<1>1. ASSUME Inv PROVE SlotsHoldStubs
  <2> SUFFICES ASSUME phase \in {"bindEager", "bindLazy"}, NEW i \in 1 .. bound,
                      Written(records[i]), NEW x \in Bytes(At(records[i]))
               PROVE  (\E j \in i + 1 .. bound : Covers(records[j], x))
                      \/ Byte(mem, forward, records[i], x)
    BY DEF SlotsHoldStubs, Covers, Byte, At
  <2>1. Applied(i)
    BY <1>1 DEF Inv, AllApplied
  <2> QED BY <2>1 DEF Applied, Written, At
<1> QED BY <1>1, Invariance, PTL

\* dyld_stub_binder finds each lazy import under the offset of its own sequence,
\* its symbol has a stub, and the slot it would patch already holds that stub.
THEOREM LazyTableIsExact == Spec => []LazyTableExact
<1>1. ASSUME Inv PROVE LazyTableExact
  <2> SUFFICES ASSUME phase = "done" PROVE LazyTableExact
    BY DEF LazyTableExact
  <2>1. Typed /\ bound = Len(lazies) /\ Table /\ AllLazyBound
    BY <1>1 DEF Inv, Phases
  <2>2. DOMAIN lazies = 1 .. bound
    BY <2>1, Lengths
  <2>3. ASSUME NEW k \in DOMAIN lazy_binds PROVE lazy_binds[k].sym \in DOMAIN forward
    <3>1. PICK i \in 1 .. bound : lazies[i].seg \in Mapped /\ lazy_binds[k] = Entry(lazies[i])
      BY <2>1 DEF Table
    <3>2. lazies[i].sym \in DOMAIN forward
      BY <2>1, <2>2, <3>1 DEF AllLazyBound, LazyBound
    <3> QED BY <3>1, <3>2 DEF Entry
  <2>4. ASSUME NEW i \in DOMAIN lazies, lazies[i].seg \in Mapped
        PROVE  LET entry == [sym |-> lazies[i].sym, slot |-> Target(lazies[i].seg, lazies[i].off)] IN
               /\ lazies[i].offset \in DOMAIN lazy_binds
               /\ lazy_binds[lazies[i].offset] = entry
               /\ WriteOk(entry.slot) => \A x \in Bytes(entry.slot) :
                    x \in DOMAIN mem /\ mem[x] = <<Pointer(forward[entry.sym], 0), x - entry.slot>>
    <3>1. /\ lazies[i].offset \in DOMAIN lazy_binds
          /\ lazy_binds[lazies[i].offset] = Entry(lazies[i])
      BY <2>1, <2>2, <2>4 DEF Table
    <3>2. LazyBound(lazies[i])
      BY <2>1, <2>4 DEF AllLazyBound
    <3> QED BY <2>4, <3>1, <3>2 DEF Entry, At, LazyBound
  <2> QED BY <2>3, <2>4 DEF LazyTableExact
<1> QED BY <1>1, Invariance, PTL
=============================================================================
