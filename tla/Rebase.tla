------------------------------- MODULE Rebase -------------------------------
(***************************************************************************)
(* parse_rebase_info (crates/loader/src/dyld/rebase.rs): the opcodes of a  *)
(* rebase stream, decoded into the pointer slots to slide.                 *)
(*                                                                         *)
(* Abstraction.  A stream is the sequence of its opcodes with their        *)
(* operands; a byte that is no opcode, or a truncated operand, is the      *)
(* opcode "unknown".  Offsets count pointers.                              *)
(***************************************************************************)
EXTENDS Integers, Sequences

CONSTANT Word       \* offsets wrap at Word

REBASE_TYPE_POINTER == 1
Ptr == 1

\* Opcode op with its operands.
Op(op, a, b) == [op |-> op, a |-> a, b |-> b]
Opcode == [op : STRING, a : Nat, b : Nat]

Start == [ok |-> TRUE, seg |-> 1, off |-> 0, rtype |-> REBASE_TYPE_POINTER, out |-> << >>]

AddAddr(st, n) == [st EXCEPT !.off = (@ + n) % Word]

\* Mutant: only the skip, not the pointer itself, moves the offset.
Emit_SkipOnly(st, times, skip) ==
  AddAddr([st EXCEPT !.out = @ \o [i \in 1 .. times |->
             [seg |-> st.seg, off |-> (st.off + (i - 1) * skip) % Word, rtype |-> st.rtype]]],
          times * skip)
\* times locations, each a pointer and a skip behind the one before.
Emit(st, times, skip) ==
  AddAddr([st EXCEPT !.out = @ \o [i \in 1 .. times |->
             [seg |-> st.seg, off |-> (st.off + (i - 1) * (Ptr + skip)) % Word,
              rtype |-> st.rtype]]],
          times * (Ptr + skip))

Decode(st, o) ==
  CASE ~ st.ok \/ o.op = "DONE" -> st
    [] st.ok /\ o.op = "SET_TYPE_IMM" -> [st EXCEPT !.rtype = o.a]
    [] st.ok /\ o.op = "SET_SEGMENT_AND_OFFSET_ULEB" -> [st EXCEPT !.seg = o.a, !.off = o.b]
    [] st.ok /\ o.op = "ADD_ADDR_ULEB" -> AddAddr(st, o.a)
    [] st.ok /\ o.op = "ADD_ADDR_IMM_SCALED" -> AddAddr(st, o.a * Ptr)
    [] st.ok /\ o.op \in {"DO_REBASE_IMM_TIMES", "DO_REBASE_ULEB_TIMES"} -> Emit(st, o.a, 0)
    [] st.ok /\ o.op = "DO_REBASE_ADD_ADDR_ULEB" -> Emit(st, 1, o.a)
    [] st.ok /\ o.op = "DO_REBASE_ULEB_TIMES_SKIPPING_ULEB" -> Emit(st, o.a, o.b)
    [] OTHER -> [st EXCEPT !.ok = FALSE]

\* What the loop holds after each opcode.
Decoded(stream) ==
  LET decoded[k \in 0 .. Len(stream)] ==
        IF k = 0 THEN Start ELSE Decode(decoded[k - 1], stream[k])
  IN  decoded

\* ok, and the locations in out.
ParseRebaseInfo(stream) == Decoded(stream)[Len(stream)]
=============================================================================
