---------------------------- MODULE MCMachOImage ----------------------------
(* Lengths around the sizes of the header and of the largest commands, and two
   places for a slice, one of them past the end of the shorter files. *)
EXTENDS MachOImage

Places == {[off |-> 1, size |-> 12], [off |-> 12, size |-> 40]}
=============================================================================
