--------------------------- MODULE MCObjcRuntime ---------------------------
(* ObjcRuntime on a heap of nine words at 4, room for four objects and a block
   of one word, and a pointer to the stack. *)
EXTENDS ObjcRuntime
=============================================================================
