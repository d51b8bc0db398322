--------------------------- MODULE MCMimallocTest ---------------------------
(* An instance of MimallocTest for TLC: the program, the C library, the     *)
(* helper, and two plugins that are loaded later; one image has no symbol    *)
(* table, one cannot be written.                                            *)
EXTENDS MimallocTest

Whole == [dladdr |-> TRUE, symtab |-> TRUE, dysymtab |-> TRUE, linkedit |-> TRUE, indirect |-> TRUE]

MCImages ==
  [m \in {"exe", "libc", "helper", "plugin", "sealed"} |->
     IF m = "helper" THEN [Whole EXCEPT !.symtab = FALSE] ELSE Whole]

Slot(m, seg, t, s) == [image |-> m, segment |-> seg, type |-> t, symbol |-> s]

MCSlots ==
  {Slot("exe", "__DATA", "lazy", "malloc"), Slot("exe", "__DATA_CONST", "non_lazy", "malloc"),
   Slot("exe", "__DATA", "lazy", "free"), Slot("exe", "__DATA", "lazy", "rand"),
   Slot("exe", "__DATA", "regular", "LOCAL"),
   Slot("libc", "__DATA", "lazy", "malloc"), Slot("libc", "__DATA_CONST", "non_lazy", "x"),
   Slot("helper", "__DATA", "lazy", "free"),
   Slot("sealed", "__DATA_CONST", "non_lazy", "free"),
   Slot("plugin", "__DATA", "lazy", "malloc"), Slot("plugin", "__AUTH_CONST", "non_lazy", "rand")}

MCInterposed == [s \in {"rand"} |-> "my_rand"]

To(s, h) == [name |-> s, replacement |-> h]
MCArguments ==
  {<<To("rand", "exe_rand"), To("malloc", "exe_malloc"), To("free", "exe_free")>>,
   <<To("malloc", "exe_malloc")>>}
=============================================================================
