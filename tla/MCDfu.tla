------------------------------- MODULE MCDfu -------------------------------
(* Dfu with something else, an adapter and two bootloaders on the bus, one *)
(* of them of another chip.                                                *)
EXTENDS Dfu

Dev(kind, ours) == [kind |-> kind, ours |-> ours]
Bus == <<Dev("other", FALSE), Dev("dfu", TRUE), Dev("epp", FALSE), Dev("dfu", TRUE),
         Dev("dfu", FALSE)>>
=============================================================================
