------------------------------- MODULE MCLd32 -------------------------------
(* Ld32 with all bytes. *)
EXTENDS Ld32

AllBytes == 0..255
=============================================================================
