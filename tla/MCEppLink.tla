----------------------------- MODULE MCEppLink -----------------------------
(* EppLink with two data bytes, three control bytes and one poll.          *)
EXTENDS EppLink

MCDataBytes == {{}, {7}}

(* RESET low; ready for EPP, with the write line low; the same with the    *)
(* write line high and the direction bit set.                              *)
MCControlBytes == {{}, {0, 2}, {2, 5}}
=============================================================================
