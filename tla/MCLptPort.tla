----------------------------- MODULE MCLptPort -----------------------------
(* LptPort with one data byte, four control bytes and one poll.           *)
EXTENDS LptPort

MCDataBytes == {{7}}

(* All pins released; data strobe held low with the write line; address    *)
(* strobe held low; input direction; every bit set.                        *)
MCControlBytes == {{2}, {0, 1, 2, 5}, {2, 3}, 0..7}
=============================================================================
