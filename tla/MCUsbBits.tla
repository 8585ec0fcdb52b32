----------------------------- MODULE MCUsbBits -----------------------------
(* Tokens and data packets; bytes with ones at every place, and two bytes  *)
(* of data with two of CRC in room for four or five.                       *)
EXTENDS UsbBits

BitsOf(n) == {k \in 0..7 : (n \div 2^k) % 2 = 1}

MCPids == {BitsOf(n) : n \in {195, 75, 225}}
MCBytes == {BitsOf(n) : n \in {0, 63, 126, 252, 255}}
MCHistory == {{}, 0..7}
=============================================================================
