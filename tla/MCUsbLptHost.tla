---------------------------- MODULE MCUsbLptHost ----------------------------
(* UsbLptHost with an adapter of version 1 (this repository's firmware) or *)
(* version 3 (bulk pipes; answering control requests as well or not).      *)
EXTENDS UsbLptHost

V1 == [implementation |-> 0, control |-> TRUE, bulk |-> FALSE]
V3(control) == [implementation |-> 2, control |-> control, bulk |-> TRUE]

OnlyV1 == {V1}
OnlyV3 == {V3(TRUE), V3(FALSE)}
AllDevices == OnlyV1 \cup OnlyV3
=============================================================================
