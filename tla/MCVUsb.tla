------------------------------- MODULE MCVUsb -------------------------------
(* VUsb with the requests of the adapter: SET_REG, GET_REG, GET_VERSION    *)
(* (one full block) and the device descriptor (two blocks and a rest).     *)
EXTENDS VUsb

SetReg == [cmd |-> "set", reply |-> 0, wLength |-> 0]
GetReg == [cmd |-> "get", reply |-> 1, wLength |-> 1]
GetVersion == [cmd |-> "const", reply |-> 8, wLength |-> 8]
GetDescriptor == [cmd |-> "const", reply |-> 18, wLength |-> 64]

AllRequests == {SetReg, GetReg, GetVersion, GetDescriptor}
=============================================================================
