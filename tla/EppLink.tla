------------------------------ MODULE EppLink ------------------------------
(***************************************************************************)
(* LptPort with an EPP device at the other end of the cable. The device is *)
(* external: its actions are the half of the handshake EppWrite and        *)
(* EppRead wait for. It raises nBUSY (WAIT#) some time after it sees a     *)
(* strobe low, lowers it some time after both strobes are high again, and  *)
(* drives the data lines while a strobe is low and the write line is high. *)
(* It is held idle while RESET is low. It may be slower than the wait loop.*)
(***************************************************************************)
EXTENDS LptPort

(* In EPP mode the host leaves the strobes to the cycles.                  *)
ASSUME LinkAssumption == \A value \in ControlBytes : value \cap {1, 3} = {}

VARIABLES
  seen,   \* the last transfer the device took part in
  moved   \* whether it took part in one during the current call

linkVars == <<vars, seen, moved>>

StrobeLow == ~pin["nLINE_FEED"] \/ ~pin["nSELECT_PRINTER"]

DeviceDrives == pin["RESET"] /\ StrobeLow /\ pin["nSTROBE"]

LinkInit ==
  /\ Init
  /\ ~nBUSY
  /\ seen = [kind |-> "none"]
  /\ moved = FALSE

LinkCall == Calls /\ moved' = (moved /\ pc' = "idle") /\ UNCHANGED seen

LinkContinue == Continue /\ UNCHANGED <<seen, moved>>

DeviceAccepts ==
  /\ pin["RESET"] /\ StrobeLow /\ ~nBUSY
  /\ nBUSY' = TRUE
  /\ moved' = TRUE
  /\ seen' = [kind |-> IF pin["nSTROBE"] THEN "read" ELSE "write",
              reg |-> IF pin["nLINE_FEED"] THEN "ADDSTR" ELSE "DATASTR",
              val |-> IF pin["nSTROBE"] THEN ext ELSE DataGet]
  /\ UNCHANGED <<registers, outputs, ext, locals>>

(* It goes back to ready, with another byte to offer. *)
DeviceReleases ==
  /\ nBUSY
  /\ ~StrobeLow \/ ~pin["RESET"]
  /\ nBUSY' = FALSE
  /\ ext' \in DataBytes
  /\ UNCHANGED <<registers, outputs, locals, seen, moved>>

Device == DeviceAccepts \/ DeviceReleases

LinkNext == LinkCall \/ LinkContinue \/ Device

LinkSpec ==
  /\ LinkInit /\ [][LinkNext]_linkVars
  /\ WF_linkVars(LinkContinue)
  /\ WF_linkVars(DeviceReleases)

-----------------------------------------------------------------------------
(* Properties. *)

(* The adapter and the device never drive the data lines at once, except   *)
(* during the first PCON write after power-up: it raises RESET while       *)
(* nSELECT_PRINTER still has its power-up level, low, so for two           *)
(* instructions the device sees an address read. *)
NoContention ==
  ddr = "out" /\ DeviceDrives => pc = "cSelect"

(* A strobe that falls falls with the device ready for it: the nBUSY check *)
(* at the head of EppWrite and EppRead keeps a cycle from starting on top  *)
(* of the one the device has not finished, so that a strobe edge the       *)
(* device is not waiting for never happens.                                *)
StrobeFindsReady ==
  [][ pin["RESET"] /\ ~StrobeLow /\ StrobeLow' => ~nBUSY ]_linkVars

(* Every cycle lets the device go back to ready, even if calls keep coming.*)
DeviceReleased == nBUSY ~> ~nBUSY

(* The calls keep the promise of EppTransfer. *)
InCall ==
  CASE pc \in WritePCs   -> [kind |-> "write", reg |-> reg, val |-> arg]
    [] pc \in ReadPCs    -> [kind |-> "read", reg |-> reg]
    [] pc \in ControlPCs -> [kind |-> "control"]
    [] OTHER             -> [kind |-> "none"]

Transfer == INSTANCE EppTransfer
  WITH Value <- Byte, Register <- Strobes,
       request <- InCall,
       outcome <- IF pc # "idle" THEN "pending"
                  ELSE IF success THEN "ok" ELSE "failed",
       answer <- IF pc = "idle" THEN ret ELSE {}

ImplementsTransfer == Transfer!Spec
=============================================================================
