-------------------------------- MODULE Dfu --------------------------------
(***************************************************************************)
(* Listing adapters and updating their firmware on the way (UsbLptLib.c,   *)
(* UsbLpt_GetList and below, UsbLpt_OpenAuto). A device that presents      *)
(* itself as "Virtual EPP DFU" is erased, loaded block by block with up to *)
(* three tries each, finalized and reset; after a pass that met one, the   *)
(* library waits and lists again. The bootloader is external: it starts    *)
(* the firmware only if finalize found it whole. Nothing in the library    *)
(* empties a pipe: an answer that was not read is there until the device   *)
(* starts anew, also when it has been closed and opened again.             *)
(***************************************************************************)
EXTENDS Integers, Sequences, FiniteSets

CONSTANTS
  Devices,       \* what is plugged in, see DeviceType; a sequence
  DevicesMax,    \* room in the list of the caller
  FirmwareSize, BlockSize,
  MaxTryCount,   \* max_try_count, 3 in the code
  MaxFaults,     \* bound on failed transfers, missing and slow devices
  MaxRest        \* bound on the answers behind the rest of one

(* The tests of UsbLpt_GetListInternal and UsbLpt_FirmwareUpdate sort the  *)
(* devices into: other ones; adapters ("epp"); bootloaders ("dfu"), whose  *)
(* chip is the one the firmware in the library is for, or not.             *)
DeviceType == [kind : {"other", "epp", "dfu"}, ours : BOOLEAN]

ASSUME DfuAssumption ==
  /\ Devices \in Seq(DeviceType)
  /\ \A n \in {FirmwareSize, BlockSize, MaxTryCount} : n \in Nat \ {0}
  /\ {DevicesMax, MaxFaults, MaxRest} \subseteq Nat

VARIABLES
  dev,      \* per device: kind, or "reboot"; bytes in flash; finalized
  late,     \* per device: answers in the pipe that nobody has read
  misread,  \* the last open read its version from a pipe with such answers
  pc, i,    \* what GetListInternal does, and for which device
  firmware_offset, try,
  updated,  \* what UsbLpt_FirmwareUpdate returned, or "none"
  devices,  \* the list: the devices of devices[0 .. *devices_used - 1]
  dfu_happens, pass,
  opened,   \* what UsbLpt_OpenAuto returned, 0 for NULL
  faults

progress == <<firmware_offset, try, updated>>
list == <<devices, dfu_happens, pass>>
pipe == <<late, misread>>
vars == <<dev, pipe, pc, i, progress, list, opened, faults>>

Slots == 1..Len(Devices)
Image == 0..(FirmwareSize - 1)
Min2(a, b) == IF a < b THEN a ELSE b

Init ==
  /\ dev = [d \in Slots |-> [kind |-> Devices[d].kind, flash |-> {}, final |-> FALSE]]
  /\ late = [d \in Slots |-> <<>>] /\ misread = FALSE /\ pc = "idle" /\ i = 1
  /\ firmware_offset = 0 /\ try = 0 /\ updated = "none"
  /\ devices = <<>> /\ dfu_happens = FALSE /\ pass = 0
  /\ opened = 0 /\ faults = 0

Fault == faults < MaxFaults /\ faults' = faults + 1
NoFault == UNCHANGED faults

-----------------------------------------------------------------------------
(* UsbLpt_GetList. *)

BeginPass(n) ==
  /\ pass' = n /\ i' = 1 /\ pc' = "scan"
  /\ devices' = <<>> /\ dfu_happens' = FALSE
  /\ UNCHANGED <<progress, opened>>

GetList ==
  /\ pc = "idle"
  /\ BeginPass(1)
  /\ UNCHANGED <<dev, pipe, faults>>

(* The device list cannot be had: *devices_used stays 0 and the call goes  *)
(* on as if no device were there.                                          *)
NoDevices ==
  /\ pc = "scan" /\ i = 1 /\ Fault
  /\ i' = Len(Devices) + 1
  /\ UNCHANGED <<dev, pipe, pc, progress, list, opened>>

InLoop == i <= Len(Devices) /\ Len(devices) < DevicesMax

(* A device that is missing, is not an adapter or does not open. *)
Skip ==
  /\ pc = "scan" /\ InLoop
  /\ IF dev[i].kind \in {"epp", "dfu"} THEN Fault ELSE NoFault
  /\ i' = i + 1
  /\ UNCHANGED <<dev, pipe, pc, progress, list, opened>>

List ==
  /\ pc = "scan" /\ InLoop /\ dev[i].kind = "epp"
  /\ devices' = Append(devices, i)
  /\ i' = i + 1
  /\ UNCHANGED <<dev, pipe, pc, progress, dfu_happens, pass, opened, faults>>

(* The version request of UsbLpt_Open goes by control transfer or over the *)
(* pipes, as malloc left no_special_endpoint. Over the pipes it takes the  *)
(* answer that is next, which may be the version asked for earlier, and is *)
(* checked for its size only.                                              *)
Versions == Append(late[i], "version")

(* A bootloader opens, and is checked to be ours. *)
Update ==
  /\ pc = "scan" /\ InLoop /\ dev[i].kind = "dfu"
  /\ \/ misread' = FALSE /\ UNCHANGED late
     \/ /\ Head(Versions) = "version"
        /\ late' = [late EXCEPT ![i] = Tail(Versions)]
        /\ misread' = (late[i] # <<>>)
  /\ firmware_offset' = 0 /\ try' = 0
  /\ IF Devices[i].ours THEN pc' = "erase" /\ updated' = "none"
                        ELSE pc' = "close" /\ updated' = "no"
  /\ UNCHANGED <<dev, i, list, opened, faults>>

(* It does not: an answer of another size is found, or the version is not  *)
(* read, and in both cases stays in the pipe.                              *)
Refuse ==
  /\ pc = "scan" /\ InLoop /\ dev[i].kind = "dfu"
  /\ \/ NoFault /\ Head(Versions) # "version" /\ late' = [late EXCEPT ![i] = Tail(Versions)]
     \/ Fault /\ late' = [late EXCEPT ![i] = Versions]
  /\ misread' = (late[i] # <<>>)
  /\ i' = i + 1
  /\ UNCHANGED <<dev, pc, progress, list, opened>>

-----------------------------------------------------------------------------
(* UsbLpt_FirmwareUpdate: one step per command over the bulk pipes.        *)

Chunk(offset) == offset..(offset + Min2(FirmwareSize - offset, BlockSize) - 1)

(* What the bootloader does with a command, and its result.                *)
Executed(d, cmd) ==
  CASE cmd = "erase" -> [d EXCEPT !.flash = {}, !.final = FALSE]
    [] cmd = "block" -> [d EXCEPT !.flash = @ \cup Chunk(firmware_offset)]
    [] cmd = "finalize" -> IF d.flash = Image THEN [d EXCEPT !.final = TRUE]
                                              ELSE [d EXCEPT !.final = FALSE]

Result(d, cmd) == IF cmd = "finalize" /\ d.flash # Image THEN "error" ELSE "success"

(* One byte of the oldest answer is read, and ok tells whether it is 0. A  *)
(* version does not begin with one; WinUSB may keep the rest of it for the *)
(* next reads of this handle.                                              *)
Reads(answers, ok) ==
  LET a == Head(answers) IN
  /\ a = "success" => ok
  /\ a \in {"error", "version"} => ~ok
  /\ \/ late' = [late EXCEPT ![i] = Tail(answers)]
     \/ /\ a \in {"version", "rest"} /\ Len(answers) <= MaxRest
        /\ late' = [late EXCEPT ![i] = [answers EXCEPT ![1] = "rest"]]

(* The write, the execution and the read of a command; ok is what the host *)
(* makes of it.                                                            *)
Command(cmd, ok) ==
  LET results == Append(late[i], Result(dev[i], cmd)) IN
  /\ UNCHANGED misread
  /\ \/ /\ NoFault
        /\ dev' = [dev EXCEPT ![i] = Executed(@, cmd)]
        /\ Reads(results, ok)
     \/ /\ Fault /\ ~ok                                  \* not sent
        /\ UNCHANGED <<dev, late>>
     \/ /\ Fault                                         \* sent, not executed
        /\ Reads(Append(late[i], "error"), ok)
        /\ UNCHANGED dev
     \/ /\ Fault /\ ~ok                                  \* result not read
        /\ dev' = [dev EXCEPT ![i] = Executed(@, cmd)]
        /\ UNCHANGED late \/ late' = [late EXCEPT ![i] = results]

Fail == pc' = "close" /\ updated' = "no" /\ UNCHANGED <<firmware_offset, try>>

Erase ==
  /\ pc = "erase"
  /\ \E ok \in BOOLEAN :
       /\ Command("erase", ok)
       /\ IF ok THEN pc' = "block" /\ UNCHANGED progress ELSE Fail
  /\ UNCHANGED <<i, list, opened>>

SendFirmware ==
  /\ pc = "block"
  /\ \E ok \in BOOLEAN :
       /\ Command("block", ok)
       /\ \/ /\ ok
             /\ firmware_offset' = firmware_offset + BlockSize /\ try' = 0
             /\ pc' = IF firmware_offset' < FirmwareSize THEN "block" ELSE "finalize"
             /\ UNCHANGED updated
          \/ /\ ~ok /\ try + 1 < MaxTryCount
             /\ try' = try + 1 /\ UNCHANGED <<pc, firmware_offset, updated>>
          \/ ~ok /\ try + 1 = MaxTryCount /\ Fail
  /\ UNCHANGED <<i, list, opened>>

\* Mutant: the result of finalize is not looked at.
FinalizeUnchecked ==
  /\ pc = "finalize"
  /\ \E ok \in BOOLEAN : Command("finalize", ok)
  /\ pc' = "reset" /\ UNCHANGED progress
  /\ UNCHANGED <<i, list, opened>>

Finalize ==
  /\ pc = "finalize"
  /\ \E ok \in BOOLEAN :
       /\ Command("finalize", ok)
       /\ IF ok THEN pc' = "reset" /\ UNCHANGED progress ELSE Fail
  /\ UNCHANGED <<i, list, opened>>

\* Mutant: the device is not reset.
ResetForgotten ==
  /\ pc = "reset" /\ pc' = "close" /\ updated' = "yes"
  /\ UNCHANGED <<dev, pipe, i, firmware_offset, try, list, opened, faults>>

(* UsbLpt_Reset has no answer; one that failed may have been executed.     *)
Reset ==
  /\ pc = "reset"
  /\ pc' = "close"
  /\ \/ /\ NoFault /\ updated' = "yes"
        /\ dev' = [dev EXCEPT ![i].kind = "reboot"]
     \/ /\ Fault /\ updated' = "no"
        /\ UNCHANGED dev \/ dev' = [dev EXCEPT ![i].kind = "reboot"]
  /\ UNCHANGED <<pipe, i, firmware_offset, try, list, opened>>

(* With the handle goes what WinUSB has kept for it.                       *)
Unbuffered(answers) ==
  IF answers # <<>> /\ Head(answers) = "rest" THEN Tail(answers) ELSE answers

\* Mutant: only an update that succeeded is remembered.
CloseIfUpdated ==
  /\ pc = "close"
  /\ dfu_happens' = (updated = "yes")
  /\ i' = i + 1 /\ pc' = "scan" /\ updated' = "none"
  /\ late' = [late EXCEPT ![i] = Unbuffered(@)]
  /\ UNCHANGED <<dev, misread, firmware_offset, try, devices, pass, opened, faults>>

(* The result of the update is ignored. *)
CloseUpdated ==
  /\ pc = "close"
  /\ dfu_happens' = TRUE
  /\ i' = i + 1 /\ pc' = "scan" /\ updated' = "none"
  /\ late' = [late EXCEPT ![i] = Unbuffered(@)]
  /\ UNCHANGED <<dev, misread, firmware_offset, try, devices, pass, opened, faults>>

-----------------------------------------------------------------------------

Reboot(d) == IF d.kind # "reboot" THEN d
             ELSE [d EXCEPT !.kind = IF d.final THEN "epp" ELSE "dfu"]

(* Devices that have been reset are back, with nothing in their pipes.     *)
Rebooted ==
  /\ dev' = [d \in Slots |-> Reboot(dev[d])]
  /\ late' = [d \in Slots |-> IF dev[d].kind = "reboot" THEN <<>> ELSE late[d]]
  /\ UNCHANGED misread

(* Sleep(5000): they may also take longer.                                 *)
ListAgain ==
  /\ pc = "scan" /\ ~InLoop /\ dfu_happens /\ pass = 1
  /\ \/ NoFault /\ Rebooted
     \/ Fault /\ UNCHANGED <<dev, pipe>>
  /\ BeginPass(2)

Done ==
  /\ pc = "scan" /\ ~InLoop
  /\ dfu_happens => pass = 2
  /\ pc' = "done"
  /\ UNCHANGED <<dev, pipe, i, progress, list, opened, faults>>

(* UsbLpt_OpenAuto: the only device, or the one picked in the dialog, or   *)
(* none; a device may also not open. Slow devices are back by now.         *)
OpenAuto ==
  /\ pc = "done"
  /\ pc' = "idle"
  /\ \/ NoFault /\ Len(devices) = 1 /\ opened' = devices[1]
     \/ NoFault /\ Len(devices) > 1 /\ opened' \in {devices[n] : n \in 1..Len(devices)}
     \/ NoFault /\ Len(devices) # 1 /\ opened' = 0
     \/ Fault /\ devices # <<>> /\ opened' = 0
  /\ Rebooted
  /\ UNCHANGED <<i, progress, list>>

Steps == \/ NoDevices \/ Skip \/ List \/ Update \/ Refuse
         \/ Erase \/ SendFirmware \/ Finalize \/ Reset \/ CloseUpdated
         \/ ListAgain \/ Done \/ OpenAuto

Next == GetList \/ Steps

(* A call of the library runs to its end. *)
Spec == Init /\ [][Next]_vars /\ WF_vars(Steps)

-----------------------------------------------------------------------------
(* Properties. *)

(* Types; the list fits the caller's array and holds devices that are      *)
(* there, of which UsbLpt_OpenAuto opens one.                              *)
TypeOK ==
  /\ dev \in [Slots -> [kind : {"other", "epp", "dfu", "reboot"},
                        flash : SUBSET Image, final : BOOLEAN]]
  /\ late \in [Slots -> Seq({"success", "error", "version", "rest"})]
  /\ misread \in BOOLEAN
  /\ pc \in {"idle", "scan", "erase", "block", "finalize", "reset", "close", "done"}
  /\ i \in 1..(Len(Devices) + 1) /\ pass \in 0..2
  /\ firmware_offset \in Nat /\ try \in 0..(MaxTryCount - 1)
  /\ updated \in {"none", "yes", "no"} /\ dfu_happens \in BOOLEAN
  /\ devices \in Seq(Slots) /\ Len(devices) <= DevicesMax
  /\ opened \in {0} \cup Slots

(* A bootloader is told to finalize only when it has the whole image, and  *)
(* an update that reports success has left it there, finalized: no block   *)
(* is passed over, however often the ones before it were tried, unless an  *)
(* answer has been left in the pipe since the device started, and results  *)
(* are read for those of later commands (UsbLpt_DFU_LoadFirmware,          *)
(* UsbLpt_FirmwareUpdate).                                                 *)
SuccessIsComplete ==
  i \in Slots /\ late[i] = <<>> =>
    /\ pc = "finalize" => dev[i].flash = Image
    /\ pc = "close" /\ updated = "yes" => dev[i].flash = Image /\ dev[i].final

Adapters == {d \in Slots : Devices[d].kind = "epp"
                            \/ (Devices[d].kind = "dfu" /\ Devices[d].ours)}

(* When nothing fails, one call is enough: every adapter that can be       *)
(* listed is, the updated ones included, if the list has room for them.    *)
OneCallListsAll ==
  pc = "done" /\ faults = 0 /\ Cardinality(Adapters) <= DevicesMax
    => \A d \in Adapters : \E n \in 1..Len(devices) : devices[n] = d

(* A failed update is not final: the device is still in its bootloader and *)
(* the next call tries again. If the program keeps listing, and there is   *)
(* room in the list, every bootloader of ours ends up running the          *)
(* firmware, also when results have been left in its pipe, unless the      *)
(* version is asked for through such a pipe over and over: then the device *)
(* is refused, or its erase fails, for ever.                               *)
RetriedUntilDone ==
  []<>(pc = "scan") /\ <>[]~misread /\ DevicesMax >= Cardinality(Adapters)
    => <>(\A d \in Adapters : dev[d].kind = "epp")
=============================================================================
