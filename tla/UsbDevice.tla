------------------------------ MODULE UsbDevice ------------------------------
(***************************************************************************)
(* The life of the adapter on the bus: attached, reset, enumerated,        *)
(* configured, used. The requests the driver answers itself                *)
(* (usbDriverSetup of usbdrv.c), those of main.c (usbFunctionSetup), the   *)
(* address the interrupt handler filters tokens by, and what a bus reset   *)
(* or a watchdog reset leaves of it all. A step of the handler is one      *)
(* transaction; its interleaving with usbPoll within one is in VUsb. The   *)
(* host is external.                                                       *)
(***************************************************************************)
EXTENDS Integers, Sequences

CONSTANTS
  Address,     \* what the host assigns
  Script,      \* the requests a host enumerates with
  Vendor,      \* the requests made of a configured device
  MaxRequests, \* bound on these
  MaxFaults,   \* bound on lost packets, requests given up, watchdog resets
  MaxResets,   \* bound on bus resets no failure calls for, and on requests
               \* made again without one
  MaxTries,    \* times the host repeats a transaction nobody answered
  ResetPolls   \* calls of usbPoll a bus reset (10 ms) lasts at least

NO_MSG == 255

StandardRequests ==
  {"GET_STATUS", "CLEAR_FEATURE", "SET_FEATURE", "SET_ADDRESS", "GET_DESCRIPTOR",
   "GET_CONFIGURATION", "SET_CONFIGURATION", "GET_INTERFACE", "SET_INTERFACE"}
VendorRequests ==
  {"GET_MS_DESCRIPTOR", "USBLPT_GET_VERSION", "USBLPT_SET_MODE", "USBLPT_SET_REG",
   "USBLPT_GET_REG"}

Word == {n \in Nat : n < 65536}

(* The registers main.c numbers: PSTAT, and ADDSTR and DATASTR, of which a *)
(* write or a read is an EPP cycle.                                        *)
StatusRegister == 1
EppRegisters == {3, 4}

(* Control transfers. *)
RequestType == [type : {"standard", "vendor", "class"},
                bRequest : StandardRequests \cup VendorRequests \cup {"other"},
                wValue : Word, wIndex : Word, wLength : Word]

Requests == {Script[i] : i \in 1..Len(Script)} \cup Vendor

(* The address is set while the device is enumerated; the library reads a  *)
(* register by a request of its own, with room for the answer. A bus reset *)
(* lasts more than one pass of the main loop.                              *)
ASSUME DeviceAssumption ==
  /\ Address \in 1..127
  /\ Script \in Seq(RequestType) /\ Vendor \subseteq RequestType
  /\ \A r \in Requests :
       /\ r.bRequest = "SET_ADDRESS" =>
            r.type = "standard" /\ r.wLength = 0 /\ r \notin Vendor
       /\ r.bRequest = "USBLPT_GET_REG" => r.type = "vendor" /\ r.wLength > 0
  /\ MaxRequests \in Nat /\ MaxFaults \in Nat /\ MaxResets \in Nat
  /\ MaxTries \in Nat /\ ResetPolls \in Nat /\ ResetPolls >= 2

VARIABLES
  \* driver
  usbDeviceAddr, usbNewDeviceAddr, usbConfiguration,
  rx,          \* the SETUP to process, or None
  tx,          \* the block to send, or NAK
  toggle,      \* the data toggle of the transmit buffer: 0 DATA0, 1 DATA1
  usbMsgLen, usbMsgPtr,
  pc,          \* where usbPoll is
  \* main.c and lpt.c
  IoByte,      \* TRUE: a status register with the time-out bit set
  PSTAT,       \* its time-out bit
  \* host
  phase, step, request, hostAddr, got, tries, requests, polls,
  \* history
  owed,        \* a time-out of an EPP cycle the host has not been told of
  faulted,     \* a fault has hit a read of the status register
  missed,      \* a block the device sent for this request was lost
  faults, resets

driver == <<usbDeviceAddr, usbNewDeviceAddr, usbConfiguration, rx, tx, toggle,
            usbMsgLen, usbMsgPtr, pc>>
registers == <<IoByte, PSTAT>>
host == <<phase, step, request, hostAddr, got, tries, requests>>
vars == <<driver, registers, host, polls, owed, faulted, missed, faults, resets>>

None == [type |-> "none"]
NAK == [of |-> "none", off |-> 0, len |-> 90, val |-> 0]
Lower(a, b) == IF a < b THEN a ELSE b

(* main up to its loop: everything a reset of the chip sets back.          *)
PowerUp ==
  /\ usbDeviceAddr' = 0 /\ usbNewDeviceAddr' = 0 /\ usbConfiguration' = 0
  /\ rx' = None /\ tx' = NAK /\ toggle' = 0 /\ usbMsgLen' = NO_MSG
  /\ usbMsgPtr' = [of |-> "none", off |-> 0] /\ pc' = "rx"
  /\ IoByte' = FALSE /\ PSTAT' = FALSE

Init ==
  /\ usbDeviceAddr = 0 /\ usbNewDeviceAddr = 0 /\ usbConfiguration = 0
  /\ rx = None /\ tx = NAK /\ toggle = 0 /\ usbMsgLen = NO_MSG
  /\ usbMsgPtr = [of |-> "none", off |-> 0] /\ pc = "rx"
  /\ IoByte = FALSE /\ PSTAT = FALSE
  /\ phase = "off" /\ step = 1 /\ request = None /\ hostAddr = 0
  /\ got = <<>> /\ tries = 0 /\ requests = 0 /\ polls = 0
  /\ owed = FALSE /\ faulted = FALSE /\ missed = FALSE /\ faults = 0 /\ resets = 0

-----------------------------------------------------------------------------
(* What a request is answered with: its source and its length.             *)

Const(of, len) == [of |-> of, len |-> len]

(* usbDriverDescriptor, by the descriptor type in the high byte of wValue; *)
(* a string by its index in the low one, 0xEE being the OS string.         *)
Descriptor(value) ==
  CASE value \div 256 = 1 -> Const("device", 18)
    [] value \div 256 = 2 -> Const("configuration", 18)
    [] value = 768 -> Const("language", 4)
    [] value = 769 -> Const("vendor", 22)
    [] value = 770 -> Const("product", 24)
    [] value = 771 -> Const("serial", 6)
    [] value = 768 + 238 -> Const("os", 18)
    [] OTHER -> Const("none", 0)

DriverReply(rq) ==
  CASE rq.bRequest = "GET_STATUS" -> Const("zero", 2)
    [] rq.bRequest = "GET_DESCRIPTOR" -> Descriptor(rq.wValue)
    [] rq.bRequest = "GET_CONFIGURATION" -> Const("usbConfiguration", 1)
    [] rq.bRequest = "GET_INTERFACE" -> Const("zero", 1)
    [] OTHER -> Const("none", 0)

(* A request of another type is answered with nothing, not refused.        *)
FunctionReply(rq) ==
  CASE rq.type # "vendor" -> Const("none", 0)
    [] rq.bRequest = "GET_MS_DESCRIPTOR" /\ rq.wIndex = 4 -> Const("ms", 40)
    [] rq.bRequest = "USBLPT_GET_VERSION" -> Const("version", 8)
    [] rq.bRequest = "USBLPT_GET_REG" -> Const("IoByte", 1)
    [] OTHER -> Const("none", 0)

Reply(rq) == IF rq.type = "standard" THEN DriverReply(rq) ELSE FunctionReply(rq)

\* Mutant: a time-out is kept until the next cycle only.
CycleAssigned(expired) == PSTAT' = expired

Cycle(expired) == PSTAT' = (PSTAT \/ expired)

GetsRegister(rq) == rq.type = "vendor" /\ rq.bRequest = "USBLPT_GET_REG"

TellsTimeout(rq) == GetsRegister(rq) /\ rq.wValue = StatusRegister

RunsCycle(rq) ==
  /\ rq.type = "vendor" /\ rq.bRequest \in {"USBLPT_SET_REG", "USBLPT_GET_REG"}
  /\ rq.wValue \in EppRegisters

(* LPT_SetReg and LPT_GetReg on a strobe register run an EPP cycle, which  *)
(* may time out; LPT_GetReg on PSTAT clears the bit it returns.            *)
SetupRegisters(rq) ==
  /\ \/ RunsCycle(rq) /\ \E expired \in BOOLEAN : /\ Cycle(expired)
                                                  /\ owed' = (owed \/ expired)
     \/ TellsTimeout(rq) /\ PSTAT' = FALSE /\ UNCHANGED owed
     \/ ~RunsCycle(rq) /\ ~TellsTimeout(rq) /\ UNCHANGED <<PSTAT, owed>>
  /\ IoByte' = IF GetsRegister(rq) THEN TellsTimeout(rq) /\ PSTAT ELSE IoByte

IsStandard(name) == rx.type = "standard" /\ rx.bRequest = name

\* Mutant: the toggle goes on from the reply before.
ToggleOn == UNCHANGED toggle

FirstToggle == toggle' = 0

(* usbProcessRx: abort the pending transmit, handle the request, limit the *)
(* reply to wLength. The toggle is flipped before the first block.         *)
ProcessRx ==
  /\ pc = "rx" /\ rx # None
  /\ tx' = NAK /\ FirstToggle
  /\ usbMsgLen' = Lower(Reply(rx).len, rx.wLength)
  /\ usbMsgPtr' = [of |-> Reply(rx).of, off |-> 0]
  /\ usbNewDeviceAddr' = IF IsStandard("SET_ADDRESS") THEN rx.wValue
                         ELSE usbNewDeviceAddr
  /\ usbConfiguration' = IF IsStandard("SET_CONFIGURATION") THEN rx.wValue
                         ELSE usbConfiguration
  /\ SetupRegisters(rx)
  /\ rx' = None /\ pc' = "tx"
  /\ UNCHANGED <<usbDeviceAddr, host, polls, faulted, missed, faults, resets>>

NothingReceived ==
  /\ pc = "rx" /\ rx = None /\ pc' = "tx"
  /\ UNCHANGED <<usbDeviceAddr, usbNewDeviceAddr, usbConfiguration, rx, tx, toggle,
                 usbMsgLen, usbMsgPtr, registers, host, polls, owed, faulted, missed,
                 faults, resets>>

Value(of) == CASE of = "usbConfiguration" -> usbConfiguration
               [] of = "IoByte" -> IF IoByte THEN 1 ELSE 0
               [] OTHER -> 0

WantLen == Lower(usbMsgLen, 8)

(* usbBuildTxBlock, when the last block has gone and one is left.          *)
BuildTx ==
  /\ pc = "tx" /\ pc' = "line"
  /\ IF tx = NAK /\ usbMsgLen # NO_MSG
     THEN LET len == WantLen IN
          /\ tx' = [of |-> IF len = 0 THEN "none" ELSE usbMsgPtr.of,
                    off |-> IF len = 0 THEN 0 ELSE usbMsgPtr.off, len |-> len,
                    val |-> IF len = 0 THEN 0 ELSE Value(usbMsgPtr.of)]
          /\ toggle' = 1 - toggle
          /\ usbMsgPtr' = [usbMsgPtr EXCEPT !.off = @ + len]
          /\ usbMsgLen' = IF len < 8 THEN NO_MSG ELSE usbMsgLen - len
     ELSE UNCHANGED <<tx, toggle, usbMsgPtr, usbMsgLen>>
  /\ UNCHANGED <<usbDeviceAddr, usbNewDeviceAddr, usbConfiguration, rx,
                 registers, host, polls, owed, faulted, missed, faults, resets>>

\* Mutant: an address that waits for its status stage survives.
ResetDeviceAddr == usbDeviceAddr' = 0 /\ UNCHANGED usbNewDeviceAddr

ResetAddresses == usbDeviceAddr' = 0 /\ usbNewDeviceAddr' = 0

(* The end of usbPoll: on a long SE0 both addresses are set back. What is  *)
(* received, to be sent, and the configuration stay.                       *)
CheckLine ==
  /\ pc = "line" /\ pc' = "rx"
  /\ IF phase = "reset"
     THEN /\ ResetAddresses
          /\ polls' = Lower(polls + 1, ResetPolls)
     ELSE UNCHANGED <<usbDeviceAddr, usbNewDeviceAddr, polls>>
  /\ UNCHANGED <<usbConfiguration, rx, tx, toggle, usbMsgLen, usbMsgPtr, registers,
                 host, owed, faulted, missed, faults, resets>>

usbPoll == ProcessRx \/ NothingReceived \/ BuildTx \/ CheckLine

-----------------------------------------------------------------------------
(* The interrupt handler in a transaction with the host's address.         *)

HandlerFrame == UNCHANGED <<usbConfiguration, toggle, usbMsgLen, usbMsgPtr, pc, registers>>

Silent == UNCHANGED driver /\ UNCHANGED registers

Heard == usbDeviceAddr = hostAddr

(* handleData after a SETUP token. *)
Store(rq) ==
  /\ Heard /\ rx = None
  /\ rx' = rq
  /\ UNCHANGED <<usbDeviceAddr, usbNewDeviceAddr, tx>> /\ HandlerFrame

\* Mutant: the new address is never taken over.
KeepAddress == UNCHANGED usbDeviceAddr

TakeAddress == usbDeviceAddr' = usbNewDeviceAddr

(* handleIn and usbSendAndReti: every data packet takes the new address    *)
(* over, "set address only after data packet was sent". A block is gone    *)
(* once it is sent, whether it arrives or not.                             *)
SendBlock ==
  /\ Heard /\ rx = None /\ tx # NAK
  /\ tx' = NAK /\ TakeAddress
  /\ UNCHANGED <<usbNewDeviceAddr, rx>> /\ HandlerFrame

-----------------------------------------------------------------------------
(* The host. *)

ReadsStatus == TellsTimeout(request)

Fault ==
  /\ faults < MaxFaults /\ faults' = faults + 1
  /\ faulted' = (faulted \/ ReadsStatus)
  /\ UNCHANGED owed
NoFault == UNCHANGED <<faults, faulted, owed>>

HostFrame == UNCHANGED <<request, requests, polls, resets>>
Configured == step > Len(Script)

(* A request that fails during enumeration has the port reset, or, to set  *)
(* the address, is made again; on a configured device the library returns. *)
Fail ==
  /\ phase' = IF Configured THEN "idle" ELSE "failed"
  /\ got' = <<>> /\ tries' = 0
  /\ UNCHANGED <<step, hostAddr>>

Retry ==
  IF tries + 1 < MaxTries
  THEN tries' = tries + 1 /\ UNCHANGED <<phase, step, hostAddr, got>>
  ELSE Fail

Succeed ==
  /\ phase' = "idle" /\ tries' = 0
  /\ step' = IF Configured THEN step ELSE step + 1
  /\ hostAddr' = IF request.bRequest = "SET_ADDRESS" THEN request.wValue
                 ELSE hostAddr

Start ==
  /\ phase = "idle" /\ phase' = "setup" /\ got' = <<>> /\ missed' = FALSE
  /\ IF Configured
     THEN /\ requests < MaxRequests /\ requests' = requests + 1
          /\ request' \in Vendor
     ELSE request' = Script[step] /\ UNCHANGED requests
  /\ Silent /\ NoFault
  /\ UNCHANGED <<step, hostAddr, tries, polls, resets>>

Setup ==
  /\ phase = "setup"
  /\ \/ /\ Store(request)
        /\ \/ /\ NoFault /\ tries' = 0
              /\ phase' = IF request.wLength > 0 THEN "in" ELSE "statusIn"
              /\ UNCHANGED <<step, hostAddr, got>>
           \/ Fault /\ Retry
     \/ Silent /\ Fault /\ Retry
     \/ (~Heard \/ rx # None) /\ Silent /\ NoFault /\ Retry
  /\ HostFrame /\ UNCHANGED missed

(* The first block is a DATA1, from then on they take turns; one that is   *)
(* out of turn repeats one the host has, so it is acknowledged and dropped.*)
InTurn == toggle = (Len(got) + 1) % 2

TakeBlock ==
  \/ /\ InTurn /\ phase = "statusIn" /\ UNCHANGED got
     /\ \/ tx.len = 0 /\ Succeed
        \/ tx.len > 0 /\ Fail
  \/ /\ InTurn /\ phase = "in" /\ got' = Append(got, tx) /\ tries' = 0
     /\ phase' = IF \/ tx.len < 8
                    \/ 8 * Len(got) + tx.len >= request.wLength
                 THEN "statusOut" ELSE "in"
     /\ UNCHANGED <<step, hostAddr>>
  \/ ~InTurn /\ tries' = 0 /\ UNCHANGED <<phase, step, hostAddr, got>>

(* The block arrives or is lost, and is not sent again: the host asks for  *)
(* one and is sent the next, or, after the last, refused until it gives up.*)
In ==
  /\ phase \in {"in", "statusIn"}
  /\ \/ SendBlock /\ NoFault /\ TakeBlock /\ UNCHANGED missed
     \/ SendBlock /\ Fault /\ Retry /\ missed' = TRUE
     \/ Silent /\ Fault /\ Retry /\ UNCHANGED missed
     \/ ~Heard /\ Silent /\ NoFault /\ Retry /\ UNCHANGED missed
     \/ /\ rx = None /\ tx = NAK /\ usbMsgLen = NO_MSG
        /\ Silent /\ NoFault /\ Fail /\ UNCHANGED missed
  /\ HostFrame

(* A read of the status register tells of the time-outs.                   *)
StatusOut ==
  /\ phase = "statusOut"
  /\ \/ /\ Heard /\ rx = None /\ Succeed
        /\ owed' = (owed /\ ~(ReadsStatus /\ got[1].val = 1))
        /\ UNCHANGED <<got, faults, faulted>>
     \/ Fault /\ Retry
     \/ ~Heard /\ NoFault /\ Retry
  /\ Silent /\ HostFrame /\ UNCHANGED missed

Again ==
  /\ phase = "failed" /\ request.bRequest = "SET_ADDRESS"
  /\ resets < MaxResets /\ resets' = resets + 1
  /\ phase' = "setup" /\ missed' = FALSE
  /\ UNCHANGED <<step, request, hostAddr, got, tries, requests, polls>>
  /\ Silent /\ NoFault

GiveUp ==
  /\ phase \notin {"off", "reset", "idle", "failed"}
  /\ Fault /\ Fail /\ Silent /\ HostFrame /\ UNCHANGED missed

ResetBus ==
  /\ phase' = "reset" /\ polls' = 0 /\ tries' = 0
  /\ request' = None /\ got' = <<>>
  /\ UNCHANGED <<step, hostAddr, requests, missed>>
  /\ Silent

(* The device is attached, or a request has failed.                        *)
Recover == phase \in {"off", "failed"} /\ ResetBus /\ NoFault /\ UNCHANGED resets

(* Some hosts reset the port again after the first packet of the first     *)
(* descriptor, and any host may when it likes.                             *)
ResetAnyTime ==
  /\ phase \notin {"off", "reset"} /\ resets < MaxResets
  /\ resets' = resets + 1
  /\ faulted' = (faulted \/ ReadsStatus)
  /\ ResetBus /\ UNCHANGED <<faults, owed>>

EndReset ==
  /\ phase = "reset" /\ polls = ResetPolls
  /\ phase' = "idle" /\ step' = 1 /\ hostAddr' = 0
  /\ Silent /\ NoFault /\ HostFrame /\ UNCHANGED <<got, tries, missed>>

(* The watchdog resets the chip; main disconnects it from the bus for a    *)
(* quarter of a second, and the host notices.                              *)
Watchdog ==
  /\ phase # "off"
  /\ faults < MaxFaults /\ faults' = faults + 1
  /\ faulted' = TRUE /\ UNCHANGED owed
  /\ PowerUp
  /\ phase' = "off" /\ request' = None /\ got' = <<>> /\ tries' = 0
  /\ step' = 1 /\ hostAddr' = 0
  /\ UNCHANGED <<requests, polls, resets, missed>>

HostWorks == \/ ~Configured /\ Start
             \/ Setup \/ In \/ StatusOut \/ Recover \/ EndReset

Next == \/ usbPoll \/ Start \/ Setup \/ In \/ StatusOut \/ Again \/ GiveUp
        \/ Recover \/ ResetAnyTime \/ EndReset \/ Watchdog

(* The main loop runs, the host goes on with what it has begun; nothing    *)
(* has to fail for it.                                                     *)
Spec == /\ Init /\ [][Next]_vars
        /\ WF_vars(usbPoll) /\ WF_vars(HostWorks /\ UNCHANGED faults)

-----------------------------------------------------------------------------
(* Properties. *)

Addresses == {0, Address}

(* Between two requests the device answers to the address the host uses,   *)
(* and none waits to replace it: whatever was lost, repeated or reset.     *)
HostInStep ==
  phase = "idle" => usbDeviceAddr = hostAddr /\ usbNewDeviceAddr = hostAddr

Total(rq) == Lower(Reply(rq).len, rq.wLength)

(* Block n of what the driver sends for a request; the last is shorter     *)
(* than eight bytes, if need be empty.                                     *)
Block(rq, n) ==
  LET len == Lower(Total(rq) - 8 * (n - 1), 8)
  IN [of |-> IF len = 0 THEN "none" ELSE Reply(rq).of,
      off |-> IF len = 0 THEN 0 ELSE 8 * (n - 1), len |-> len]

Sent(rq) == {Block(rq, n) : n \in 1..(Total(rq) \div 8 + 1)}

(* The blocks a request should be answered with: the empty one only if     *)
(* there is room for more.                                                 *)
Expected(rq) ==
  LET total == Total(rq)
      count == IF total % 8 = 0 /\ (total = 0 \/ total < rq.wLength)
               THEN total \div 8 + 1 ELSE (total + 7) \div 8
  IN [n \in 1..count |-> Block(rq, n)]

Part(block) == [of |-> block.of, off |-> block.off, len |-> block.len]

(* A request that has succeeded was answered with blocks of its own reply  *)
(* only, also when a reset left some of an earlier one behind, and with    *)
(* all of them in their order, also when one was lost: then the transfer   *)
(* fails. Not so with replies of sixteen bytes or more, which are sent in  *)
(* at least three blocks: after a lost one the host drops the next for its *)
(* toggle and takes the third for the lost one; it may be handed the       *)
(* rest, or nothing at all, as the whole reply.                            *)
FreshReply ==
  phase = "idle" /\ got # <<>> =>
    /\ \A k \in 1..Len(got) : Part(got[k]) \in Sent(request)
    /\ \/ [k \in 1..Len(got) |-> Part(got[k])] = Expected(request)
       \/ missed /\ Total(request) >= 16

(* A time-out of the EPP port is in the register, or on its way to the     *)
(* host, until the host knows of it; only a fault that hits the read, or a *)
(* reset of the chip, loses it.                                            *)
TimeoutReported ==
  owed /\ ~faulted =>
    \/ PSTAT
    \/ ReadsStatus /\ IoByte /\ phase \in {"in", "statusIn", "statusOut"}

(* The host configures the device again after whatever happened.           *)
EventuallyConfigured == []<>Configured
=============================================================================
