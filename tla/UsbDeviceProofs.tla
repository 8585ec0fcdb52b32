--------------------------- MODULE UsbDeviceProofs ---------------------------
(***************************************************************************)
(* UsbDevice, for any enumeration, requests and address, and any number of *)
(* lost packets, repetitions, bus and watchdog resets.                     *)
(***************************************************************************)
EXTENDS UsbDevice, TLAPS

Phases == {"off", "reset", "idle", "setup", "in", "statusIn", "statusOut", "failed"}
Active == phase \in {"setup", "in", "statusIn", "statusOut", "failed"}
SetsAddress(r) == r.bRequest = "SET_ADDRESS"

(* Where the requests come from.                                           *)
RequestInv ==
  /\ phase \in Phases /\ pc \in {"rx", "tx", "line"} /\ polls \in Nat
  /\ step \in Nat \ {0}
  /\ rx \in Requests \cup {None}
  /\ Active => request \in Requests
  /\ Active /\ SetsAddress(request) => ~Configured

(* The addresses: equal to the host's unless a SET_ADDRESS is on its way;  *)
(* and a bus reset clears them for good, because the second pass of        *)
(* usbPoll finds nothing received any more.                                *)
AddressInv ==
  /\ phase = "reset" /\ polls >= 1 =>
       /\ usbDeviceAddr = 0
       /\ pc = "rx" => usbNewDeviceAddr = 0
       /\ pc # "rx" => rx = None
  /\ phase = "reset" /\ polls >= 2 => usbNewDeviceAddr = 0 /\ rx = None
  /\ phase = "idle" \/ (Active /\ ~SetsAddress(request)) =>
       /\ usbDeviceAddr = hostAddr /\ usbNewDeviceAddr = hostAddr
       /\ rx # None => ~SetsAddress(rx)
  /\ Active /\ SetsAddress(request) =>
       /\ phase \in {"setup", "statusIn", "failed"}
       /\ rx # None /\ SetsAddress(rx) => rx = request
       /\ phase = "statusIn" =>
            rx = request \/ (rx = None /\ usbNewDeviceAddr = request.wValue)

DeviceInv == RequestInv /\ AddressInv

-----------------------------------------------------------------------------

LEMMA RequestsAre ==
  /\ Len(Script) \in Nat
  /\ \A n \in Nat \ {0} : ~(n > Len(Script)) =>
       /\ Script[n] \in Requests
       /\ Script[n] \in RequestType
  /\ Vendor \subseteq Requests
  /\ \A r \in Requests : r \in RequestType /\ r # None
  /\ \A r \in Requests : SetsAddress(r) =>
       r.type = "standard" /\ r.wLength = 0 /\ r \notin Vendor
  /\ ResetPolls \in Nat /\ ResetPolls >= 2
<1>1. Len(Script) \in Nat
  BY DeviceAssumption
<1>2. \A n \in Nat \ {0} : ~(n > Len(Script)) => Script[n] \in Requests /\ Script[n] \in RequestType
  BY <1>1, DeviceAssumption DEF Requests
<1>3. \A r \in Requests : r \in RequestType
  BY <1>2, DeviceAssumption DEF Requests
<1>4. \A r \in RequestType : r # None
  <2>1. ASSUME NEW r \in RequestType
        PROVE  r.type \in {"standard", "vendor", "class"}
    BY DEF RequestType
  <2>2. None.type = "none"
    BY DEF None
  <2>. QED  BY <2>1, <2>2
<1>. QED  BY <1>1, <1>2, <1>3, <1>4, DeviceAssumption DEF Requests, SetsAddress

(* The end of a transaction that did not succeed.                          *)
LEMMA RetryIs ==
  ASSUME Retry \/ Fail
  PROVE  /\ UNCHANGED <<step, hostAddr>>
         /\ \/ phase' = phase
            \/ phase' = "idle" /\ Configured
            \/ phase' = "failed" /\ ~Configured
BY DEF Retry, Fail

(* What a step of the host leaves of the device when it is not heard, and  *)
(* nothing has succeeded.                                                  *)
LEMMA NotHeard ==
  ASSUME DeviceInv, Active, Silent, Retry \/ Fail, HostFrame
  PROVE  DeviceInv'
<1>1. /\ UNCHANGED <<usbDeviceAddr, usbNewDeviceAddr, rx, pc, request, polls, step, hostAddr>>
      /\ \/ phase' = phase
         \/ phase' = "idle" /\ Configured
         \/ phase' = "failed" /\ ~Configured
  BY RetryIs DEF Silent, driver, HostFrame
<1>. QED
  BY <1>1 DEF DeviceInv, RequestInv, AddressInv, Active, Phases, Configured, SetsAddress

(* usbPoll. *)
LEMMA PollStep ==
  ASSUME DeviceInv, usbPoll
  PROVE  DeviceInv'
<1>1. CASE ProcessRx
  <2>1. /\ pc = "rx" /\ rx # None /\ rx' = None /\ pc' = "tx"
        /\ UNCHANGED <<usbDeviceAddr, phase, step, request, hostAddr, polls>>
        /\ usbNewDeviceAddr' = IF IsStandard("SET_ADDRESS") THEN rx.wValue
                               ELSE usbNewDeviceAddr
    BY <1>1 DEF ProcessRx, host
  <2>2. rx \in Requests
    BY <2>1 DEF DeviceInv, RequestInv
  <2>3. SetsAddress(rx) <=> IsStandard("SET_ADDRESS")
    BY <2>2, RequestsAre DEF SetsAddress, IsStandard
  <2>. QED
    BY <2>1, <2>2, <2>3 DEF DeviceInv, RequestInv, AddressInv, Active, Phases, Configured, SetsAddress
<1>2. CASE NothingReceived
  BY <1>2 DEF NothingReceived, host, DeviceInv, RequestInv, AddressInv, Active, Phases, Configured
<1>3. CASE BuildTx
  BY <1>3 DEF BuildTx, host, DeviceInv, RequestInv, AddressInv, Active, Phases, Configured
<1>4. CASE CheckLine
  <2>1. pc = "line" /\ pc' = "rx" /\ UNCHANGED <<rx, phase, step, request, hostAddr>>
    BY <1>4 DEF CheckLine, host
  <2>2. CASE phase = "reset"
    <3>1. /\ usbDeviceAddr' = 0 /\ usbNewDeviceAddr' = 0
          /\ polls' = Lower(polls + 1, ResetPolls)
      BY <1>4, <2>2 DEF CheckLine, ResetAddresses
    <3>2. polls' \in Nat /\ (polls' >= 2 => polls >= 1)
      BY <3>1, RequestsAre DEF Lower, DeviceInv, RequestInv
    <3>. QED
      BY <2>1, <2>2, <3>1, <3>2 DEF DeviceInv, RequestInv, AddressInv, Active, Phases, Configured
  <2>3. CASE phase # "reset"
    BY <1>4, <2>1, <2>3 DEF CheckLine, DeviceInv, RequestInv, AddressInv, Active, Phases, Configured
  <2>. QED  BY <2>2, <2>3
<1>. QED  BY <1>1, <1>2, <1>3, <1>4 DEF usbPoll

(* The transactions of a transfer. *)
LEMMA TransferStep ==
  ASSUME DeviceInv, Start \/ Setup \/ In \/ StatusOut \/ Again \/ GiveUp
  PROVE  DeviceInv'
<1>1. CASE Start
  <2>1. /\ phase = "idle" /\ phase' = "setup"
        /\ UNCHANGED <<usbDeviceAddr, usbNewDeviceAddr, rx, pc, step, hostAddr, polls>>
        /\ IF Configured THEN request' \in Vendor ELSE request' = Script[step]
    BY <1>1 DEF Start, Silent, driver
  <2>2. /\ request' \in Requests
        /\ SetsAddress(request') => ~Configured
    BY <2>1, RequestsAre DEF DeviceInv, RequestInv, Configured
  <2>. QED
    BY <2>1, <2>2 DEF DeviceInv, RequestInv, AddressInv, Active, Phases, Configured, SetsAddress
<1>2. CASE Setup
  <2>1. phase = "setup" /\ HostFrame
    BY <1>2 DEF Setup
  <2>2. ASSUME Store(request), UNCHANGED <<step, hostAddr>>,
               \/ phase' = IF request.wLength > 0 THEN "in" ELSE "statusIn"
               \/ Retry
        PROVE  DeviceInv'
    <3>1. /\ rx' = request /\ rx = None
          /\ UNCHANGED <<usbDeviceAddr, usbNewDeviceAddr, pc, request, polls>>
      BY <2>1, <2>2 DEF Store, HandlerFrame, HostFrame
    <3>2. \/ phase' = IF request.wLength > 0 THEN "in" ELSE "statusIn"
          \/ phase' = phase
          \/ phase' = "idle" /\ Configured
          \/ phase' = "failed" /\ ~Configured
      BY <2>2, RetryIs
    <3>3. request \in Requests /\ (SetsAddress(request) => ~(request.wLength > 0))
      BY <2>1, RequestsAre DEF DeviceInv, RequestInv, Active
    <3>. QED
      BY <2>1, <2>2, <3>1, <3>2, <3>3 DEF DeviceInv, RequestInv, AddressInv, Active, Phases, Configured, SetsAddress
  <2>3. ASSUME Silent, Retry
        PROVE  DeviceInv'
    BY <2>1, <2>3, NotHeard DEF Active
  <2>. QED  BY <1>2, <2>2, <2>3, RetryIs DEF Setup
<1>3. CASE In
  <2>1. phase \in {"in", "statusIn"} /\ HostFrame /\ Active
    BY <1>3 DEF In, Active
  <2>2. ASSUME Silent, Retry \/ Fail
        PROVE  DeviceInv'
    BY <2>1, <2>2, NotHeard
  <2>3. ASSUME SendBlock
        PROVE  /\ usbDeviceAddr' = usbNewDeviceAddr /\ rx = None
               /\ UNCHANGED <<usbNewDeviceAddr, rx, pc, request, polls>>
    BY <2>1, <2>3 DEF SendBlock, TakeAddress, HandlerFrame, HostFrame
  <2>4. ASSUME SendBlock, Retry \/ Fail
        PROVE  DeviceInv'
    BY <2>1, <2>3, <2>4, RetryIs DEF DeviceInv, RequestInv, AddressInv, Active, Phases, Configured, SetsAddress
  <2>5. ASSUME SendBlock, phase = "statusIn", Succeed
        PROVE  DeviceInv'
    <3>1. /\ phase' = "idle" /\ step' \in {step, step + 1}
          /\ hostAddr' = IF SetsAddress(request) THEN request.wValue ELSE hostAddr
      BY <2>5 DEF Succeed, SetsAddress
    <3>. QED
      BY <2>1, <2>3, <2>5, <3>1, RequestsAre DEF DeviceInv, RequestInv, AddressInv, Active, Phases, SetsAddress
  <2>6. ASSUME SendBlock, phase = "in", phase' \in {"in", "statusOut"},
               UNCHANGED <<step, hostAddr>>
        PROVE  DeviceInv'
    BY <2>1, <2>3, <2>6 DEF DeviceInv, RequestInv, AddressInv, Active, Phases, Configured, SetsAddress
  <2>7. ASSUME SendBlock, UNCHANGED <<phase, step, hostAddr>>
        PROVE  DeviceInv'
    BY <2>1, <2>3, <2>7 DEF DeviceInv, RequestInv, AddressInv, Active, Phases, Configured, SetsAddress
  <2>8. ASSUME SendBlock, TakeBlock
        PROVE  DeviceInv'
    BY <2>4, <2>5, <2>6, <2>7, <2>8 DEF TakeBlock
  <2>. QED  BY <1>3, <2>2, <2>4, <2>8 DEF In
<1>4. CASE StatusOut
  <2>1. phase = "statusOut" /\ HostFrame /\ Active /\ Silent
    BY <1>4 DEF StatusOut, Active
  <2>2. ASSUME Succeed
        PROVE  DeviceInv'
    <3>1. /\ phase' = "idle" /\ step' \in {step, step + 1}
          /\ hostAddr' = IF SetsAddress(request) THEN request.wValue ELSE hostAddr
      BY <2>2 DEF Succeed, SetsAddress
    <3>2. UNCHANGED <<usbDeviceAddr, usbNewDeviceAddr, rx, pc, request, polls>>
      BY <2>1 DEF Silent, driver, HostFrame
    <3>. QED
      BY <2>1, <3>1, <3>2 DEF DeviceInv, RequestInv, AddressInv, Active, Phases, SetsAddress
  <2>. QED  BY <1>4, <2>1, <2>2, NotHeard DEF StatusOut
<1>5. CASE Again
  BY <1>5 DEF Again, Silent, driver, DeviceInv, RequestInv, AddressInv, Active, Phases, Configured, SetsAddress
<1>6. CASE GiveUp
  <2>1. Active
    BY <1>6 DEF GiveUp, Active, DeviceInv, RequestInv, Phases
  <2>. QED  BY <1>6, <2>1, NotHeard DEF GiveUp
<1>. QED  BY <1>1, <1>2, <1>3, <1>4, <1>5, <1>6

(* The resets. *)
LEMMA ResetStep ==
  ASSUME DeviceInv, Recover \/ ResetAnyTime \/ EndReset \/ Watchdog
  PROVE  DeviceInv'
<1>1. CASE Recover \/ ResetAnyTime
  <2>1. phase' = "reset" /\ polls' = 0 /\ UNCHANGED <<rx, pc, step>>
    BY <1>1 DEF Recover, ResetAnyTime, ResetBus, Silent, driver
  <2>. QED
    BY <2>1 DEF DeviceInv, RequestInv, AddressInv, Active, Phases
<1>2. CASE EndReset
  <2>1. /\ phase = "reset" /\ polls >= 2 /\ phase' = "idle" /\ step' = 1 /\ hostAddr' = 0
        /\ UNCHANGED <<usbDeviceAddr, usbNewDeviceAddr, rx, pc, polls>>
    BY <1>2, RequestsAre DEF EndReset, Silent, driver, HostFrame
  <2>. QED
    BY <2>1 DEF DeviceInv, RequestInv, AddressInv, Active, Phases
<1>3. CASE Watchdog
  <2>1. phase' = "off" /\ rx' = None /\ pc' = "rx" /\ step' = 1 /\ UNCHANGED polls
    BY <1>3 DEF Watchdog, PowerUp
  <2>. QED
    BY <2>1 DEF DeviceInv, RequestInv, AddressInv, Active, Phases
<1>. QED  BY <1>1, <1>2, <1>3

LEMMA DeviceAlways == Spec => []DeviceInv
<1>1. Init => DeviceInv
  BY DEF Init, DeviceInv, RequestInv, AddressInv, Active, Phases
<1>2. DeviceInv /\ [Next]_vars => DeviceInv'
  <2>. SUFFICES ASSUME DeviceInv, [Next]_vars PROVE DeviceInv'
    OBVIOUS
  <2>1. CASE UNCHANGED vars
    BY <2>1 DEF vars, driver, host, DeviceInv, RequestInv, AddressInv, Active, Phases, Configured
  <2>. QED  BY <2>1, PollStep, TransferStep, ResetStep DEF Next
<1>. QED  BY <1>1, <1>2, PTL DEF Spec

(* Between two requests the device answers to the address the host uses,   *)
(* whatever was lost, repeated or reset before.                            *)
THEOREM AddressesInStep == Spec => []HostInStep
<1>1. DeviceInv => HostInStep
  BY DEF DeviceInv, AddressInv, HostInStep
<1>. QED  BY DeviceAlways, <1>1, PTL

-----------------------------------------------------------------------------
(* The time-outs of the EPP port. *)

Reads(r) ==
  r.type = "vendor" /\ r.bRequest = "USBLPT_GET_REG" /\ r.wValue = StatusRegister

Bit(b) == IF b THEN 1 ELSE 0

(* A read of the status register on its way: not processed yet, in the     *)
(* driver, or in the hands of the host.                                    *)
ReadInv ==
  /\ rx # None /\ Reads(rx) => phase = "in" /\ request = rx
  /\ Active /\ Reads(request) => phase # "statusIn"
  /\ phase \in {"setup", "in"} /\ Reads(request) => got = <<>>
  /\ phase = "in" /\ Reads(request) /\ rx # None => rx = request
  /\ phase = "in" /\ Reads(request) /\ rx = None =>
       /\ tx = NAK => usbMsgLen = 1 /\ usbMsgPtr.of = "IoByte" /\ toggle = 0
       /\ tx # NAK => tx.val = Bit(IoByte) /\ tx.len = 1 /\ toggle = 1
  /\ phase = "statusOut" /\ Reads(request) => rx = None /\ got[1].val = Bit(IoByte)

OwedInv ==
  owed => \/ PSTAT
          \/ /\ phase \in {"in", "statusOut"} /\ Reads(request)
             /\ rx = None /\ IoByte

TimeoutInv == ~faulted => ReadInv /\ OwedInv

LEMMA ReadsAre ==
  /\ ReadsStatus <=> Reads(request)
  /\ \A r : TellsTimeout(r) <=> Reads(r)
  /\ \A r \in Requests :
       Reads(r) => r.wLength \in Nat /\ r.wLength > 0 /\ ~SetsAddress(r)
<1>1. \A r : TellsTimeout(r) <=> Reads(r)
  BY Zenon DEF TellsTimeout, GetsRegister, Reads
<1>2. ASSUME NEW r \in Requests, Reads(r)
      PROVE  r.wLength \in Nat /\ r.wLength > 0 /\ ~SetsAddress(r)
  <2>1. r \in RequestType
    BY RequestsAre
  <2>2. r.wLength \in Word
    BY <2>1 DEF RequestType
  <2>3. r.wLength > 0
    BY <1>2, DeviceAssumption DEF Reads
  <2>4. ~SetsAddress(r)
    BY <1>2 DEF Reads, SetsAddress
  <2>. QED  BY <2>2, <2>3, <2>4 DEF Word
<1>. QED  BY <1>1, <1>2 DEF ReadsStatus

(* A fault that the property does not excuse.                              *)
LEMMA FaultIs ==
  ASSUME Fault \/ NoFault
  PROVE  /\ ~faulted' => ~faulted /\ (Fault => ~Reads(request))
         /\ owed' = owed
<1>1. ASSUME Fault
      PROVE  owed' = owed /\ (~faulted' => ~faulted /\ ~Reads(request))
  BY <1>1, ReadsAre, Zenon DEF Fault
<1>2. ASSUME NoFault
      PROVE  owed' = owed /\ faulted' = faulted
  BY <1>2 DEF NoFault
<1>. QED  BY <1>1, <1>2

LEMMA RegistersAre ==
  ASSUME NEW rq, SetupRegisters(rq)
  PROVE  /\ Reads(rq) => (IoByte' <=> PSTAT) /\ owed' = owed
         /\ ~Reads(rq) => ((owed => PSTAT) => (owed' => PSTAT'))
<1>1. CASE RunsCycle(rq)
  <2>1. ~TellsTimeout(rq)
    BY <1>1 DEF RunsCycle, TellsTimeout, EppRegisters, StatusRegister
  <2>2. PICK expired \in BOOLEAN : Cycle(expired) /\ owed' = (owed \/ expired)
    BY <1>1, <2>1 DEF SetupRegisters
  <2>. QED  BY <2>1, <2>2, ReadsAre, Zenon DEF Cycle
<1>2. CASE TellsTimeout(rq)
  <2>1. ~RunsCycle(rq) /\ GetsRegister(rq)
    BY <1>2 DEF RunsCycle, TellsTimeout, EppRegisters, StatusRegister
  <2>2. owed' = owed /\ IoByte' = (TellsTimeout(rq) /\ PSTAT)
    BY <1>2, <2>1, Zenon DEF SetupRegisters
  <2>. QED  BY <1>2, <2>2, ReadsAre, Zenon
<1>3. CASE ~RunsCycle(rq) /\ ~TellsTimeout(rq)
  <2>1. owed' = owed /\ PSTAT' = PSTAT
    BY <1>3 DEF SetupRegisters
  <2>. QED  BY <1>3, <2>1, ReadsAre, Zenon
<1>. QED  BY <1>1, <1>2, <1>3

(* A step that changes nothing a read depends on.                          *)
LEMMA ReadFrame ==
  ASSUME TimeoutInv, ~faulted' => ~faulted, owed' = owed,
         UNCHANGED <<PSTAT, IoByte, rx, tx, toggle, usbMsgLen, usbMsgPtr, phase,
                     request, got>>
  PROVE  TimeoutInv'
BY DEF TimeoutInv, ReadInv, OwedInv, Active, Reads, Bit, NAK

LEMMA TimeoutPoll ==
  ASSUME DeviceInv, TimeoutInv, usbPoll
  PROVE  TimeoutInv'
<1>1. CASE ProcessRx
  <2>1. /\ rx # None /\ rx' = None /\ tx' = NAK /\ toggle' = 0
        /\ usbMsgLen' = Lower(Reply(rx).len, rx.wLength)
        /\ usbMsgPtr' = [of |-> Reply(rx).of, off |-> 0]
        /\ SetupRegisters(rx)
        /\ UNCHANGED <<phase, request, got, faulted>>
    BY <1>1 DEF ProcessRx, host, FirstToggle
  <2>2. rx \in Requests
    BY <2>1 DEF DeviceInv, RequestInv
  <2>. SUFFICES ASSUME ~faulted PROVE ReadInv' /\ OwedInv'
    BY <2>1 DEF TimeoutInv
  <2>3. ReadInv /\ OwedInv /\ (owed => PSTAT)
    BY <2>1 DEF TimeoutInv, OwedInv
  <2>4. CASE Reads(rx)
    <3>1. /\ usbMsgLen' = 1 /\ usbMsgPtr'.of = "IoByte"
      <4>1. Reply(rx) = [of |-> "IoByte", len |-> 1]
        BY <2>4 DEF Reply, FunctionReply, Const, Reads
      <4>. QED  BY <2>1, <2>2, <2>4, <4>1, ReadsAre DEF Lower
    <3>2. (IoByte' <=> PSTAT) /\ owed' = owed
      BY <2>1, <2>4, RegistersAre
    <3>3. phase = "in" /\ request = rx
      BY <2>1, <2>3, <2>4 DEF ReadInv
    <3>4. ReadInv'
      BY <2>1, <2>3, <2>4, <3>1, <3>3 DEF ReadInv, Active, Reads
    <3>5. OwedInv'
      BY <2>1, <2>3, <2>4, <3>2, <3>3 DEF OwedInv, Reads
    <3>. QED  BY <3>4, <3>5
  <2>5. CASE ~Reads(rx)
    <3>1. owed' => PSTAT'
      BY <2>1, <2>3, <2>5, RegistersAre
    <3>2. ~(phase \in {"in", "statusOut"} /\ Reads(request))
      BY <2>1, <2>3, <2>5 DEF ReadInv
    <3>3. ReadInv'
      BY <2>1, <2>3, <3>2 DEF ReadInv, Active, Reads
    <3>. QED  BY <3>1, <3>3 DEF OwedInv
  <2>. QED  BY <2>4, <2>5
<1>2. CASE NothingReceived
  BY <1>2, ReadFrame DEF NothingReceived, registers, host
<1>3. CASE BuildTx
  <2>1. /\ UNCHANGED <<rx, PSTAT, IoByte, phase, request, got, faulted, owed>>
    BY <1>3 DEF BuildTx, registers, host
  <2>2. CASE ~(tx = NAK /\ usbMsgLen # NO_MSG)
    BY <1>3, <2>1, <2>2, ReadFrame DEF BuildTx
  <2>3. CASE tx = NAK /\ usbMsgLen # NO_MSG
    <3>. SUFFICES ASSUME ~faulted PROVE ReadInv' /\ OwedInv'
      BY <2>1 DEF TimeoutInv
    <3>1. ReadInv /\ OwedInv
      BY DEF TimeoutInv
    <3>2. ASSUME phase = "in", Reads(request), rx = None
          PROVE  tx' # NAK /\ tx'.val = Bit(IoByte) /\ tx'.len = 1 /\ toggle' = 1
      <4>1. usbMsgLen = 1 /\ usbMsgPtr.of = "IoByte" /\ toggle = 0
        BY <2>3, <3>1, <3>2 DEF ReadInv
      <4>2. WantLen = 1 /\ Value("IoByte") = Bit(IoByte)
        BY <4>1 DEF WantLen, Lower, Value, Bit
      <4>3. tx'.val = Bit(IoByte) /\ tx'.len = 1 /\ toggle' = 1
        BY <1>3, <2>3, <4>1, <4>2 DEF BuildTx
      <4>. QED  BY <4>3 DEF NAK
    <3>3. ReadInv'
      BY <2>1, <3>1, <3>2 DEF ReadInv, Active, Reads, Bit, NAK
    <3>4. OwedInv'
      BY <2>1, <3>1 DEF OwedInv, Reads
    <3>. QED  BY <3>3, <3>4
  <2>. QED  BY <2>2, <2>3
<1>4. CASE CheckLine
  BY <1>4, ReadFrame DEF CheckLine, registers, host
<1>. QED  BY <1>1, <1>2, <1>3, <1>4 DEF usbPoll

LEMMA TimeoutTransfer ==
  ASSUME DeviceInv, TimeoutInv, Start \/ Setup \/ In \/ StatusOut \/ Again \/ GiveUp
  PROVE  TimeoutInv'
<1>. SUFFICES ASSUME ~faulted' PROVE ReadInv' /\ OwedInv'
  BY DEF TimeoutInv
<1>f. ASSUME Fault \/ NoFault
      PROVE  owed' = owed /\ (Fault => ~Reads(request)) /\ ReadInv /\ OwedInv
  BY <1>f, FaultIs DEF TimeoutInv
<1>r. ASSUME Retry \/ Fail
      PROVE  /\ phase' \in {phase, "idle", "failed"}
             /\ phase' \in {"idle", "failed"} \/ got' = got
  BY <1>r DEF Retry, Fail
<1>s. ASSUME Silent
      PROVE  UNCHANGED <<PSTAT, IoByte, rx, tx, toggle, usbMsgLen, usbMsgPtr>>
  BY <1>s DEF Silent, driver, registers
<1>h. ASSUME Active, Reads(request)
      PROVE  Heard
  BY <1>h, ReadsAre DEF DeviceInv, RequestInv, AddressInv, Heard
<1>1. CASE Start
  <2>1. /\ phase = "idle" /\ phase' = "setup" /\ got' = <<>> /\ Silent /\ NoFault
    BY <1>1 DEF Start
  <2>. QED  BY <2>1, <1>f, <1>s DEF ReadInv, OwedInv, Active, Reads
<1>n. ASSUME Silent, HostFrame, phase # "idle", Fault \/ NoFault, Retry \/ Fail,
             Reads(request) => phase = "setup"
      PROVE  ReadInv' /\ OwedInv'
  <2>1. UNCHANGED <<PSTAT, IoByte, rx, tx, toggle, usbMsgLen, usbMsgPtr, request>>
    BY <1>n, <1>s DEF HostFrame
  <2>2. ReadInv'
    BY <1>n, <1>f, <1>r, <2>1 DEF ReadInv, Active, Reads, Bit, NAK
  <2>3. OwedInv'
    BY <1>n, <1>f, <2>1 DEF OwedInv, Reads
  <2>. QED  BY <2>2, <2>3
<1>2. CASE Setup
  <2>1. phase = "setup" /\ HostFrame
    BY <1>2 DEF Setup
  <2>2. ASSUME Store(request), Fault \/ NoFault,
               \/ /\ NoFault /\ got' = got
                  /\ phase' = IF request.wLength > 0 THEN "in" ELSE "statusIn"
               \/ Fault /\ Retry
        PROVE  ReadInv' /\ OwedInv'
    <3>1. /\ rx' = request /\ rx = None
          /\ UNCHANGED <<PSTAT, IoByte, tx, usbMsgLen, usbMsgPtr, request>>
      BY <2>1, <2>2 DEF Store, HandlerFrame, HostFrame, registers
    <3>2. request \in Requests
      BY <2>1 DEF DeviceInv, RequestInv, Active
    <3>3. OwedInv'
      BY <1>f, <2>1, <2>2, <3>1 DEF OwedInv, Reads
    <3>4. CASE Reads(request)
      <4>1. NoFault /\ got' = got /\ phase' = "in"
        BY <1>f, <2>2, <3>2, <3>4, ReadsAre
      <4>2. request # None /\ got = <<>>
        BY <1>f, <2>1, <3>2, <3>4, <4>1, RequestsAre DEF ReadInv
      <4>3. ReadInv'
        BY <2>1, <3>1, <3>4, <4>1, <4>2 DEF ReadInv, Active, Reads
      <4>. QED  BY <3>3, <4>3
    <3>5. CASE ~Reads(request)
      BY <1>f, <2>1, <2>2, <3>1, <3>3, <3>5 DEF ReadInv, Active, Reads
    <3>. QED  BY <3>4, <3>5
  <2>. QED  BY <1>2, <1>n, <2>1, <2>2 DEF Setup
<1>3. CASE In
  <2>1. phase \in {"in", "statusIn"} /\ HostFrame /\ Active /\ (Fault \/ NoFault)
    BY <1>3 DEF In, Active
  <2>2. ASSUME SendBlock
        PROVE  /\ rx = None /\ tx # NAK
               /\ UNCHANGED <<PSTAT, IoByte, rx, usbMsgLen, usbMsgPtr, request>>
    BY <2>1, <2>2 DEF SendBlock, HandlerFrame, HostFrame, registers
  <2>3. CASE Reads(request)
    <3>1. phase = "in" /\ Heard
      BY <1>f, <1>h, <2>1, <2>3 DEF ReadInv
    <3>2. ~Fault
      BY <1>f, <2>1, <2>3
    <3>3. ~(rx = None /\ tx = NAK /\ usbMsgLen = NO_MSG)
      BY <1>f, <2>1, <2>3, <3>1 DEF ReadInv, NO_MSG
    <3>0. SendBlock /\ TakeBlock
      BY <1>3, <3>1, <3>2, <3>3 DEF In
    <3>5. got = <<>> /\ tx.val = Bit(IoByte) /\ tx.len = 1 /\ toggle = 1
      BY <1>f, <2>1, <2>2, <2>3, <3>0, <3>1 DEF ReadInv
    <3>i. InTurn
      <4>1. Len(got) = 0 /\ (0 + 1) % 2 = 1
        BY <3>5
      <4>. QED  BY <3>5, <4>1 DEF InTurn
    <3>4. /\ SendBlock /\ got' = Append(got, tx)
          /\ phase' = IF \/ tx.len < 8
                         \/ 8 * Len(got) + tx.len >= request.wLength
                      THEN "statusOut" ELSE "in"
      BY <3>0, <3>1, <3>i DEF TakeBlock
    <3>6. phase' = "statusOut" /\ got'[1].val = Bit(IoByte)
      BY <3>4, <3>5
    <3>7. ReadInv'
      BY <2>2, <2>3, <3>4, <3>6 DEF ReadInv, Active, Reads, Bit
    <3>8. OwedInv'
      BY <1>f, <2>1, <2>2, <2>3, <3>4, <3>6 DEF OwedInv, Reads
    <3>. QED  BY <3>7, <3>8
  <2>4. CASE ~Reads(request)
    <3>1. ASSUME SendBlock
          PROVE  ReadInv' /\ OwedInv'
      <4>1. ReadInv'
        BY <2>2, <2>4, <3>1 DEF ReadInv, Reads, Active
      <4>2. OwedInv'
        BY <1>f, <2>1, <2>2, <2>4, <3>1 DEF OwedInv, Reads
      <4>. QED  BY <4>1, <4>2
    <3>2. ASSUME Silent, Retry \/ Fail
          PROVE  ReadInv' /\ OwedInv'
      BY <1>n, <2>1, <2>4, <3>2
    <3>. QED  BY <1>3, <3>1, <3>2 DEF In
  <2>. QED  BY <2>3, <2>4
<1>4. CASE StatusOut
  <2>1. phase = "statusOut" /\ HostFrame /\ Active /\ Silent
    BY <1>4 DEF StatusOut, Active
  <2>2. ASSUME Succeed, UNCHANGED faulted,
               owed' = (owed /\ ~(ReadsStatus /\ got[1].val = 1))
        PROVE  ReadInv' /\ OwedInv'
    <3>1. /\ phase' = "idle"
          /\ UNCHANGED <<PSTAT, IoByte, rx, tx, usbMsgLen, usbMsgPtr, request>>
      BY <1>s, <2>1, <2>2 DEF HostFrame, Succeed
    <3>2. ReadInv /\ OwedInv
      BY <2>2 DEF TimeoutInv
    <3>3. owed' => owed /\ ~(Reads(request) /\ got[1].val = 1)
      BY <2>2, ReadsAre, Zenon
    <3>4. Reads(request) => got[1].val = Bit(IoByte)
      BY <2>1, <3>2 DEF ReadInv
    <3>5. owed' => PSTAT
      BY <3>2, <3>3, <3>4 DEF OwedInv, Bit
    <3>6. ReadInv'
      BY <2>1, <3>1, <3>2 DEF ReadInv, Active, Reads
    <3>. QED  BY <3>1, <3>5, <3>6 DEF OwedInv
  <2>3. ASSUME Fault \/ (~Heard /\ NoFault), Retry
        PROVE  ReadInv' /\ OwedInv'
    <3>1. ~Reads(request)
      BY <1>f, <1>h, <2>1, <2>3
    <3>. QED  BY <1>n, <2>1, <2>3, <3>1
  <2>. QED  BY <1>4, <2>2, <2>3 DEF StatusOut
<1>5. CASE Again
  <2>1. /\ phase = "failed" /\ SetsAddress(request) /\ phase' = "setup" /\ Silent /\ NoFault
        /\ UNCHANGED <<request, got>>
    BY <1>5 DEF Again, SetsAddress
  <2>2. ~Reads(request)
    BY <2>1 DEF Reads, SetsAddress
  <2>. QED  BY <1>f, <1>s, <2>1, <2>2 DEF ReadInv, OwedInv, Active, Reads
<1>6. CASE GiveUp
  <2>1. Silent /\ HostFrame /\ phase # "idle" /\ Fault /\ Fail
    BY <1>6 DEF GiveUp
  <2>2. ~Reads(request)
    BY <1>f, <2>1
  <2>. QED  BY <1>n, <2>1, <2>2
<1>. QED  BY <1>1, <1>2, <1>3, <1>4, <1>5, <1>6

LEMMA TimeoutResets ==
  ASSUME DeviceInv, TimeoutInv, Recover \/ ResetAnyTime \/ EndReset \/ Watchdog
  PROVE  TimeoutInv'
<1>. SUFFICES ASSUME ~faulted' PROVE ReadInv' /\ OwedInv'
  BY DEF TimeoutInv
<1>1. CASE Recover \/ ResetAnyTime
  <2>1. /\ phase' = "reset" /\ request' = None /\ owed' = owed
        /\ UNCHANGED <<PSTAT, IoByte, rx>>
    BY <1>1 DEF Recover, ResetAnyTime, ResetBus, Silent, driver, registers, NoFault
  <2>2. ~faulted /\ (phase \in {"in", "statusOut"} => ~Reads(request))
    <3>1. CASE Recover
      BY <3>1 DEF Recover, NoFault
    <3>2. CASE ResetAnyTime
      BY <3>2, ReadsAre, Zenon DEF ResetAnyTime
    <3>. QED  BY <1>1, <3>1, <3>2
  <2>3. ReadInv /\ OwedInv
    BY <2>2 DEF TimeoutInv
  <2>. QED  BY <2>1, <2>2, <2>3 DEF ReadInv, OwedInv, Active, Reads
<1>2. CASE EndReset
  <2>1. /\ phase = "reset" /\ phase' = "idle" /\ owed' = owed /\ faulted' = faulted
        /\ UNCHANGED <<PSTAT, IoByte, rx>>
    BY <1>2 DEF EndReset, Silent, driver, registers, NoFault
  <2>2. ReadInv /\ OwedInv
    BY <2>1 DEF TimeoutInv
  <2>. QED  BY <2>1, <2>2 DEF ReadInv, OwedInv, Active, Reads
<1>3. CASE Watchdog
  BY <1>3 DEF Watchdog
<1>. QED  BY <1>1, <1>2, <1>3

(* A time-out of the EPP port reaches the host: until the host knows, it   *)
(* is in the register or in the answer to the host's read, unless a fault  *)
(* hits that read or the chip is reset.                                    *)
THEOREM TimeoutsReachHost == Spec => []TimeoutReported
<1>1. Init => TimeoutInv
  BY ReadsAre DEF Init, TimeoutInv, ReadInv, OwedInv, Active, Reads, None
<1>2. DeviceInv /\ TimeoutInv /\ [Next]_vars => TimeoutInv'
  <2>. SUFFICES ASSUME DeviceInv, TimeoutInv, [Next]_vars PROVE TimeoutInv'
    OBVIOUS
  <2>1. CASE UNCHANGED vars
    BY <2>1, ReadFrame DEF vars, driver, registers, host
  <2>. QED  BY <2>1, TimeoutPoll, TimeoutTransfer, TimeoutResets DEF Next
<1>3. TimeoutInv => TimeoutReported
  BY ReadsAre DEF TimeoutInv, OwedInv, TimeoutReported
<1>. QED  BY DeviceAlways, <1>1, <1>2, <1>3, PTL DEF Spec

-----------------------------------------------------------------------------
(* Replies. *)

Sources == {"none", "zero", "usbConfiguration", "device", "configuration", "language",
            "vendor", "product", "serial", "os", "ms", "version", "IoByte"}
Blocks == [of : Sources, off : Nat, len : 0..8, val : Nat]

BlockInv ==
  /\ tx \in Blocks \cup {NAK} /\ got \in Seq(Blocks)
  /\ toggle \in 0..1
  /\ usbMsgLen \in Nat /\ usbMsgPtr \in [of : Sources, off : Nat]
  /\ usbConfiguration \in Nat

(* Block k of the reply, and any of its blocks.                            *)
IsBlock(b, k) ==
  /\ b.len = Lower(Total(request) - 8 * (k - 1), 8)
  /\ b.of = IF b.len = 0 THEN "none" ELSE Reply(request).of
  /\ b.off = IF b.len = 0 THEN 0 ELSE 8 * (k - 1)

Last(total) == total \div 8 + 1

IsOwn(b) == \E n \in 1..Last(Total(request)) : IsBlock(b, n)

Count(total, wLength) ==
  IF total % 8 = 0 /\ (total = 0 \/ total < wLength)
  THEN total \div 8 + 1 ELSE (total + 7) \div 8

(* The driver has built n blocks of the reply; it sends the last of them,  *)
(* or has sent it.                                                         *)
Built(n) ==
  /\ toggle = n % 2
  /\ tx # NAK => n >= 1 /\ IsBlock(tx, n)
  /\ n = Last(Total(request)) => usbMsgLen = NO_MSG
  /\ n < Last(Total(request)) => /\ usbMsgLen = Total(request) - 8 * n
                                 /\ usbMsgPtr.of = Reply(request).of
                                 /\ usbMsgPtr.off = 8 * n

(* What the host has of it: as long as nothing was lost all the blocks the *)
(* driver has sent. When one of two was lost, there is no third block: the *)
(* second is out of turn, or was the one that was lost.                    *)
Arrived(n) ==
  /\ ~missed => /\ tx = NAK => n = Len(got)
                /\ tx # NAK => n = Len(got) + 1
                /\ 8 * Len(got) <= Total(request)
                /\ \A k \in 1..Len(got) : IsBlock(got[k], k)
  /\ missed /\ Total(request) < 16 =>
       /\ n >= 1
       /\ tx = NAK /\ n = 1 => got = <<>>
       /\ tx # NAK => n = 2 /\ got = <<>>

(* A request that is not processed yet has no block, and what the host has *)
(* are blocks of the reply.                                                *)
ReplyInv ==
  /\ phase \in {"setup", "failed", "statusIn", "reset"} => got = <<>>
  /\ phase = "setup" => ~missed
  /\ phase = "in" =>
       /\ rx \in {request, None}
       /\ 8 * Len(got) < request.wLength
       /\ \A k \in 1..Len(got) : IsOwn(got[k])
       /\ rx # None => got = <<>> /\ ~missed
       /\ rx = None => \E n \in 0..Last(Total(request)) : Built(n) /\ Arrived(n)
  /\ phase = "statusOut" \/ (phase = "idle" /\ got # <<>>) =>
       /\ request \in Requests
       /\ \A k \in 1..Len(got) : IsOwn(got[k])
       /\ missed => Total(request) >= 16
       /\ ~missed => /\ Len(got) = Count(Total(request), request.wLength)
                     /\ \A k \in 1..Len(got) : IsBlock(got[k], k)

LEMMA DescriptorIs ==
  ASSUME NEW value
  PROVE  Descriptor(value).len \in 0..40 /\ Descriptor(value).of \in Sources
BY DEF Descriptor, Const, Sources

LEMMA ReplyIs ==
  ASSUME NEW rq \in Requests
  PROVE  /\ Reply(rq).len \in 0..40 /\ Reply(rq).of \in Sources
         /\ rq.wLength \in Nat
         /\ Total(rq) \in 0..40 /\ Total(rq) <= rq.wLength
<1>1. DriverReply(rq).len \in 0..40 /\ DriverReply(rq).of \in Sources
  BY DescriptorIs DEF DriverReply, Const, Sources
<1>2. FunctionReply(rq).len \in 0..40 /\ FunctionReply(rq).of \in Sources
  BY DEF FunctionReply, Const, Sources
<1>3. Reply(rq).len \in 0..40 /\ Reply(rq).of \in Sources
  BY <1>1, <1>2 DEF Reply
<1>4. rq.wLength \in Nat
  <2>1. rq \in RequestType
    BY RequestsAre
  <2>2. rq.wLength \in Word
    BY <2>1 DEF RequestType
  <2>. QED  BY <2>2 DEF Word
<1>5. Total(rq) \in 0..40 /\ Total(rq) <= rq.wLength
  BY <1>3, <1>4 DEF Total, Lower
<1>. QED  BY <1>3, <1>4, <1>5

(* The block with which a reply ends.                                      *)
LEMMA LastBlock ==
  ASSUME NEW total \in 0..40, NEW n \in Nat, NEW w \in Nat, NEW len,
         total <= w, 8 * n <= total, 8 * n < w, len = Lower(total - 8 * n, 8),
         len < 8 \/ 8 * n + len >= w
  PROVE  n + 1 = Count(total, w)
<1>1. len \in 0..8 /\ (len = 8 \/ len = total - 8 * n)
  BY DEF Lower
<1>2. CASE len < 8
  <2>1. total = 8 * n + len /\ len \in 0..7
    BY <1>1, <1>2
  <2>2. total \div 8 = n /\ total % 8 = len
    BY <2>1
  <2>3. CASE len = 0
    BY <2>1, <2>2, <2>3 DEF Count
  <2>4. CASE len # 0
    <3>1. (total + 7) \div 8 = n + 1
      BY <2>1, <2>4
    <3>. QED  BY <2>2, <2>4, <3>1 DEF Count
  <2>. QED  BY <2>3, <2>4
<1>3. CASE len = 8
  <2>1. total = 8 * n + 8 /\ w = total
    BY <1>3 DEF Lower
  <2>2. (total + 7) \div 8 = n + 1
    BY <2>1
  <2>. QED  BY <2>1, <2>2 DEF Count
<1>. QED  BY <1>1, <1>2, <1>3

(* One more block is built. *)
LEMMA NextBlock ==
  ASSUME NEW total \in 0..40, NEW n \in 0..Last(total), n # Last(total),
         NEW len, len = Lower(total - 8 * n, 8)
  PROVE  /\ total - 8 * n \in 0..40 /\ len \in 0..8 /\ n + 1 \in 1..Last(total)
         /\ len < 8 => n + 1 = Last(total)
         /\ len = 8 => n + 1 < Last(total)
         /\ len = 8 => (total - 8 * n) - len = total - 8 * (n + 1)
<1>1. n \in 0..(total \div 8) /\ total \div 8 \in Nat /\ 8 * (total \div 8) <= total
  BY DEF Last
<1>2. total - 8 * n \in 0..40
  BY <1>1
<1>3. len \in 0..8 /\ (len = 8 \/ len = total - 8 * n) /\ (len = 8 => total - 8 * n >= 8)
  BY <1>2 DEF Lower
<1>4. ASSUME len < 8 PROVE n = total \div 8
  BY <1>1, <1>3, <1>4
<1>5. ASSUME len = 8 PROVE n < total \div 8
  BY <1>1, <1>3, <1>5
<1>. QED  BY <1>1, <1>2, <1>3, <1>4, <1>5 DEF Last

(* Steps that leave the driver and what the host has got alone.            *)
LEMMA BlockFrame ==
  ASSUME BlockInv, UNCHANGED <<tx, toggle, usbMsgLen, usbMsgPtr, usbConfiguration>>,
         got' \in {got, <<>>}
  PROVE  BlockInv'
<1>1. <<>> \in Seq(Blocks)
  OBVIOUS
<1>. QED  BY <1>1 DEF BlockInv

LEMMA BlockPoll ==
  ASSUME DeviceInv, BlockInv, usbPoll
  PROVE  BlockInv'
<1>1. CASE ProcessRx
  <2>1. /\ rx # None /\ tx' = NAK /\ toggle' = 0 /\ got' = got
        /\ usbMsgLen' = Total(rx)
        /\ usbMsgPtr' = [of |-> Reply(rx).of, off |-> 0]
        /\ usbConfiguration' \in {rx.wValue, usbConfiguration}
    BY <1>1 DEF ProcessRx, host, FirstToggle, Total
  <2>2. rx \in Requests
    BY <2>1 DEF DeviceInv, RequestInv
  <2>3. rx.wValue \in Nat
    <3>1. rx \in RequestType
      BY <2>2, RequestsAre
    <3>2. rx.wValue \in Word
      BY <3>1 DEF RequestType
    <3>. QED  BY <3>2 DEF Word
  <2>4. Total(rx) \in Nat /\ Reply(rx).of \in Sources
    BY <2>2, ReplyIs
  <2>5. usbMsgPtr' \in [of : Sources, off : Nat]
    BY <2>1, <2>4
  <2>. QED  BY <2>1, <2>3, <2>4, <2>5 DEF BlockInv
<1>2. CASE NothingReceived
  BY <1>2, BlockFrame DEF NothingReceived, host
<1>3. CASE BuildTx
  <2>1. CASE tx = NAK /\ usbMsgLen # NO_MSG
    <3>1. PICK len : len = WantLen
      OBVIOUS
    <3>2. len \in 0..8 /\ len <= usbMsgLen
      BY <3>1 DEF WantLen, Lower, BlockInv
    <3>3. Value(usbMsgPtr.of) \in Nat
      BY DEF Value, BlockInv
    <3>4. /\ tx' = [of |-> IF len = 0 THEN "none" ELSE usbMsgPtr.of,
                    off |-> IF len = 0 THEN 0 ELSE usbMsgPtr.off, len |-> len,
                    val |-> IF len = 0 THEN 0 ELSE Value(usbMsgPtr.of)]
          /\ usbMsgPtr' = [usbMsgPtr EXCEPT !.off = @ + len]
          /\ usbMsgLen' = IF len < 8 THEN NO_MSG ELSE usbMsgLen - len
          /\ toggle' = 1 - toggle
          /\ UNCHANGED <<got, usbConfiguration>>
      BY <1>3, <2>1, <3>1 DEF BuildTx, host
    <3>5. tx' \in Blocks
      BY <3>2, <3>3, <3>4 DEF Blocks, BlockInv, Sources
    <3>6. /\ usbMsgPtr' \in [of : Sources, off : Nat] /\ usbMsgLen' \in Nat
          /\ toggle' \in 0..1
      BY <3>2, <3>4 DEF BlockInv, NO_MSG
    <3>. QED  BY <3>4, <3>5, <3>6 DEF BlockInv
  <2>2. CASE ~(tx = NAK /\ usbMsgLen # NO_MSG)
    BY <1>3, <2>2, BlockFrame DEF BuildTx, host
  <2>. QED  BY <2>1, <2>2
<1>4. CASE CheckLine
  BY <1>4, BlockFrame DEF CheckLine, host
<1>. QED  BY <1>1, <1>2, <1>3, <1>4 DEF usbPoll

LEMMA BlockStep ==
  ASSUME DeviceInv, BlockInv, [Next]_vars
  PROVE  BlockInv'
<1>1. <<>> \in Seq(Blocks) /\ 0 \in Nat /\ NO_MSG \in Nat
      /\ [of |-> "none", off |-> 0] \in [of : Sources, off : Nat]
  BY DEF Sources, NO_MSG
<1>s. ASSUME Silent
      PROVE  UNCHANGED <<tx, toggle, usbMsgLen, usbMsgPtr, usbConfiguration>>
  BY <1>s DEF Silent, driver
<1>f. ASSUME Retry \/ Fail
      PROVE  got' \in {got, <<>>}
  BY <1>f DEF Retry, Fail
<1>n. ASSUME Silent, Retry \/ Fail
      PROVE  BlockInv'
  BY <1>n, <1>s, <1>f, BlockFrame
<1>2. CASE Start \/ Again \/ Recover \/ ResetAnyTime \/ EndReset
  <2>1. Silent /\ got' \in {got, <<>>}
    BY <1>2 DEF Start, Again, Recover, ResetAnyTime, ResetBus, EndReset
  <2>. QED  BY <1>s, <2>1, BlockFrame
<1>3. CASE GiveUp
  BY <1>3, <1>n DEF GiveUp
<1>4. CASE Setup
  <2>1. ASSUME Store(request), got' \in {got, <<>>}
        PROVE  BlockInv'
    BY <2>1, BlockFrame DEF Store, HandlerFrame
  <2>. QED  BY <1>4, <1>n, <1>f, <2>1 DEF Setup
<1>5. CASE In
  <2>1. ASSUME SendBlock
        PROVE  /\ tx' = NAK /\ tx \in Blocks
               /\ UNCHANGED <<toggle, usbMsgLen, usbMsgPtr, usbConfiguration>>
    BY <2>1 DEF SendBlock, HandlerFrame, BlockInv
  <2>2. ASSUME SendBlock, got' \in {got, <<>>, Append(got, tx)}
        PROVE  BlockInv'
    <3>1. Append(got, tx) \in Seq(Blocks) /\ got \in Seq(Blocks)
      BY <2>1, <2>2 DEF BlockInv
    <3>. QED  BY <1>1, <2>1, <2>2, <3>1 DEF BlockInv
  <2>. QED  BY <1>5, <1>n, <1>f, <2>2 DEF In, TakeBlock
<1>6. CASE StatusOut
  <2>1. Silent /\ got' \in {got, <<>>}
    BY <1>6, <1>f DEF StatusOut
  <2>. QED  BY <1>s, <2>1, BlockFrame
<1>7. CASE Watchdog
  BY <1>1, <1>7 DEF Watchdog, PowerUp, BlockInv
<1>8. CASE UNCHANGED vars
  BY <1>8, BlockFrame DEF vars, driver, host
<1>. QED
  BY <1>2, <1>3, <1>4, <1>5, <1>6, <1>7, <1>8, BlockPoll DEF Next

(* usbPoll goes on with the reply. *)
LEMMA ReplyPoll ==
  ASSUME DeviceInv, BlockInv, ReplyInv, usbPoll
  PROVE  ReplyInv'
<1>f. UNCHANGED <<phase, request, got, missed>>
  BY DEF usbPoll, ProcessRx, NothingReceived, BuildTx, CheckLine, host
<1>a. phase = "in" => request \in Requests
  BY DEF DeviceInv, RequestInv, Active
<1>c. ASSUME UNCHANGED <<rx, tx, toggle, usbMsgLen, usbMsgPtr>>
      PROVE  ReplyInv'
  BY <1>c, <1>f DEF ReplyInv, Built, Arrived, IsOwn, IsBlock
(* Outside the data stage only the host's part matters. *)
<1>o. ASSUME phase # "in"
      PROVE  ReplyInv'
  BY <1>f, <1>o DEF ReplyInv, IsOwn, IsBlock
(* In it, the driver's. *)
<1>i. ASSUME phase = "in", rx' = None,
             \E n \in 0..Last(Total(request)) : Built(n)' /\ Arrived(n)'
      PROVE  ReplyInv'
  BY <1>f, <1>i DEF ReplyInv, IsOwn, IsBlock
<1>1. CASE ProcessRx
  <2>1. /\ rx # None /\ rx' = None /\ tx' = NAK /\ toggle' = 0
        /\ usbMsgLen' = Total(rx) /\ usbMsgPtr' = [of |-> Reply(rx).of, off |-> 0]
    BY <1>1 DEF ProcessRx, FirstToggle, Total
  <2>2. ASSUME phase = "in"
        PROVE  Built(0)' /\ Arrived(0)' /\ 0 \in 0..Last(Total(request))
    <3>1. request = rx /\ got = <<>> /\ Len(got) = 0 /\ ~missed
      BY <2>1, <2>2 DEF ReplyInv
    <3>2. Total(request) \in 0..40
      BY <1>a, <2>2, ReplyIs
    <3>3. /\ Total(request) - 8 * 0 = Total(request) /\ 8 * 0 = 0 /\ 0 % 2 = 0
          /\ 0 < Last(Total(request)) /\ 0 \in 0..Last(Total(request))
          /\ Last(Total(request)) # 0
      BY <3>2 DEF Last
    <3>4. Built(0)'
      <4>1. UNCHANGED request
        BY <1>f
      <4>. QED  BY <2>1, <3>1, <3>3, <4>1 DEF Built
    <3>5. Arrived(0)'
      <4>1. \A x \in 0..40 : 8 * 0 <= x
        OBVIOUS
      <4>2. 8 * 0 <= Total(request)
        BY <3>2, <4>1
      <4>3. Len(got') = 0 /\ Total(request)' = Total(request)
        BY <1>f, <3>1
      <4>4. 8 * Len(got') <= Total(request)'
        BY <4>2, <4>3
      <4>5. \A k \in 1..Len(got') : FALSE
        BY <4>3
      <4>. QED  BY <1>f, <2>1, <3>1, <4>3, <4>4, <4>5 DEF Arrived
    <3>. QED  BY <3>3, <3>4, <3>5
  <2>. QED  BY <1>i, <1>o, <2>1, <2>2
<1>2. CASE NothingReceived
  BY <1>2, <1>c DEF NothingReceived
<1>3. CASE BuildTx
  <2>1. rx' = rx
    BY <1>3 DEF BuildTx
  <2>2. CASE tx = NAK /\ usbMsgLen # NO_MSG
    <3>1. PICK len : len = WantLen
      OBVIOUS
    <3>2. /\ tx'.len = len
          /\ tx'.of = IF len = 0 THEN "none" ELSE usbMsgPtr.of
          /\ tx'.off = IF len = 0 THEN 0 ELSE usbMsgPtr.off
          /\ usbMsgPtr' = [usbMsgPtr EXCEPT !.off = @ + len]
          /\ usbMsgLen' = IF len < 8 THEN NO_MSG ELSE usbMsgLen - len
          /\ toggle' = 1 - toggle
      BY <1>3, <2>2, <3>1 DEF BuildTx
    <3>3. CASE phase = "in" /\ rx = None
      <4>1. PICK n \in 0..Last(Total(request)) : Built(n) /\ Arrived(n)
        BY <3>3 DEF ReplyInv
      <4>2. Total(request) \in 0..40
        BY <1>a, <3>3, ReplyIs
      <4>3. n # Last(Total(request))
        BY <2>2, <4>1 DEF Built
      <4>4. /\ n < Last(Total(request)) /\ usbMsgLen = Total(request) - 8 * n
            /\ usbMsgPtr.of = Reply(request).of /\ usbMsgPtr.off = 8 * n
            /\ toggle = n % 2 /\ n \in Nat
        BY <4>1, <4>2, <4>3 DEF Built, Last
      <4>5. len = Lower(Total(request) - 8 * n, 8)
        BY <3>1, <4>4 DEF WantLen
      <4>6. /\ Total(request) - 8 * n \in 0..40 /\ len \in 0..8
            /\ n + 1 \in 1..Last(Total(request))
            /\ len < 8 => n + 1 = Last(Total(request))
            /\ len = 8 => n + 1 < Last(Total(request))
            /\ len = 8 => (Total(request) - 8 * n) - len = Total(request) - 8 * (n + 1)
        BY <4>1, <4>2, <4>3, <4>5, NextBlock
      <4>7. (n + 1) - 1 = n /\ toggle' = (n + 1) % 2 /\ n + 1 >= 1
        BY <3>2, <4>4
      <4>8. tx' # NAK
        BY <3>2, <4>6 DEF NAK
      <4>9. IsBlock(tx', n + 1)
        BY <3>2, <4>4, <4>5, <4>7 DEF IsBlock
      <4>10. ASSUME len = 8
             PROVE  /\ usbMsgLen' = Total(request) - 8 * (n + 1)
                    /\ usbMsgPtr'.of = Reply(request).of /\ usbMsgPtr'.off = 8 * (n + 1)
        <5>1. usbMsgPtr'.of = usbMsgPtr.of /\ usbMsgPtr'.off = usbMsgPtr.off + len
          BY <3>2 DEF BlockInv
        <5>2. 8 * (n + 1) = 8 * n + 8
          BY <4>4
        <5>3. usbMsgLen' = usbMsgLen - len
          BY <3>2, <4>10
        <5>. QED  BY <4>4, <4>6, <4>10, <5>1, <5>2, <5>3
      <4>11. Built(n + 1)'
        <5>1. ASSUME n + 1 = Last(Total(request)) PROVE usbMsgLen' = NO_MSG
          <6>1. len < 8
            BY <4>2, <4>6, <5>1 DEF Last
          <6>. QED  BY <3>2, <6>1
        <5>2. ASSUME n + 1 < Last(Total(request)) PROVE len = 8
          BY <4>2, <4>4, <4>6, <5>2 DEF Last
        <5>3. UNCHANGED request
          BY <1>f
        <5>. QED  BY <4>7, <4>9, <4>10, <5>1, <5>2, <5>3 DEF Built, IsBlock
      <4>12. Arrived(n + 1)'
        <5>1. ASSUME ~missed PROVE n + 1 = Len(got) + 1
          BY <2>2, <4>1, <5>1 DEF Arrived
        <5>2. ASSUME missed, Total(request) < 16
              PROVE  n + 1 = 2 /\ got = <<>>
          <6>1. n >= 1 /\ (n = 1 => got = <<>>)
            BY <2>2, <4>1, <5>2 DEF Arrived
          <6>2. n + 1 <= 2
            BY <4>2, <4>4, <4>6, <5>2 DEF Last
          <6>. QED  BY <4>4, <6>1, <6>2
        <5>. QED  BY <1>f, <4>1, <4>7, <4>8, <5>1, <5>2 DEF Arrived, IsBlock
      <4>13. n + 1 \in 0..Last(Total(request))
        BY <4>2, <4>6 DEF Last
      <4>. QED  BY <1>i, <2>1, <3>3, <4>11, <4>12, <4>13
    <3>4. CASE phase = "in" /\ rx # None
      BY <1>f, <2>1, <3>4 DEF ReplyInv, IsOwn, IsBlock
    <3>. QED  BY <1>o, <3>3, <3>4
  <2>3. CASE ~(tx = NAK /\ usbMsgLen # NO_MSG)
    BY <1>3, <1>c, <2>1, <2>3 DEF BuildTx
  <2>. QED  BY <2>2, <2>3
<1>4. CASE CheckLine
  BY <1>4, <1>c DEF CheckLine
<1>. QED  BY <1>1, <1>2, <1>3, <1>4 DEF usbPoll

(* A block is sent in the data stage: it arrives, or is lost.              *)
LEMMA ReplyIn ==
  ASSUME DeviceInv, BlockInv, ReplyInv, SendBlock, HostFrame, phase = "in",
         \/ TakeBlock /\ missed' = missed
         \/ Retry /\ missed' = TRUE
  PROVE  ReplyInv'
<1>1. PICK l \in Nat : l = Len(got)
  BY DEF BlockInv
<1>2. /\ rx = None /\ rx' = None /\ tx # NAK /\ tx' = NAK
      /\ UNCHANGED <<toggle, usbMsgLen, usbMsgPtr, request>>
  BY DEF SendBlock, HandlerFrame, HostFrame
<1>3. /\ tx \in Blocks /\ request \in Requests
      /\ Total(request) \in 0..40 /\ request.wLength \in Nat
      /\ Total(request) <= request.wLength
  BY <1>2, ReplyIs DEF BlockInv, DeviceInv, RequestInv, Active
<1>4. PICK n \in 0..Last(Total(request)) : Built(n) /\ Arrived(n)
  BY <1>2 DEF ReplyInv
<1>5. /\ n \in Nat /\ n >= 1 /\ n \in 1..Last(Total(request))
      /\ toggle = n % 2 /\ IsBlock(tx, n)
  <2>1. n \in Nat /\ n >= 1 /\ toggle = n % 2 /\ IsBlock(tx, n)
    BY <1>2, <1>3, <1>4 DEF Built, Last
  <2>. QED  BY <1>3, <1>4, <2>1 DEF Last
<1>6. ~missed => n = l + 1 /\ InTurn
  BY <1>1, <1>2, <1>4, <1>5 DEF Arrived, InTurn
(* Something is missing now: the host has what it had. *)
<1>7. ASSUME UNCHANGED <<phase, got>>, missed'
      PROVE  ReplyInv'
  <2>1. Built(n)'
    BY <1>2, <1>4 DEF Built
  <2>2. ASSUME Total(request) < 16, n = 1
        PROVE  got = <<>>
    <3>1. CASE missed
      <4>1. tx # NAK => n = 2
        BY <1>4, <2>2, <3>1 DEF Arrived
      <4>. QED  BY <1>2, <2>2, <4>1
    <3>2. CASE ~missed
      <4>1. Len(got) = 0
        BY <1>1, <1>6, <2>2, <3>2
      <4>. QED  BY <4>1 DEF BlockInv
    <3>. QED  BY <3>1, <3>2
  <2>3. Arrived(n)'
    BY <1>2, <1>5, <1>7, <2>2 DEF Arrived
  <2>4. \E k \in 0..Last(Total(request)) : Built(k)' /\ Arrived(k)'
    BY <2>1, <2>3
  <2>. QED
    BY <1>2, <1>7, <2>4 DEF ReplyInv, IsOwn, IsBlock
<1>8. ASSUME Fail
      PROVE  ReplyInv'
  BY <1>8 DEF Fail, ReplyInv
<1>9. ASSUME InTurn, got' = Append(got, tx), missed' = missed,
             phase' = IF \/ tx.len < 8
                         \/ 8 * Len(got) + tx.len >= request.wLength
                      THEN "statusOut" ELSE "in"
      PROVE  ReplyInv'
  <2>1. /\ Len(got') = l + 1 /\ got' # <<>> /\ got'[l + 1] = tx
        /\ \A k \in 1..l : got'[k] = got[k]
        /\ \A k \in 1..(l + 1) : k \in 1..l \/ k = l + 1
    BY <1>1, <1>3, <1>9 DEF BlockInv
  <2>2. \A k \in 1..(l + 1) : IsOwn(got'[k])
    <3>1. \A k \in 1..l : IsOwn(got[k])
      BY <1>1 DEF ReplyInv
    <3>2. IsOwn(tx)
      BY <1>5 DEF IsOwn
    <3>. QED  BY <2>1, <3>1, <3>2
  <2>3. ASSUME missed
        PROVE  Total(request) >= 16
    <3>1. Total(request) < 16 => n = 2 /\ Len(got) = 0
      BY <1>2, <1>4, <2>3 DEF Arrived
    <3>2. ~(Total(request) < 16)
      BY <1>5, <1>9, <3>1 DEF InTurn
    <3>. QED  BY <1>3, <3>2
  <2>4. ASSUME ~missed
        PROVE  /\ 8 * l <= Total(request) /\ n = l + 1
               /\ \A k \in 1..(l + 1) : IsBlock(got'[k], k)
    <3>1. 8 * l <= Total(request) /\ \A k \in 1..l : IsBlock(got[k], k)
      BY <1>1, <1>4, <2>4 DEF Arrived
    <3>. QED  BY <1>5, <1>6, <2>1, <2>4, <3>1
  <2>5. 8 * l < request.wLength /\ tx.len \in 0..8
    BY <1>1, <1>3 DEF ReplyInv, Blocks
  <2>6. CASE tx.len < 8 \/ 8 * l + tx.len >= request.wLength
    <3>1. phase' = "statusOut"
      BY <1>1, <1>9, <2>6
    <3>2. ASSUME ~missed
          PROVE  l + 1 = Count(Total(request), request.wLength)
      <4>1. tx.len = Lower(Total(request) - 8 * l, 8)
        <5>1. (l + 1) - 1 = l
          OBVIOUS
        <5>. QED  BY <1>5, <2>4, <3>2, <5>1 DEF IsBlock
      <4>. QED  BY <1>3, <2>4, <2>5, <2>6, <3>2, <4>1, LastBlock
    <3>3. \A k \in 1..Len(got') : IsOwn(got[k])'
      BY <1>2, <2>1, <2>2 DEF IsOwn, IsBlock
    <3>4. ASSUME ~missed'
          PROVE  /\ Len(got') = Count(Total(request), request.wLength)
                 /\ \A k \in 1..Len(got') : IsBlock(got[k], k)'
      BY <1>2, <1>9, <2>1, <2>4, <3>2, <3>4 DEF IsBlock
    <3>. QED  BY <1>2, <1>3, <1>9, <2>3, <3>1, <3>3, <3>4 DEF ReplyInv
  <2>7. CASE ~(tx.len < 8 \/ 8 * l + tx.len >= request.wLength)
    <3>1. phase' = "in" /\ tx.len = 8 /\ 8 * (l + 1) < request.wLength
      BY <1>1, <1>3, <1>9, <2>5, <2>7
    <3>2. Built(n)'
      BY <1>2, <1>4 DEF Built
    <3>3. ASSUME ~missed
          PROVE  8 * (l + 1) <= Total(request)
      <4>1. Lower(Total(request) - 8 * (n - 1), 8) = 8 /\ n - 1 = l
        BY <1>5, <2>4, <3>1, <3>3 DEF IsBlock
      <4>2. PICK total \in 0..40 : total = Total(request)
        BY <1>3
      <4>3. Lower(total - 8 * l, 8) = 8
        BY <4>1, <4>2
      <4>4. 8 <= total - 8 * l
        BY <4>2, <4>3 DEF Lower
      <4>. QED  BY <4>2, <4>4
    <3>4. Arrived(n)'
      <4>1. ASSUME ~missed'
            PROVE  /\ n = Len(got') /\ 8 * Len(got') <= Total(request)
                   /\ \A k \in 1..Len(got') : IsBlock(got[k], k)'
        BY <1>2, <1>9, <2>1, <2>4, <3>3, <4>1 DEF IsBlock
      <4>2. ASSUME missed', Total(request) < 16
            PROVE  FALSE
        <5>1. missed
          BY <1>9, <4>2, Zenon
        <5>. QED  BY <1>3, <2>3, <4>2, <5>1
      <4>. QED  BY <1>2, <4>1, <4>2 DEF Arrived
    <3>5. \E k \in 0..Last(Total(request)) : Built(k)' /\ Arrived(k)'
      BY <3>2, <3>4
    <3>. QED  BY <1>2, <1>9, <2>1, <2>2, <3>1, <3>5 DEF ReplyInv, IsOwn, IsBlock
  <2>. QED  BY <2>6, <2>7
<1>. QED  BY <1>6, <1>7, <1>8, <1>9 DEF TakeBlock, Retry

LEMMA ReplyStep ==
  ASSUME DeviceInv, BlockInv, ReplyInv, [Next]_vars
  PROVE  ReplyInv'
<1>r. ASSUME Retry \/ Fail
      PROVE  \/ phase' = phase /\ got' = got
             \/ phase' \in {"idle", "failed"} /\ got' = <<>>
  BY <1>r DEF Retry, Fail
<1>s. ASSUME Silent
      PROVE  UNCHANGED <<rx, tx, toggle, usbMsgLen, usbMsgPtr>>
  BY <1>s DEF Silent, driver
<1>n. ASSUME Silent, HostFrame, Retry \/ Fail, missed' = missed
      PROVE  ReplyInv'
  <2>1. UNCHANGED <<rx, tx, toggle, usbMsgLen, usbMsgPtr, request, missed>>
    BY <1>n, <1>s DEF HostFrame
  <2>2. CASE phase' = phase /\ got' = got
    BY <2>1, <2>2 DEF ReplyInv, Built, Arrived, IsOwn, IsBlock
  <2>3. CASE phase' \in {"idle", "failed"} /\ got' = <<>>
    BY <2>3 DEF ReplyInv
  <2>. QED  BY <1>n, <1>r, <2>2, <2>3
<1>1. CASE Start \/ Again
  <2>1. phase' = "setup" /\ got' = <<>> /\ ~missed'
    BY <1>1 DEF Start, Again, ReplyInv
  <2>. QED  BY <2>1 DEF ReplyInv
<1>2. CASE Recover \/ ResetAnyTime \/ EndReset \/ Watchdog
  <2>1. \/ phase' \in {"reset", "off"} /\ got' = <<>>
        \/ phase' = "idle" /\ got' = got /\ phase = "reset"
    BY <1>2 DEF Recover, ResetAnyTime, ResetBus, EndReset, Watchdog
  <2>. QED  BY <2>1 DEF ReplyInv
<1>3. CASE GiveUp
  BY <1>3, <1>n DEF GiveUp
<1>4. CASE Setup
  <2>1. /\ phase = "setup" /\ HostFrame /\ got = <<>> /\ request \in Requests
        /\ ~missed /\ missed' = missed
    BY <1>4 DEF Setup, ReplyInv, DeviceInv, RequestInv, Active
  <2>2. CASE /\ Store(request) /\ got' = got
             /\ phase' = IF request.wLength > 0 THEN "in" ELSE "statusIn"
    <3>1. /\ rx' = request /\ request' = request /\ request # None
          /\ Len(got) = 0 /\ request.wLength \in Nat
      BY <2>1, <2>2, RequestsAre, ReplyIs DEF Store, HostFrame
    <3>2. CASE request.wLength > 0
      <4>1. /\ phase' = "in" /\ got' = <<>> /\ Len(got') = 0 /\ 1..Len(got') = {}
            /\ 8 * 0 < request.wLength
        <5>1. phase' = "in" /\ got' = <<>>
          BY <2>1, <2>2, <3>2
        <5>2. Len(<<>>) = 0 /\ 1..0 = {}
          OBVIOUS
        <5>3. Len(got') = 0
          BY <5>1, <5>2
        <5>4. 8 * 0 < request.wLength
          <6>1. \A x \in Nat : x > 0 => 8 * 0 < x
            OBVIOUS
          <6>. QED  BY <3>1, <3>2, <6>1
        <5>. QED  BY <5>1, <5>2, <5>3, <5>4
      <4>. QED  BY <2>1, <3>1, <4>1 DEF ReplyInv
    <3>3. CASE ~(request.wLength > 0)
      BY <2>1, <2>2, <3>1, <3>3 DEF ReplyInv
    <3>. QED  BY <3>2, <3>3
  <2>3. CASE Retry
    BY <1>r, <2>1, <2>3 DEF ReplyInv
  <2>. QED  BY <1>4, <2>2, <2>3 DEF Setup
<1>5. CASE In
  <2>1. phase \in {"in", "statusIn"} /\ HostFrame
    BY <1>5 DEF In
  <2>2. CASE Silent /\ (Retry \/ Fail) /\ missed' = missed
    BY <1>n, <2>1, <2>2
  <2>3. CASE /\ SendBlock
             /\ \/ TakeBlock /\ missed' = missed
                \/ Retry /\ missed' = TRUE
    <3>1. CASE phase = "in"
      BY <2>1, <2>3, <3>1, ReplyIn
    <3>2. CASE phase = "statusIn"
      <4>1. got = <<>>
        BY <3>2 DEF ReplyInv
      <4>2. phase' \in {"statusIn", "idle", "failed"} /\ got' = <<>>
        BY <1>r, <2>3, <3>2, <4>1 DEF TakeBlock, Succeed
      <4>. QED  BY <4>2 DEF ReplyInv
    <3>. QED  BY <2>1, <3>1, <3>2
  <2>. QED  BY <1>5, <2>2, <2>3 DEF In
<1>6. CASE StatusOut
  <2>1. phase = "statusOut" /\ HostFrame /\ Silent /\ missed' = missed
    BY <1>6 DEF StatusOut
  <2>2. CASE Succeed /\ got' = got
    <3>1. phase' = "idle" /\ request' = request
      BY <2>1, <2>2 DEF Succeed, HostFrame
    <3>. QED  BY <2>1, <2>2, <3>1 DEF ReplyInv, IsOwn, IsBlock
  <2>. QED  BY <1>6, <1>n, <2>1, <2>2 DEF StatusOut
<1>7. CASE UNCHANGED vars
  BY <1>7 DEF vars, driver, host, ReplyInv, Built, Arrived, IsOwn, IsBlock
<1>. QED
  BY <1>1, <1>2, <1>3, <1>4, <1>5, <1>6, <1>7, ReplyPoll DEF Next

(* A request that has succeeded got blocks of its own reply, whatever was  *)
(* pending from an earlier one, and got them all in their order, unless    *)
(* one was lost of a reply that is sent in three blocks or more.           *)
THEOREM RepliesAreFresh == Spec => []FreshReply
<1>1. Init => BlockInv
  <2>1. <<>> \in Seq(Blocks)
    OBVIOUS
  <2>. QED  BY <2>1 DEF Init, BlockInv, Sources, NO_MSG
<1>2. Init => ReplyInv
  BY DEF Init, ReplyInv
<1>3. BlockInv /\ ReplyInv => FreshReply
  <2>. SUFFICES ASSUME BlockInv, ReplyInv, phase = "idle", got # <<>>
                PROVE  /\ \A k \in 1..Len(got) : Part(got[k]) \in Sent(request)
                       /\ \/ [k \in 1..Len(got) |-> Part(got[k])] = Expected(request)
                          \/ missed /\ Total(request) >= 16
    BY DEF FreshReply
  <2>1. /\ \A k \in 1..Len(got) : IsOwn(got[k])
        /\ missed => Total(request) >= 16
        /\ ~missed => /\ Len(got) = Count(Total(request), request.wLength)
                      /\ \A k \in 1..Len(got) : IsBlock(got[k], k)
    BY DEF ReplyInv
  <2>2. ASSUME NEW b, NEW n, IsBlock(b, n)
        PROVE  Part(b) = Block(request, n)
    BY <2>2 DEF IsBlock, Part, Block
  <2>3. ASSUME NEW k \in 1..Len(got)
        PROVE  Part(got[k]) \in Sent(request)
    <3>1. PICK n \in 1..Last(Total(request)) : IsBlock(got[k], n)
      BY <2>1 DEF IsOwn
    <3>. QED  BY <2>2, <3>1 DEF Sent, Last
  <2>4. ASSUME ~missed
        PROVE  [k \in 1..Len(got) |-> Part(got[k])] = Expected(request)
    <3>1. Expected(request) =
            [n \in 1..Count(Total(request), request.wLength) |-> Block(request, n)]
      BY DEF Expected, Count
    <3>2. \A k \in 1..Len(got) : Part(got[k]) = Block(request, k)
      BY <2>1, <2>2, <2>4
    <3>. QED  BY <2>1, <2>4, <3>1, <3>2
  <2>. QED  BY <2>1, <2>3, <2>4
<1>. QED
  BY DeviceAlways, BlockStep, ReplyStep, <1>1, <1>2, <1>3, PTL DEF Spec
=============================================================================
