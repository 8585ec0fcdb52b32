--------------------------- MODULE EppLinkProofs ---------------------------
(***************************************************************************)
(* Proofs about LptPort, for every set of bytes the host writes, every     *)
(* length of the wait loop and every behaviour of the pins; and about      *)
(* EppLink, which extends it, for every speed of the device.               *)
(***************************************************************************)
EXTENDS EppLink, TLAPS

(* What InputNotDriven, HandshakeStable and CycleReleases rest on at the   *)
(* steps they do not speak of: a write that has not turned the data lines  *)
(* yet, or has turned them back, leaves them as the registers say; the     *)
(* lines have been turned when the write line is set; and a strobe that    *)
(* has been set stays as it was set until the other one is.                *)
CycleInv ==
  /\ pc \in {"wCheck", "wDir", "wReturn"} /\ ~DataIsOutput(ActiveMode, PCON)
       => ddr = "in"
  /\ pc = "wWrite" => ddr = "out"
  /\ pc = "rWrite" => ddr = "in"
  /\ pc \in {"wSelect", "rSelect"} => pin["nLINE_FEED"] = (reg = "ADDSTR")
  /\ pc \in {"wEndSelect", "rEndSelect"} => pin["nLINE_FEED"]

IInv ==
  /\ TypeOK
  /\ InputNotDriven
  /\ HandshakeStable
  /\ CycleReleases
  /\ CycleInv

-----------------------------------------------------------------------------

(* Setting one control pin (lpt.c:52-55) keeps the pins typed. *)
LEMMA PinTyped ==
  ASSUME NEW name \in ControlPins, NEW level \in BOOLEAN,
         pin \in [ControlPins -> BOOLEAN],
         pin' = [pin EXCEPT ![name] = level]
  PROVE  pin' \in [ControlPins -> BOOLEAN]
OBVIOUS

(* The registers, pins and locals keep their types under every step. *)
LEMMA TypeInductive == TypeOK /\ [Next]_vars => TypeOK'
<1> USE DEF Byte, Modes, Strobes, ControlPins, ControlPCs, WritePCs, ReadPCs
<1> SUFFICES ASSUME TypeOK, [Next]_vars PROVE TypeOK'
  OBVIOUS
<1> USE LptAssumption DEF TypeOK, call
<1>1. CASE Calls
  <2>1. ASSUME NEW mode \in Modes, LPT_SetMode(mode) PROVE TypeOK'
    BY <2>1 DEF LPT_SetMode, Direction, inputs, locals
  <2>2. ASSUME NEW value \in DataBytes, SetPDATA(value) PROVE TypeOK'
    BY <2>2 DEF SetPDATA, inputs, locals
  <2>3. ASSUME NEW value \in ControlBytes, SetPCON(value) PROVE TypeOK'
    BY <2>3 DEF SetPCON, Goto, Direction, inputs
  <2>4. ASSUME NEW r \in Strobes, NEW value \in DataBytes,
               SetStrobeRegister(r, value)
        PROVE  TypeOK'
    BY <2>4 DEF SetStrobeRegister, Goto, outputs, inputs
  <2>5. ASSUME NEW r \in Strobes, GetStrobeRegister(r) PROVE TypeOK'
    BY <2>5 DEF GetStrobeRegister, Goto, registers, outputs, inputs
  <2>6. CASE GetPDATA
    BY <2>6 DEF GetPDATA, DataGet, registers, outputs, inputs
  <2>7. CASE GetPSTAT
    BY <2>7 DEF GetPSTAT, outputs, inputs
  <2>8. CASE GetPCON
    BY <2>8 DEF GetPCON, registers, outputs, inputs
  <2> QED
    BY <1>1, <2>1, <2>2, <2>3, <2>4, <2>5, <2>6, <2>7, <2>8 DEF Calls
<1>3. CASE ControlPinsFollow
  <2>1. /\ (0 \notin arg) \in BOOLEAN
        /\ (1 \notin arg) \in BOOLEAN
        /\ (2 \in arg) \in BOOLEAN
        /\ (3 \notin arg) \in BOOLEAN
    OBVIOUS
  <2>2. pin' \in [ControlPins -> BOOLEAN]
    <3>1. CASE ControlPin("cStrobe", "cLineFeed", "nSTROBE", 0 \notin arg)
      BY <3>1, <2>1, PinTyped, Zenon DEF ControlPin
    <3>2. CASE ControlPin("cLineFeed", "cReset", "nLINE_FEED", 1 \notin arg)
      BY <3>2, <2>1, PinTyped, Zenon DEF ControlPin
    <3>3. CASE ControlPin("cReset", "cSelect", "RESET", 2 \in arg)
      BY <3>3, <2>1, PinTyped, Zenon DEF ControlPin
    <3>4. CASE ControlPin("cSelect", "idle", "nSELECT_PRINTER", 3 \notin arg)
      BY <3>4, <2>1, PinTyped, Zenon DEF ControlPin
    <3> QED
      BY <1>3, <3>1, <3>2, <3>3, <3>4 DEF ControlPinsFollow
  <2>3. /\ UNCHANGED <<registers, ddr, latch, inputs, call, timeout,
                       success, ret>>
        /\ pc' \in ControlPCs \cup {"idle"}
    BY <1>3 DEF ControlPinsFollow, ControlPin, Goto
  <2> QED
    BY <2>2, <2>3 DEF registers, inputs
<1>4. CASE EppWrite
  <2>1. CASE WriteBegin
    <3>1. CASE CheckReady("wCheck", "wDir", "wReturn")
      BY <3>1 DEF CheckReady, registers, outputs, inputs
    <3>2. CASE TurnData("wDir", "wWrite", "out")
      BY <3>2 DEF TurnData, Goto, registers, inputs
    <3>3. CASE ControlPin("wWrite", "wData", "nSTROBE", FALSE)
      BY <3>3 DEF ControlPin, Goto, registers, inputs
    <3>4. CASE WriteData
      BY <3>4 DEF WriteData, Goto, registers, inputs
    <3>5. CASE ControlPin("wLineFeed", "wSelect", "nLINE_FEED", reg = "ADDSTR")
      BY <3>5 DEF ControlPin, Goto, registers, inputs
    <3>6. CASE ControlPin("wSelect", "wPoll", "nSELECT_PRINTER", reg = "DATASTR")
      BY <3>6 DEF ControlPin, Goto, registers, inputs
    <3> QED
      BY <2>1, <3>1, <3>2, <3>3, <3>4, <3>5, <3>6 DEF WriteBegin
  <2>2. CASE WriteWait
    <3>1. CASE Poll("wPoll", "wSample")
      BY <3>1 DEF Poll, registers, outputs, inputs
    <3>2. CASE Sample("wSample", "wEndLineFeed", "wEndLineFeed")
      BY <3>2 DEF Sample, registers, outputs, inputs
    <3> QED
      BY <2>2, <3>1, <3>2 DEF WriteWait
  <2>3. CASE WriteEnd
    <3>1. CASE ControlPin("wEndLineFeed", "wEndSelect", "nLINE_FEED", TRUE)
      BY <3>1 DEF ControlPin, Goto, registers, inputs
    <3>2. CASE ControlPin("wEndSelect", "wEndWrite", "nSELECT_PRINTER", TRUE)
      BY <3>2 DEF ControlPin, Goto, registers, inputs
    <3>3. CASE ControlPin("wEndWrite", "wRestore", "nSTROBE", TRUE)
      BY <3>3 DEF ControlPin, Goto, registers, inputs
    <3>4. CASE TurnData("wRestore", "wReturn", Direction(5 \notin PCON))
      BY <3>4 DEF TurnData, Goto, Direction, registers, inputs
    <3>5. CASE Return("wReturn")
      BY <3>5 DEF Return, Goto, outputs, inputs
    <3> QED
      BY <2>3, <3>1, <3>2, <3>3, <3>4, <3>5 DEF WriteEnd
  <2> QED
    BY <1>4, <2>1, <2>2, <2>3 DEF EppWrite
<1>5. CASE EppRead
  <2>1. CASE ReadBegin
    <3>1. CASE CheckReady("rCheck", "rDir", "rReturn")
      BY <3>1 DEF CheckReady, registers, outputs, inputs
    <3>2. CASE TurnData("rDir", "rWrite", "in")
      BY <3>2 DEF TurnData, Goto, registers, inputs
    <3>3. CASE ControlPin("rWrite", "rLineFeed", "nSTROBE", TRUE)
      BY <3>3 DEF ControlPin, Goto, registers, inputs
    <3>4. CASE ControlPin("rLineFeed", "rSelect", "nLINE_FEED", reg = "ADDSTR")
      BY <3>4 DEF ControlPin, Goto, registers, inputs
    <3>5. CASE ControlPin("rSelect", "rPoll", "nSELECT_PRINTER", reg = "DATASTR")
      BY <3>5 DEF ControlPin, Goto, registers, inputs
    <3> QED
      BY <2>1, <3>1, <3>2, <3>3, <3>4, <3>5 DEF ReadBegin
  <2>2. CASE ReadWait
    <3>1. CASE Poll("rPoll", "rSample")
      BY <3>1 DEF Poll, registers, outputs, inputs
    <3>2. CASE Sample("rSample", "rFetch", "rEndLineFeed")
      BY <3>2 DEF Sample, registers, outputs, inputs
    <3>3. CASE ReadFetch
      BY <3>3 DEF ReadFetch, Goto, DataGet, registers, outputs, inputs
    <3> QED
      BY <2>2, <3>1, <3>2, <3>3 DEF ReadWait
  <2>3. CASE ReadEnd
    <3>1. CASE ControlPin("rEndLineFeed", "rEndSelect", "nLINE_FEED", TRUE)
      BY <3>1 DEF ControlPin, Goto, registers, inputs
    <3>2. CASE ControlPin("rEndSelect", "rUnsetup", "nSELECT_PRINTER", TRUE)
      BY <3>2 DEF ControlPin, Goto, registers, inputs
    <3>3. CASE ReadUnsetup
      BY <3>3 DEF ReadUnsetup, Goto, outputs, inputs
    <3>4. CASE Return("rReturn")
      BY <3>4 DEF Return, Goto, outputs, inputs
    <3> QED
      BY <2>3, <3>1, <3>2, <3>3, <3>4 DEF ReadEnd
  <2> QED
    BY <1>5, <2>1, <2>2, <2>3 DEF EppRead
<1>6. CASE PinsChange
  BY <1>6 DEF PinsChange, registers, outputs, locals
<1>7. CASE UNCHANGED vars
  BY <1>7 DEF vars, registers, outputs, inputs, locals
<1> QED
  BY <1>1, <1>3, <1>4, <1>5, <1>6, <1>7 DEF Next, Continue

(* The registers of lpt.c hold what their masks leave, the wait counter    *)
(* stays within its budget, and every call is at a statement of the code.  *)
THEOREM TypeCorrect == Spec => []TypeOK
<1>1. Init => TypeOK
  BY LptAssumption DEF Init, TypeOK, Byte, Modes, Strobes, ControlPins
<1> QED
  BY <1>1, TypeInductive, PTL DEF Spec

-----------------------------------------------------------------------------

Safety == InputNotDriven /\ HandshakeStable /\ CycleReleases /\ CycleInv

(* One step per action: the pins an action sets, the statement it is at    *)
(* and the parts of IInv about that statement give the parts about the     *)
(* next one.                                                               *)
LEMMA SafetyInductive == IInv /\ [Next]_vars => Safety'
<1> SUFFICES ASSUME IInv, [Next]_vars PROVE Safety'
  OBVIOUS
<1> USE DEF IInv, TypeOK, Safety, InputNotDriven, HandshakeStable,
            CycleReleases, CycleInv, DataIsOutput, WritePCs, ReadPCs,
            ControlPCs, ControlPins, Strobes, call
<1>1. CASE Calls
  <2>1. ASSUME NEW mode \in Modes, LPT_SetMode(mode) PROVE Safety'
    BY <2>1 DEF LPT_SetMode, Direction, locals
  <2>2. ASSUME NEW value \in DataBytes, SetPDATA(value) PROVE Safety'
    BY <2>2 DEF SetPDATA, locals
  <2>3. ASSUME NEW value \in ControlBytes, SetPCON(value) PROVE Safety'
    BY <2>3 DEF SetPCON, Goto, Direction
  <2>4. ASSUME NEW r \in Strobes, NEW value \in DataBytes,
               SetStrobeRegister(r, value)
        PROVE Safety'
    BY <2>4 DEF SetStrobeRegister, Goto, outputs
  <2>5. ASSUME NEW r \in Strobes, GetStrobeRegister(r) PROVE Safety'
    BY <2>5 DEF GetStrobeRegister, Goto, registers, outputs
  <2>6. CASE GetPDATA
    BY <2>6 DEF GetPDATA, registers, outputs
  <2>7. CASE GetPSTAT
    BY <2>7 DEF GetPSTAT, outputs
  <2>8. CASE GetPCON
    BY <2>8 DEF GetPCON, registers, outputs
  <2> QED
    BY <1>1, <2>1, <2>2, <2>3, <2>4, <2>5, <2>6, <2>7, <2>8 DEF Calls
<1>2. CASE ControlPinsFollow
  BY <1>2 DEF ControlPinsFollow, ControlPin, Goto, registers
<1>3. CASE EppWrite
  <2>1. CASE WriteBegin
    <3>1. CASE CheckReady("wCheck", "wDir", "wReturn")
      BY <3>1 DEF CheckReady, registers, outputs, inputs
    <3>2. CASE TurnData("wDir", "wWrite", "out")
      BY <3>2 DEF TurnData, Goto, registers, inputs
    <3>3. CASE ControlPin("wWrite", "wData", "nSTROBE", FALSE)
      BY <3>3 DEF ControlPin, Goto, registers, inputs
    <3>4. CASE WriteData
      BY <3>4 DEF WriteData, Goto, registers, inputs
    <3>5. CASE ControlPin("wLineFeed", "wSelect", "nLINE_FEED", reg = "ADDSTR")
      BY <3>5 DEF ControlPin, Goto, registers, inputs
    <3>6. CASE ControlPin("wSelect", "wPoll", "nSELECT_PRINTER", reg = "DATASTR")
      BY <3>6 DEF ControlPin, Goto, registers, inputs
    <3> QED
      BY <2>1, <3>1, <3>2, <3>3, <3>4, <3>5, <3>6 DEF WriteBegin
  <2>2. CASE WriteWait
    <3>1. CASE Poll("wPoll", "wSample")
      BY <3>1 DEF Poll, registers, outputs, inputs
    <3>2. CASE Sample("wSample", "wEndLineFeed", "wEndLineFeed")
      BY <3>2 DEF Sample, registers, outputs, inputs
    <3> QED
      BY <2>2, <3>1, <3>2 DEF WriteWait
  <2>3. CASE WriteEnd
    <3>1. CASE ControlPin("wEndLineFeed", "wEndSelect", "nLINE_FEED", TRUE)
      BY <3>1 DEF ControlPin, Goto, registers, inputs
    <3>2. CASE ControlPin("wEndSelect", "wEndWrite", "nSELECT_PRINTER", TRUE)
      BY <3>2 DEF ControlPin, Goto, registers, inputs
    <3>3. CASE ControlPin("wEndWrite", "wRestore", "nSTROBE", TRUE)
      BY <3>3 DEF ControlPin, Goto, registers, inputs
    <3>4. CASE TurnData("wRestore", "wReturn", Direction(5 \notin PCON))
      BY <3>4 DEF TurnData, Goto, Direction, registers, inputs
    <3>5. CASE Return("wReturn")
      BY <3>5 DEF Return, Goto, outputs, inputs
    <3> QED
      BY <2>3, <3>1, <3>2, <3>3, <3>4, <3>5 DEF WriteEnd
  <2> QED
    BY <1>3, <2>1, <2>2, <2>3 DEF EppWrite
<1>4. CASE EppRead
  <2>1. CASE ReadBegin
    <3>1. CASE CheckReady("rCheck", "rDir", "rReturn")
      BY <3>1 DEF CheckReady, registers, outputs, inputs
    <3>2. CASE TurnData("rDir", "rWrite", "in")
      BY <3>2 DEF TurnData, Goto, registers, inputs
    <3>3. CASE ControlPin("rWrite", "rLineFeed", "nSTROBE", TRUE)
      BY <3>3 DEF ControlPin, Goto, registers, inputs
    <3>4. CASE ControlPin("rLineFeed", "rSelect", "nLINE_FEED", reg = "ADDSTR")
      BY <3>4 DEF ControlPin, Goto, registers, inputs
    <3>5. CASE ControlPin("rSelect", "rPoll", "nSELECT_PRINTER", reg = "DATASTR")
      BY <3>5 DEF ControlPin, Goto, registers, inputs
    <3> QED
      BY <2>1, <3>1, <3>2, <3>3, <3>4, <3>5 DEF ReadBegin
  <2>2. CASE ReadWait
    <3>1. CASE Poll("rPoll", "rSample")
      BY <3>1 DEF Poll, registers, outputs, inputs
    <3>2. CASE Sample("rSample", "rFetch", "rEndLineFeed")
      BY <3>2 DEF Sample, registers, outputs, inputs
    <3>3. CASE ReadFetch
      BY <3>3 DEF ReadFetch, Goto, DataGet, registers, outputs, inputs
    <3> QED
      BY <2>2, <3>1, <3>2, <3>3 DEF ReadWait
  <2>3. CASE ReadEnd
    <3>1. CASE ControlPin("rEndLineFeed", "rEndSelect", "nLINE_FEED", TRUE)
      BY <3>1 DEF ControlPin, Goto, registers, inputs
    <3>2. CASE ControlPin("rEndSelect", "rUnsetup", "nSELECT_PRINTER", TRUE)
      BY <3>2 DEF ControlPin, Goto, registers, inputs
    <3>3. CASE ReadUnsetup
      BY <3>3 DEF ReadUnsetup, Goto, outputs, inputs
    <3>4. CASE Return("rReturn")
      BY <3>4 DEF Return, Goto, outputs, inputs
    <3> QED
      BY <2>3, <3>1, <3>2, <3>3, <3>4 DEF ReadEnd
  <2> QED
    BY <1>4, <2>1, <2>2, <2>3 DEF EppRead
<1>5. CASE PinsChange
  BY <1>5 DEF PinsChange, registers, outputs, locals
<1>6. CASE UNCHANGED vars
  BY <1>6 DEF vars, registers, outputs, inputs, locals
<1> QED
  BY <1>1, <1>2, <1>3, <1>4, <1>5, <1>6 DEF Next, Continue

(* LPT_init establishes the inductive invariant.                           *)
LEMMA InitInv == Init => IInv
<1>1. Init => Safety
  BY DEF Init, Safety, InputNotDriven, HandshakeStable, CycleReleases,
         CycleInv, DataIsOutput, WritePCs
<1> QED
  BY <1>1, LptAssumption
     DEF Init, IInv, Safety, TypeOK, Byte, Modes, Strobes, ControlPins

(* Every step of the port preserves it.                                    *)
LEMMA StepInv == IInv /\ [Next]_vars => IInv'
BY TypeInductive, SafetyInductive DEF IInv, Safety

(* The inductive invariant holds in every reachable state. *)
THEOREM Invariance == Spec => []IInv
BY InitInv, StepInv, PTL DEF Spec

(* lpt.c never drives the data lines against its own registers, whatever   *)
(* sequence of calls it is given.                                          *)
THEOREM NeverDrivesInput == Spec => []InputNotDriven
BY Invariance, PTL DEF IInv

(* The order of the statements of EppWrite and EppRead is enough to keep   *)
(* direction, write line and data steady around a strobe, from every state *)
(* of the pins and registers a call can start in.                          *)
THEOREM CyclesAreStable == Spec => []HandshakeStable
BY Invariance, PTL DEF IInv

(* Every cycle that touched the pins ends with both strobes high. *)
THEOREM CyclesRelease == Spec => []CycleReleases
BY Invariance, PTL DEF IInv

(* The time-out bit is set by every failed cycle and cleared only by the   *)
(* LPT_GetReg(PSTAT) that returns it.                                      *)
THEOREM TimeoutsAreReported == Spec => TimeoutReported
<1>1. ASSUME TypeOK, Next PROVE TimeoutStep
  <2> USE DEF TimeoutStep, Goto, call
  <2>1. CASE Calls
    BY <2>1 DEF Calls, LPT_SetMode, SetPDATA, SetPCON, SetStrobeRegister,
                GetStrobeRegister, GetPDATA, GetPSTAT, GetPCON, registers
  <2>2. CASE ControlPinsFollow
    BY <2>2 DEF ControlPinsFollow, ControlPin, registers
  <2>3. CASE EppWrite
    BY <2>3 DEF EppWrite, WriteBegin, WriteData, WriteWait, WriteEnd,
                CheckReady, TurnData, ControlPin, Poll, Sample, Return,
                registers
  <2>4. CASE EppRead
    BY <2>4 DEF EppRead, ReadBegin, ReadFetch, ReadWait, ReadUnsetup, ReadEnd,
                CheckReady, TurnData, ControlPin, Poll, Sample, Return,
                registers
  <2>5. CASE PinsChange
    BY <2>5 DEF PinsChange, registers, locals
  <2> QED
    BY <1>1, <2>1, <2>2, <2>3, <2>4, <2>5 DEF Next, Continue
<1> QED
  BY <1>1, TypeCorrect, PTL DEF Spec, TimeoutReported

-----------------------------------------------------------------------------
(* The port and the device. *)

(* The part of a cycle before its strobe has been sampled, in two halves.  *)
BeforeStrobe == {"wDir", "wWrite", "wData", "wLineFeed", "wSelect",
                 "rDir", "rWrite", "rLineFeed", "rSelect"}
Waiting == {"wPoll", "wSample", "rPoll", "rSample", "rFetch"}
Ending == {"wEndLineFeed", "wEndSelect", "rEndLineFeed", "rEndSelect"}
ReadEnding == {"rEndLineFeed", "rEndSelect", "rUnsetup", "rReturn"}
WriteEnding == {"wEndLineFeed", "wEndSelect", "wEndWrite", "wRestore",
                "wReturn"}

LinkTypeOK ==
  /\ ext \in DataBytes
  /\ moved \in BOOLEAN
  /\ seen \in {Transfer!None} \cup Transfer!Transfers

(* A device that is out of reset sees a strobe low only inside a cycle, or *)
(* in the power-up glitch.                                                 *)
StrobeInv ==
  /\ pin["RESET"] /\ StrobeLow
       => pc \in {"wSelect", "rSelect", "cSelect"} \cup Waiting \cup Ending
  /\ pc \in ControlPCs => arg \cap {1, 3} = {}
  /\ pc \in WritePCs \cup ReadPCs => reg \in Strobes
  /\ pc \in {"cReset", "cSelect"} => pin["nLINE_FEED"]
  /\ pc \in {"wEndLineFeed", "rEndLineFeed"}
       => pin["nLINE_FEED"] = (reg = "ADDSTR")
  /\ pc \in Ending => pin["nSELECT_PRINTER"] = (reg = "DATASTR")

(* The device starts a cycle ready, and is not ready again before it ends. *)
ReadyInv ==
  /\ pc \in BeforeStrobe /\ (~pin["RESET"] \/ ~StrobeLow) => ~nBUSY
  /\ pc \in BeforeStrobe \cup Waiting /\ nBUSY => moved
  /\ pin["RESET"] /\ StrobeLow /\ moved => nBUSY
  /\ pc \in BeforeStrobe \cup Waiting /\ moved => pin["RESET"] /\ StrobeLow
  /\ pc \in {"cStrobe", "cLineFeed", "cReset", "wCheck", "rCheck"} => ~moved

(* What a cycle that has succeeded so far can tell its caller.             *)
AnswerInv ==
  /\ pc \in {"rSelect", "rPoll", "rSample", "rFetch"} /\ moved
       => seen.val = ext
  /\ pc = "rFetch" => moved
  /\ pc \in WriteEnding /\ success => moved
  /\ pc \in ReadEnding /\ success => moved /\ ret = seen.val

LinkInv == IInv /\ LinkTypeOK /\ StrobeInv /\ ReadyInv /\ AnswerInv

-----------------------------------------------------------------------------

(* Every step of the link is a step of the port with arbitrary pins.       *)
LEMMA LinkStep ==
  ASSUME TypeOK, LinkTypeOK, [LinkNext]_linkVars
  PROVE  [Next]_vars
<1> USE DEF Next, vars
<1>1. CASE LinkCall
  BY <1>1 DEF LinkCall
<1>2. CASE LinkContinue
  BY <1>2 DEF LinkContinue
<1>3. CASE DeviceAccepts
  <2>1. nBUSY' \in BOOLEAN /\ ext' \in DataBytes /\ inputs' # inputs
    BY <1>3 DEF DeviceAccepts, LinkTypeOK, inputs
  <2> QED
    BY <1>3, <2>1 DEF DeviceAccepts, PinsChange
<1>4. CASE DeviceReleases
  <2>1. nBUSY' \in BOOLEAN /\ ext' \in DataBytes /\ inputs' # inputs
    BY <1>4 DEF DeviceReleases, inputs
  <2> QED
    BY <1>4, <2>1 DEF DeviceReleases, PinsChange
<1>5. CASE UNCHANGED linkVars
  BY <1>5 DEF linkVars
<1> QED
  BY <1>1, <1>2, <1>3, <1>4, <1>5 DEF LinkNext, Device

(* Every step keeps the types of the device and of the pins.               *)
LEMMA LinkTypeInductive ==
  ASSUME TypeOK, LinkTypeOK, [LinkNext]_linkVars
  PROVE  LinkTypeOK'
<1> USE DEF LinkTypeOK
<1>1. CASE LinkCall
  <2>1. ext' = ext
    BY <1>1 DEF LinkCall, Calls, LPT_SetMode, SetPDATA, SetPCON,
                SetStrobeRegister, GetStrobeRegister, GetPDATA, GetPSTAT,
                GetPCON, inputs
  <2>2. moved' \in BOOLEAN
    BY <1>1, Zenon DEF LinkCall
  <2> QED
    BY <1>1, <2>1, <2>2 DEF LinkCall
<1>2. CASE LinkContinue
  <2>1. ext' = ext
    BY <1>2 DEF LinkContinue, Continue, ControlPinsFollow, EppWrite, EppRead,
                WriteBegin, WriteWait, WriteEnd, ReadBegin, ReadWait, ReadEnd,
                ControlPin, TurnData, CheckReady, Poll, Sample, Return,
                WriteData, ReadFetch, ReadUnsetup, inputs, outputs
  <2> QED
    BY <1>2, <2>1 DEF LinkContinue
<1>3. CASE DeviceAccepts
  <2>1. DataGet \in Byte /\ ext \in Byte
    BY LptAssumption DEF TypeOK, DataGet
  <2>2. seen' \in Transfer!Transfers
    BY <1>3, <2>1 DEF DeviceAccepts, Transfer!Transfers, Transfer!Writes, Strobes
  <2> QED
    BY <1>3, <2>2 DEF DeviceAccepts
<1>4. CASE DeviceReleases
  BY <1>4 DEF DeviceReleases
<1>5. CASE UNCHANGED linkVars
  BY <1>5 DEF linkVars, vars, inputs
<1> QED
  BY <1>1, <1>2, <1>3, <1>4, <1>5 DEF LinkNext, Device

-----------------------------------------------------------------------------

LinkSafety == StrobeInv /\ ReadyInv /\ AnswerInv

(* One step per action of the firmware and of the device.                  *)
LEMMA LinkSafetyInductive ==
  ASSUME IInv, LinkTypeOK, LinkSafety, [LinkNext]_linkVars
  PROVE  LinkSafety'
<1> USE DEF IInv, TypeOK, HandshakeStable, CycleInv, LinkTypeOK, LinkSafety,
            StrobeInv, ReadyInv, AnswerInv, StrobeLow, BeforeStrobe, Waiting,
            Ending, ReadEnding, WriteEnding, WritePCs, ReadPCs, ControlPCs,
            ControlPins, Strobes, Goto, registers, outputs, inputs, locals, call
<1>1. CASE LinkCall
  <2> USE <1>1 DEF LinkCall
  <2>1. ASSUME NEW mode \in Modes, LPT_SetMode(mode) PROVE LinkSafety'
    BY <2>1 DEF LPT_SetMode
  <2>2. ASSUME NEW value \in DataBytes, SetPDATA(value) PROVE LinkSafety'
    BY <2>2 DEF SetPDATA
  <2>3. ASSUME NEW value \in ControlBytes, SetPCON(value) PROVE LinkSafety'
    BY <2>3, LinkAssumption DEF SetPCON
  <2>4. ASSUME NEW r \in Strobes, NEW value \in DataBytes,
               SetStrobeRegister(r, value)
        PROVE  LinkSafety'
    BY <2>4 DEF SetStrobeRegister
  <2>5. ASSUME NEW r \in Strobes, GetStrobeRegister(r) PROVE LinkSafety'
    BY <2>5 DEF GetStrobeRegister
  <2>6. CASE GetPDATA
    BY <2>6 DEF GetPDATA
  <2>7. CASE GetPSTAT
    BY <2>7 DEF GetPSTAT
  <2>8. CASE GetPCON
    BY <2>8 DEF GetPCON
  <2> QED
    BY <2>1, <2>2, <2>3, <2>4, <2>5, <2>6, <2>7, <2>8 DEF Calls
<1>2. CASE LinkContinue
  <2> USE <1>2 DEF LinkContinue
  <2>1. CASE ControlPinsFollow
    BY ZenonT(60), <2>1 DEF ControlPinsFollow, ControlPin
  <2>2. CASE WriteBegin
    BY <2>2 DEF WriteBegin, CheckReady, TurnData, ControlPin, WriteData
  <2>3. CASE WriteWait
    BY <2>3 DEF WriteWait, Poll, Sample
  <2>4. CASE WriteEnd
    BY <2>4 DEF WriteEnd, ControlPin, TurnData, Return
  <2>5. CASE ReadBegin
    BY <2>5 DEF ReadBegin, CheckReady, TurnData, ControlPin
  <2>6. CASE ReadWait
    BY <2>6 DEF ReadWait, Poll, Sample, ReadFetch, DataGet
  <2>7. CASE ReadEnd
    BY <2>7 DEF ReadEnd, ControlPin, ReadUnsetup, Return
  <2> QED
    BY <2>1, <2>2, <2>3, <2>4, <2>5, <2>6, <2>7
       DEF Continue, EppWrite, EppRead
<1>3. CASE DeviceAccepts
  BY <1>3 DEF DeviceAccepts
<1>4. CASE DeviceReleases
  BY <1>4 DEF DeviceReleases
<1>5. CASE UNCHANGED linkVars
  BY <1>5 DEF linkVars, vars
<1> QED
  BY <1>1, <1>2, <1>3, <1>4, <1>5 DEF LinkNext, Device

(* Both sides start with the strobes up and the bus released.             *)
LEMMA LinkInitially == LinkInit => LinkInv
<1> SUFFICES ASSUME LinkInit PROVE LinkInv
  OBVIOUS
<1>1. IInv
  BY InitInv DEF LinkInit
<1>2. LinkTypeOK
  BY DEF LinkInit, Init, LinkTypeOK, Transfer!None
<1>3. StrobeInv /\ ReadyInv /\ AnswerInv
  BY DEF LinkInit, Init, StrobeInv, ReadyInv, AnswerInv, StrobeLow,
         BeforeStrobe, Waiting, Ending, ReadEnding, WriteEnding, WritePCs,
         ReadPCs, ControlPCs, ControlPins
<1> QED
  BY <1>1, <1>2, <1>3 DEF LinkInv

(* The register file, the cycles and the device together.                  *)
LEMMA LinkInductive == LinkInv /\ [LinkNext]_linkVars => LinkInv'
<1> SUFFICES ASSUME LinkInv, [LinkNext]_linkVars PROVE LinkInv'
  OBVIOUS
<1>1. [Next]_vars
  BY LinkStep DEF LinkInv, IInv
<1>2. IInv'
  BY <1>1, StepInv DEF LinkInv
<1>3. LinkTypeOK'
  BY LinkTypeInductive DEF LinkInv, IInv
<1>4. LinkSafety'
  BY LinkSafetyInductive DEF LinkInv, LinkSafety
<1> QED
  BY <1>2, <1>3, <1>4 DEF LinkInv, LinkSafety

(* The adapter and the device stay in step: a cycle waits for the answer   *)
(* to its own strobe, and the device drives the bus only in a read cycle.  *)
THEOREM LinkInvariance == LinkSpec => []LinkInv
BY LinkInitially, LinkInductive, PTL DEF LinkSpec

(* The adapter and the device never drive the data lines at once, except   *)
(* in the power-up glitch, however slow the device is and however long     *)
(* EppWrite and EppRead wait.                                              *)
THEOREM NeverContends == LinkSpec => []NoContention
<1>1. LinkInv => NoContention
  BY DEF LinkInv, IInv, HandshakeStable, StrobeInv, NoContention,
         DeviceDrives, Waiting, Ending
<1> QED
  BY <1>1, LinkInvariance, PTL

(* The nBUSY check at the head of a cycle is enough to keep a strobe from  *)
(* falling on a device that is still busy with the cycle before.           *)
THEOREM StrobesFindReady == LinkSpec => StrobeFindsReady
<1>1. ASSUME LinkInv, LinkNext, pin["RESET"], ~StrobeLow, StrobeLow'
      PROVE  ~nBUSY
  <2> USE <1>1 DEF LinkInv, IInv, TypeOK, ReadyInv, StrobeInv, StrobeLow,
                   BeforeStrobe, ControlPins, ControlPCs, Goto, outputs
  <2>1. CASE LinkCall
    BY <2>1 DEF LinkCall, Calls, LPT_SetMode, SetPDATA, SetPCON,
                SetStrobeRegister, GetStrobeRegister, GetPDATA, GetPSTAT,
                GetPCON
  <2>2. CASE LinkContinue /\ ControlPinsFollow
    BY <2>2 DEF ControlPinsFollow, ControlPin
  <2>3. CASE LinkContinue /\ EppWrite
    BY <2>3 DEF EppWrite, WriteBegin, WriteWait, WriteEnd, CheckReady,
                TurnData, ControlPin, WriteData, Poll, Sample, Return
  <2>4. CASE LinkContinue /\ EppRead
    BY <2>4 DEF EppRead, ReadBegin, ReadWait, ReadEnd, CheckReady, TurnData,
                ControlPin, Poll, Sample, ReadFetch, ReadUnsetup, Return
  <2>5. CASE Device
    BY <2>5 DEF Device, DeviceAccepts, DeviceReleases
  <2> QED
    BY <2>1, <2>2, <2>3, <2>4, <2>5 DEF LinkNext, LinkContinue, Continue
<1>2. LinkInv /\ [LinkNext]_linkVars
      => [pin["RESET"] /\ ~StrobeLow /\ StrobeLow' => ~nBUSY]_linkVars
  BY <1>1
<1> QED
  BY <1>2, LinkInvariance, PTL DEF LinkSpec, StrobeFindsReady

-----------------------------------------------------------------------------
(* The refinement.                                                         *)

Outcome == IF pc # "idle" THEN "pending" ELSE IF success THEN "ok" ELSE "failed"
Answer == IF pc = "idle" THEN ret ELSE {}

(* The request by the statement the call is at, now and after a step.      *)
LEMMA CallNow ==
  /\ pc = "idle" => InCall = Transfer!None
  /\ pc \in ControlPCs => InCall = Transfer!Control
  /\ pc \in WritePCs => InCall = [kind |-> "write", reg |-> reg, val |-> arg]
  /\ pc \in ReadPCs => InCall = [kind |-> "read", reg |-> reg]
<1>1. /\ pc \in ReadPCs => pc \notin WritePCs
      /\ pc \in ControlPCs => pc \notin WritePCs \cup ReadPCs
      /\ pc = "idle" => pc \notin WritePCs \cup ReadPCs \cup ControlPCs
  BY DEF WritePCs, ReadPCs, ControlPCs
<1> QED
  BY <1>1, Zenon DEF InCall, Transfer!None, Transfer!Control

(* What the abstract call becomes in a step.                               *)
LEMMA CallNext ==
  /\ pc' = "idle" => InCall' = Transfer!None
  /\ pc' \in ControlPCs => InCall' = Transfer!Control
  /\ pc' \in WritePCs
       => InCall' = [kind |-> "write", reg |-> reg', val |-> arg']
  /\ pc' \in ReadPCs => InCall' = [kind |-> "read", reg |-> reg']
<1>1. /\ pc' \in ReadPCs => pc' \notin WritePCs
      /\ pc' \in ControlPCs => pc' \notin WritePCs \cup ReadPCs
      /\ pc' = "idle" => pc' \notin WritePCs \cup ReadPCs \cup ControlPCs
  BY DEF WritePCs, ReadPCs, ControlPCs
<1> QED
  BY <1>1, Zenon DEF InCall, Transfer!None, Transfer!Control

(* A step that stays inside its call, or outside of calls, without showing *)
(* anything is a stutter of EppTransfer.                                   *)
Hidden == InCall' = InCall /\ Outcome' = Outcome /\ Answer' = Answer

(* A step that does not change the abstract state.                         *)
LEMMA HiddenStep ==
  ASSUME Hidden, moved' = moved, seen' = seen
  PROVE  UNCHANGED Transfer!vars
BY DEF Hidden, Outcome, Answer, Transfer!vars

(* Initial states map to initial states.                                   *)
LEMMA TransferInit == LinkInit => Transfer!Init
<1> SUFFICES ASSUME LinkInit PROVE Transfer!Init
  OBVIOUS
<1>1. InCall = Transfer!None
  BY CallNow DEF LinkInit, Init
<1>2. ret \in Byte
  BY DEF LinkInit, Init, Byte
<1> QED
  BY <1>1, <1>2 DEF LinkInit, Init, Transfer!Init, Transfer!None

(* The start of a cycle is the start of the abstract call.                 *)
LEMMA CallsStart ==
  ASSUME LinkInv, LinkInv', LinkCall
  PROVE  [Transfer!Next]_(Transfer!vars)
<1> USE DEF LinkInv, IInv, TypeOK, LinkTypeOK
<1>1. pc' = "idle" => moved' = moved
  BY Zenon DEF LinkCall, LinkTypeOK
<1>2. pc' # "idle" => moved' = FALSE
  BY Zenon DEF LinkCall
<1>3. seen' = seen
  BY DEF LinkCall
<1>4. ASSUME NEW mode \in Modes, LPT_SetMode(mode)
      PROVE  UNCHANGED Transfer!vars
  BY <1>4, <1>1, <1>3, HiddenStep, CallNow, CallNext
     DEF LPT_SetMode, locals, call, Hidden, Outcome, Answer
<1>5. ASSUME NEW value \in DataBytes, SetPDATA(value)
      PROVE  UNCHANGED Transfer!vars
  BY <1>5, <1>1, <1>3, HiddenStep, CallNow, CallNext
     DEF SetPDATA, locals, call, Hidden, Outcome, Answer
<1>6. ASSUME NEW value \in ControlBytes, SetPCON(value) PROVE Transfer!Start
  BY <1>6, <1>2, <1>3, CallNow, CallNext
     DEF SetPCON, Goto, Transfer!Start, ControlPCs, Byte
<1>7. ASSUME NEW r \in Strobes, NEW value \in DataBytes,
             SetStrobeRegister(r, value)
      PROVE  Transfer!Start
  <2>1. InCall = Transfer!None /\ InCall' \in Transfer!Writes
    BY <1>7, CallNow, CallNext, LptAssumption
       DEF SetStrobeRegister, Goto, WritePCs, Transfer!Writes
  <2> QED
    BY <1>7, <1>2, <1>3, <2>1
       DEF SetStrobeRegister, Goto, Transfer!Start, Byte
<1>8. ASSUME NEW r \in Strobes, GetStrobeRegister(r) PROVE Transfer!Start
  <2>1. InCall = Transfer!None /\ InCall' \in Transfer!Reads
    BY <1>8, CallNow, CallNext
       DEF GetStrobeRegister, Goto, ReadPCs, Transfer!Reads
  <2> QED
    BY <1>8, <1>2, <1>3, <2>1
       DEF GetStrobeRegister, Goto, Transfer!Start, Byte
<1>9. ASSUME GetPDATA \/ GetPSTAT \/ GetPCON PROVE Transfer!OtherRegister
  BY <1>9, <1>1, <1>3, CallNow, CallNext
     DEF GetPDATA, GetPSTAT, GetPCON, Transfer!OtherRegister, call
<1> QED
  BY <1>4, <1>5, <1>6, <1>7, <1>8, <1>9
     DEF LinkCall, Calls, Transfer!Next

(* The end of a cycle is the end of the abstract call.                     *)
LEMMA CallsFinish ==
  ASSUME LinkInv, LinkInv', LinkContinue
  PROVE  [Transfer!Next]_(Transfer!vars)
<1> USE DEF LinkContinue
<1>1. CASE ControlPinsFollow
  <2>1. CASE ControlPin("cSelect", "idle", "nSELECT_PRINTER", 3 \notin arg)
    <3>1. InCall = Transfer!Control /\ InCall' = Transfer!None
      BY <2>1, CallNow, CallNext DEF ControlPin, Goto, ControlPCs
    <3>2. success \in BOOLEAN /\ ret' \in Byte
      BY DEF LinkInv, IInv, TypeOK
    <3>3. Transfer!Finish(success)
      BY <2>1, <3>1, <3>2
         DEF ControlPin, Goto, Transfer!Finish, Transfer!Control,
             Transfer!None
    <3> QED
      BY <3>2, <3>3 DEF Transfer!Next
  <2>2. CASE pc' # "idle"
    BY <1>1, <2>2, HiddenStep, CallNow, CallNext
       DEF ControlPinsFollow, ControlPin, Goto, Hidden, Outcome, Answer,
           ControlPCs
  <2> QED
    BY <1>1, <2>1, <2>2 DEF ControlPinsFollow, ControlPin, Goto
<1>2. CASE Return("wReturn") \/ Return("rReturn")
  <2>1. /\ InCall' = Transfer!None
        /\ \/ /\ pc = "wReturn"
              /\ InCall = [kind |-> "write", reg |-> reg, val |-> arg]
           \/ /\ pc = "rReturn"
              /\ InCall = [kind |-> "read", reg |-> reg]
    BY <1>2, CallNow, CallNext DEF Return, Goto, WritePCs, ReadPCs
  <2>2. success \in BOOLEAN /\ ret' \in Byte
    BY DEF LinkInv, IInv, TypeOK
  <2>3. success => moved /\ (pc = "rReturn" => ret = seen.val)
    BY <1>2 DEF Return, Goto, LinkInv, AnswerInv, WriteEnding, ReadEnding
  <2>4. Transfer!Finish(success)
    BY <1>2, <2>1, <2>2, <2>3
       DEF Return, Goto, Transfer!Finish, Transfer!None
  <2> QED
    BY <2>2, <2>4 DEF Transfer!Next
<1>3. CASE EppWrite /\ ~Return("wReturn")
  <2>1. /\ pc \in WritePCs /\ pc' \in WritePCs
        /\ pc # "idle" /\ pc' # "idle"
        /\ reg' = reg /\ arg' = arg
    BY <1>3
       DEF EppWrite, WriteBegin, WriteWait, WriteEnd, CheckReady, TurnData,
           ControlPin, WriteData, Poll, Sample, Goto, call, WritePCs
  <2> QED
    BY <2>1, HiddenStep, CallNow, CallNext DEF Hidden, Outcome, Answer
<1>4. CASE EppRead /\ ~Return("rReturn")
  <2>1. /\ pc \in ReadPCs /\ pc' \in ReadPCs
        /\ pc # "idle" /\ pc' # "idle"
        /\ reg' = reg /\ arg' = arg
    BY <1>4
       DEF EppRead, ReadBegin, ReadWait, ReadEnd, CheckReady, TurnData,
           ControlPin, Poll, Sample, ReadFetch, ReadUnsetup, Goto, call,
           ReadPCs
  <2> QED
    BY <2>1, HiddenStep, CallNow, CallNext DEF Hidden, Outcome, Answer
<1> QED
  BY <1>1, <1>2, <1>3, <1>4 DEF Continue

(* The device takes the byte where the abstract device does.               *)
LEMMA AcceptMoves ==
  ASSUME LinkInv, LinkInv', DeviceAccepts
  PROVE  Transfer!Move
<1> USE DEF LinkInv, IInv, TypeOK, LinkTypeOK
<1>1. ~moved /\ moved' /\ pc # "idle"
  BY DEF DeviceAccepts, ReadyInv, StrobeInv, Waiting, Ending
<1>2. /\ InCall' = InCall
      /\ UNCHANGED Outcome
      /\ UNCHANGED Answer
  BY DEF DeviceAccepts, locals, call, InCall, Outcome, Answer
<1>3. pc \in {"wSelect", "rSelect", "cSelect"} \cup Waiting \cup Ending
  BY DEF DeviceAccepts, StrobeInv
<1>4. CASE pc = "cSelect"
  <2>1. InCall = Transfer!Control
    BY <1>4, CallNow DEF ControlPCs
  <2>2. DataGet \in Byte
    BY DEF DataGet
  <2>3. seen' \in Transfer!Transfers
    BY <2>2 DEF DeviceAccepts, Transfer!Transfers, Transfer!Writes, Strobes
  <2>4. InCall # Transfer!None
    BY <2>1 DEF Transfer!Control, Transfer!None
  <2> QED
    BY <1>1, <1>2, <2>1, <2>3, <2>4 DEF Transfer!Move, Outcome, Answer
<1>5. CASE pc \in WritePCs
  <2>1. InCall = [kind |-> "write", reg |-> reg, val |-> arg]
    BY <1>5, CallNow
  <2>2. ~pin["nSTROBE"] /\ DataGet = arg
    BY <1>3, <1>5 DEF HandshakeStable, Waiting, Ending, WritePCs, DataGet
  <2>3. reg = IF pin["nLINE_FEED"] THEN "ADDSTR" ELSE "DATASTR"
    BY <1>3, <1>5
       DEF DeviceAccepts, StrobeLow, HandshakeStable, CycleInv, StrobeInv,
           Waiting, Ending, WritePCs, Strobes, ControlPins
  <2>4. seen' = InCall
    BY <2>1, <2>2, <2>3 DEF DeviceAccepts
  <2>5. InCall \in Transfer!Writes /\ InCall # Transfer!None
    BY <1>3, <2>1, <2>3 DEF Transfer!Writes, Transfer!None, Strobes
  <2> QED
    BY <1>1, <1>2, <2>4, <2>5 DEF Transfer!Move, Outcome, Answer
<1>6. CASE pc \in ReadPCs
  <2>1. InCall = [kind |-> "read", reg |-> reg]
    BY <1>6, CallNow
  <2>2. pin["nSTROBE"]
    BY <1>3, <1>6 DEF HandshakeStable, Waiting, Ending, ReadPCs
  <2>3. reg = IF pin["nLINE_FEED"] THEN "ADDSTR" ELSE "DATASTR"
    BY <1>3, <1>6
       DEF DeviceAccepts, StrobeLow, HandshakeStable, CycleInv, StrobeInv,
           Waiting, Ending, ReadPCs, Strobes, ControlPins
  <2>4. seen' \in Transfer!Answered(InCall.reg)
    BY <2>1, <2>2, <2>3 DEF DeviceAccepts, Transfer!Answered
  <2>5. InCall \in Transfer!Reads /\ InCall # Transfer!None
    BY <2>1, <2>3 DEF Transfer!Reads, Transfer!None, Strobes
  <2> QED
    BY <1>1, <1>2, <2>4, <2>5 DEF Transfer!Move, Outcome, Answer
<1> QED
  BY <1>3, <1>4, <1>5, <1>6 DEF Waiting, Ending, WritePCs, ReadPCs

(* An EPP register access does what its caller may rely on: it moves at    *)
(* most the byte it was asked to move, and has moved it when it reports    *)
(* success.                                                                *)
THEOREM Refinement == LinkSpec => ImplementsTransfer
<1>1. ASSUME LinkInv, LinkInv', [LinkNext]_linkVars
      PROVE  [Transfer!Next]_(Transfer!vars)
  <2>1. CASE DeviceReleases
    BY <2>1, HiddenStep DEF DeviceReleases, locals, call, Hidden, Outcome,
                            Answer, InCall
  <2>2. CASE UNCHANGED linkVars
    BY <2>2, HiddenStep DEF linkVars, vars, locals, call, Hidden, Outcome,
                            Answer, InCall
  <2>3. CASE DeviceAccepts
    BY <2>3, <1>1, AcceptMoves DEF Transfer!Next
  <2> QED
    BY <1>1, <2>1, <2>2, <2>3, CallsStart, CallsFinish DEF LinkNext, Device
<1> QED
  BY <1>1, TransferInit, LinkInvariance, PTL
     DEF LinkSpec, ImplementsTransfer, Transfer!Spec
=============================================================================
