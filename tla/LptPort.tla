------------------------------ MODULE LptPort ------------------------------
(***************************************************************************)
(* The parallel port of the adapter (Firmware/AVRUSBLPT/lpt.c): the        *)
(* register file the USB side calls (LPT_SetMode, LPT_SetReg, LPT_GetReg)  *)
(* and the EPP cycles those calls run on the pins (EppWrite, EppRead).     *)
(*                                                                         *)
(* The code runs in the main loop, one call at a time, but the device at   *)
(* the other end of the cable sees every pin change: a call is therefore a *)
(* sequence of steps, one per statement that changes or samples a pin, and *)
(* the device moves between any two of them.                               *)
(*                                                                         *)
(* A byte is the set of its 1 bits, a pin is a Boolean (TRUE is high).     *)
(***************************************************************************)
EXTENDS Integers

CONSTANTS
  DataBytes,     \* the bytes written to PDATA, ADDSTR and DATASTR
  ControlBytes,  \* the bytes written to PCON
  PollLimit      \* "timeout" of the two wait loops (10 in the code)

Byte == SUBSET (0..7)

ASSUME LptAssumption ==
  /\ DataBytes \subseteq Byte
  /\ ControlBytes \subseteq Byte
  /\ PollLimit \in Nat

Modes == {"LEGACY", "PS2", "EPP"}
Strobes == {"ADDSTR", "DATASTR"}

VARIABLES
  ActiveMode,
  PCON, PDATA, PSTAT, ADDSTR, DATASTR,  \* "store last written values"
  pin,     \* output latches of the control pins
  ddr,     \* direction of the eight data pins, as DDRB and DDRC hold it
  latch,   \* output latch of the data pins
  nBUSY,   \* level of the nBUSY input (WAIT# of EPP)
  ext,     \* what the other end puts on the data lines
  pc,      \* the next statement of the call in progress, or "idle"
  reg, arg,          \* its arguments
  timeout, success,  \* locals of EppWrite and EppRead
  ret      \* what the last finished LPT_GetReg returned

registers == <<ActiveMode, PCON, PDATA, PSTAT, ADDSTR, DATASTR>>
outputs   == <<pin, ddr, latch>>
inputs    == <<nBUSY, ext>>
call      == <<reg, arg>>
locals    == <<pc, call, timeout, success, ret>>
vars      == <<registers, outputs, inputs, locals>>

ControlPins == {"nSTROBE", "nLINE_FEED", "RESET", "nSELECT_PRINTER"}

WritePCs == {"wCheck", "wDir", "wWrite", "wData", "wLineFeed", "wSelect",
             "wPoll", "wSample", "wEndLineFeed", "wEndSelect", "wEndWrite",
             "wRestore", "wReturn"}
ReadPCs == {"rCheck", "rDir", "rWrite", "rLineFeed", "rSelect", "rPoll",
            "rSample", "rFetch", "rEndLineFeed", "rEndSelect", "rUnsetup",
            "rReturn"}
ControlPCs == {"cStrobe", "cLineFeed", "cReset", "cSelect"}

-----------------------------------------------------------------------------
(* The condition the code takes for "DATA is output". *)
DataIsOutput(mode, pcon) == mode = "LEGACY" \/ 5 \notin pcon

Direction(out) == IF out THEN "out" ELSE "in"

(* PINB and PINC read the pad: the latch while the AVR drives it. *)
DataGet == IF ddr = "out" THEN latch ELSE ext

Goto(from, to) == pc = from /\ pc' = to

(* The latches of every port are 0 after reset and nothing sets them before *)
(* the first PCON write: main() calls LPT_SetMode(LEGACY), which returns at *)
(* once, and LPT_Init, which sets directions only.                          *)
Init ==
  /\ ActiveMode = "LEGACY"
  /\ PCON = {} /\ PDATA = {} /\ PSTAT = {} /\ ADDSTR = {} /\ DATASTR = {}
  /\ pin = [p \in ControlPins |-> FALSE] /\ ddr = "out" /\ latch = {}
  /\ nBUSY \in BOOLEAN /\ ext \in DataBytes
  /\ pc = "idle" /\ reg = "PDATA" /\ arg = {}
  /\ timeout = 0 /\ success = TRUE /\ ret = {}

-----------------------------------------------------------------------------
(* Calls that are one step for the device on the cable. *)

LPT_SetMode(mode) ==
  /\ pc = "idle"
  /\ mode # ActiveMode
  /\ ActiveMode' = mode
  /\ ddr' = Direction(DataIsOutput(mode, PCON))
  /\ UNCHANGED <<PCON, PDATA, PSTAT, ADDSTR, DATASTR, pin, latch, inputs,
                 locals>>

SetPDATA(value) ==
  /\ pc = "idle"
  /\ DataIsOutput(ActiveMode, PCON)
  /\ latch' = value
  /\ PDATA' = value
  /\ UNCHANGED <<ActiveMode, PCON, PSTAT, ADDSTR, DATASTR, pin, ddr, inputs,
                 locals>>

GetPDATA ==
  /\ pc = "idle"
  /\ ret' = IF DataIsOutput(ActiveMode, PCON) THEN PDATA ELSE DataGet
  /\ UNCHANGED <<registers, outputs, inputs, pc, call, timeout, success>>

\* Mutant: the bit is cleared before it is saved.
GetPSTATClearedFirst ==
  /\ pc = "idle"
  /\ ret' = IF nBUSY THEN {} ELSE {7}
  /\ PSTAT' = {}
  /\ UNCHANGED <<ActiveMode, PCON, PDATA, ADDSTR, DATASTR, outputs, inputs,
                 pc, call, timeout, success>>

(* Bits 6..3 are input pins passed through; they are left out. *)
GetPSTAT ==
  /\ pc = "idle"
  /\ ret' = (PSTAT \cap {0}) \cup (IF nBUSY THEN {} ELSE {7})
  /\ PSTAT' = {}
  /\ UNCHANGED <<ActiveMode, PCON, PDATA, ADDSTR, DATASTR, outputs, inputs,
                 pc, call, timeout, success>>

GetPCON ==
  /\ pc = "idle"
  /\ ret' = PCON
  /\ UNCHANGED <<registers, outputs, inputs, pc, call, timeout, success>>

-----------------------------------------------------------------------------
(* Statements the multi-step calls are made of: each goes from the         *)
(* statement it is to the one after it.                                    *)

ControlPin(from, to, name, level) ==
  /\ Goto(from, to)
  /\ pin' = [pin EXCEPT ![name] = level]
  /\ UNCHANGED <<registers, ddr, latch, inputs, call, timeout, success, ret>>

\* Mutant: OUT_DATA() is forgotten.
TurnDataInOnly(from, to, direction) ==
  /\ Goto(from, to)
  /\ ddr' = IF direction = "in" THEN "in" ELSE ddr
  /\ UNCHANGED <<registers, pin, latch, inputs, call, timeout, success, ret>>

TurnData(from, to, direction) ==
  /\ Goto(from, to)
  /\ ddr' = direction
  /\ UNCHANGED <<registers, pin, latch, inputs, call, timeout, success, ret>>

\* Mutant: the cycle starts without looking at nBUSY.
CheckReadySkipped(from, to, failed) ==
  /\ Goto(from, to)
  /\ UNCHANGED <<registers, outputs, inputs, call, timeout, success, ret>>

(* A device that is not ready for a cycle fails it before it starts. *)
CheckReady(from, to, failed) ==
  /\ pc = from
  /\ pc' = IF nBUSY THEN failed ELSE to
  /\ success' = ~nBUSY
  /\ UNCHANGED <<registers, outputs, inputs, call, timeout, ret>>

(* The wait loop: it is left when its budget is spent or nBUSY is high. *)
Poll(from, to) ==
  /\ pc = from
  /\ IF timeout # 0 /\ ~nBUSY
     THEN timeout' = timeout - 1 /\ pc' = from
     ELSE timeout' = timeout /\ pc' = to
  /\ UNCHANGED <<registers, outputs, inputs, call, success, ret>>

\* Mutant: the outcome of the wait is not looked at.
SampleIgnored(from, done, failed) ==
  /\ Goto(from, done)
  /\ UNCHANGED <<registers, outputs, inputs, call, timeout, success, ret>>

(* nBUSY is sampled again after the loop, and that sample decides. *)
Sample(from, done, failed) ==
  /\ pc = from
  /\ pc' = IF nBUSY THEN done ELSE failed
  /\ success' = nBUSY
  /\ UNCHANGED <<registers, outputs, inputs, call, timeout, ret>>

(* The caller of the cycle records a failure in the time-out bit. *)
Return(from) ==
  /\ Goto(from, "idle")
  /\ PSTAT' = IF success THEN PSTAT ELSE PSTAT \cup {0}
  /\ UNCHANGED <<ActiveMode, PCON, PDATA, ADDSTR, DATASTR, outputs, inputs,
                 call, timeout, success, ret>>

-----------------------------------------------------------------------------
(* A PCON write: the register and the direction, then the four pins in the *)
(* order of the code.                                                      *)

\* Mutant: the direction bit is obeyed only when it is cleared.
SetPCONOutOnly(value) ==
  /\ Goto("idle", "cStrobe")
  /\ reg' = "PCON" /\ arg' = value
  /\ PCON' = value \cap (IF ActiveMode = "LEGACY" THEN 0..4 ELSE 0..5)
  /\ ddr' = IF ActiveMode = "LEGACY" \/ 5 \in value THEN ddr ELSE "out"
  /\ UNCHANGED <<ActiveMode, PDATA, PSTAT, ADDSTR, DATASTR, pin, latch, inputs,
                 timeout, success, ret>>

SetPCON(value) ==
  /\ Goto("idle", "cStrobe")
  /\ reg' = "PCON" /\ arg' = value
  /\ PCON' = value \cap (IF ActiveMode = "LEGACY" THEN 0..4 ELSE 0..5)
  /\ ddr' = IF ActiveMode = "LEGACY" THEN ddr ELSE Direction(5 \notin value)
  /\ UNCHANGED <<ActiveMode, PDATA, PSTAT, ADDSTR, DATASTR, pin, latch, inputs,
                 timeout, success, ret>>

ControlPinsFollow ==
  \/ ControlPin("cStrobe", "cLineFeed", "nSTROBE", 0 \notin arg)
  \/ ControlPin("cLineFeed", "cReset", "nLINE_FEED", 1 \notin arg)
  \/ ControlPin("cReset", "cSelect", "RESET", 2 \in arg)
  \/ ControlPin("cSelect", "idle", "nSELECT_PRINTER", 3 \notin arg)

-----------------------------------------------------------------------------
(* EppWrite, called by the ADDSTR and DATASTR cases of LPT_SetReg. Both    *)
(* cases store the value in ADDSTR.                                        *)

SetStrobeRegister(r, value) ==
  /\ ActiveMode = "EPP"
  /\ Goto("idle", "wCheck")
  /\ reg' = r /\ arg' = value
  /\ ADDSTR' = value
  /\ success' = TRUE /\ timeout' = PollLimit
  /\ UNCHANGED <<ActiveMode, PCON, PDATA, PSTAT, DATASTR, outputs, inputs, ret>>

WriteData ==
  /\ Goto("wData", "wLineFeed")
  /\ latch' = arg
  /\ UNCHANGED <<registers, pin, ddr, inputs, call, timeout, success, ret>>

WriteBegin ==
  \/ CheckReady("wCheck", "wDir", "wReturn")
  \/ TurnData("wDir", "wWrite", "out")
  \/ ControlPin("wWrite", "wData", "nSTROBE", FALSE)
  \/ WriteData
  \/ ControlPin("wLineFeed", "wSelect", "nLINE_FEED", reg = "ADDSTR")
  \/ ControlPin("wSelect", "wPoll", "nSELECT_PRINTER", reg = "DATASTR")

\* Mutant: a time-out returns at once and leaves the strobe low.
WriteWaitReturns ==
  \/ Poll("wPoll", "wSample")
  \/ Sample("wSample", "wEndLineFeed", "wReturn")

WriteWait ==
  \/ Poll("wPoll", "wSample")
  \/ Sample("wSample", "wEndLineFeed", "wEndLineFeed")

\* Mutant: the write line is raised before the strobes.
WriteEndLineFirst ==
  \/ ControlPin("wEndLineFeed", "wEndSelect", "nSTROBE", TRUE)
  \/ ControlPin("wEndSelect", "wEndWrite", "nLINE_FEED", TRUE)
  \/ ControlPin("wEndWrite", "wRestore", "nSELECT_PRINTER", TRUE)
  \/ TurnData("wRestore", "wReturn", Direction(5 \notin PCON))
  \/ Return("wReturn")

WriteEnd ==
  \/ ControlPin("wEndLineFeed", "wEndSelect", "nLINE_FEED", TRUE)
  \/ ControlPin("wEndSelect", "wEndWrite", "nSELECT_PRINTER", TRUE)
  \/ ControlPin("wEndWrite", "wRestore", "nSTROBE", TRUE)
  \/ TurnData("wRestore", "wReturn", Direction(5 \notin PCON))
  \/ Return("wReturn")

-----------------------------------------------------------------------------
(* EppRead, called by the ADDSTR and DATASTR cases of LPT_GetReg, which do *)
(* not look at the mode.                                                   *)

GetStrobeRegister(r) ==
  /\ Goto("idle", "rCheck")
  /\ reg' = r /\ arg' = {}
  /\ success' = TRUE /\ timeout' = PollLimit
  /\ ret' = {}
  /\ UNCHANGED <<registers, outputs, inputs>>

ReadBegin ==
  \/ CheckReady("rCheck", "rDir", "rReturn")
  \/ TurnData("rDir", "rWrite", "in")
  \/ ControlPin("rWrite", "rLineFeed", "nSTROBE", TRUE)
  \/ ControlPin("rLineFeed", "rSelect", "nLINE_FEED", reg = "ADDSTR")
  \/ ControlPin("rSelect", "rPoll", "nSELECT_PRINTER", reg = "DATASTR")

ReadFetch ==
  /\ Goto("rFetch", "rEndLineFeed")
  /\ ret' = DataGet
  /\ UNCHANGED <<registers, outputs, inputs, call, timeout, success>>

ReadWait ==
  \/ Poll("rPoll", "rSample")
  \/ Sample("rSample", "rFetch", "rEndLineFeed")
  \/ ReadFetch

(* "bad idea but maybe safe": the direction bit of PCON is set when nBUSY  *)
(* is still high. The data pins stay inputs in either case.                *)
ReadUnsetup ==
  /\ Goto("rUnsetup", "rReturn")
  /\ PCON' = IF nBUSY THEN PCON \cup {5} ELSE PCON
  /\ UNCHANGED <<ActiveMode, PDATA, PSTAT, ADDSTR, DATASTR, outputs, inputs,
                 call, timeout, success, ret>>

ReadEnd ==
  \/ ControlPin("rEndLineFeed", "rEndSelect", "nLINE_FEED", TRUE)
  \/ ControlPin("rEndSelect", "rUnsetup", "nSELECT_PRINTER", TRUE)
  \/ ReadUnsetup
  \/ Return("rReturn")

-----------------------------------------------------------------------------
Calls ==
  \/ \E mode \in Modes : LPT_SetMode(mode)
  \/ \E value \in DataBytes : SetPDATA(value)
  \/ \E value \in ControlBytes : SetPCON(value)
  \/ \E r \in Strobes, value \in DataBytes : SetStrobeRegister(r, value)
  \/ \E r \in Strobes : GetStrobeRegister(r)
  \/ GetPDATA
  \/ GetPSTAT
  \/ GetPCON

EppWrite == WriteBegin \/ WriteWait \/ WriteEnd

EppRead == ReadBegin \/ ReadWait \/ ReadEnd

(* What the firmware does on its own once it has been called. *)
Continue == ControlPinsFollow \/ EppWrite \/ EppRead

(* The other end of the cable, here anything at all. *)
PinsChange ==
  /\ nBUSY' \in BOOLEAN
  /\ ext' \in DataBytes
  /\ inputs' # inputs
  /\ UNCHANGED <<registers, outputs, locals>>

Next == Calls \/ Continue \/ PinsChange

(* The firmware never blocks inside a call: the CPU goes on executing it. *)
Spec == Init /\ [][Next]_vars /\ WF_vars(Continue)

-----------------------------------------------------------------------------
(* Properties. *)

TypeOK ==
  /\ ActiveMode \in Modes
  /\ PCON \in SUBSET (0..5)
  /\ PDATA \in Byte
  /\ PSTAT \in SUBSET {0}
  /\ ADDSTR \in Byte
  /\ DATASTR = {}
  /\ pin \in [ControlPins -> BOOLEAN]
  /\ ddr \in {"in", "out"}
  /\ latch \in Byte
  /\ nBUSY \in BOOLEAN
  /\ ext \in Byte
  /\ pc \in {"idle"} \cup ControlPCs \cup WritePCs \cup ReadPCs
  /\ reg \in {"PDATA", "PCON"} \cup Strobes
  /\ arg \in Byte
  /\ timeout \in 0..PollLimit
  /\ success \in BOOLEAN
  /\ ret \in Byte

(* Between calls, and while the control pins of a PCON write are set, the  *)
(* adapter never drives the data lines when its own registers say that     *)
(* they are inputs: every path through EppWrite, EppRead, LPT_SetMode and  *)
(* the PCON case that turns them to output either undoes it or clears the  *)
(* condition. (The converse does not hold: EppRead leaves them inputs.)    *)
InputNotDriven ==
  /\ pc \notin WritePCs
  /\ ~DataIsOutput(ActiveMode, PCON)
  => ddr = "in"

(* From the moment the strobe of an EPP cycle has fallen until nBUSY has   *)
(* been sampled for the last time, and the data fetched, exactly the       *)
(* addressed strobe is low and the write line, the direction and the       *)
(* written byte are what the cycle needs, whatever the pins were before.   *)
HandshakeStable ==
  /\ pc \in {"wPoll", "wSample", "rPoll", "rSample", "rFetch"}
       => /\ pin["nLINE_FEED"] = (reg = "ADDSTR")
          /\ pin["nSELECT_PRINTER"] = (reg = "DATASTR")
  /\ pc \in {"wData", "wLineFeed", "wSelect", "wPoll", "wSample",
             "wEndLineFeed", "wEndSelect", "wEndWrite"}
       => ddr = "out" /\ ~pin["nSTROBE"]
  /\ pc \in {"wLineFeed", "wSelect", "wPoll", "wSample", "wEndLineFeed",
             "wEndSelect", "wEndWrite", "wRestore"}
       => latch = arg
  /\ pc \in {"rLineFeed", "rSelect", "rPoll", "rSample", "rFetch",
             "rEndLineFeed", "rEndSelect", "rUnsetup"}
       => ddr = "in" /\ pin["nSTROBE"]

(* A cycle that touched the pins gives them back with both strobes high,   *)
(* and raises the write line only when they are.                           *)
CycleReleases ==
  pc \in {"wEndWrite", "wRestore", "rUnsetup"}
    => pin["nLINE_FEED"] /\ pin["nSELECT_PRINTER"]

(* A time-out is not lost: the bit appears when a failed cycle returns and *)
(* disappears only in the LPT_GetReg(PSTAT) that hands it to the caller.   *)
TimeoutStep ==
  /\ pc \in {"wReturn", "rReturn"} /\ pc' = "idle" /\ ~success => 0 \in PSTAT'
  /\ 0 \in PSTAT /\ 0 \notin PSTAT' => 0 \in ret'

TimeoutReported == [][TimeoutStep]_vars

(* lpt.c:105 says of the five registers "store last written values".       *)
StoresLastWritten ==
  [][ pc = "idle" /\ pc' = "wCheck" /\ reg' = "DATASTR" => DATASTR' = arg' ]_vars
=============================================================================
