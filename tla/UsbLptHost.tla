----------------------------- MODULE UsbLptHost -----------------------------
(***************************************************************************)
(* Device access of the host library (UsbLptLib.c, over the handle and     *)
(* transfer functions of UsbWrappers.c): opening an adapter, and the calls *)
(* of several threads on the handle, by control transfers or by a pair of  *)
(* bulk pipes. The device is external: it executes commands in order, v3   *)
(* devices (implementation 2) and later have the bulk pipes. Nothing in    *)
(* the library empties a pipe: an answer that was not read stays there,    *)
(* also when the handle is closed and opened again.                        *)
(***************************************************************************)
EXTENDS Integers, Sequences, FiniteSets

CONSTANTS
  Threads,     \* threads that use the handle
  Opener,      \* the one that opens it
  Regs, Bytes, \* registers and values
  Devices,     \* the devices that may be attached, see DeviceType
  MaxFaults,   \* bound on the API calls that fail
  MaxCalls     \* bound on the calls of the threads

DeviceType == [implementation : 0..255, control : BOOLEAN, bulk : BOOLEAN]

ASSUME HostAssumption ==
  /\ Opener \in Threads
  /\ Devices \subseteq DeviceType
  /\ \A d \in Devices : d.bulk <=> ~(d.implementation < 2)
  /\ MaxFaults \in Nat /\ MaxCalls \in Nat
  /\ {"none", "done", "failed", "version", "rest"} \cap Bytes = {}

VARIABLES
  device,   \* the attached device
  port,     \* its registers
  out, in,  \* commands and answers on their way
  state,    \* of the handle: "closed", "opening", "version", "open"
  held,     \* memory and system handles behind it
  flag,     \* no_special_endpoint
  pc,       \* per thread: "idle", "send", "receive", "done"
  call,     \* per thread: the command
  answer,   \* per thread: what the call returns
  regs,     \* the registers once the commands on their way are executed
  due,      \* per thread: what that register file answers the command
  crossed,  \* threads that did not wait alone, or not at an empty pipe
  stray,    \* an answer has been left for a call it does not belong to
  faults, calls

link == <<port, out, in>>
handle == <<state, held, flag>>
ghost == <<regs, due, crossed, stray>>
vars == <<device, link, handle, pc, call, answer, ghost, faults, calls>>

NoCall == [cmd |-> "none"]
GetVersion == [cmd |-> "GET_VERSION"]
Commands == [cmd : {"SET_REG"}, reg : Regs, val : Bytes]
              \cup [cmd : {"GET_REG"}, reg : Regs] \cup [cmd : {"OTHER"}]
HasAnswer(c) == c.cmd \in {"GET_REG", "GET_VERSION"}

Init ==
  /\ device \in Devices
  /\ port \in [Regs -> Bytes] /\ regs = port
  /\ out = <<>> /\ in = <<>>
  /\ state = "closed" /\ held = {} /\ flag = FALSE
  /\ pc = [t \in Threads |-> "idle"]
  /\ call = [t \in Threads |-> NoCall]
  /\ answer = [t \in Threads |-> "none"] /\ due = answer
  /\ crossed = {} /\ stray = FALSE
  /\ faults = 0 /\ calls = 0

Fault == faults < MaxFaults /\ faults' = faults + 1
NoFault == UNCHANGED faults

-----------------------------------------------------------------------------
(* UsbLpt_Open and UsbLpt_Close. *)

Resources == <<"USBLPT_t", "file", "winusb", "USBHANDLE_t">>

\* Mutant: the file handle is forgotten when WinUsb_Initialize fails.
ReleasedForgetful(n) == {Resources[i] : i \in {1, 3, 4} \cap 1..(n - 1)}

(* What the error path frees when the n-th resource cannot be had: the     *)
(* first three branches are in USBWRAP_OpenDeviceByPath and UsbLpt_Open,   *)
(* n = 5 is UsbLpt_Close after a failed UsbLpt_GetVersion.                 *)
Released(n) == {Resources[i] : i \in 1..(n - 1)}

(* A call begins. *)
Begin(t, c) ==
  /\ pc' = [pc EXCEPT ![t] = "send"]
  /\ call' = [call EXCEPT ![t] = c]
  /\ answer' = [answer EXCEPT ![t] = "none"]
  /\ due' = [due EXCEPT ![t] = "none"]
  /\ crossed' = crossed \ {t}

Acquired == CHOOSE n \in 0..4 : held = {Resources[i] : i \in 1..n}

(* What is left of a longer answer is WinUSB's, and goes with the handle.  *)
Unbuffered == IF in # <<>> /\ Head(in).val = "rest" THEN Tail(in) ELSE in

Discard(n) == /\ held' = held \ Released(n)
              /\ state' = "closed"
              /\ in' = Unbuffered

(* The memory malloc returns holds any byte where the flag will be. *)
Acquire ==
  /\ state \in {"closed", "opening"} /\ calls < MaxCalls
  /\ LET n == Acquired + 1 IN
       \/ /\ NoFault
          /\ held' = held \cup {Resources[n]}
          /\ IF n = 1 THEN flag' \in BOOLEAN ELSE UNCHANGED flag
          /\ IF n < 4
             THEN state' = "opening" /\ UNCHANGED <<pc, call, answer, due, crossed>>
             ELSE state' = "version" /\ Begin(Opener, GetVersion)
          /\ UNCHANGED in
       \/ Fault /\ Discard(n) /\ UNCHANGED <<flag, pc, call, answer, due, crossed>>
  /\ UNCHANGED <<device, port, out, regs, stray, calls>>

\* Mutant: the flag is left as malloc returned it.
OpenedUnset ==
  /\ state = "version" /\ pc[Opener] = "done"
  /\ IF answer[Opener] = "failed"
     THEN Discard(5) /\ UNCHANGED flag
     ELSE state' = "open" /\ UNCHANGED <<held, flag, in>>
  /\ pc' = [pc EXCEPT ![Opener] = "idle"]
  /\ call' = [call EXCEPT ![Opener] = NoCall]
  /\ calls' = calls + 1
  /\ UNCHANGED <<device, port, out, answer, ghost, faults>>

(* The result of UsbLpt_GetVersion, and the flag that follows from it. *)
Opened ==
  /\ state = "version" /\ pc[Opener] = "done"
  /\ IF answer[Opener] = "failed"
     THEN Discard(5) /\ UNCHANGED flag
     ELSE /\ state' = "open"
          /\ flag' = IF device.implementation < 2 THEN TRUE ELSE FALSE
          /\ UNCHANGED <<held, in>>
  /\ pc' = [pc EXCEPT ![Opener] = "idle"]
  /\ call' = [call EXCEPT ![Opener] = NoCall]
  /\ calls' = calls + 1
  /\ UNCHANGED <<device, port, out, answer, ghost, faults>>

Close ==
  /\ state = "open" /\ \A t \in Threads : pc[t] = "idle"
  /\ Discard(5)
  /\ UNCHANGED <<device, port, out, flag, pc, call, answer, ghost, faults, calls>>

-----------------------------------------------------------------------------
(* UsbLpt_SetPort8 and GetPort8; SetMode, Reset and ForceBootloader, which *)
(* have no answer, are the command OTHER. GetVersion is called by          *)
(* UsbLpt_Open.                                                            *)

Start(t) ==
  /\ state = "open" /\ pc[t] = "idle" /\ calls < MaxCalls
  /\ \E c \in Commands : Begin(t, c)
  /\ calls' = calls + 1
  /\ UNCHANGED <<device, link, handle, regs, stray, faults>>

Effect(r, c) == IF c.cmd = "SET_REG" THEN [r EXCEPT ![c.reg] = c.val] ELSE r
Answer(r, c) == CASE c.cmd = "GET_REG" -> r[c.reg]
                  [] c.cmd = "GET_VERSION" -> "version"
                  [] OTHER -> "done"

(* From here on the device will execute the command, after the ones before.*)
(* The caller of a lost one is told that it failed, and its answer stays.  *)
Accept(t, lost) ==
  /\ regs' = Effect(regs, call[t])
  /\ due' = [due EXCEPT ![t] = IF lost THEN "failed" ELSE Answer(regs, call[t])]
  /\ stray' = (stray \/ lost)
  /\ LET others == {u \in Threads : pc[u] = "receive"} IN
       crossed' = IF ~flag /\ HasAnswer(call[t]) /\ (stray \/ others # {})
                  THEN crossed \cup {t} \cup others ELSE crossed

Finish(t, result) ==
  /\ pc' = [pc EXCEPT ![t] = "done"]
  /\ answer' = [answer EXCEPT ![t] = result]

(* The device executes the command, and may do so without the host         *)
(* learning of it: a failed, short or long transfer is a failed call.      *)
ControlTransfer(t) ==
  /\ pc[t] = "send" /\ flag
  /\ \/ /\ device.control
        /\ Accept(t, FALSE) /\ port' = Effect(port, call[t])
        /\ \/ NoFault /\ Finish(t, Answer(port, call[t]))
           \/ Fault /\ Finish(t, "failed")
     \/ /\ IF device.control THEN Fault ELSE NoFault
        /\ UNCHANGED <<ghost, port>> /\ Finish(t, "failed")
  /\ UNCHANGED <<device, out, in, handle, call, calls>>

\* Mutant: every command waits for an answer.
WritePipeWaits(t) ==
  /\ pc[t] = "send" /\ ~flag
  /\ \/ /\ device.bulk
        /\ out' = Append(out, [from |-> t, cmd |-> call[t]])
        /\ \/ /\ NoFault /\ Accept(t, FALSE)
              /\ pc' = [pc EXCEPT ![t] = "receive"] /\ UNCHANGED answer
           \/ Fault /\ Accept(t, HasAnswer(call[t])) /\ Finish(t, "failed")
     \/ /\ IF device.bulk THEN Fault ELSE NoFault
        /\ UNCHANGED <<ghost, out>> /\ Finish(t, "failed")
  /\ UNCHANGED <<device, port, in, handle, call, calls>>

(* The first half of UsbLpt_BulkCmd. As above, a write that failed may     *)
(* have reached the device.                                                *)
WritePipe(t) ==
  /\ pc[t] = "send" /\ ~flag
  /\ \/ /\ device.bulk
        /\ out' = Append(out, [from |-> t, cmd |-> call[t]])
        /\ \/ /\ NoFault /\ Accept(t, FALSE)
              /\ IF HasAnswer(call[t])
                 THEN pc' = [pc EXCEPT ![t] = "receive"] /\ UNCHANGED answer
                 ELSE Finish(t, "done")
           \/ Fault /\ Accept(t, HasAnswer(call[t])) /\ Finish(t, "failed")
     \/ /\ IF device.bulk THEN Fault ELSE NoFault
        /\ UNCHANGED <<ghost, out>> /\ Finish(t, "failed")
  /\ UNCHANGED <<device, port, in, handle, call, calls>>

(* What a call makes of the answer it finds: UsbLpt_GetVersion refuses     *)
(* those of a wrong size, GetPort8 takes the first byte of any.            *)
Taken(c, val) ==
  IF c.cmd = "GET_VERSION" THEN {IF val = "version" THEN val ELSE "failed"}
  ELSE IF val \in Bytes THEN {val} ELSE Bytes

\* Mutant: an answer is looked at, but stays in the pipe.
RemaindersPeek(c, val) == {in}

(* A longer answer than was asked for: WinUSB may keep the rest.           *)
Remainders(c, val) ==
  IF c.cmd = "GET_REG" /\ val \notin Bytes
  THEN {Tail(in), [in EXCEPT ![1].val = "rest"]} ELSE {Tail(in)}

(* The second half: whatever answer is next in the pipe is the answer. A   *)
(* read that fails leaves the answer of its command for a later one.       *)
ReadPipe(t) ==
  /\ pc[t] = "receive"
  /\ \/ /\ in # <<>> /\ NoFault
        /\ \E a \in Taken(call[t], Head(in).val) : Finish(t, a)
        /\ in' \in Remainders(call[t], Head(in).val)
        /\ UNCHANGED ghost
     \/ /\ Fault /\ Finish(t, "failed")
        /\ due' = [due EXCEPT ![t] = "failed"] /\ stray' = TRUE
        /\ UNCHANGED <<in, regs, crossed>>
  /\ UNCHANGED <<device, port, out, handle, call, calls>>

(* The device, external: bulk commands one after the other. *)
DeviceExecutes ==
  /\ out # <<>>
  /\ LET c == Head(out).cmd IN
       /\ port' = Effect(port, c)
       /\ in' = IF HasAnswer(c)
                THEN Append(in, [to |-> Head(out).from, val |-> Answer(port, c)])
                ELSE in
  /\ out' = Tail(out)
  /\ UNCHANGED <<device, handle, pc, call, answer, ghost, faults, calls>>

Return(t) ==
  /\ state = "open" /\ pc[t] = "done"
  /\ pc' = [pc EXCEPT ![t] = "idle"]
  /\ call' = [call EXCEPT ![t] = NoCall]
  /\ UNCHANGED <<device, link, handle, answer, ghost, faults, calls>>

Work == \/ Opened \/ DeviceExecutes
        \/ \E t \in Threads :
             ControlTransfer(t) \/ WritePipe(t) \/ ReadPipe(t) \/ Return(t)

Next == Acquire \/ Close \/ Work \/ \E t \in Threads : Start(t)

(* Calls run on, and the device works on the commands it has been sent. *)
Spec == Init /\ [][Next]_vars /\ WF_vars(Work)

-----------------------------------------------------------------------------
(* Properties. *)

CallType == Commands \cup {NoCall, GetVersion}
AnswerType == Bytes \cup {"none", "done", "failed", "version"}

(* Types: the handle, the pipes and the calls have the shapes the code     *)
(* gives them, and the parts of the handle exist in the order they are     *)
(* acquired.                                                               *)
TypeOK ==
  /\ device \in Devices /\ port \in [Regs -> Bytes] /\ regs \in [Regs -> Bytes]
  /\ out \in Seq([from : Threads, cmd : CallType])
  /\ in \in Seq([to : Threads, val : AnswerType \cup {"rest"}])
  /\ state \in {"closed", "opening", "version", "open"} /\ flag \in BOOLEAN
  /\ \E n \in 0..4 : held = {Resources[i] : i \in 1..n}
  /\ pc \in [Threads -> {"idle", "send", "receive", "done"}]
  /\ call \in [Threads -> CallType]
  /\ answer \in [Threads -> AnswerType] /\ due \in [Threads -> AnswerType]
  /\ crossed \subseteq Threads /\ stray \in BOOLEAN

(* However many of the steps of UsbLpt_Open succeed, a handle that was not *)
(* opened or was closed leaves nothing behind, and an open one has all its *)
(* parts: every early return of UsbLpt_Open and USBWRAP_OpenDeviceByPath   *)
(* undoes what the steps before it did.                                    *)
NothingLeaks ==
  /\ state = "closed" => held = {}
  /\ state \in {"version", "open"} => held = {Resources[i] : i \in 1..4}

(* An open handle uses the bulk pipes when the device has them and control *)
(* transfers otherwise, although the version request that decides it was   *)
(* sent with whatever malloc left in the flag.                             *)
OwnTransport ==
  state = "open" => flag = ~device.bulk

(* Calls of several threads on one handle behave as accesses to one        *)
(* register file, one at a time, and a call gets its own answer unless it  *)
(* waited together with another one at the bulk pipes, or a call before it *)
(* failed there and left its answer (AtomicPort).                          *)
Port == INSTANCE AtomicPort WITH
  shared <- device.bulk, left <- stray,
  answer <- [t \in Threads |-> IF pc[t] = "idle" THEN answer[t] ELSE "none"]
ImplementsPort == Port!Spec

(* Every call returns, also when two threads have swapped their answers or *)
(* one has left its own.                                                   *)
CallsReturn == \A t \in Threads : pc[t] = "send" ~> pc[t] = "idle"
=============================================================================
