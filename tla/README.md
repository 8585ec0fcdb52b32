# LptToUsbAdapter in TLA+

A TLA+ development of the USB to parallel port adapter in this repository: models of its
firmware, of the host library and of the tools that patch old programs to use it; TLC
configurations that check them; and TLAPS proofs of the properties that matter most. Paths
are relative to `src/`; `lpt.c`, `main.c` and `usbdrv/` are in `Firmware/AVRUSBLPT/`,
the C files of the host in `LptToUsbAdapter/`.

## The system

An old Windows program drives a parallel-port programmer through port instructions. The
*injector* starts it under a debugger and turns each port access into a call of the *host
library*, which sends a USB control (or bulk) transfer to the *adapter*. The adapter, an
AVR with a USB stack in software, runs the access on its parallel port.

| component | state | operations | correct when | modules |
|---|---|---|---|---|
| Parallel port, `lpt.c` | `ActiveMode`, five registers, direction and latches of the pins | `LPT_SetMode`, `LPT_SetReg`, `LPT_GetReg`; `EppWrite` and `EppRead` inside | each EPP cycle keeps the handshake whatever the device does; no two drivers on the data lines; a time-out is reported | `LptPort`, `EppLink`, `EppTransfer` |
| Request handler and main loop, `main.c` | `IoByte`, `Version` | `usbFunctionSetup`, `usbPoll` for ever, watchdog | a reply is the one of the request it answers | `UsbDevice`, `VUsb` |
| V-USB, `usbdrv/usbdrv.c`, `usbdrv/asmcommon.inc` | receive buffer in two halves, transmit buffer, `usbRxLen`, `usbTxLen`, `usbMsgLen`, `usbMsgPtr`, addresses, configuration | `usbPoll` in the main loop; one interrupt per packet; standard requests; bus reset | no buffer is touched by both threads; requests run in order; host and device agree on the address | `VUsb`, `UsbDevice` |
| V-USB bit level, `usbdrv/usbdrvasm*` | registers of the AVR | receive and send one packet, CRC | what is sent is received; a packet that is cut or too long never passes for another | `UsbBits` |
| Host library, `UsbLptLib.c` | `no_special_endpoint`, version, handles | open, close, mode, port access by control or bulk transfer | the transport is the one of this device; opening leaks nothing; calls behave as accesses to one register file | `UsbLptHost`, `AtomicPort` |
| Firmware update, `UsbLptLib.c` | progress of an update, of the device list | erase, blocks with three tries, finalize, reset, list again | success only when every block is written; bootloaders end as adapters | `Dfu` |
| WinUSB and device list, `UsbWrappers.c` | handles, lists | open, pipes, enumeration | nothing is freed twice, nothing but what is known is lost | `DeviceList`, `UsbLptHost` |
| Injected library, `LptPatchInjectee.c` | `WinIoHookHandle`, `ParallelPortsKey`, `InitCompleted` | hooked calls, `ReadPort8`, `WritePort8` | a hook answers for its own object only; one initialisation | `WinHooks` |
| Injector, `LptPatchInjector.c`, `injectables.asm` | memory of the program, exceptions | debug loop, decode, patch or emulate | the patched program does what the port instructions did; no thread meets half a patch | `InjectorPatch`, `IoProgram` |
| Length disassembler, `ld32.c` | position in the instruction | `length_disasm` | nothing outside the buffer is read | `Ld32` |
| Settings, `CommonCode.c` | `LptPatch.ini`, the loaded dictionary | `LoadSettings` | what the user typed is kept; injector and program agree | `Settings` |

How they interact. Firmware: interrupts and main loop share `usbRxLen`, `usbTxLen` and
the buffers without a lock; `usbPoll` calls `usbFunctionSetup`, which calls `LPT_*`
synchronously, so that a slow device delays USB but registers have one writer. The device
on the cable runs in parallel with every statement of a cycle. Host: threads of the
program run in parallel, through one USB handle and no lock; the injector runs in the
debugger process, suspends the program while it handles an event, and shares a settings
file with the library it has injected.

What is hard: interleaving with the cable and with interrupts, statement by statement;
replies that are prepared late and sent after their request was replaced; lost packets,
repeated requests, bus and watchdog resets; wait loops that race late answers; partial
failure in opening, listing, updating and patching; threads that trap while another one's
instruction is patched; files and handles that outlive what they meant. `PROJECT.json`
lists each hazard at its line, with the properties about it.

## Modules

### Firmware

`LptPort` is `lpt.c`. A byte is the set of its 1 bits and a pin a Boolean. A call is one
step when the device sees one change (mode, PDATA, PSTAT and PCON reads), otherwise one
step per statement that changes or samples a pin: `pc` names the next one (`w...` for
`EppWrite`, `r...` for `EppRead`, `c...` for the pins of a PCON write). Statements that
occur in several places (`ControlPin`, `TurnData`, `CheckReady`, `Poll`, `Sample`,
`Return`) are operators with the statement they start from and go to as parameters.
`PinsChange` is the device: any level of nBUSY and any byte, at any time. The eight data
pins change in one step: no strobe is low when they do. The four status pins that are only
passed through are left out.

`EppLink` extends `LptPort` with the device an EPP port is made for (external, modelled
from what the two cycles wait for): it raises nBUSY some time after a strobe falls,
lowers it some time after both are high, may be slower than any wait loop, and is held
idle by RESET. It replaces `PinsChange`. Its assumption: the host leaves bits 1 and 3 of
PCON (the strobes) at 0, as a user of EPP does.

`EppTransfer` is the abstract specification of a register access: at most one byte moves
in a call, with the direction, register and value of the call; success means that it
moved, failure leaves it open; nothing moves outside calls. `EppLink` implements it under
the mapping at the end of that module.

`VUsb` is the USB side within a transaction: the steps of `usbPoll` (one per access to a
variable that the interrupt handler uses, `pc` names the next), the handler (`handleData`,
`handleIn`, `storeToken`, `ignorePacket`, each atomic because interrupts are not nested),
and a host controller (external) that runs control transfers with retries, data toggle and
short packets. Requests are classified by what `usbFunctionSetup` and `usbDriverSetup` do
with them: change something and reply nothing, read a register into `IoByte`, or reply
from constant memory. The value of a register read is the number of the transfer that read
it, so that a stale reply is visible. `USB_CFG_*` switches have the values of
`usbconfig.h`: no CRC check, no toggle check, no flow control, endpoint 0 only.
`usbFunctionRead` and `usbFunctionWrite` are compiled in but never reached: no request
returns `USB_NO_MSG`.

`UsbDevice` is the life of the adapter on the bus, one step per transaction and per half of
`usbPoll`: each standard request (`DriverReply`, `Descriptor`), each vendor request
(`FunctionReply`, and `SetupRegisters` for what it does to `IoByte` and to the time-out bit of
`PSTAT`: a write or a read of `ADDSTR` or `DATASTR` is a cycle that may time out, a read of
`PSTAT` clears the bit), the data toggle (`toggle`), the address filter (`Heard`), the address
that is taken over with the packet of the status stage (`TakeAddress`, `usbdrvasm16.inc:328`),
the bus reset that `usbPoll` finds (`CheckLine`), the watchdog reset and `main` up to its loop
(`PowerUp`). The host (external) enumerates with a list of requests, then uses the device; it
repeats, gives up, resets the port, and enumerates again. A block is gone once it is sent
(`SendBlock`); when it is lost (`missed` records it) the host asks again and gets the next
one, which it takes or drops by its toggle (`TakeBlock`). The interleaving inside a
transaction is `VUsb`'s.

`UsbBits` is one packet on the wire: the transmitter of `usbdrvasm16.inc` puts levels on
the line bit by bit with bit stuffing, the receiver samples them bit by bit, with the
stuffed bit marked in `x3` at its own place for each bit of the byte, and stops at SE0 or
when the buffer is full; the line may be cut anywhere. A byte or a register is the set of the
numbers of its bits that are 1, so that a shift (`Right`) and an exclusive or (`Xor`) can be
reasoned about bit by bit. `usbCrc16` of `usbdrvasm.S` is a recursive function over the
bytes. Cycle counts are not modelled.

### Host library

`UsbLptHost` is an adapter's handle: `UsbLpt_Open` resource by resource (`Acquire`,
`Opened`), with `flag` (`no_special_endpoint`) holding what `malloc` left there when the
version is asked for; then calls of several threads, as a control transfer or as a write
and a read of the bulk pipes (`WritePipe`, `ReadPipe`), each of which may fail. When the read
fails the answer is still there, or on its way, and nothing in the library takes it out: the
next call reads it, also after `Close` and another `Open`. An answer longer than was asked for may
leave its rest with WinUSB (`Remainders`), until the handle is freed (`Unbuffered`). The device is
external: it executes commands in order, and has the pipes from implementation 2 on.
`AtomicPort` is what the threads are promised: one register file, one access at a time, and
its own answer for a call that did not wait with another one at the bulk pipes, as long as no
call has left its answer there (`left`). The accesses are made one at a time, in order, in any
case.

`Dfu` is `UsbLpt_GetList`, `UsbLpt_OpenAuto` and the update on the way: a pass over the
devices, for each bootloader erase, blocks with up to three tries, finalize and reset; a
second pass when one was met. A command may not be sent, not be executed, or be executed
with its result unread. `late` holds, for each device, the answers in its pipe that nobody has
read. They are read for later commands, and stay there over closing and opening, until the
device is reset. Opening asks for the version, by control transfer or through that pipe, as
`no_special_endpoint` happens to be (`Versions`): it may take an older version for its own, so that
its own is read as the result of the erase (`misread`), or find an answer of the wrong size, and
the device is passed over (`Refuse`). A command's result is one byte; `Reads` is what that makes
of an answer.

`DeviceList` is `USBWRAP_CreateUsbDevicesInfoList`: each function is the sequence of its
calls of the system, with what each acquires and what the error branch behind it releases
(`DeviceGetPortHub` and the following operators), and any call may fail.

### Patching

`WinHooks` is the injected library inside the program: `DllMain` and `Init` under the
loader lock, the hooks of the WinIO device and of the registry key (the real call, the
store to the global variable and the return are separate steps), handle values that are
used again after they were closed, and the port accesses.

`InjectorPatch` has the program as a byte per address, each byte a part of an instruction.
A program is any set of instructions that do not overlap and that lead to instructions
(`IsProgram`): after one that does not end the thread comes one, and branches go to one. The
regions that `VirtualAllocEx` returns lie behind the program and do not adjoin it, as they
begin on pages of their own (`Region`); what lies between is never written.
`Patch` writes the four parts of a patch in the order of the code, and may fail between
any two; `Emulate` is the other half of `ProcessIoException`. All threads are suspended
while an event is handled, so a handler is one action; threads that trapped before are
handled after it. `IoProgram` is the abstract program: each thread executes its
instructions in order, each port instruction once. `sound` turns false where nothing is
promised any more, which `Overtaken` and the failures name.

`Ld32` is `length_disasm` in 32-bit mode over bytes that are chosen when they are read,
with the tables of the code, inside the loop of `PatchIoInstruction` that calls it. For
comparison it also has what the build leaves out: two more tables, and the tests in place of
the other five.

`Settings` is `LoadSettings` in two injectors and two patched programs, while the user edits
the file, saves fail (`DumpFails`) and processes are killed. What `iniparser` and the C
library do with a file is external.

### Proofs and configurations

`EppLinkProofs` (about `LptPort` and `EppLink`), `VUsbProofs` (about `VUsb` and, in its
second part, `UsbBits`), `UsbDeviceProofs`,
`UsbLptHostProofs`, `ListProofs` (about `Dfu` and `DeviceList`), `WinHooksProofs`,
`InjectorProofs` and `SettingsProofs` extend the modules they are about. The
`MC` modules give the constants for TLC. Operators marked "Mutant" are variants with a bug
that a run's property has to find; no specification uses them.

## Runs

| run | configuration | checks |
|---|---|---|
| `epp_link` | `MCEppLink.cfg` | Register file, cycles and an EPP device of any speed. `InputNotDriven`: never driving lines the registers call inputs. `HandshakeStable`: one strobe low, the right write line, direction and byte while the device looks. `NoContention`: never two drivers on the data lines, with one exception below. `TimeoutReported`: a failed cycle sets the time-out bit, and only the read that returns it clears it. `StrobeFindsReady`: no strobe falls on a device that is not ready. `DeviceReleased`: the device always gets back to ready. `ImplementsTransfer`: the refinement of `EppTransfer`. |
| `vusb_lossy` | `VUsbLossy.cfg` | `usbPoll` against interrupts, with lost or cut packets, lost acknowledgements, hosts that give up. `NoTornPacket`, `ReceivedIsStable`: the two keep off each other's buffers. `InOrder`: requests run in order, twice only when the acknowledgement was lost. `SuccessIsReal`: a stale or partial reply never passes for success. `AllSucceed`: without a fault every transfer succeeds, with one-block, full-block and three-block replies. |
| `device` | `Device.cfg` | Enumeration and use under losses, bus resets and watchdog resets. `HostInStep`: between requests the device answers to the host's address. `FreshReply`: a request that succeeded got blocks of its own reply only, and all of them in order, unless one was lost of a reply of sixteen bytes or more. `TimeoutReported`: a time-out is in the register or on its way until the host knows of it. `EventuallyConfigured`: the host gets the device configured again. |
| `usb_bits` | `UsbBits.cfg` | One packet, whole or cut. `RoundTrip`: what is stored is a beginning of what was sent, all of it when nothing was cut. `InBuffer`: not more than the buffer holds. `Toggles`: a level change at least every seven bits. `CrcAgrees`: `usbCrc16` is the CRC its other version computes. |
| `host` | `Host.cfg` | Two threads and a handle. `NothingLeaks`: every failing step of opening gives back those before it. `OwnTransport`: an open handle uses the transport of its device. `ImplementsPort`: the refinement of `AtomicPort`, failing reads included. `CallsReturn`: every call returns. |
| `dfu` | `Dfu.cfg` | Five devices of all kinds. `SuccessIsComplete`: finalize only with the whole image in flash, and success only when it was found whole, unless an answer was left in the pipe. `OneCallListsAll`: without a fault one call lists every adapter. `RetriedUntilDone`: a program that keeps listing gets every bootloader updated, unless the version is asked for through a pipe with answers left in it over and over. |
| `device_list` | `DeviceList.cfg` | Any call of the enumeration fails. `OnlyKnownLosses`: nothing is released twice, and all that remains after the list is destroyed are the losses named below. |
| `hooks` | `Hooks.cfg` | Two threads, reused handles. `OneInit`: one initialisation, before any port access. `RightRegister`: a port reaches its register. `ForeignOnlyIfStale`: a hook answers for another's object only when the value it compares with outlived its object. `HookedIsAnswered`: what a hook can answer for its object it answers, and `OwnHandle`: an open returns its own handle, as long as no opens have overlapped. |
| `injector` | `Injector.cfg` | Two threads in seven small programs. `ImplementsProgram`: patched or emulated, the program is the program, until something named went wrong. `NeverLost`: nobody executes bytes that are no instruction. `Passed`: a patchable instruction is passed in the end. |
| `ld32` | `Ld32.cfg` | All bytes. `InBuffer`: nothing beyond the sixteen bytes is read or copied. `TablesAgree`: each of six tables is the test beside it, for all 256 bytes; of the seventh, whose test is unfinished, only that it has what the test has. |
| `settings` | `Settings.cfg` | Two injectors, two programs, a user. `UserTextsKept`: what was typed is lost in five named ways only. `SessionAgrees`: injector and program work with the same settings, unless one of these happened or the file was changed by others. |
| `lpt_last_written` | `LptLastWritten.cfg` | violated, see below |

Bounds, and why they are enough.

* `epp_link`: the register file has no unbounded state. The wait budget is 1 instead of 10
  (zero, one and no polls before the answer all occur; the proofs hold for any budget), the
  data bytes only have to differ, and the three control bytes are RESET low, ready with the
  write line low, and ready with it high and the data lines as inputs.
* `vusb_lossy`: three transfers, so that a stale reply can come from the last one or the one
  before; three faults are enough to lose a reply, a retry and an acknowledgement in one
  transfer. `MaxTries` (two) is the number of attempts at a transaction without an answer;
  refusals (NAK) are repeated without a bound.
* `device`: an enumeration of six requests, of which one sets the address, one is answered
  in two blocks (the longest reply that is whole after any loss), two in three, and one
  from `main.c`; three requests of a configured device, EPP cycles by
  write and by read among them; two faults and two bus resets, so that one can hit the recovery
  from the other.
* `usb_bits`: bytes with ones at either end and in the middle, so that the sixth one falls on
  every bit; room for four bytes and packets of up to five.
* `host`: four calls, of which two can wait at once and a third comes after, also behind an
  answer that was left; one failure, at any step. Adapters of version 1 and 3, the latter with
  and without control requests.
* `dfu`: an image of three blocks, the last one short; three tries as in the code; room for
  three devices of five; five faults: three fail an update by its tries, two are left to leave
  answers in a pipe. `MaxRest` (three) bounds the answers that wait behind the rest of one.
* `device_list`: two devices, two of the three strings (they are treated alike), three
  languages, which is the smallest number at which nodes in the middle of a list exist.
* `hooks`: two values per kind of handle, so that one can be closed and used again; port
  numbers wrap at 10, with the base at 3.
* `injector`: eighteen bytes of program, of which six to fifteen are overwritten; two port
  instructions close enough to be moved by each other's patch; loops; one failing call.
* `settings`: two edits, of which the second can hit what the first one put right; one
  process killed or one save that fails.

Fairness. Nothing is assumed that the code does not give, and no fault is ever forced: where
an action may fail or succeed, fairness is about the action with `faults` unchanged or about
the union of both. `EppLink`: the firmware continues a call it has begun; of the device only
that it lowers nBUSY some time after it may. That it ever answers a strobe is not assumed.
`VUsb` and `UsbDevice`: the main loop runs (the watchdog resets the chip after a second
without it), and the host goes on with a transfer. `UsbLptHost`: calls run on and the device
executes what it was sent. `Dfu`: a call of the library runs to its end; that the program
lists again is a premise of `RetriedUntilDone`. `InjectorPatch`: threads run and events are
handled. The other modules state safety only.

`CHECK_DEADLOCK FALSE` is set where the system stops by itself: a process that died
(`hooks`, `injector`), a list that was destroyed, a decoded instruction, a received packet
(`usb_bits` ends in "done"), settings that are loaded, and `host` at its bounds.

## What the checks show

Firmware.

* **EPP cycles are safe against any device.** The nBUSY check at the head of a cycle is
  what keeps `StrobeFindsReady`: without it a strobe falls on a device that is still busy
  with the cycle that timed out.
* **A failed cycle may have moved its byte**: the answer came after the last sample. The
  abstract specification says so; a caller that repeats a failed access may do it twice.
* **Power-up glitch.** `NoContention` has one exception. The latches are 0 after reset,
  so both strobes are low until the first PCON write. That write raises RESET before
  nSELECT_PRINTER (`lpt.c:313-316`), and a device that is released from reset in between
  sees an address read while the adapter drives the data lines.
* **Data direction after a read.** `EppRead` leaves the data pins as inputs (`lpt.c:233`),
  while `lpt.c:284` and `lpt.c:351` take mode and PCON to say "DATA is output". A PDATA
  write then changes latches only, until the next cycle or PCON write turns the pins.
* **DATASTR is stored in ADDSTR** (`lpt.c:333`, run `lpt_last_written`), against the comment
  at `lpt.c:105`. Neither is read back.
* **Interrupts and `usbPoll` are kept apart** by `usbRxLen` and `usbTxLen` alone, also in
  the three statements of `usbProcessRx` that reset the transmit side: the handler refuses
  IN packets until `usbRxLen` is 0 again.
* **Lost packets.** A lost reply makes a transfer fail. Two limits remain: a SETUP packet
  that is cut short is acknowledged and dropped, and its transfer may succeed with an
  older reply (`SuccessIsReal` excepts it); and with a reply of three or more packets, which
  is one of sixteen bytes or more, a lost packet can pass for a delivered one, because a packet
  is gone when it is sent (`asmcommon.inc:148`) and toggles are right again two packets later
  (`usbdrv.c:547`): the host takes the rest of the reply, or nothing, for the whole.
  `FreshReply` shows that this is all: what the host has are blocks of this reply even then,
  and with fewer than sixteen bytes a lost block is always noticed. `SuccessIsReal` is about
  interleavings and excepts long replies after any fault. Requests of the adapter reply in one
  packet; descriptors are longer. Both are within what `usbdrv/usbdrv.h:43` says: "The driver
  assumes error-free communication."
* A lost acknowledgement of a SETUP makes the host repeat it, and the request runs twice.
  For `SET_REG` on an EPP register that is a second cycle on the cable.
* **The address is taken with a packet, not with its acknowledgement**
  (`usbdrvasm16.inc:328`). When that is lost, host and device differ until the request is
  repeated or the port reset; `HostInStep` and `EventuallyConfigured` show that the host
  always finds its way back. A bus reset leaves `usbConfiguration` and a pending reply as
  they were (`usbdrv.c:613`); no stale reply gets through.

Host library.

* **The version is asked for through a flag that is not set yet** (`UsbLptLib.c:480`): it
  holds what `malloc` left. An adapter without pipes then fails to open, but never opens
  with the wrong transport.
* **Two threads that wait at the bulk pipes can swap answers**: a command is a write and a
  read without a lock. `AtomicPort` allows it for these calls; control transfers do not have
  it.
* **An answer that was not read is read for the next command.** A read that fails
  (`UsbLptLib.c:138`) leaves it in the pipe, and nothing empties the pipe, neither a close nor
  an open. From then on a call may get the answer of the one before, also one that waits alone:
  `AtomicPort` promises own answers until then, and after it only that accesses are made one at a
  time and in order. `CallsReturn` holds throughout.
* **In a firmware update** this makes every result that of the command before, and
  `SuccessIsComplete` promises nothing. The bootloader's own check keeps such an image from
  being started. The result of an update is ignored (`UsbLptLib.c:388`): a failed one costs a
  second pass and the device stays a bootloader, which the next call tries again. That leads
  to the firmware in the end (`RetriedUntilDone`), with one exception: when the version is
  asked for through the pipe with the answers left in it, the answer found first has the wrong
  size and the device is refused, or an older version is taken and its own is read as the
  result of the erase, which fails; the update leaves as many answers in the pipe as it found,
  and so on for ever. Unplugging the device ends it.
* **Leaks of the device list**: the hub handle of a device that is skipped after it was
  opened (`UsbWrappers.c:620`, `627`), the strings in the middle of three or more languages,
  and all strings of a device when the list cannot grow. No other path loses anything.

Patching.

* **Init needs no lock of its own** because `DllMain` runs it under the loader lock before
  any other thread is there. If it were left to the first port access, `OneInit` would fail.
* **Handles outlive their objects.** The saved handle and key are compared with every later
  one and not reset by a close: a reused value is answered by the hook. `CreateFileA_filter`
  returns the global, so of two opens that overlap one gets the other's handle.
* **A patch is right as long as nobody is overtaken**: a thread that stands behind the
  instruction or has trapped at it, a relative branch that is moved, or a branch into the
  moved bytes, end the guarantee (`Overtaken`). So does a failure between the jump to the
  worker and the jump back; the order of the other parts keeps every prefix harmless.
* **An instruction that cannot be patched traps for ever**, as the result of
  `PatchIoInstruction` is ignored.
* **The key's hook answers for one value.** A query of the hooked key for another value than
  `LPT0_KEY` goes to the kernel with the made-up key (`LptPatchInjectee.c:105`);
  `HookedIsAnswered` is about what a hook has an answer to.
* **The disassembler's limits hold**: sixteen bytes are enough for what the loop asks it,
  although `max_length` does not cover immediate values and displacements.
* **The disassembler's tables** of prefixes, of `modrm_t`, `data1_t`, `data2_t`, `data66_t` and
  `data12_t` are the tests beside them. The test beside `modrm2_t` is unfinished (`ld32.c:133`,
  "TODO: Fix this"): the 43 bytes it accepts are in the table, which has 149 more.
* **Settings** are lost when the file has a syntax error (it is taken for missing and
  written anew), when another process was writing it, when the user saved it between load
  and save, when the save was killed, or when it failed, which nobody looks at
  (`CommonCode.c:101`). In all other interleavings they are kept.

## Proofs

TLC checks the runs on their instances; the following holds for every value of the constants
under the named assumptions. Each component has a typing lemma or theorem, an inductive
invariant, a lemma for each part of it with one step per action, and theorems that follow.

| module | theorems | assumption | the invariant, and why it is needed |
|---|---|---|---|
| `EppLinkProofs` | of `LptPort`: `TypeCorrect`, `NeverDrivesInput`, `CyclesAreStable`, `CyclesRelease`, `TimeoutsAreReported`; of `EppLink`: `NeverContends`, `StrobesFindReady`, `Refinement` (of `EppTransfer`) | bytes are bytes, the wait budget is a number; for `EppLink` also that PCON's strobe bits stay 0 | What holds at a sample depends on the statements before it: `CycleInv` says of every statement of a cycle which pins have been set, for any pin behaviour of the device. With an EPP device neither side is safe by itself: `LinkInv` is the port's invariant, which strobe is low at which statement (`StrobeInv`), what nBUSY says of the device's progress (`ReadyInv`), and that a cycle that saw the answer moved its own byte (`AnswerInv`). |
| `VUsbProofs` | `UsbTypes`, `NeverTorn`, `NotOverwritten`, `ExecutedInOrder`, `SuccessesAreReal` | what the kinds of request reply | `OwnerInv`: who owns which buffer at each statement of `usbPoll`. `OrderInv`: order is lost in a step that stores a packet and seen in the later step that executes it, so the stored request and the host's next one are related to all that was executed. `AnswerInv`: a wrong reply is prepared long before it passes for success, so from the SETUP on either the request still waits and nothing can be sent, or it was executed and the host has the first blocks of its own reply, with the next one in the buffer and the toggles in step, unless one of the excepted losses is on record (`Answering`, `Excused`). |
| `VUsbProofs`, of `UsbBits` | `UsbBitsRoundTrip`, `UsbBitsInBuffer`, `UsbBitsToggles`, `UsbCrcAgrees` | pids are a nibble and its complement; bytes have eight bits | `BitsInv`, see below |
| `UsbDeviceProofs` | `AddressesInStep`, `TimeoutsReachHost`, `RepliesAreFresh` | SET_ADDRESS is standard, without data and only made during enumeration; a bus reset outlasts two passes of `usbPoll` | `AddressInv`: the two addresses equal the host's unless a SET_ADDRESS is on its way, and where it is; a reset clears them for good because its second pass finds nothing received. `ReadInv`, `OwedInv`: where a time-out that was read is. `ReplyInv`: there is a number of blocks the driver has built, which its toggle, its buffer and what is left to send agree with (`Built`); the host has all the blocks sent, in order, or one was lost, and then a reply of fewer than sixteen bytes has no third block that could be in turn (`Arrived`). |
| `UsbLptHostProofs` | `HostTypes`, `OpenLeaksNothing`, `TransportIsOwn`, `CallsAreAccesses` (refinement of `AtomicPort`) | v3 devices are those with pipes | `FlowInv`: the register file the abstract specification shows is the device's once the commands on their way are executed, whatever became of the answers. Until an answer is left, `QueueInv`: every one in the pipes belongs to a thread that waits, alone or among those that may be mixed up; and `KindInv`: they are of the kind that is read. |
| `ListProofs` | of `Dfu`: `DfuTypes`, `UpdateIsComplete`, `OneCallEnough`; of `DeviceList`: `LossesAreKnown` | sizes and tries are positive; the numbers of devices and languages are numbers | `LoadInv`: unless an answer was left in the pipe of the device, the flash holds every block before the next one. `ListInv`: the list holds each adapter once, and a device never becomes another one, so that a full list holds them all. `FineInv`: without a fault, every device behind the current one is listed, or restarts and makes the second pass happen. `HoldingInv`: what is held is, at every step, what the list refers to, what is lost, and what the current device has on its way, and these do not overlap, so that a release never takes what another one will release. |
| `WinHooksProofs` | `HooksTypes`, `InitOnce`, `RegisterReached`, `ForeignStale`, `HookedAnswered`, `HandleOwn` | port numbers are below `Word`, handles and NULL differ | `StartInv`: until `InitCompleted` only the first thread runs. `SavedInv`, `AnswerFor`: what is saved, or about to be, is the hooked object, or an excuse is on record. |
| `InjectorProofs` | `NothingLost`, `ProgramImplemented` (refinement of `IoProgram`) | `IsProgram`; regions have 40 bytes or more | `MemoryOK` and `Orderly`, see below |
| `SettingsProofs` | `TextsKept`, `SessionsAgree` | there are entries; a file with no text is none | `FileInv`: one writer or readers. `KeptInv`: the texts are on the disk or with the writer, and with whoever may still save. `SessionInv`: an injector that ran alone left its complete dictionary on the disk. |

The proof about the wire relates two programs that count ones each on its own. `BitsInv` says
that there are two functions of the number of a bit, and says where both programs are by them:
`P`, the levels on the line up to that bit, and `R`, the ones in a row it ends (`Wire`). They are
not variables of the model; each bit sent extends them by one. The receiver is in one of three
places (`Where`). `OnBit`: the level it has sampled is that of the last bit it took, the stuffed
one behind it included; its history ends the same run of ones; and the bits it has, inverted
where `x3` has a mark, are the bits of the byte (`Partial`; the mark is said to be where the
remaining turns of `lsr x3` will take it, `Turns`). `CutOdd`: it is one bit behind the end and
will see it. `CutLate`: the packet was cut behind bit 6 or 7, where the code does not look; then
it never sees an end, and only the buffer stops it. The run of ones is not the same for the very
first bit, which the receiver takes from the level alone and shifts in inverted
(`Alike`): it counts one more or two fewer until the next zero. That this never inserts or misses a
stuffed bit rests on the pid: bits 4 and 5 are the complements of bits 0 and 1, so a zero comes
before either count can reach six (`RunsStayAlike`). A packet whose first byte is not a pid
could be misread.

`UsbCrcAgrees` compares the bit loop of `usbCrc16` with the pseudo code of the version behind
`USB_USE_FAST_CRC`, for payloads of every length. Both are recursive functions. Induction comes
from the well-foundedness of `<` on `Nat`, as a fact about sets of
numbers (`SetInduction`); that the functions have the values their equations say, from
constructing a list of results (`Iteration`). The bit loop keeps the complement of what the
other version keeps (`PlainIs`, `CrcsAgree`), so one shift of either is a shift to the right, with
the polynomial 0xa001 applied when a one falls out. `RowIs` says bit by bit what is left after `n`
shifts; the bit that falls out at shift `n` is the parity of the bits 0 to `n` of the byte, because
each shift puts the next bit of the byte into bit 0, flipped when a one has just fallen out
(`NextRow`, `Parity`). After eight shifts that is the table's entry for the low byte,
exclusive-or the high byte (`EightShifts`).

The proof about the injector is the longest, because a step's effect depends on where
instructions lie. `MemoryOK` says what the bytes may be: only the program, the regions taken so
far and what their last jump reaches hold anything (`Laid`), and every RET or NOP follows a
PUSH (`Chained`). From it, `CutIs`: the loop over `length_disasm` (`LptPatchInjector.c:248`)
stops within the sixteen bytes it has read, at an instruction's end, with a whole number of
instructions of six bytes or more. `Orderly` says why the program runs: there is a set `L` of
addresses, closed under execution, that holds all threads; each has an `origin` in the compiled
program and a depth of the stack; and what is executed at the address is the origin's
instruction, its call, or a jump on the way there. `L` is not a function of the memory but is
chosen anew with each patch, so it is quantified. A whole patch takes the bytes it overwrites
out of `L`, puts the moved instructions and the jumps in, and keeps all others (`PatchLive`); a
patch that fails half way changes nothing that is executed, or `sound` turns false
(`PartialLive`). `InjectorInv` is `Orderly` as long as `sound` holds.

The type invariants (`TypeOK`) are proved in these modules and not listed in the runs. Of the
properties of `LptPort`, those that concern the cable are checked in `epp_link` and proved
against arbitrary pins.

Model-checked only: liveness under fairness (`DeviceReleased`, `AllSucceed`,
`EventuallyConfigured`, `CallsReturn`, `RetriedUntilDone`, `Passed`), which is out of the
prover's reach, and `Ld32`, which uses bitwise operators. The run of `Ld32` is no smaller than
the code: its tables are those of the code and every byte may come at every place, so there is
no larger instance to prove it for. Every other property of the passing runs is proved.

## Not modelled

* The device selection dialog (`UsbLptLib.c:642-784`): user interface. Its result is a choice
  of `OpenAuto` in `Dfu`.
* The configuration descriptor functions (`UsbWrappers.c:219-358`), which nobody calls, the
  parsing of device identifiers, and the libusb half of the file (`797-904`), whose functions
  are stubs.
* What the hooks answer, and process detach of the injected library.
* The log and the instruction dump of `CommonCode.c`, and `FreeSettings`; locating the
  program's file and the messages of `wWinMain`; what the worker function saves and restores
  (`injectables.asm`) beyond its call; the list of thread handles of the injector
  (`LptPatchInjector.c:547`).
* `ld32.c` as it is built otherwise, except that `TablesAgree` compares its tests with its tables.
* Calls, returns and indirect jumps of the patched program: a return address or a pointer into
  bytes that a patch writes over would be overtaken as well (`IsProgram`).
* Packets that are cut just before a stuffed bit that is due (`EndOfPacket` of `UsbBits`); the
  inverted length and the carry of the loop in `usbCrc16` (`CrcAgrees` compares what it computes).
* The cycle timing of `usbdrvasm16.inc`, and the variants for other clock rates.
* The demo program, drivers, schematics, and vendored headers. `USBLPT3R0_firmware.h` is
  data: an image of bytes.
