-------------------------------- MODULE VUsb --------------------------------
(***************************************************************************)
(* The USB side of the firmware: the V-USB driver (usbdrv/usbdrv.c and the *)
(* interrupt handler of usbdrv/asmcommon.inc) with the request handler of  *)
(* main.c, and the host controller it talks to.                            *)
(*                                                                         *)
(* Two threads share the driver's variables without a lock. The main loop  *)
(* runs usbPoll over and over, one step per access to a variable that the  *)
(* interrupt handler also uses. The handler runs once per packet and is    *)
(* atomic: the main loop does not move while it runs.                      *)
(*                                                                         *)
(* The host (external) runs one control transfer at a time. A fault is a   *)
(* lost or cut packet or a host that gives up; MaxFaults bounds them.      *)
(***************************************************************************)
EXTENDS Integers, Sequences

CONSTANTS
  Requests,     \* the requests the host makes, see RequestType
  MaxRequests,  \* bound on the transfers the host starts
  MaxFaults,    \* bound on the faults
  MaxTries      \* times the host repeats a transaction nobody answered

NAK == 90       \* USBPID_NAK, a handshake: bit 4 is set, as in no length
NO_MSG == 255   \* USB_NO_MSG

(* cmd: what usbFunctionSetup or usbDriverSetup does with it. "set" changes *)
(* something and replies nothing (SET_MODE, SET_REG), "get" replies IoByte  *)
(* (GET_REG), "const" replies constant memory (GET_VERSION, descriptors).   *)
RequestType == [cmd : {"set", "get", "const"}, reply : 0..254, wLength : 0..255]

ASSUME VUsbAssumption ==
  /\ Requests \subseteq RequestType
  /\ \A r \in Requests : /\ r.cmd = "set" => r.reply = 0
                         /\ r.cmd = "get" => r.reply = 1
                         /\ r.cmd = "set" <=> r.wLength = 0
  /\ MaxRequests \in Nat /\ MaxFaults \in Nat /\ MaxTries \in Nat

VARIABLES
  \* shared by the interrupt handler and the main loop
  usbRxLen,       \* length of the packet to process, with pid and CRC; 0: none
  usbRxToken,     \* the token it came with
  usbRxBuf,       \* the two halves of the receive buffer
  inputHalf,      \* the half the handler fills (usbInputBufOffset)
  usbTxLen,       \* length of the packet to send, or NAK
  usbTxBuf,       \* that packet
  \* the handler's own
  usbCurrentTok,
  \* the main loop's own
  pc,             \* where usbPoll is
  usbMsgLen, usbMsgPtr, IoByte,
  executed,       \* history: the requests usbFunctionSetup has executed
  \* the host
  phase, id, request, toggle, got, tries,
  outcome,        \* what became of each transfer
  repeated,       \* history: transfers whose SETUP was accepted unnoticed
  dropped,        \* history: transfers whose SETUP was acknowledged, then
                  \* dropped: it was cut short, or its token was lost and it
                  \* passed for the data of an earlier OUT
  faults

shared  == <<usbRxLen, usbRxToken, usbRxBuf, inputHalf, usbTxLen, usbTxBuf>>
message == <<usbMsgLen, usbMsgPtr, IoByte, executed>>
host    == <<phase, id, request, toggle, got, tries, outcome, repeated, dropped>>
vars    == <<shared, usbCurrentTok, pc, message, host, faults>>

Nothing == [pid |-> "none"]
Other(half) == 1 - half
Flip(pid) == IF pid = "DATA0" THEN "DATA1" ELSE "DATA0"
Min2(a, b) == IF a < b THEN a ELSE b

Init ==
  /\ usbRxLen = 0 /\ usbRxToken = "none" /\ inputHalf = 0
  /\ usbRxBuf = [half \in 0..1 |-> Nothing]
  /\ usbTxLen = NAK
  /\ usbTxBuf = [pid |-> "DATA0", data |-> Nothing]
  /\ usbCurrentTok = "none"
  /\ pc = "rx"
  /\ usbMsgLen = NO_MSG /\ usbMsgPtr = [mem |-> "none", off |-> 0]
  /\ IoByte = 0 /\ executed = <<>>
  /\ phase = "idle" /\ id = 0 /\ toggle = "DATA1" /\ got = <<>> /\ tries = 0
  /\ request = [cmd |-> "none", reply |-> 0, wLength |-> 0]
  /\ outcome = [i \in 1..MaxRequests |-> "none"]
  /\ repeated = {} /\ dropped = {} /\ faults = 0

-----------------------------------------------------------------------------
(* usbPoll. *)

MainUnchanged == UNCHANGED <<usbRxToken, usbRxBuf, inputHalf, usbCurrentTok,
                             host, faults>>

At(from, to) == pc = from /\ pc' = to

(* The half that was filled last, which the handler has left. *)
Received == usbRxBuf[Other(inputHalf)]

(* A packet that is not a SETUP of eight bytes is dropped. *)
PollRx ==
  /\ pc = "rx"
  /\ pc' = CASE usbRxLen - 3 < 0 -> "tx"
             [] usbRxToken = "SETUP" /\ usbRxLen - 3 = 8 -> "setupPid"
             [] OTHER -> "free"
  /\ UNCHANGED <<usbRxLen, usbTxLen, usbTxBuf, message>>
  /\ MainUnchanged

SetupPid ==
  /\ At("setupPid", "setupAbort")
  /\ usbTxBuf' = [usbTxBuf EXCEPT !.pid = "DATA0"]
  /\ UNCHANGED <<usbRxLen, usbTxLen, message>>
  /\ MainUnchanged

SetupAbort ==
  /\ At("setupAbort", "setupCall")
  /\ usbTxLen' = NAK
  /\ UNCHANGED <<usbRxLen, usbTxBuf, message>>
  /\ MainUnchanged

(* usbFunctionSetup or usbDriverSetup, and the reply length they ask for,  *)
(* limited to wLength. IoByte stands for the register value read: the      *)
(* number of the transfer it was read for.                                 *)
SetupCall ==
  /\ At("setupCall", "free")
  /\ LET rq == Received.request IN
       /\ executed' = Append(executed, Received.id)
       /\ IoByte' = IF rq.cmd = "get" THEN Received.id ELSE IoByte
       /\ usbMsgPtr' = IF rq.cmd = "set" THEN usbMsgPtr
                       ELSE [mem |-> rq.cmd, off |-> 0]
       /\ usbMsgLen' = Min2(rq.reply, rq.wLength)
  /\ UNCHANGED <<usbRxLen, usbTxLen, usbTxBuf>>
  /\ MainUnchanged

\* Mutant: the packet is not marked as processed.
RxFreeForgotten ==
  /\ At("free", "tx")
  /\ UNCHANGED <<usbRxLen, usbTxLen, usbTxBuf, message>>
  /\ MainUnchanged

(* "mark rx buffer as available" *)
RxFree ==
  /\ At("free", "tx")
  /\ usbRxLen' = 0
  /\ UNCHANGED <<usbTxLen, usbTxBuf, message>>
  /\ MainUnchanged

\* Mutant: a block is built whether or not the last one has been sent.
PollTxAlways ==
  /\ pc = "tx"
  /\ pc' = IF usbMsgLen # NO_MSG THEN "toggle" ELSE "rx"
  /\ UNCHANGED <<usbRxLen, usbTxLen, usbTxBuf, message>>
  /\ MainUnchanged

\* Mutant: there is nothing to send in an empty message.
PollTxNonEmpty ==
  /\ pc = "tx"
  /\ pc' = IF usbTxLen = NAK /\ usbMsgLen \notin {0, NO_MSG} THEN "toggle"
           ELSE "rx"
  /\ UNCHANGED <<usbRxLen, usbTxLen, usbTxBuf, message>>
  /\ MainUnchanged

PollTx ==
  /\ pc = "tx"
  /\ pc' = IF usbTxLen = NAK /\ usbMsgLen # NO_MSG THEN "toggle" ELSE "rx"
  /\ UNCHANGED <<usbRxLen, usbTxLen, usbTxBuf, message>>
  /\ MainUnchanged

BuildToggle ==
  /\ At("toggle", "copy")
  /\ usbTxBuf' = [usbTxBuf EXCEPT !.pid = Flip(@)]
  /\ UNCHANGED <<usbRxLen, usbTxLen, message>>
  /\ MainUnchanged

WantLen == Min2(usbMsgLen, 8)

(* usbDeviceRead: the bytes are read through usbMsgPtr now, not when the   *)
(* request was executed. A zero-sized block does not read.                 *)
BuildCopy ==
  /\ At("copy", "send")
  /\ usbTxBuf' = [usbTxBuf EXCEPT !.data =
       [mem |-> IF WantLen = 0 THEN "none" ELSE usbMsgPtr.mem,
        val |-> IF WantLen > 0 /\ usbMsgPtr.mem = "get" THEN IoByte ELSE 0,
        off |-> IF WantLen = 0 THEN 0 ELSE usbMsgPtr.off,
        len |-> WantLen]]
  /\ usbMsgPtr' = [usbMsgPtr EXCEPT !.off = @ + WantLen]
  /\ usbMsgLen' = usbMsgLen - WantLen
  /\ UNCHANGED <<usbRxLen, usbTxLen, IoByte, executed>>
  /\ MainUnchanged

(* A partial block ends the message. Setting usbTxLen hands the buffer to  *)
(* the interrupt handler.                                                  *)
BuildSend ==
  /\ At("send", "rx")
  /\ usbTxLen' = usbTxBuf.data.len + 4
  /\ usbMsgLen' = IF usbTxBuf.data.len < 8 THEN NO_MSG ELSE usbMsgLen
  /\ UNCHANGED <<usbRxLen, usbTxBuf, usbMsgPtr, IoByte, executed>>
  /\ MainUnchanged

usbPoll == \/ PollRx \/ SetupPid \/ SetupAbort \/ SetupCall \/ RxFree
           \/ PollTx \/ BuildToggle \/ BuildCopy \/ BuildSend

-----------------------------------------------------------------------------
(* The interrupt handler: what a packet that arrives does, and the answer. *)

HandlerUnchanged == UNCHANGED <<pc, message>>

(* Every packet is received into the half the handler owns. *)
Receive(packet) == usbRxBuf' = [usbRxBuf EXCEPT ![inputHalf] = packet]

storeToken(token) ==
  /\ Receive([pid |-> token])
  /\ usbCurrentTok' = token
  /\ UNCHANGED <<usbRxLen, usbRxToken, inputHalf, usbTxLen, usbTxBuf>>

(* A packet the handler has no use for, such as the host's ACK. *)
ignorePacket ==
  /\ Receive([pid |-> "ACK"])
  /\ usbCurrentTok' = "none"
  /\ UNCHANGED <<usbRxLen, usbRxToken, inputHalf, usbTxLen, usbTxBuf>>

\* Mutant: a packet is taken while the last one is still being processed.
handleDataAlways(packet, answer) ==
  /\ UNCHANGED <<usbCurrentTok, usbTxLen, usbTxBuf>>
  /\ IF usbCurrentTok = "none" \/ packet.len < 1
     THEN /\ Receive(packet)
          /\ answer = IF usbCurrentTok = "none" THEN "nothing" ELSE "ACK"
          /\ UNCHANGED <<usbRxLen, usbRxToken, inputHalf>>
     ELSE /\ Receive(packet)
          /\ usbRxLen' = packet.len + 3
          /\ usbRxToken' = usbCurrentTok
          /\ inputHalf' = Other(inputHalf)
          /\ answer = "ACK"

(* A data packet. A zero-sized one is a status stage: acknowledged, not    *)
(* stored. Storing one swaps the halves.                                   *)
handleData(packet, answer) ==
  /\ Receive(packet)
  /\ UNCHANGED <<usbCurrentTok, usbTxLen, usbTxBuf>>
  /\ answer = CASE usbCurrentTok = "none" -> "nothing"
                [] usbCurrentTok # "none" /\ usbRxLen # 0 -> "NAK"
                [] OTHER -> "ACK"
  /\ IF answer = "ACK" /\ packet.len >= 1
     THEN /\ usbRxLen' = packet.len + 3
          /\ usbRxToken' = usbCurrentTok
          /\ inputHalf' = Other(inputHalf)
     ELSE UNCHANGED <<usbRxLen, usbRxToken, inputHalf>>

\* Mutant: a reply is sent although a request has not been processed yet.
handleInAnyTime(answer, acked) ==
  /\ Receive([pid |-> "IN"])
  /\ usbTxLen' = NAK
  /\ answer = IF usbTxLen = NAK THEN [pid |-> "NAK"] ELSE usbTxBuf
  /\ usbCurrentTok' = IF acked THEN "none" ELSE usbCurrentTok
  /\ UNCHANGED <<usbRxLen, usbRxToken, inputHalf, usbTxBuf>>

(* "We don't send any data as long as the C code has not processed the     *)
(* current input data". A packet counts as sent whether it arrives or not. *)
(* The ACK of the host is a packet ignorePacket forgets the token for.     *)
handleIn(answer, acked) ==
  /\ Receive([pid |-> "IN"])
  /\ IF usbRxLen >= 1 \/ usbTxLen = NAK
     THEN answer = [pid |-> "NAK"] /\ UNCHANGED usbTxLen
     ELSE answer = usbTxBuf /\ usbTxLen' = NAK
  /\ usbCurrentTok' = IF acked THEN "none" ELSE usbCurrentTok
  /\ UNCHANGED <<usbRxLen, usbRxToken, inputHalf, usbTxBuf>>

(* The packet does not arrive. *)
Lost == UNCHANGED <<shared, usbCurrentTok>>

-----------------------------------------------------------------------------
(* The host. *)

Fault == faults < MaxFaults /\ faults' = faults + 1
NoFault == UNCHANGED faults

HostFrame == UNCHANGED <<id, request, repeated, dropped>> /\ HandlerUnchanged

End(result) ==
  /\ phase' = "idle"
  /\ outcome' = [outcome EXCEPT ![id] = result]
  /\ UNCHANGED <<toggle, got, tries>>

Continue(next) ==
  /\ phase' = next
  /\ tries' = 0
  /\ UNCHANGED <<outcome, toggle, got>>

(* A transaction without an answer is repeated a few times. *)
Retry(next) ==
  IF tries + 1 < MaxTries
  THEN /\ phase' = next
       /\ tries' = tries + 1
       /\ UNCHANGED <<outcome, toggle, got>>
  ELSE End("failed")

Start(r) ==
  /\ phase = "idle" /\ id < MaxRequests
  /\ phase' = "setupToken"
  /\ id' = id + 1 /\ request' = r
  /\ outcome' = [outcome EXCEPT ![id + 1] = "pending"]
  /\ toggle' = "DATA1" /\ got' = <<>> /\ tries' = 0
  /\ UNCHANGED <<shared, usbCurrentTok, repeated, dropped, faults>>
  /\ HandlerUnchanged

SendToken(from, to, token) ==
  /\ phase = from
  /\ phase' = to
  /\ \/ storeToken(token) /\ NoFault
     \/ Lost /\ Fault
  /\ UNCHANGED <<outcome, toggle, got, tries>>
  /\ HostFrame

SetupPacket(len) ==
  [pid |-> "DATA0", len |-> len, id |-> id, request |-> request]

AfterSetup == IF request.wLength > 0 THEN "in" ELSE "statusIn"

SetupArrives ==
  \E answer \in {"ACK", "NAK", "nothing"} :
    /\ handleData(SetupPacket(8), answer)
    /\ \/ /\ NoFault
          /\ IF answer = "ACK" THEN Continue(AfterSetup) ELSE Retry("setupToken")
          /\ UNCHANGED repeated
       \/ /\ answer = "ACK" /\ Fault
          /\ Retry("setupToken")
          /\ repeated' = repeated \cup {id}
    /\ dropped' = IF answer = "ACK" /\ usbCurrentTok = "OUT"
                  THEN dropped \cup {id} ELSE dropped

SetupIsCut ==
  /\ Fault
  /\ handleData(SetupPacket(4), "ACK")
  /\ Continue(AfterSetup)
  /\ dropped' = dropped \cup {id}
  /\ UNCHANGED repeated

SendSetup ==
  /\ phase = "setupData"
  /\ \/ SetupArrives
     \/ SetupIsCut
     \/ Lost /\ Fault /\ Retry("setupToken") /\ UNCHANGED <<repeated, dropped>>
  /\ UNCHANGED <<id, request>>
  /\ HandlerUnchanged

(* A block with the wrong toggle repeats one the host has: it is dropped.  *)
Accept(block) ==
  CASE block.pid # toggle -> Continue(phase)
    [] block.pid = toggle /\ phase = "statusIn" ->
         End(IF block.data.len = 0 THEN "ok" ELSE "failed")
    [] OTHER ->
         /\ got' = Append(got, block.data)
         /\ toggle' = Flip(toggle)
         /\ phase' = IF \/ block.data.len < 8
                        \/ 8 * Len(got) + block.data.len >= request.wLength
                     THEN "outToken" ELSE "in"
         /\ tries' = 0
         /\ UNCHANGED outcome

Refused == [pid |-> "NAK"]

SendIn ==
  /\ phase \in {"in", "statusIn"}
  /\ \/ /\ handleIn(Refused, FALSE) /\ NoFault
        /\ UNCHANGED <<phase, toggle, got, tries, outcome>>
     \/ \E acked \in BOOLEAN :
          /\ handleIn(usbTxBuf, acked)
          /\ IF acked THEN NoFault ELSE Fault
          /\ Accept(usbTxBuf)
     \/ handleIn(usbTxBuf, FALSE) /\ Fault /\ Retry(phase)
     \/ Lost /\ Fault /\ Retry(phase)
  /\ HostFrame

SendStatus ==
  /\ phase = "outData"
  /\ \/ \E answer \in {"ACK", "NAK", "nothing"} :
          /\ handleData([pid |-> "DATA1", len |-> 0], answer)
          /\ \/ answer = "ACK" /\ NoFault /\ End("ok")
             \/ answer = "NAK" /\ NoFault /\ Continue("outToken")
             \/ answer = "nothing" /\ NoFault /\ Retry("outToken")
             \/ answer = "ACK" /\ Fault /\ Retry("outToken")
     \/ Lost /\ Fault /\ Retry("outToken")
  /\ HostFrame

GiveUp ==
  /\ phase # "idle"
  /\ Fault
  /\ End("failed")
  /\ Lost
  /\ HostFrame

HostContinues ==
  \/ SendToken("setupToken", "setupData", "SETUP")
  \/ SendSetup
  \/ SendIn
  \/ SendToken("outToken", "outData", "OUT")
  \/ SendStatus

Next ==
  \/ usbPoll
  \/ \E r \in Requests : Start(r)
  \/ HostContinues
  \/ GiveUp

(* The main loop runs (a watchdog resets the chip when it does not), and   *)
(* the host controller works on a transfer until it has an outcome; no     *)
(* packet has to be lost for it.                                           *)
Spec ==
  /\ Init /\ [][Next]_vars
  /\ WF_vars(usbPoll)
  /\ WF_vars(HostContinues /\ NoFault)

-----------------------------------------------------------------------------
(* Properties. *)

Packet == {Nothing} \cup [pid : {"SETUP", "OUT", "IN", "ACK"}]
            \cup [pid : {"DATA1"}, len : {0}]
            \cup [pid : {"DATA0"}, len : 1..8, id : Nat, request : Requests]

PollPCs == {"rx", "setupPid", "setupAbort", "setupCall", "free", "tx",
            "toggle", "copy", "send"}

(* Types. A packet that waits to be processed carries a request: no        *)
(* request of the firmware has a data stage towards the device.            *)
TypeOK ==
  /\ pc \in PollPCs
  /\ usbRxLen \in {0} \cup 4..11
  /\ usbRxBuf \in [0..1 -> Packet]
  /\ inputHalf \in 0..1
  /\ usbCurrentTok \in {"none", "SETUP", "OUT"}
  /\ id \in Nat
  /\ phase # "idle" => request \in Requests
  /\ usbRxLen # 0 => Received.pid = "DATA0"
  /\ repeated \subseteq Nat
  /\ executed \in Seq(Nat)

(* The handler never sends the transmit buffer while usbPoll is between    *)
(* two writes to it: it is kept from it either by the request that is      *)
(* still being processed or by usbTxLen.                                   *)
NoTornPacket ==
  pc \in {"setupPid", "setupAbort", "toggle", "copy", "send"}
    => usbRxLen >= 1 \/ usbTxLen = NAK

(* The packet usbPoll is processing stays as it is until it marks the      *)
(* buffer as available, whatever arrives in the meantime.                  *)
ReceivedIsStable ==
  [][ usbRxLen # 0 /\ usbRxLen' # 0 => Received' = Received ]_vars

(* Requests take effect in the order the host made them, a late one never  *)
(* after a newer one, and twice only when the host has not seen the first  *)
(* acknowledgement.                                                        *)
InOrder ==
  \A i, j \in 1..Len(executed) :
    i < j => \/ executed[i] < executed[j]
             \/ executed[i] = executed[j] /\ executed[i] \in repeated

(* The bytes a request is answered with, in blocks of eight. *)
Block(k) ==
  LET total == Min2(request.reply, request.wLength)
      len == IF total - 8 * (k - 1) < 8 THEN total - 8 * (k - 1) ELSE 8
  IN [mem |-> IF len = 0 THEN "none" ELSE request.cmd,
      val |-> IF len > 0 /\ request.cmd = "get" THEN id ELSE 0,
      off |-> IF len = 0 THEN 0 ELSE 8 * (k - 1),
      len |-> len]

RightAnswer ==
  /\ \A k \in 1..Len(got) : got[k] = Block(k)
  /\ Min2(request.reply, request.wLength) <= 8 * Len(got)
  /\ request.cmd = "set" \/ got # <<>>

LongReply == Min2(request.reply, request.wLength) >= 16

(* What the host takes for success is one: the request has been executed,  *)
(* and the reply it was handed is the whole reply of this request, read    *)
(* when this request was executed. There is no such guarantee for a SETUP  *)
(* that was acknowledged and then dropped, nor for a reply of three blocks *)
(* of which one was lost: the driver goes on, the host drops the next      *)
(* block for its toggle, and takes the third one for the lost one. Here    *)
(* any fault excuses such a reply, and not only a lost block of its own;   *)
(* FreshReply of UsbDevice has the exact limit.                            *)
SuccessIsReal ==
  phase = "idle" /\ id > 0 /\ outcome[id] = "ok"
    => \/ id \in dropped
       \/ /\ \E i \in 1..Len(executed) : executed[i] = id
          /\ RightAnswer \/ (LongReply /\ faults > 0)

(* Every transfer the host starts succeeds, unless something was lost or   *)
(* the host gave one up: whatever the interleaving of usbPoll and the      *)
(* interrupts, a reply is sent in the end and is complete.                 *)
AllSucceed ==
  \A i \in 1..MaxRequests :
    outcome[i] = "pending" ~> outcome[i] = "ok" \/ faults > 0
=============================================================================
