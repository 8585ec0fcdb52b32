----------------------------- MODULE VUsbProofs -----------------------------
(***************************************************************************)
(* Proofs about the two halves of the V-USB driver. VUsb: for every set of *)
(* requests and every bound on transfers, faults and retries. UsbBits, in  *)
(* the second part: for packets of every length and content, every buffer  *)
(* size and every history of the transmitter.                              *)
(***************************************************************************)
EXTENDS VUsb, UsbBits, SequenceTheorems, FiniteSetTheorems, WellFoundedInduction, TLAPS

(* Who owns what: the request is processed while usbRxLen is set, a block  *)
(* is built while usbTxLen is NAK.                                         *)
OwnerInv ==
  /\ pc \in {"setupPid", "setupAbort", "setupCall", "free"} => usbRxLen # 0
  /\ pc \in {"toggle", "copy", "send"} => usbTxLen = NAK

(* How the requests executed relate to the one that waits in the receive   *)
(* buffer and to the one the host is about to make.                        *)
Before(i) ==
  \A k \in 1..Len(executed) :
    \/ executed[k] < i
    \/ executed[k] = i /\ i \in repeated

OrderInv ==
  /\ \A k \in 1..Len(executed) : executed[k] <= id
  /\ InOrder
  /\ usbRxLen # 0 => Received.id <= id
  /\ usbRxLen # 0 /\ pc # "free" => Before(Received.id)
  /\ phase \in {"setupToken", "setupData"}
       => /\ Before(id)
          /\ usbRxLen # 0 /\ Received.id = id => id \in repeated

UsbInv == TypeOK /\ OwnerInv /\ OrderInv

-----------------------------------------------------------------------------

(* Storing in the half the handler owns leaves the other one alone.        *)
LEMMA ReceiveType ==
  ASSUME TypeOK, NEW packet \in Packet, Receive(packet)
  PROVE  /\ usbRxBuf' \in [0..1 -> Packet]
         /\ usbRxBuf'[Other(inputHalf)] = usbRxBuf[Other(inputHalf)]
         /\ usbRxBuf'[inputHalf] = packet
         /\ Other(inputHalf) \in 0..1 /\ Other(Other(inputHalf)) = inputHalf
BY DEF TypeOK, Receive, Other

(* What a data packet does to the receive side.                            *)
LEMMA DataStored ==
  ASSUME TypeOK, NEW packet \in Packet, NEW answer,
         packet.len \in 0..8, handleData(packet, answer)
  PROVE  /\ usbRxBuf' \in [0..1 -> Packet] /\ inputHalf' \in 0..1
         /\ \/ usbRxLen' = usbRxLen /\ Received' = Received
            \/ /\ usbRxLen = 0 /\ usbRxLen' \in 4..11
               /\ packet.len # 0 /\ answer = "ACK"
               /\ Received' = packet
         /\ UNCHANGED <<usbTxLen, usbTxBuf, usbCurrentTok>>
<1>1. Receive(packet) /\ UNCHANGED <<usbTxLen, usbTxBuf, usbCurrentTok>>
  BY DEF handleData
<1>2. CASE answer = "ACK" /\ packet.len >= 1
  <2>1. usbRxLen = 0
    BY <1>2 DEF handleData
  <2>2. usbRxLen' = packet.len + 3 /\ inputHalf' = Other(inputHalf)
    BY <1>2 DEF handleData
  <2> QED
    BY <1>1, <1>2, <2>1, <2>2, ReceiveType DEF Received
<1>3. CASE ~(answer = "ACK" /\ packet.len >= 1)
  <2>1. usbRxLen' = usbRxLen /\ inputHalf' = inputHalf
    BY <1>3 DEF handleData
  <2> QED
    BY <1>1, <2>1, ReceiveType DEF Received, TypeOK
<1> QED
  BY <1>2, <1>3

(* What the packets without data do to the receive side: nothing.          *)
Quiet ==
  /\ usbRxBuf' \in [0..1 -> Packet]
  /\ inputHalf' = inputHalf
  /\ usbRxLen' = usbRxLen
  /\ Received' = Received

(* A token, or nothing, arrives.                                           *)
LEMMA TokenQuiet ==
  ASSUME TypeOK, NEW token \in {"SETUP", "OUT"},
         storeToken(token) \/ Lost
  PROVE  Quiet /\ usbCurrentTok' \in {"none", "SETUP", "OUT"}
               /\ usbTxLen' = usbTxLen
<1>1. [pid |-> token] \in Packet
  BY DEF Packet
<1>2. CASE storeToken(token)
  BY <1>1, <1>2, ReceiveType DEF storeToken, Quiet, Received
<1>3. CASE Lost
  BY <1>3 DEF Lost, shared, Quiet, Received, TypeOK
<1> QED
  BY <1>2, <1>3

(* An IN is answered.                                                      *)
LEMMA InQuiet ==
  ASSUME TypeOK, NEW answer, NEW acked,
         handleIn(answer, acked) \/ Lost
  PROVE  Quiet /\ usbCurrentTok' \in {"none", "SETUP", "OUT"}
               /\ usbTxLen' \in {usbTxLen, NAK}
<1>1. [pid |-> "IN"] \in Packet
  BY DEF Packet
<1>2. CASE handleIn(answer, acked)
  <2>1. Receive([pid |-> "IN"])
    BY <1>2 DEF handleIn
  <2>2. /\ inputHalf' = inputHalf /\ usbRxLen' = usbRxLen
        /\ usbTxLen' \in {usbTxLen, NAK}
    BY <1>2 DEF handleIn
  <2>3. usbCurrentTok' \in {"none", usbCurrentTok}
    BY <1>2, Zenon DEF handleIn
  <2> QED
    BY <1>1, <2>1, <2>2, <2>3, ReceiveType DEF Quiet, Received, TypeOK
<1>3. CASE Lost
  BY <1>3 DEF Lost, shared, Quiet, Received, TypeOK
<1> QED
  BY <1>2, <1>3

-----------------------------------------------------------------------------
(* Steps of usbPoll.                                                       *)

(* Executing a request that comes after all executed ones keeps the order. *)
LEMMA AppendKeepsOrder ==
  ASSUME NEW i \in Nat, i <= id, id \in Nat, executed \in Seq(Nat), InOrder,
         Before(i), executed' = Append(executed, i),
         \A k \in 1..Len(executed) : executed[k] <= id,
         id' = id, repeated' = repeated
  PROVE  /\ executed' \in Seq(Nat)
         /\ \A k \in 1..Len(executed') : executed'[k] <= id'
         /\ InOrder'
         /\ Before(id) /\ (i = id => id \in repeated) => Before(id)'
<1>1. /\ Len(executed) \in Nat /\ Len(executed') = Len(executed) + 1
      /\ \A k \in 1..Len(executed) : executed'[k] = executed[k]
      /\ \A k \in 1..Len(executed) : executed[k] \in Nat
      /\ executed'[Len(executed) + 1] = i
      /\ executed' \in Seq(Nat)
  OBVIOUS
<1>2. \A k \in 1..Len(executed') : k \in 1..Len(executed) \/ k = Len(executed) + 1
  BY <1>1
<1>3. InOrder'
  <2> SUFFICES ASSUME NEW m \in 1..Len(executed'), NEW n \in 1..Len(executed'),
                      m < n
               PROVE  \/ executed'[m] < executed'[n]
                      \/ executed'[m] = executed'[n] /\ executed'[m] \in repeated'
    BY DEF InOrder
  <2>1. m \in 1..Len(executed) /\ executed'[m] = executed[m]
    BY <1>1
  <2>2. CASE n = Len(executed) + 1
    <3>1. executed'[n] = i
      BY <1>1, <2>2
    <3>2. executed[m] < i \/ (executed[m] = i /\ i \in repeated)
      BY <2>1 DEF Before
    <3> QED
      BY <2>1, <3>1, <3>2
  <2>3. CASE n # Len(executed) + 1
    <3>1. n \in 1..Len(executed) /\ executed'[n] = executed[n]
      BY <1>1, <1>2, <2>3
    <3> QED
      BY <2>1, <3>1 DEF InOrder
  <2> QED
    BY <2>2, <2>3
<1>4. \A k \in 1..Len(executed') : executed'[k] <= id'
  BY <1>1, <1>2
<1>5. Before(id) /\ (i = id => id \in repeated) => Before(id)'
  BY <1>1, <1>2 DEF Before
<1> QED
  BY <1>1, <1>3, <1>4, <1>5

(* A packet to process is a SETUP packet, with the number of its transfer. *)
LEMMA ReceivedSetup ==
  ASSUME TypeOK, usbRxLen # 0
  PROVE  Received.id \in Nat
<1>1. Received \in Packet /\ Received.pid = "DATA0"
  BY DEF TypeOK, Received, Other
<1> QED
  BY <1>1 DEF Packet, Nothing

(* Every step of usbPoll preserves the invariant.                          *)
LEMMA PollInductive == UsbInv /\ usbPoll => UsbInv'
<1> SUFFICES ASSUME UsbInv, usbPoll PROVE UsbInv'
  OBVIOUS
<1> USE DEF UsbInv, TypeOK, OwnerInv, OrderInv, Received, PollPCs, At,
            MainUnchanged, host, message
<1>1. CASE PollRx
  BY <1>1 DEF PollRx, Before, InOrder
<1>2. CASE SetupPid
  BY <1>2 DEF SetupPid, Before, InOrder
<1>3. CASE SetupAbort
  BY <1>3 DEF SetupAbort, Before, InOrder
<1>4. CASE SetupCall
  <2>1. usbRxLen # 0 /\ Received.id \in Nat /\ Received.id <= id
    BY <1>4, ReceivedSetup DEF SetupCall
  <2>2. executed' = Append(executed, Received.id)
    BY <1>4 DEF SetupCall
  <2>3. /\ Received' = Received /\ id' = id /\ repeated' = repeated
        /\ phase' = phase /\ usbRxLen' = usbRxLen /\ pc' = "free"
        /\ Before(Received.id)
    BY <1>4, <2>1 DEF SetupCall
  <2>4. TypeOK' /\ OwnerInv'
    BY <1>4, <2>1, <2>2 DEF SetupCall
  <2>5. /\ \A k \in 1..Len(executed') : executed'[k] <= id'
        /\ InOrder'
        /\ Before(id) /\ (Received.id = id => id \in repeated) => Before(id)'
    BY <2>1, <2>2, <2>3, AppendKeepsOrder
  <2> QED
    BY <2>1, <2>3, <2>4, <2>5
<1>5. CASE RxFree
  BY <1>5 DEF RxFree, Before, InOrder
<1>6. CASE PollTx
  BY <1>6 DEF PollTx, Before, InOrder
<1>7. CASE BuildToggle
  BY <1>7 DEF BuildToggle, Before, InOrder
<1>8. CASE BuildCopy
  BY <1>8 DEF BuildCopy, Before, InOrder
<1>9. CASE BuildSend
  BY <1>9 DEF BuildSend, Before, InOrder
<1> QED
  BY <1>1, <1>2, <1>3, <1>4, <1>5, <1>6, <1>7, <1>8, <1>9 DEF usbPoll

-----------------------------------------------------------------------------
(* Steps of the host.                                                      *)

(* A step of the host that stores no packet and neither starts a transfer  *)
(* nor goes back to its setup stage.                                       *)
LEMMA QuietStep ==
  ASSUME UsbInv, Quiet, HandlerUnchanged, UNCHANGED <<id, request, repeated>>,
         usbCurrentTok' \in {"none", "SETUP", "OUT"},
         usbTxLen' \in {usbTxLen, NAK},
         phase # "idle",
         phase' \in {"setupToken", "setupData"}
           => phase \in {"setupToken", "setupData"}
  PROVE  UsbInv'
<1>1. executed' = executed /\ pc' = pc
  BY DEF HandlerUnchanged, message
<1>2. TypeOK'
  BY <1>1 DEF UsbInv, TypeOK, Quiet
<1>3. OwnerInv'
  BY <1>1 DEF UsbInv, OwnerInv, Quiet
<1>4. OrderInv'
  BY <1>1 DEF UsbInv, OrderInv, Quiet, Before, InOrder
<1> QED
  BY <1>2, <1>3, <1>4 DEF UsbInv

(* A step of the setup stage that may store the request.                   *)
LEMMA StoreStep ==
  ASSUME UsbInv, HandlerUnchanged, UNCHANGED <<id, request, usbCurrentTok, usbTxLen>>,
         phase \in {"setupToken", "setupData"},
         repeated' \in {repeated, repeated \cup {id}},
         usbRxBuf' \in [0..1 -> Packet], inputHalf' \in 0..1,
         \/ usbRxLen' = usbRxLen /\ Received' = Received
         \/ /\ usbRxLen' \in 4..11
            /\ Received'.pid = "DATA0" /\ Received'.id = id
            /\ phase' \in {"setupToken", "setupData"} => id \in repeated'
  PROVE  UsbInv'
<1>1. executed' = executed /\ pc' = pc
  BY DEF HandlerUnchanged, message
<1>2. TypeOK'
  BY <1>1 DEF UsbInv, TypeOK
<1>3. OwnerInv'
  BY <1>1 DEF UsbInv, OwnerInv
<1>4. repeated \subseteq repeated'
  OBVIOUS
<1>5. /\ \A k \in 1..Len(executed') : executed'[k] <= id'
      /\ InOrder'
  BY <1>1, <1>4 DEF UsbInv, OrderInv, InOrder
<1>6. \A i : Before(i) => Before(i)'
  BY <1>1, <1>4 DEF Before
<1>7. Before(id)' /\ id' = id /\ id <= id
  BY <1>6 DEF UsbInv, OrderInv, TypeOK
<1>8. OrderInv'
  BY <1>1, <1>4, <1>5, <1>6, <1>7 DEF UsbInv, OrderInv
<1> QED
  BY <1>2, <1>3, <1>8 DEF UsbInv

(* A new transfer has a number above all the executed ones.                *)
LEMMA StartInductive ==
  ASSUME UsbInv, NEW r \in Requests, Start(r)
  PROVE  UsbInv'
<1>1. /\ executed' = executed /\ pc' = pc /\ repeated' = repeated
      /\ usbRxLen' = usbRxLen /\ usbRxBuf' = usbRxBuf /\ inputHalf' = inputHalf
      /\ usbTxLen' = usbTxLen /\ usbCurrentTok' = usbCurrentTok
      /\ Received' = Received
      /\ id' = id + 1 /\ request' = r
  BY DEF Start, HandlerUnchanged, message, shared, Received
<1>2. TypeOK'
  BY <1>1 DEF UsbInv, TypeOK
<1>3. OwnerInv'
  BY <1>1 DEF UsbInv, OwnerInv
<1>4. \A k \in 1..Len(executed) : executed[k] \in Nat /\ executed[k] < id + 1
  BY DEF UsbInv, TypeOK, OrderInv
<1>5. usbRxLen # 0 => Received.id < id + 1 /\ Received.id \in Nat
  BY ReceivedSetup DEF UsbInv, TypeOK, OrderInv
<1>6. OrderInv'
  BY <1>1, <1>4, <1>5 DEF UsbInv, OrderInv, TypeOK, Before, InOrder
<1> QED
  BY <1>2, <1>3, <1>6 DEF UsbInv

(* The token stage preserves the invariant.                                *)
LEMMA TokenInductive ==
  ASSUME UsbInv, NEW token \in {"SETUP", "OUT"}, NEW from, NEW to,
         SendToken(from, to, token),
         from # "idle", to = "setupData" => from = "setupToken", to # "setupToken"
  PROVE  UsbInv'
<1>1. storeToken(token) \/ Lost
  BY DEF SendToken
<1>2. /\ HandlerUnchanged /\ UNCHANGED <<id, request, repeated>>
      /\ phase = from /\ phase' = to
  BY DEF SendToken, HostFrame
<1> QED
  BY <1>1, <1>2, TokenQuiet, QuietStep DEF UsbInv

(* What the repetition of a transaction and the end of a transfer do.      *)
LEMMA RetryPhase ==
  ASSUME NEW next, Retry(next)
  PROVE  phase' \in {next, "idle"}
BY DEF Retry, End

(* What a block that arrives makes the host do next.                       *)
LEMMA AcceptPhase ==
  ASSUME NEW block, Accept(block)
  PROVE  phase' \in {phase, "idle", "in", "outToken"}
BY Zenon DEF Accept, Continue, End

(* Neither an IN nor its answer touches the receive side.                  *)
LEMMA InInductive ==
  ASSUME UsbInv, SendIn
  PROVE  UsbInv'
<1>1. phase \in {"in", "statusIn"} /\ HostFrame
  BY DEF SendIn
<1>2. HandlerUnchanged /\ UNCHANGED <<id, request, repeated>>
  BY <1>1 DEF HostFrame
<1>3. (\E answer, acked : handleIn(answer, acked)) \/ Lost
  BY Zenon DEF SendIn
<1>4. phase' \in {"in", "statusIn", "idle", "outToken"}
  <2>1. \/ phase' = phase
        \/ Accept(usbTxBuf)
        \/ Retry(phase)
    BY Zenon DEF SendIn
  <2> QED
    BY <1>1, <2>1, AcceptPhase, RetryPhase
<1>5. Quiet /\ usbCurrentTok' \in {"none", "SETUP", "OUT"}
      /\ usbTxLen' \in {usbTxLen, NAK}
  BY <1>3, InQuiet DEF UsbInv
<1> QED
  BY <1>1, <1>2, <1>4, <1>5, QuietStep

(* The status packet is empty and never stored.                            *)
LEMMA StatusQuiet ==
  ASSUME TypeOK, SendStatus
  PROVE  /\ Quiet /\ UNCHANGED <<usbTxLen, usbCurrentTok>>
         /\ phase' \in {"idle", "outToken"}
<1> DEFINE empty == [pid |-> "DATA1", len |-> 0]
<1>1. empty \in Packet /\ empty.len = 0
  BY DEF Packet
<1>2. (\E answer : handleData(empty, answer)) \/ Lost
  BY Zenon DEF SendStatus
<1>3. Quiet /\ UNCHANGED <<usbTxLen, usbCurrentTok>>
  <2>1. CASE Lost
    BY <2>1 DEF Lost, shared, Quiet, Received, TypeOK
  <2>2. ASSUME NEW answer, handleData(empty, answer)
        PROVE  Quiet /\ UNCHANGED <<usbTxLen, usbCurrentTok>>
    <3>1. inputHalf' = inputHalf
      BY <1>1, <2>2 DEF handleData
    <3> HIDE DEF empty
    <3> QED
      BY <1>1, <2>2, <3>1, DataStored DEF Quiet
  <2> QED
    BY <1>2, <2>1, <2>2
<1>4. phase' \in {"idle", "outToken"}
  <2>1. End("ok") \/ Continue("outToken") \/ Retry("outToken")
    BY Zenon DEF SendStatus
  <2> QED
    BY <2>1, RetryPhase DEF End, Continue
<1> QED
  BY <1>3, <1>4

(* The status stage of an IN transfer preserves the invariant.             *)
LEMMA StatusInductive ==
  ASSUME UsbInv, SendStatus
  PROVE  UsbInv'
<1>1. phase = "outData" /\ HandlerUnchanged /\ UNCHANGED <<id, request, repeated>>
  BY DEF SendStatus, HostFrame
<1>2. usbCurrentTok \in {"none", "SETUP", "OUT"}
  BY DEF UsbInv, TypeOK
<1> QED
  BY <1>1, <1>2, StatusQuiet, QuietStep DEF UsbInv

(* A host that gives up leaves the request in the buffer.                  *)
LEMMA GiveUpInductive ==
  ASSUME UsbInv, GiveUp
  PROVE  UsbInv'
<1>1. /\ phase # "idle" /\ phase' = "idle" /\ Lost
      /\ HandlerUnchanged /\ UNCHANGED <<id, request, repeated>>
  BY DEF GiveUp, End, HostFrame
<1>2. storeToken("SETUP") \/ Lost
  BY <1>1
<1> QED
  BY <1>1, <1>2, TokenQuiet, QuietStep DEF UsbInv

(* A SETUP packet is stored, refused, cut or lost, and the host may miss   *)
(* the answer.                                                             *)
LEMMA SetupInductive ==
  ASSUME UsbInv, SendSetup
  PROVE  UsbInv'
<1>1. /\ phase = "setupData" /\ HandlerUnchanged
      /\ UNCHANGED <<id, request>>
      /\ TypeOK
  BY DEF SendSetup, UsbInv
<1>2. \A len \in {4, 8} : /\ SetupPacket(len) \in Packet
                         /\ SetupPacket(len).len = len
                         /\ SetupPacket(len).pid = "DATA0"
                         /\ SetupPacket(len).id = id
  BY <1>1 DEF TypeOK, Packet, SetupPacket
<1>3. AfterSetup \in {"in", "statusIn"}
  BY DEF AfterSetup
<1>4. CASE SetupArrives
  <2>1. PICK answer \in {"ACK", "NAK", "nothing"} :
          /\ handleData(SetupPacket(8), answer)
          /\ \/ /\ NoFault
                /\ IF answer = "ACK" THEN Continue(AfterSetup) ELSE Retry("setupToken")
                /\ UNCHANGED repeated
             \/ /\ answer = "ACK" /\ Fault
                /\ Retry("setupToken")
                /\ repeated' = repeated \cup {id}
    BY <1>4 DEF SetupArrives
  <2>2. /\ usbRxBuf' \in [0..1 -> Packet] /\ inputHalf' \in 0..1
        /\ \/ usbRxLen' = usbRxLen /\ Received' = Received
           \/ usbRxLen' \in 4..11 /\ answer = "ACK" /\ Received' = SetupPacket(8)
        /\ UNCHANGED <<usbTxLen, usbCurrentTok>>
    BY <1>1, <1>2, <2>1, DataStored
  <2>3. answer = "ACK" => repeated' = repeated \cup {id} \/ phase' = AfterSetup
    BY <2>1 DEF Continue
  <2>4. repeated' \in {repeated, repeated \cup {id}}
    BY <2>1
  <2> QED
    BY <1>1, <1>2, <1>3, <2>2, <2>3, <2>4, StoreStep
<1>5. CASE SetupIsCut
  <2>1. /\ handleData(SetupPacket(4), "ACK")
        /\ phase' = AfterSetup /\ repeated' = repeated
    BY <1>5 DEF SetupIsCut, Continue
  <2>2. /\ usbRxBuf' \in [0..1 -> Packet] /\ inputHalf' \in 0..1
        /\ \/ usbRxLen' = usbRxLen /\ Received' = Received
           \/ usbRxLen' \in 4..11 /\ Received' = SetupPacket(4)
        /\ UNCHANGED <<usbTxLen, usbCurrentTok>>
    BY <1>1, <1>2, <2>1, DataStored
  <2> QED
    BY <1>1, <1>2, <1>3, <2>1, <2>2, StoreStep
<1>6. CASE Lost /\ Fault /\ Retry("setupToken") /\ UNCHANGED <<repeated, dropped>>
  <2>1. phase' \in {"setupToken", "idle"}
    BY <1>6, RetryPhase
  <2>2. storeToken("SETUP") \/ Lost
    BY <1>6
  <2> QED
    BY <1>1, <1>6, <2>1, <2>2, TokenQuiet, QuietStep
<1> QED
  BY <1>4, <1>5, <1>6 DEF SendSetup

(* A SETUP packet is not stored over one that is being processed.          *)
LEMMA SetupReceives ==
  ASSUME TypeOK, SendSetup, phase # "idle", usbRxLen # 0
  PROVE  Received' = Received
<1>1. \A len \in {4, 8} : SetupPacket(len) \in Packet /\ SetupPacket(len).len = len
  BY DEF TypeOK, Packet, SetupPacket
<1>2. \/ \E answer : handleData(SetupPacket(8), answer)
      \/ handleData(SetupPacket(4), "ACK")
      \/ Lost
  BY Zenon DEF SendSetup, SetupArrives, SetupIsCut
<1> QED
  BY <1>1, <1>2, DataStored DEF Lost, shared, Received

-----------------------------------------------------------------------------
(* The invariant.                                                          *)

(* usbInit leaves both buffers empty.                                      *)
LEMMA UsbInitially == Init => UsbInv
<1> SUFFICES ASSUME Init PROVE UsbInv
  OBVIOUS
<1>1. TypeOK
  BY DEF Init, TypeOK, PollPCs, Packet
<1>2. Len(executed) = 0
  BY DEF Init
<1> QED
  BY <1>1, <1>2 DEF Init, UsbInv, OwnerInv, OrderInv, InOrder

(* Every step of either thread and of the host preserves the invariant.    *)
LEMMA UsbStep == UsbInv /\ [Next]_vars => UsbInv'
<1> SUFFICES ASSUME UsbInv, [Next]_vars PROVE UsbInv'
  OBVIOUS
<1>1. CASE usbPoll
  BY <1>1, PollInductive
<1>2. CASE \E r \in Requests : Start(r)
  BY <1>2, StartInductive
<1>3. CASE SendToken("setupToken", "setupData", "SETUP")
  BY <1>3, TokenInductive
<1>4. CASE SendSetup
  BY <1>4, SetupInductive
<1>5. CASE SendIn
  BY <1>5, InInductive
<1>6. CASE SendToken("outToken", "outData", "OUT")
  BY <1>6, TokenInductive
<1>7. CASE SendStatus
  BY <1>7, StatusInductive
<1>8. CASE GiveUp
  BY <1>8, GiveUpInductive
<1>9. CASE UNCHANGED vars
  BY <1>9 DEF vars, shared, message, host, UsbInv, TypeOK, OwnerInv,
              OrderInv, InOrder, Before, Received
<1> QED
  BY <1>1, <1>2, <1>3, <1>4, <1>5, <1>6, <1>7, <1>8, <1>9 DEF Next, HostContinues

(* The driver's buffers have the types they should, the interrupt handler  *)
(* and usbPoll own them in turn, and the request that waits in the receive *)
(* buffer is not older than any executed before it.                        *)
THEOREM UsbInvariance == Spec => []UsbInv
BY UsbInitially, UsbStep, PTL DEF Spec

(* The buffers of the driver keep their types, for every set of requests.  *)
THEOREM UsbTypes == Spec => []TypeOK
<1>1. UsbInv => TypeOK
  BY DEF UsbInv
<1> QED
  BY <1>1, UsbInvariance, PTL

(* The handler never sends a packet usbPoll is still writing.              *)
THEOREM NeverTorn == Spec => []NoTornPacket
<1>1. UsbInv => NoTornPacket
  BY DEF UsbInv, TypeOK, OwnerInv, NoTornPacket
<1> QED
  BY <1>1, UsbInvariance, PTL

(* Requests are executed in the order the host made them, and a second     *)
(* time only if the first acknowledgement was lost.                        *)
THEOREM ExecutedInOrder == Spec => []InOrder
<1>1. UsbInv => InOrder
  BY DEF UsbInv, OrderInv
<1> QED
  BY <1>1, UsbInvariance, PTL

(* What usbPoll is processing is not overwritten by a packet that arrives. *)
THEOREM NotOverwritten == Spec => ReceivedIsStable
<1>1. UsbInv /\ [Next]_vars
        => [usbRxLen # 0 /\ usbRxLen' # 0 => Received' = Received]_vars
  <2> SUFFICES ASSUME UsbInv, Next, usbRxLen # 0
               PROVE  Received' = Received
    OBVIOUS
  <2>0. TypeOK
    BY DEF UsbInv
  <2>1. CASE usbPoll
    BY <2>1 DEF usbPoll, PollRx, SetupPid, SetupAbort, SetupCall, RxFree, PollTx,
                BuildToggle, BuildCopy, BuildSend, MainUnchanged, Received
  <2>2. CASE \E r \in Requests : Start(r)
    BY <2>2 DEF Start, shared, Received
  <2>3. CASE \/ SendToken("setupToken", "setupData", "SETUP")
             \/ SendToken("outToken", "outData", "OUT")
    <3>1. storeToken("SETUP") \/ storeToken("OUT") \/ Lost
      BY <2>3 DEF SendToken
    <3> QED
      BY <2>0, <3>1, TokenQuiet DEF Quiet
  <2>4. CASE SendSetup
    BY <2>0, <2>4, SetupReceives DEF SendSetup
  <2>5. CASE SendIn
    <3>1. (\E answer, acked : handleIn(answer, acked)) \/ Lost
      BY <2>5, Zenon DEF SendIn
    <3> QED
      BY <2>0, <3>1, InQuiet DEF Quiet
  <2>6. CASE SendStatus
    BY <2>0, <2>6, StatusQuiet DEF Quiet
  <2>7. CASE GiveUp
    BY <2>7 DEF GiveUp, Lost, shared, Received
  <2> QED
    BY <2>1, <2>2, <2>3, <2>4, <2>5, <2>6, <2>7 DEF Next, HostContinues
<1> QED
  BY <1>1, UsbInvariance, PTL DEF Spec, ReceivedIsStable
-----------------------------------------------------------------------------
(* The answer. After a request has been stored, its n-th block is built,   *)
(* handed to the handler, taken and accepted in turn; the invariant ties   *)
(* the number of blocks built to the number the host has got.              *)

Total == Min2(request.reply, request.wLength)

\* The toggle of the n-th block, and the one before the first.
Pid(n) == IF n % 2 = 1 THEN "DATA1" ELSE "DATA0"

AfterSetupPhases == {"in", "statusIn", "outToken", "outData"}

Data == {Nothing} \cup [mem : {"none", "get", "const"}, val : Nat, off : Nat,
                        len : 0..8]

\* Types, and where the host is in a transfer.
TxInv ==
  /\ usbTxBuf \in [pid : {"DATA0", "DATA1"}, data : Data]
  /\ usbMsgPtr \in [mem : {"none", "get", "const"}, off : Nat]
  /\ usbMsgLen \in 0..NO_MSG /\ IoByte \in Nat /\ faults \in Nat
  /\ got \in Seq(Data)
  /\ outcome \in [1..MaxRequests -> {"none", "pending", "ok", "failed"}]
  /\ phase \in {"idle", "setupToken", "setupData"} \cup AfterSetupPhases
  /\ phase # "idle" => id \in 1..MaxRequests
  /\ phase \in {"setupToken", "setupData"} => got = <<>> /\ toggle = "DATA1"
  /\ phase = "statusIn" => request.cmd = "set" /\ got = <<>>
  /\ phase \in {"in", "outToken", "outData"} => request.cmd # "set"

\* The request is in the receive buffer. The handler answers nothing.
Waiting ==
  /\ usbRxLen = 11 /\ usbRxToken = "SETUP" /\ pc # "free"
  /\ Received.id = id /\ Received.request = request
  /\ phase \in {"in", "statusIn"} /\ got = <<>> /\ toggle = "DATA1"
  /\ pc \in {"setupAbort", "setupCall"} => usbTxBuf.pid = "DATA0"
  /\ pc = "setupCall" => usbTxLen = NAK

\* The message goes on after n blocks.
Source(n) ==
  /\ usbMsgLen = Total - 8 * n /\ 8 * n <= Total
  /\ request.cmd # "set" => usbMsgPtr = [mem |-> request.cmd, off |-> 8 * n]

\* The driver has flipped its toggle for n blocks of the reply.
Replying(n) ==
  /\ usbRxLen = 0 \/ pc = "free"
  /\ pc \in {"free", "rx", "tx", "toggle", "copy", "send"}
  /\ request.cmd = "get" => IoByte = id
  /\ usbTxBuf.pid = Pid(n)
  /\ n > 0 => 8 * (n - 1) <= Total
  /\ pc \in {"free", "rx", "tx", "toggle"} => usbMsgLen = NO_MSG \/ Source(n)
  /\ pc = "toggle" => usbMsgLen # NO_MSG
  /\ pc = "copy" => n > 0 /\ Source(n - 1)
  /\ pc = "send" => /\ n > 0 /\ usbTxBuf.data = Block(n)
                    /\ usbTxBuf.data.len < 8 \/ Source(n)
  /\ usbTxLen # NAK => n > 0 /\ usbTxBuf.data = Block(n)

\* Blocks the handler has sent.
Taken(n) == IF pc \in {"copy", "send"} \/ usbTxLen # NAK THEN n - 1 ELSE n

InStep(n) ==
  /\ toggle = Pid(Len(got) + 1)
  /\ \A k \in 1..Len(got) : got[k] = Block(k)
  /\ Len(got) <= Taken(n) /\ (faults = 0 => Len(got) = Taken(n))
  /\ phase \in {"outToken", "outData"} => got # <<>> /\ Total <= 8 * Len(got)

\* A loss in a reply of three blocks: no promise.
Excused == LongReply /\ faults > 0

WasExecuted == \E k \in 1..Len(executed) : executed[k] = id

Answering ==
  \/ Waiting
  \/ WasExecuted /\ \E n \in Nat : Replying(n) /\ (InStep(n) \/ Excused)

AnswerInv ==
  /\ UsbInv /\ TxInv
  /\ phase \in AfterSetupPhases /\ id \notin dropped => Answering
  /\ SuccessIsReal

-----------------------------------------------------------------------------

(* The toggles alternate.                                                  *)
LEMMA PidFlips ==
  ASSUME NEW n \in Nat
  PROVE  /\ Pid(n) \in {"DATA0", "DATA1"}
         /\ Pid(n + 1) = Flip(Pid(n)) /\ Pid(n + 1) # Pid(n)
         /\ Pid(0) = "DATA0" /\ Pid(1) = "DATA1"
         /\ Pid(n + 2) = Pid(n)
BY DEF Pid, Flip

(* The smaller of two numbers.                                             *)
LEMMA Min2Type ==
  ASSUME NEW a \in Int, NEW b \in Int
  PROVE  /\ Min2(a, b) \in {a, b} /\ Min2(a, b) <= a /\ Min2(a, b) <= b
         /\ Min2(a, b) \in Int
BY DEF Min2

(* A reply has at most 254 bytes, so that NO_MSG is no length of it.       *)
LEMMA TotalType ==
  ASSUME request \in Requests
  PROVE  /\ Total \in 0..254
         /\ request.cmd \in {"set", "get", "const"}
         /\ request.cmd = "set" => Total = 0
         /\ request.wLength \in 0..255 /\ Total <= request.wLength
         /\ LongReply <=> Total >= 16
<1>1. request \in RequestType
  BY VUsbAssumption
<1>2. request.reply \in 0..254 /\ request.wLength \in 0..255
  BY <1>1 DEF RequestType
<1>3. /\ request.cmd \in {"set", "get", "const"}
      /\ request.cmd = "set" => request.reply = 0
  BY <1>1, VUsbAssumption DEF RequestType
<1>4. /\ Total \in 0..254 /\ Total <= request.wLength
      /\ request.reply = 0 => Total = 0
  <2> DEFINE a == request.reply  b == request.wLength
  <2>1. a \in 0..254 /\ b \in 0..255 /\ Total = Min2(a, b)
    BY <1>2 DEF Total
  <2> HIDE DEF a, b
  <2>2. Total \in 0..254 /\ Total <= b /\ (a = 0 => Total = 0)
    <3>1. Total \in {a, b} /\ Total <= a /\ Total <= b
      BY <2>1, Min2Type
    <3> QED
      BY <2>1, <3>1
  <2> QED
    BY <2>2 DEF a, b
<1>5. LongReply <=> Total >= 16
  BY DEF Total, LongReply
<1> QED
  BY <1>2, <1>3, <1>4, <1>5

(* The n-th block has eight bytes, or what is left.                        *)
LEMMA BlockLength ==
  ASSUME request \in Requests, NEW n \in Nat, n > 0, 8 * (n - 1) <= Total
  PROVE  /\ Block(n).len = Min2(Total - 8 * (n - 1), 8)
         /\ Block(n).len \in 0..8
<1>1. Total \in 0..254
  BY TotalType
<1> QED
  BY <1>1 DEF Block, Total, Min2

(* The block that is built after n - 1 others is the n-th of the reply.    *)
LEMMA BlockBuilt ==
  ASSUME request \in Requests, NEW n \in Nat, n > 0, Source(n - 1),
         request.cmd = "get" => IoByte = id
  PROVE  /\ WantLen = Block(n).len
         /\ [mem |-> IF WantLen = 0 THEN "none" ELSE usbMsgPtr.mem,
             val |-> IF WantLen > 0 /\ usbMsgPtr.mem = "get" THEN IoByte ELSE 0,
             off |-> IF WantLen = 0 THEN 0 ELSE usbMsgPtr.off,
             len |-> WantLen] = Block(n)
<1>1. Total \in 0..254 /\ usbMsgLen = Total - 8 * (n - 1) /\ 8 * (n - 1) <= Total
  BY TotalType DEF Source
<1>2. WantLen = Block(n).len /\ WantLen \in 0..8
  BY <1>1, BlockLength DEF WantLen
<1>3. WantLen # 0 => /\ usbMsgPtr.mem = request.cmd
                     /\ usbMsgPtr.off = 8 * (n - 1)
  <2>1. request.cmd = "set" => Total = 0
    BY TotalType
  <2> QED
    BY <1>1, <2>1 DEF Source, WantLen, Min2
<1>4. Block(n) = [mem |-> IF WantLen = 0 THEN "none" ELSE request.cmd,
                  val |-> IF WantLen > 0 /\ request.cmd = "get" THEN id ELSE 0,
                  off |-> IF WantLen = 0 THEN 0 ELSE 8 * (n - 1),
                  len |-> WantLen]
  BY <1>2 DEF Block
<1>5. CASE WantLen = 0
  BY <1>2, <1>4, <1>5
<1>6. CASE WantLen # 0
  BY <1>2, <1>3, <1>4, <1>6
<1> QED
  BY <1>5, <1>6

(* usbPoll leaves the host alone, and keeps the types.                     *)
LEMMA PollTypes ==
  ASSUME UsbInv, TxInv, usbPoll
  PROVE  TxInv' /\ UNCHANGED <<host, faults>> /\ Received' = Received
<1> USE DEF TxInv, At, MainUnchanged, message, host, AfterSetupPhases, Received
<1>1. CASE PollRx
  BY <1>1 DEF PollRx
<1>2. CASE SetupPid
  BY <1>2 DEF SetupPid
<1>3. CASE SetupAbort
  BY <1>3 DEF SetupAbort
<1>4. CASE SetupCall
  <2>1. /\ Received.id \in Nat /\ Received.request \in Requests
    <3>1. Received \in Packet /\ Received.pid = "DATA0"
      BY <1>4 DEF SetupCall, UsbInv, TypeOK, OwnerInv, Other
    <3> QED
      BY <3>1 DEF Packet, Nothing
  <2> DEFINE rq == Received.request
  <2>2. /\ rq.cmd \in {"set", "get", "const"}
        /\ rq.reply \in 0..254 /\ rq.wLength \in 0..255
    BY <2>1, VUsbAssumption DEF RequestType
  <2>3. usbMsgLen' \in 0..NO_MSG
    <3> DEFINE a == rq.reply  b == rq.wLength
    <3>1. usbMsgLen' = Min2(a, b) /\ a \in 0..254 /\ b \in 0..255
      BY <1>4, <2>2 DEF SetupCall
    <3> HIDE DEF a, b
    <3>2. usbMsgLen' \in {a, b}
      BY <3>1, Min2Type
    <3>3. a \in 0..NO_MSG /\ b \in 0..NO_MSG
      BY <3>1 DEF NO_MSG
    <3> QED
      BY <3>2, <3>3
  <2>4. usbMsgPtr' \in [mem : {"none", "get", "const"}, off : Nat]
    BY <1>4, <2>2 DEF SetupCall
  <2>5. IoByte' \in Nat
    BY <1>4, <2>1 DEF SetupCall
  <2> QED
    BY <1>4, <2>3, <2>4, <2>5 DEF SetupCall
<1>5. CASE RxFree
  BY <1>5 DEF RxFree
<1>6. CASE PollTx
  BY <1>6 DEF PollTx
<1>7. CASE BuildToggle
  BY <1>7 DEF BuildToggle, Flip
<1>8. CASE BuildCopy
  <2>1. WantLen \in 0..8 /\ usbMsgLen - WantLen \in 0..NO_MSG
    BY DEF WantLen, Min2, NO_MSG
  <2>2. usbTxBuf'.data \in Data /\ usbTxBuf'.pid = usbTxBuf.pid
        /\ usbTxBuf' \in [pid : {"DATA0", "DATA1"}, data : Data]
    <3> DEFINE block ==
       [mem |-> IF WantLen = 0 THEN "none" ELSE usbMsgPtr.mem,
        val |-> IF WantLen > 0 /\ usbMsgPtr.mem = "get" THEN IoByte ELSE 0,
        off |-> IF WantLen = 0 THEN 0 ELSE usbMsgPtr.off,
        len |-> WantLen]
    <3>1. block \in Data
      BY <2>1 DEF Data
    <3>2. usbTxBuf' = [usbTxBuf EXCEPT !.data = block]
      BY <1>8 DEF BuildCopy
    <3> HIDE DEF block
    <3> QED
      BY <3>1, <3>2
  <2>3. usbMsgPtr' \in [mem : {"none", "get", "const"}, off : Nat]
    <3>1. usbMsgPtr' = [usbMsgPtr EXCEPT !.off = usbMsgPtr.off + WantLen]
      BY <1>8 DEF BuildCopy
    <3>2. usbMsgPtr.off + WantLen \in Nat
      BY <2>1
    <3> QED
      BY <3>1, <3>2
  <2> QED
    BY <1>8, <2>1, <2>2, <2>3 DEF BuildCopy
<1>9. CASE BuildSend
  BY <1>9 DEF BuildSend, NO_MSG
<1> QED
  BY <1>1, <1>2, <1>3, <1>4, <1>5, <1>6, <1>7, <1>8, <1>9 DEF usbPoll

(* A request that waits goes on waiting until it is executed.              *)
LEMMA PollWaiting ==
  ASSUME UsbInv, TxInv, Waiting, usbPoll, request \in Requests
  PROVE  Waiting' \/ (WasExecuted /\ Replying(0) /\ InStep(0))'
<1> USE DEF At, MainUnchanged, message, host, Received
<1>1. CASE PollRx
  BY <1>1 DEF PollRx, Waiting
<1>2. CASE SetupPid
  BY <1>2 DEF SetupPid, Waiting, TxInv
<1>3. CASE SetupAbort
  BY <1>3 DEF SetupAbort, Waiting
<1>4. CASE SetupCall
  <2>1. /\ executed' = Append(executed, id) /\ pc' = "free"
        /\ usbTxLen' = NAK /\ usbTxBuf' = usbTxBuf /\ usbTxBuf.pid = "DATA0"
        /\ UNCHANGED <<id, request, got, toggle, phase, faults>>
        /\ IoByte' = IF request.cmd = "get" THEN id ELSE IoByte
        /\ usbMsgPtr' = IF request.cmd = "set" THEN usbMsgPtr
                       ELSE [mem |-> request.cmd, off |-> 0]
        /\ usbMsgLen' = Total
        /\ got = <<>> /\ toggle = "DATA1" /\ phase \in {"in", "statusIn"}
    BY <1>4 DEF SetupCall, Waiting, Total
  <2>2. WasExecuted'
    <3>1. executed' = Append(executed, id) /\ executed \in Seq(Nat)
          /\ id' = id /\ id \in Nat
      BY <2>1 DEF UsbInv, TypeOK
    <3>2. Len(executed) + 1 \in 1..Len(executed')
          /\ executed'[Len(executed) + 1] = id'
      BY <3>1
    <3> QED
      BY <3>2 DEF WasExecuted
  <2>3. Total \in 0..254 /\ Total' = Total
    BY <2>1, TotalType DEF Total
  <2>4. Pid(0) = "DATA0" /\ Pid(0 + 1) = "DATA1"
    BY PidFlips
  <2>5. Replying(0)'
    <3>1. Source(0)'
      BY <2>1, <2>3, SMTT(60) DEF Source
    <3>2. pc' = "free" /\ usbTxLen' = NAK /\ usbTxBuf'.pid = Pid(0)
      BY <2>1, <2>4
    <3>3. request'.cmd = "get" => IoByte' = id'
      BY <2>1
    <3> QED
      BY <3>1, <3>2, <3>3, SMTT(60) DEF Replying
  <2>6. InStep(0)'
    BY <2>1, <2>4 DEF InStep, Taken
  <2> QED
    BY <2>2, <2>5, <2>6
<1>5. CASE RxFree
  BY <1>5 DEF RxFree, Waiting
<1>6. CASE PollTx
  BY <1>6 DEF PollTx, Waiting
<1>7. CASE BuildToggle
  BY <1>7 DEF BuildToggle, Waiting
<1>8. CASE BuildCopy
  BY <1>8 DEF BuildCopy, Waiting
<1>9. CASE BuildSend
  BY <1>9 DEF BuildSend, Waiting
<1> QED
  BY <1>1, <1>2, <1>3, <1>4, <1>5, <1>6, <1>7, <1>8, <1>9 DEF usbPoll

(* Every step of usbPoll keeps the reply in step with the host.            *)
LEMMA PollReplying ==
  ASSUME UsbInv, TxInv, usbPoll, request \in Requests, WasExecuted,
         NEW n \in Nat, Replying(n), InStep(n) \/ Excused
  PROVE  WasExecuted' /\ \E m \in Nat : Replying(m)' /\ (InStep(m)' \/ Excused')
<1>1. UNCHANGED <<phase, id, request, toggle, got, faults>>
  BY PollTypes DEF host
<1>2. (\A k : Block(k)' = Block(k)) /\ Total' = Total
  BY <1>1 DEF Block, Total
<1>3. Excused' <=> Excused
  BY <1>1 DEF Excused, LongReply
<1>4. pc # "setupCall" /\ pc # "setupPid" /\ pc # "setupAbort"
      /\ (pc \in {"toggle", "copy", "send"} => usbTxLen = NAK)
      /\ (pc = "rx" => usbRxLen = 0)
  BY DEF Replying, UsbInv, OwnerInv
<1>5. ASSUME Taken(n)' = Taken(n), InStep(n)
      PROVE  InStep(n)'
  BY <1>1, <1>2, <1>5 DEF InStep
<1>6. Total \in 0..254 /\ usbMsgLen \in 0..255
  BY TotalType DEF TxInv, NO_MSG
<1> USE DEF At, MainUnchanged, message, NAK
<1>10. ASSUME Replying(n)', Taken(n)' = Taken(n), executed' = executed
       PROVE  WasExecuted' /\ \E m \in Nat : Replying(m)' /\ (InStep(m)' \/ Excused')
  BY <1>1, <1>3, <1>5, <1>10 DEF WasExecuted
<1>11. CASE PollRx
  <2>1. /\ pc = "rx" /\ pc' = "tx"
        /\ UNCHANGED <<usbRxLen, usbTxLen, usbTxBuf, usbMsgLen, usbMsgPtr, IoByte, executed>>
    BY <1>4, <1>11 DEF PollRx
  <2> QED
    BY <1>1, <1>2, <1>10, <2>1 DEF Replying, Source, Taken
<1>12. CASE RxFree
  <2>1. /\ pc = "free" /\ pc' = "tx" /\ usbRxLen' = 0
        /\ UNCHANGED <<usbTxLen, usbTxBuf, usbMsgLen, usbMsgPtr, IoByte, executed>>
    BY <1>12 DEF RxFree
  <2> QED
    BY <1>1, <1>2, <1>10, <2>1 DEF Replying, Source, Taken
<1>13. CASE PollTx
  <2>1. /\ pc = "tx" /\ pc' \in {"toggle", "rx"}
        /\ pc' = "toggle" => usbMsgLen # NO_MSG
        /\ UNCHANGED <<usbRxLen, usbTxLen, usbTxBuf, usbMsgLen, usbMsgPtr, IoByte, executed>>
    BY <1>13 DEF PollTx
  <2> QED
    BY <1>1, <1>2, <1>10, <2>1 DEF Replying, Source, Taken
<1>14. CASE BuildToggle
  <2>1. /\ pc = "toggle" /\ pc' = "copy" /\ usbTxLen = NAK
        /\ usbTxBuf' = [usbTxBuf EXCEPT !.pid = Flip(@)]
        /\ UNCHANGED <<usbRxLen, usbTxLen, usbMsgLen, usbMsgPtr, IoByte, executed>>
    BY <1>4, <1>14 DEF BuildToggle
  <2>2. usbTxBuf.pid = Pid(n) /\ Source(n)
    BY <2>1 DEF Replying
  <2>3. usbTxBuf'.pid = Pid(n + 1)
    BY <2>1, <2>2, PidFlips DEF TxInv
  <2>4. Source(n)' /\ 8 * n <= Total
    BY <1>1, <1>2, <2>1, <2>2 DEF Source
  <2>5. n + 1 \in Nat /\ n + 1 > 0 /\ (n + 1) - 1 = n
    OBVIOUS
  <2>6. Replying(n + 1)'
    BY <1>1, <1>2, <2>1, <2>3, <2>4, <2>5 DEF Replying
  <2>7. Taken(n + 1)' = Taken(n)
    BY <2>1, <2>5 DEF Taken
  <2>8. InStep(n) => InStep(n + 1)'
    BY <1>1, <1>2, <2>7 DEF InStep
  <2> QED
    BY <1>3, <2>1, <2>5, <2>6, <2>8, <1>1 DEF WasExecuted
<1>15. CASE BuildCopy
  <2>1. /\ pc = "copy" /\ pc' = "send" /\ usbTxLen = NAK
        /\ usbTxBuf' = [usbTxBuf EXCEPT !.data =
             [mem |-> IF WantLen = 0 THEN "none" ELSE usbMsgPtr.mem,
              val |-> IF WantLen > 0 /\ usbMsgPtr.mem = "get" THEN IoByte ELSE 0,
              off |-> IF WantLen = 0 THEN 0 ELSE usbMsgPtr.off,
              len |-> WantLen]]
        /\ usbMsgPtr' = [usbMsgPtr EXCEPT !.off = @ + WantLen]
        /\ usbMsgLen' = usbMsgLen - WantLen
        /\ UNCHANGED <<usbRxLen, usbTxLen, IoByte, executed>>
    BY <1>4, <1>15 DEF BuildCopy
  <2>2. n > 0 /\ Source(n - 1) /\ usbTxBuf.pid = Pid(n)
        /\ (request.cmd = "get" => IoByte = id)
    BY <2>1 DEF Replying
  <2>3. WantLen = Block(n).len /\ usbTxBuf'.data = Block(n) /\ usbTxBuf'.pid = Pid(n)
    BY <2>1, <2>2, BlockBuilt DEF TxInv
  <2>4. 8 * (n - 1) <= Total /\ usbMsgLen = Total - 8 * (n - 1)
    BY <2>2 DEF Source
  <2>5. WantLen = 8 => Source(n)'
    <3> SUFFICES ASSUME WantLen = 8 PROVE Source(n)'
      OBVIOUS
    <3>1. usbMsgLen' = Total - 8 * n /\ 8 * n <= Total
      BY <2>1, <2>4, <1>6 DEF WantLen, Min2
    <3>2. request.cmd # "set" => usbMsgPtr' = [mem |-> request.cmd, off |-> 8 * n]
      <4> HAVE request.cmd # "set"
      <4>1. usbMsgPtr = [mem |-> request.cmd, off |-> 8 * (n - 1)]
        BY <2>2 DEF Source
      <4>2. 8 * (n - 1) + 8 = 8 * n
        OBVIOUS
      <4> QED
        BY <2>1, <4>1, <4>2
    <3> QED
      BY <1>1, <1>2, <3>1, <3>2 DEF Source
  <2>6. WantLen \in 0..8
    BY <2>2, <2>3, <2>4, BlockLength
  <2>7. Replying(n)'
    BY <1>1, <1>2, <2>1, <2>2, <2>3, <2>4, <2>5, <2>6 DEF Replying
  <2> QED
    BY <1>10, <2>1, <2>7 DEF Taken
<1>16. CASE BuildSend
  <2>1. /\ pc = "send" /\ pc' = "rx" /\ usbTxLen = NAK
        /\ usbTxLen' = usbTxBuf.data.len + 4
        /\ usbMsgLen' = IF usbTxBuf.data.len < 8 THEN NO_MSG ELSE usbMsgLen
        /\ UNCHANGED <<usbRxLen, usbTxBuf, usbMsgPtr, IoByte, executed>>
    BY <1>4, <1>16 DEF BuildSend
  <2>2. /\ n > 0 /\ 8 * (n - 1) <= Total /\ usbTxBuf.data = Block(n)
        /\ usbTxBuf.data.len < 8 \/ Source(n)
    BY <2>1 DEF Replying
  <2>3. usbTxBuf.data.len \in 0..8 /\ usbTxLen' # NAK
    BY <2>1, <2>2, BlockLength
  <2>4. usbMsgLen' = NO_MSG \/ Source(n)'
    BY <1>1, <1>2, <2>1, <2>2, <2>3 DEF Source
  <2>5. Replying(n)'
    BY <1>1, <1>2, <2>1, <2>2, <2>3, <2>4 DEF Replying
  <2>6. Taken(n)' = Taken(n)
    BY <2>1, <2>3 DEF Taken
  <2> QED
    BY <1>10, <2>1, <2>5, <2>6
<1> QED
  BY <1>4, <1>11, <1>12, <1>13, <1>14, <1>15, <1>16
     DEF usbPoll, SetupPid, SetupAbort, SetupCall

(* A request that has been executed stays so.                              *)
LEMMA PollExecuted ==
  ASSUME UsbInv, usbPoll, id' = id, NEW k \in 1..Len(executed)
  PROVE  k \in 1..Len(executed') /\ executed'[k] = executed[k]
<1>1. executed' = executed \/ executed' = Append(executed, Received.id)
  BY DEF usbPoll, PollRx, SetupPid, SetupAbort, SetupCall, RxFree, PollTx,
         BuildToggle, BuildCopy, BuildSend, message
<1>2. executed \in Seq(Nat) /\ (executed' # executed => Received.id \in Nat)
  <2>1. executed' # executed => pc = "setupCall"
    BY DEF usbPoll, PollRx, SetupPid, SetupAbort, SetupCall, RxFree, PollTx,
           BuildToggle, BuildCopy, BuildSend, message, At
  <2> QED
    BY <2>1, ReceivedSetup DEF UsbInv, OwnerInv, TypeOK
<1> QED
  BY <1>1, <1>2

(* No step of usbPoll takes back what the host was promised.               *)
LEMMA PollAnswers ==
  ASSUME AnswerInv, usbPoll
  PROVE  AnswerInv'
<1>1. UsbInv /\ TxInv
  BY DEF AnswerInv
<1>2. UsbInv' /\ TxInv'
  BY <1>1, PollInductive, PollTypes
<1>3. UNCHANGED <<phase, id, request, toggle, got, faults, outcome, dropped>>
  BY <1>1, PollTypes DEF host
<1>4. ASSUME phase \in AfterSetupPhases, id \notin dropped
      PROVE  Answering'
  <2>1. request \in Requests
    BY <1>1, <1>4 DEF UsbInv, TypeOK, AfterSetupPhases
  <2>2. Answering
    BY <1>4 DEF AnswerInv
  <2>3. CASE Waiting
    <3>1. Waiting' \/ (WasExecuted /\ Replying(0) /\ InStep(0))'
      BY <1>1, <2>1, <2>3, PollWaiting
    <3> QED
      BY <3>1 DEF Answering
  <2>4. ASSUME WasExecuted, NEW n \in Nat, Replying(n), InStep(n) \/ Excused
        PROVE  Answering'
    BY <1>1, <2>1, <2>4, PollReplying DEF Answering
  <2> QED
    BY <2>2, <2>3, <2>4 DEF Answering
<1>5. SuccessIsReal'
  <2>1. \A k \in 1..Len(executed) :
          k \in 1..Len(executed') /\ executed'[k] = executed[k]
    BY <1>1, <1>3, PollExecuted
  <2>2. (RightAnswer \/ (LongReply /\ faults > 0))
          => (RightAnswer \/ (LongReply /\ faults > 0))'
    BY <1>3 DEF RightAnswer, LongReply, Block
  <2> QED
    BY <1>3, <2>1, <2>2 DEF AnswerInv, SuccessIsReal
<1> QED
  BY <1>2, <1>3, <1>4, <1>5 DEF AnswerInv

-----------------------------------------------------------------------------

(* A step of the host that the driver does not notice, and by which the    *)
(* host gets nothing new.                                                  *)
LEMMA HostKeeps ==
  ASSUME AnswerInv, UsbInv', Quiet, HandlerUnchanged,
         UNCHANGED <<usbRxToken, usbTxLen, usbTxBuf, id, request, toggle, got>>,
         dropped \subseteq dropped', faults' \in {faults, faults + 1},
         phase # "idle",
         \/ phase' = phase /\ outcome' = outcome
         \/ /\ phase' \in {"setupToken", "setupData"} /\ outcome' = outcome
            /\ phase \in {"setupToken", "setupData"}
         \/ /\ phase' \in {"outToken", "outData"} /\ outcome' = outcome
            /\ phase \in {"outToken", "outData"}
         \/ /\ phase' = "idle"
            /\ outcome' = [outcome EXCEPT ![id] = "failed"]
  PROVE  AnswerInv'
<1>1. UNCHANGED <<pc, usbMsgLen, usbMsgPtr, IoByte, executed>>
  BY DEF HandlerUnchanged, message
<1>2. TxInv /\ usbRxLen' = usbRxLen /\ Received' = Received
  BY DEF AnswerInv, Quiet
<1>3. TxInv'
  BY <1>1, <1>2 DEF TxInv, AfterSetupPhases
<1>4. SuccessIsReal'
  <2>1. phase' = "idle" => id' \in 1..MaxRequests /\ outcome'[id'] = "failed"
    BY <1>2 DEF TxInv
  <2> QED
    BY <2>1 DEF SuccessIsReal
<1>5. ASSUME phase' \in AfterSetupPhases, id' \notin dropped'
      PROVE  Answering'
  <2>1. phase \in AfterSetupPhases /\ id \notin dropped
    BY <1>5 DEF AfterSetupPhases
  <2>2. Answering
    BY <2>1 DEF AnswerInv
  <2>3. phase' = phase
        \/ (phase' \in {"outToken", "outData"} /\ phase \in {"outToken", "outData"})
    BY <1>5 DEF AfterSetupPhases
  <2>4. CASE Waiting
    <3>1. Waiting'
      BY <1>1, <1>2, <2>3, <2>4 DEF Waiting
    <3> QED
      BY <3>1 DEF Answering
  <2>5. ASSUME WasExecuted, NEW n \in Nat, Replying(n), InStep(n) \/ Excused
        PROVE  Answering'
    <3>1. Total' = Total /\ \A k : Block(k)' = Block(k)
      BY DEF Total, Block
    <3>2. WasExecuted'
      BY <1>1, <2>5 DEF WasExecuted
    <3>3. Replying(n)'
      BY <1>1, <1>2, <2>5, <3>1 DEF Replying, Source
    <3>4. Taken(n)' = Taken(n)
      BY <1>1 DEF Taken
    <3>5. faults \in Nat /\ (faults' = 0 => faults = 0) /\ (faults > 0 => faults' > 0)
      BY <1>2 DEF TxInv
    <3>6. InStep(n) => InStep(n)'
      BY <2>3, <3>1, <3>4, <3>5 DEF InStep
    <3>7. Excused => Excused'
      BY <3>5 DEF Excused, LongReply
    <3> QED
      BY <2>5, <3>2, <3>3, <3>6, <3>7 DEF Answering
  <2> QED
    BY <2>2, <2>4, <2>5 DEF Answering
<1> QED
  BY <1>3, <1>4, <1>5 DEF AnswerInv

(* A transaction is repeated, or the transfer has failed.                  *)
LEMMA RetryOutcome ==
  ASSUME NEW next, Retry(next)
  PROVE  /\ UNCHANGED <<toggle, got>>
         /\ \/ phase' = next /\ outcome' = outcome
            \/ phase' = "idle" /\ outcome' = [outcome EXCEPT ![id] = "failed"]
BY DEF Retry, End

(* A new transfer is promised nothing yet.                                 *)
LEMMA StartAnswers ==
  ASSUME AnswerInv, UsbInv', NEW r \in Requests, Start(r)
  PROVE  AnswerInv'
<1>1. TxInv'
  <2>1. /\ id \in Nat /\ id < MaxRequests /\ id' = id + 1
        /\ outcome' = [outcome EXCEPT ![id + 1] = "pending"]
        /\ phase' = "setupToken" /\ got' = <<>> /\ toggle' = "DATA1"
        /\ UNCHANGED <<usbTxBuf, usbMsgPtr, usbMsgLen, IoByte, faults>>
    BY DEF Start, AnswerInv, UsbInv, TypeOK, shared, HandlerUnchanged, message
  <2>2. outcome' \in [1..MaxRequests -> {"none", "pending", "ok", "failed"}]
    BY <2>1 DEF AnswerInv, TxInv
  <2>3. id' \in 1..MaxRequests
    BY <2>1, VUsbAssumption
  <2> QED
    BY <2>1, <2>2, <2>3 DEF AnswerInv, TxInv, AfterSetupPhases
<1>2. phase' = "setupToken"
  BY DEF Start
<1> QED
  BY <1>1, <1>2 DEF AnswerInv, AfterSetupPhases, SuccessIsReal

(* Tokens carry nothing.                                                   *)
LEMMA TokenAnswers ==
  ASSUME AnswerInv, UsbInv', NEW token \in {"SETUP", "OUT"}, NEW from, NEW to,
         SendToken(from, to, token),
         <<from, to>> \in {<<"setupToken", "setupData">>, <<"outToken", "outData">>}
  PROVE  AnswerInv'
<1>1. /\ phase = from /\ phase' = to
      /\ HandlerUnchanged /\ UNCHANGED <<id, request, dropped, outcome, toggle, got>>
      /\ storeToken(token) \/ Lost
      /\ faults' \in {faults, faults + 1}
  BY DEF SendToken, HostFrame, NoFault, Fault
<1>2. UNCHANGED <<usbRxToken, usbTxLen, usbTxBuf>>
  BY <1>1 DEF storeToken, Lost, shared
<1>3. Quiet
  BY <1>1, TokenQuiet DEF AnswerInv, UsbInv
<1> QED
  BY <1>1, <1>2, <1>3, HostKeeps

(* A host that gives up has its answer: "failed".                          *)
LEMMA GiveUpAnswers ==
  ASSUME AnswerInv, UsbInv', GiveUp
  PROVE  AnswerInv'
<1>1. /\ phase # "idle" /\ phase' = "idle" /\ Lost
      /\ HandlerUnchanged /\ UNCHANGED <<id, request, dropped, toggle, got>>
      /\ outcome' = [outcome EXCEPT ![id] = "failed"]
      /\ faults' \in {faults, faults + 1}
  BY DEF GiveUp, End, HostFrame, Fault
<1>2. Quiet /\ UNCHANGED <<usbRxToken, usbTxLen, usbTxBuf>>
  BY <1>1 DEF Lost, shared, Quiet, Received, AnswerInv, UsbInv, TypeOK
<1> QED
  BY <1>1, <1>2, HostKeeps

(* An IN is answered with the block that is ready, or refused.             *)
LEMMA InAnswered ==
  ASSUME UsbInv, TxInv, NEW acked
  PROVE  /\ handleIn(usbTxBuf, acked)
              => usbRxLen = 0 /\ usbTxLen # NAK /\ usbTxLen' = NAK
         /\ handleIn(Refused, acked) => usbTxLen' = usbTxLen
<1>1. usbTxBuf # Refused
  BY DEF TxInv, Refused
<1>2. usbRxLen \in Nat
  BY DEF UsbInv, TypeOK
<1>3. Refused = [pid |-> "NAK"]
  BY DEF Refused
<1>4. handleIn(usbTxBuf, acked) => usbRxLen = 0 /\ usbTxLen # NAK /\ usbTxLen' = NAK
  BY <1>1, <1>2, <1>3 DEF handleIn
<1>5. handleIn(Refused, acked) => usbTxLen' = usbTxLen
  BY <1>1, <1>2, <1>3 DEF handleIn
<1> QED
  BY <1>4, <1>5

(* A SETUP packet the host sees acknowledged waits to be executed, unless  *)
(* it is dropped.                                                          *)
LEMMA SetupAnswers ==
  ASSUME AnswerInv, UsbInv', SendSetup
  PROVE  AnswerInv'
<1>1. /\ phase = "setupData" /\ HandlerUnchanged
      /\ UNCHANGED <<id, request>>
      /\ UsbInv /\ TxInv /\ TypeOK
  BY DEF SendSetup, AnswerInv, UsbInv
<1>2. UNCHANGED <<pc, usbMsgLen, usbMsgPtr, IoByte, executed>>
  BY <1>1 DEF HandlerUnchanged, message
<1>3. /\ got = <<>> /\ toggle = "DATA1" /\ request \in Requests /\ id \in 1..MaxRequests
  BY <1>1 DEF TxInv, TypeOK
<1>4. /\ AfterSetup \in {"in", "statusIn"}
      /\ AfterSetup = "statusIn" => request.cmd = "set"
      /\ AfterSetup = "in" => request.cmd # "set"
  <2>1. request.wLength \in 0..255 /\ (request.cmd = "set" <=> request.wLength = 0)
    BY <1>3, TotalType, VUsbAssumption
  <2> QED
    BY <2>1 DEF AfterSetup
<1>5. \A len \in {4, 8} : /\ SetupPacket(len) \in Packet
                         /\ SetupPacket(len).len = len
                         /\ SetupPacket(len).id = id
                         /\ SetupPacket(len).request = request
  BY <1>1 DEF TypeOK, Packet, SetupPacket
<1>6. UNCHANGED usbTxBuf /\ faults' \in {faults, faults + 1}
  BY Zenon DEF SendSetup, SetupArrives, SetupIsCut, handleData, Lost, shared,
               NoFault, Fault
<1>7. ASSUME Continue(AfterSetup) PROVE TxInv'
  BY <1>1, <1>2, <1>3, <1>4, <1>6, <1>7 DEF Continue, TxInv, AfterSetupPhases
<1>8. ASSUME Retry("setupToken") PROVE AnswerInv'
  <2>1. /\ UNCHANGED <<toggle, got>>
        /\ \/ phase' = "setupToken" /\ outcome' = outcome
           \/ phase' = "idle" /\ outcome' = [outcome EXCEPT ![id] = "failed"]
    BY <1>8, RetryOutcome
  <2>2. TxInv'
    BY <1>1, <1>2, <1>3, <1>6, <2>1 DEF TxInv, AfterSetupPhases
  <2>3. SuccessIsReal'
    BY <1>1, <1>3, <2>1 DEF SuccessIsReal, TxInv
  <2> QED
    BY <2>1, <2>2, <2>3 DEF AnswerInv, AfterSetupPhases
<1>9. ASSUME Continue(AfterSetup), id \in dropped' PROVE AnswerInv'
  BY <1>1, <1>4, <1>7, <1>9 DEF AnswerInv, SuccessIsReal, Continue
<1>10. CASE SetupArrives
  <2>1. PICK answer \in {"ACK", "NAK", "nothing"} :
          /\ handleData(SetupPacket(8), answer)
          /\ \/ /\ NoFault
                /\ IF answer = "ACK" THEN Continue(AfterSetup) ELSE Retry("setupToken")
                /\ UNCHANGED repeated
             \/ /\ answer = "ACK" /\ Fault
                /\ Retry("setupToken")
                /\ repeated' = repeated \cup {id}
          /\ dropped' = IF answer = "ACK" /\ usbCurrentTok = "OUT"
                        THEN dropped \cup {id} ELSE dropped
    BY <1>10 DEF SetupArrives
  <2>2. CASE Retry("setupToken")
    BY <1>8, <2>2
  <2>3. CASE answer = "ACK" /\ Continue(AfterSetup) /\ usbCurrentTok = "OUT"
    BY <1>9, <2>1, <2>3
  <2>4. CASE answer = "ACK" /\ Continue(AfterSetup) /\ usbCurrentTok # "OUT"
    <3>1. usbCurrentTok = "SETUP" /\ usbRxLen = 0
      BY <1>1, <2>1, <2>4 DEF handleData, TypeOK
    <3>2. usbRxLen' = 11 /\ usbRxToken' = "SETUP" /\ usbTxLen' = usbTxLen
          /\ inputHalf' = Other(inputHalf)
      BY <1>5, <2>1, <2>4, <3>1 DEF handleData
    <3>3. Received' = SetupPacket(8)
      BY <1>1, <1>5, <2>1, <3>1, <3>2, DataStored
    <3>4. pc \notin {"setupPid", "setupAbort", "setupCall", "free"}
      BY <1>1, <3>1 DEF UsbInv, OwnerInv
    <3>5. phase' = AfterSetup /\ UNCHANGED <<got, toggle>>
      BY <2>4 DEF Continue
    <3>6. Waiting'
      BY <1>1, <1>2, <1>3, <1>4, <1>5, <3>2, <3>3, <3>4, <3>5 DEF Waiting
    <3>7. SuccessIsReal'
      BY <1>4, <3>5 DEF SuccessIsReal
    <3> QED
      BY <1>7, <2>4, <3>6, <3>7 DEF AnswerInv, Answering
  <2> QED
    BY <2>1, <2>2, <2>3, <2>4
<1>11. CASE SetupIsCut
  BY <1>9, <1>11 DEF SetupIsCut
<1>12. CASE Lost /\ Fault /\ Retry("setupToken") /\ UNCHANGED <<repeated, dropped>>
  BY <1>8, <1>12
<1> QED
  BY <1>10, <1>11, <1>12 DEF SendSetup

(* The handler sends the block that is ready: one more is taken.           *)
LEMMA BlockSent ==
  ASSUME AnswerInv, phase \in {"in", "statusIn"}, NEW acked,
         handleIn(usbTxBuf, acked), HostFrame
  PROVE  /\ ~Waiting
         /\ UNCHANGED <<pc, executed, usbTxBuf, usbMsgPtr, usbMsgLen, IoByte>>
         /\ \A n \in Nat : Replying(n) =>
              /\ Replying(n)'
              /\ n > 0 /\ Taken(n) = n - 1 /\ Taken(n)' = n
              /\ usbTxBuf.data = Block(n) /\ usbTxBuf.pid = Pid(n)
              /\ 8 * (n - 1) <= Total
<1>1. UsbInv /\ TxInv
  BY DEF AnswerInv
<1>2. usbRxLen = 0 /\ usbTxLen # NAK /\ usbTxLen' = NAK
  BY <1>1, InAnswered
<1>3. usbRxLen' = usbRxLen /\ usbTxBuf' = usbTxBuf
  BY DEF handleIn
<1>4. UNCHANGED <<pc, usbMsgLen, usbMsgPtr, IoByte, executed, id, request>>
  BY DEF HostFrame, HandlerUnchanged, message
<1>5. pc \notin {"toggle", "copy", "send"}
  BY <1>1, <1>2 DEF UsbInv, OwnerInv
<1>6. Total' = Total /\ \A k : Block(k)' = Block(k)
  BY <1>4 DEF Total, Block
<1>7. ASSUME NEW n \in Nat, Replying(n)
      PROVE  /\ Replying(n)'
             /\ n > 0 /\ Taken(n) = n - 1 /\ Taken(n)' = n
             /\ usbTxBuf.data = Block(n) /\ usbTxBuf.pid = Pid(n)
             /\ 8 * (n - 1) <= Total
  <2>1. Replying(n)'
    BY <1>2, <1>3, <1>4, <1>5, <1>6, <1>7 DEF Replying, Source
  <2> QED
    BY <1>2, <1>4, <1>5, <1>7, <2>1 DEF Replying, Taken
<1> QED
  BY <1>2, <1>3, <1>4, <1>7 DEF Waiting

(* A block that has the right toggle is the next one, unless one of three  *)
(* has been lost.                                                          *)
LEMMA ToggleTells ==
  ASSUME NEW n \in Nat, n > 0, InStep(n), Taken(n) = n - 1, ~Excused,
         got \in Seq(Data), request \in Requests, faults \in Nat,
         8 * (n - 1) <= Total, toggle = Pid(n)
  PROVE  n = Len(got) + 1
<1>1. Len(got) \in Nat /\ Len(got) <= n - 1 /\ toggle = Pid(Len(got) + 1)
  BY DEF InStep
<1>2. CASE faults = 0
  BY <1>1, <1>2 DEF InStep
<1>3. CASE faults # 0
  <2>1. Total \in 0..254 /\ Total < 16
    <3>1. faults > 0
      BY <1>3
    <3>2. ~LongReply
      BY <3>1 DEF Excused
    <3>3. Total \in 0..254 /\ (Total >= 16 => LongReply)
      BY TotalType
    <3> QED
      BY <3>2, <3>3
  <2>2. n \in {1, 2}
    BY <2>1
  <2>3. Pid(1) # Pid(2)
    BY DEF Pid
  <2>4. Len(got) + 1 = 1 \/ Len(got) + 1 = 2
    BY <1>1, <2>2
  <2> QED
    BY <1>1, <2>2, <2>3, <2>4
<1> QED
  BY <1>2, <1>3

(* The host takes a block for the next one, drops it, or ends with it.     *)
LEMMA AcceptAnswers ==
  ASSUME AnswerInv, UsbInv', phase \in {"in", "statusIn"}, NEW acked,
         handleIn(usbTxBuf, acked), HostFrame, faults' \in {faults, faults + 1},
         Accept(usbTxBuf)
  PROVE  AnswerInv'
<1>1. UsbInv /\ TxInv /\ request \in Requests /\ id \in 1..MaxRequests
  BY DEF AnswerInv, UsbInv, TypeOK, TxInv
<1>2. /\ UNCHANGED <<pc, executed, usbTxBuf, usbMsgPtr, usbMsgLen, IoByte>>
      /\ UNCHANGED <<id, request, dropped>>
  BY BlockSent DEF HostFrame
<1>3. Total' = Total /\ (\A k : Block(k)' = Block(k)) /\ Total \in 0..254
  BY <1>1, <1>2, TotalType DEF Total, Block
<1>4. faults \in Nat /\ faults' \in Nat /\ (Excused => Excused')
      /\ (faults' = 0 => faults = 0)
  BY <1>1, <1>2 DEF TxInv, Excused, LongReply
<1>5. ASSUME id \notin dropped
      PROVE  /\ WasExecuted /\ WasExecuted'
             /\ \E n \in Nat : Replying(n) /\ (InStep(n) \/ Excused)
  <2>1. Answering /\ ~Waiting
    BY <1>5, BlockSent DEF AnswerInv, AfterSetupPhases
  <2> QED
    BY <1>2, <2>1 DEF Answering, WasExecuted
<1>6. CASE usbTxBuf.pid # toggle /\ Continue(phase)
  <2>1. UNCHANGED <<phase, toggle, got, outcome>>
    BY <1>6 DEF Continue
  <2>2. TxInv'
    BY <1>1, <1>2, <1>4, <2>1 DEF TxInv, AfterSetupPhases
  <2>3. ASSUME id' \notin dropped' PROVE Answering'
    <3>1. PICK n \in Nat : Replying(n) /\ (InStep(n) \/ Excused)
      BY <1>2, <1>5, <2>3
    <3>2. /\ Replying(n)' /\ Taken(n) = n - 1 /\ Taken(n)' = n
          /\ usbTxBuf.pid = Pid(n)
      BY <3>1, BlockSent
    <3>3. InStep(n) => InStep(n)'
      <4> SUFFICES ASSUME InStep(n) PROVE InStep(n)'
        OBVIOUS
      <4>1. Len(got) <= n - 1 /\ toggle = Pid(Len(got) + 1) /\ Len(got) \in Nat
        BY <1>1, <3>2 DEF InStep, TxInv
      <4>2. faults # 0
        BY <1>6, <3>2, <4>1 DEF InStep
      <4> QED
        BY <1>2, <1>3, <1>4, <2>1, <3>2, <4>1, <4>2 DEF InStep
    <3> QED
      BY <1>2, <1>4, <1>5, <2>3, <3>1, <3>2, <3>3 DEF Answering
  <2> QED
    BY <2>1, <2>2, <2>3 DEF AnswerInv, SuccessIsReal
<1>7. CASE phase = "statusIn" /\ End(IF usbTxBuf.data.len = 0 THEN "ok" ELSE "failed")
  <2>1. /\ phase' = "idle" /\ UNCHANGED <<toggle, got>>
        /\ \/ outcome' = [outcome EXCEPT ![id] = "ok"]
           \/ outcome' = [outcome EXCEPT ![id] = "failed"]
    BY <1>7 DEF End
  <2>2. TxInv'
    BY <1>1, <1>2, <1>4, <2>1 DEF TxInv, AfterSetupPhases
  <2>3. RightAnswer'
    <3>1. got = <<>> /\ request.cmd = "set" /\ Total = 0
      BY <1>1, <1>7, TotalType DEF TxInv
    <3> QED
      BY <1>2, <2>1, <3>1 DEF RightAnswer, Total
  <2>4. SuccessIsReal'
    BY <1>2, <1>5, <2>3 DEF SuccessIsReal, WasExecuted
  <2> QED
    BY <2>1, <2>2, <2>4 DEF AnswerInv, AfterSetupPhases
<1>8. CASE /\ phase = "in" /\ usbTxBuf.pid = toggle
           /\ got' = Append(got, usbTxBuf.data)
           /\ toggle' = Flip(toggle)
           /\ phase' = IF \/ usbTxBuf.data.len < 8
                          \/ 8 * Len(got) + usbTxBuf.data.len >= request.wLength
                       THEN "outToken" ELSE "in"
           /\ UNCHANGED outcome
  <2>1. TxInv'
    <3>1. got' \in Seq(Data)
      BY <1>1, <1>8 DEF TxInv
    <3> QED
      BY <1>1, <1>2, <1>4, <1>8, <3>1 DEF TxInv, AfterSetupPhases
  <2>2. phase' \in {"in", "outToken"}
    BY <1>8
  <2>3. ASSUME id' \notin dropped' PROVE Answering'
    <3>1. PICK n \in Nat : Replying(n) /\ (InStep(n) \/ Excused)
      BY <1>2, <1>5, <2>3
    <3>2. /\ Replying(n)' /\ n > 0 /\ Taken(n) = n - 1 /\ Taken(n)' = n
          /\ usbTxBuf.pid = Pid(n) /\ usbTxBuf.data = Block(n)
          /\ 8 * (n - 1) <= Total
      BY <3>1, BlockSent
    <3>3. ASSUME InStep(n), ~Excused PROVE InStep(n)'
      <4>1. n = Len(got) + 1 /\ got \in Seq(Data) /\ Len(got) \in Nat
        BY <1>1, <1>4, <1>8, <3>2, <3>3, ToggleTells DEF TxInv
      <4>2. /\ Len(got') = n /\ got'[n] = Block(n)
            /\ \A k \in 1..Len(got) : got'[k] = got[k]
        BY <1>1, <1>8, <3>2, <4>1 DEF TxInv
      <4>3. \A k \in 1..Len(got') : got'[k] = Block(k)'
        <5> TAKE k \in 1..Len(got')
        <5>1. k \in 1..Len(got) \/ k = n
          BY <4>1, <4>2
        <5> QED
          BY <1>3, <3>3, <4>2, <5>1 DEF InStep
      <4>4. toggle' = Pid(Len(got') + 1)
        BY <1>8, <3>2, <4>2, PidFlips
      <4>5. got' # <<>>
        BY <3>2, <4>2
      <4>6. phase' \in {"outToken", "outData"} => Total <= 8 * n
        <5> HAVE phase' \in {"outToken", "outData"}
        <5>1. Block(n).len = Min2(Total - 8 * (n - 1), 8) /\ Block(n).len \in 0..8
          BY <1>1, <3>2, BlockLength
        <5>2. Block(n).len < 8 \/ 8 * (n - 1) + Block(n).len >= request.wLength
          BY <1>8, <3>2, <4>1
        <5>3. CASE Block(n).len < 8
          BY <1>3, <5>1, <5>3 DEF Min2
        <5>4. CASE 8 * (n - 1) + Block(n).len >= request.wLength
          <6>1. Total <= request.wLength /\ request.wLength \in 0..255
            BY <1>1, TotalType
          <6> QED
            BY <1>3, <5>1, <5>4, <6>1
        <5> QED
          BY <5>2, <5>3, <5>4
      <4> QED
        BY <1>3, <3>2, <4>2, <4>3, <4>4, <4>5, <4>6 DEF InStep
    <3> QED
      BY <1>2, <1>4, <1>5, <2>3, <3>1, <3>2, <3>3 DEF Answering
  <2> QED
    BY <2>1, <2>2, <2>3 DEF AnswerInv, SuccessIsReal
<1> QED
  BY <1>6, <1>7, <1>8, Zenon DEF Accept

(* An IN token preserves the invariant, whatever becomes of it.            *)
LEMMA InAnswers ==
  ASSUME AnswerInv, UsbInv', SendIn
  PROVE  AnswerInv'
<1>1. /\ phase \in {"in", "statusIn"} /\ HostFrame
      /\ HandlerUnchanged /\ UNCHANGED <<id, request, dropped>>
  BY DEF SendIn, HostFrame
<1>2. UsbInv /\ TxInv /\ TypeOK
  BY DEF AnswerInv, UsbInv
<1>3. CASE /\ handleIn(Refused, FALSE) /\ NoFault
           /\ UNCHANGED <<phase, toggle, got, tries, outcome>>
  <2>1. UNCHANGED <<usbRxToken, usbTxLen, usbTxBuf>>
    BY <1>2, <1>3, InAnswered DEF handleIn
  <2>2. Quiet
    BY <1>2, <1>3, InQuiet
  <2> QED
    BY <1>1, <1>3, <2>1, <2>2, HostKeeps DEF NoFault
<1>4. ASSUME NEW acked \in BOOLEAN, handleIn(usbTxBuf, acked),
             IF acked THEN NoFault ELSE Fault, Accept(usbTxBuf)
      PROVE  AnswerInv'
  <2>1. faults' \in {faults, faults + 1}
    BY <1>4 DEF NoFault, Fault
  <2> QED
    BY <1>1, <1>4, <2>1, AcceptAnswers
<1>5. CASE handleIn(usbTxBuf, FALSE) /\ Fault /\ Retry(phase)
  <2>1. /\ UNCHANGED <<toggle, got>> /\ faults' = faults + 1
        /\ \/ phase' = phase /\ outcome' = outcome
           \/ phase' = "idle" /\ outcome' = [outcome EXCEPT ![id] = "failed"]
    BY <1>5, RetryOutcome DEF Fault
  <2>2. UNCHANGED <<pc, executed, usbTxBuf, usbMsgPtr, usbMsgLen, IoByte>>
    BY <1>1, <1>5, BlockSent
  <2>3. TxInv'
    BY <1>1, <1>2, <2>1, <2>2 DEF TxInv, AfterSetupPhases
  <2>4. SuccessIsReal'
    BY <1>1, <1>2, <2>1 DEF SuccessIsReal, TxInv
  <2>5. ASSUME phase' = phase, id' \notin dropped' PROVE Answering'
    <3>1. Answering /\ ~Waiting
      BY <1>1, <1>5, <2>5, BlockSent DEF AnswerInv, AfterSetupPhases
    <3>2. PICK n \in Nat : Replying(n) /\ (InStep(n) \/ Excused)
      BY <3>1 DEF Answering
    <3>3. Replying(n)' /\ Taken(n) = n - 1 /\ Taken(n)' = n
      BY <1>1, <1>5, <3>2, BlockSent
    <3>4. faults' # 0 /\ faults' > 0 /\ Len(got) \in Nat
      BY <1>2, <2>1 DEF TxInv
    <3>5. \A k : Block(k)' = Block(k)
      BY <1>1 DEF Block
    <3>6. InStep(n) => InStep(n)'
      BY <1>1, <2>1, <2>5, <3>3, <3>4, <3>5 DEF InStep
    <3>7. Excused => Excused'
      BY <1>1, <3>4 DEF Excused, LongReply
    <3>8. WasExecuted'
      BY <1>1, <2>2, <3>1 DEF Answering, WasExecuted
    <3> QED
      BY <3>2, <3>3, <3>6, <3>7, <3>8 DEF Answering
  <2> QED
    BY <2>1, <2>3, <2>4, <2>5 DEF AnswerInv, AfterSetupPhases
<1>6. CASE Lost /\ Fault /\ Retry(phase)
  <2>1. /\ UNCHANGED <<toggle, got>> /\ faults' = faults + 1
        /\ \/ phase' = phase /\ outcome' = outcome
           \/ phase' = "idle" /\ outcome' = [outcome EXCEPT ![id] = "failed"]
    BY <1>6, RetryOutcome DEF Fault
  <2>2. Quiet /\ UNCHANGED <<usbRxToken, usbTxLen, usbTxBuf>>
    BY <1>2, <1>6 DEF Lost, shared, Quiet, Received, TypeOK
  <2> QED
    BY <1>1, <2>1, <2>2, HostKeeps
<1> QED
  BY <1>3, <1>4, <1>5, <1>6 DEF SendIn

(* The status stage ends a transfer whose reply has been got.              *)
LEMMA StatusAnswers ==
  ASSUME AnswerInv, UsbInv', SendStatus
  PROVE  AnswerInv'
<1> DEFINE empty == [pid |-> "DATA1", len |-> 0]
<1>1. /\ phase = "outData" /\ HostFrame
      /\ HandlerUnchanged /\ UNCHANGED <<id, request, dropped>>
  BY DEF SendStatus, HostFrame
<1>2. UsbInv /\ TxInv /\ TypeOK
  BY DEF AnswerInv, UsbInv
<1>3. Quiet /\ UNCHANGED <<usbTxLen, usbCurrentTok>>
  BY <1>2, StatusQuiet
<1>4. (\E answer : handleData(empty, answer)) \/ Lost
  BY Zenon DEF SendStatus
<1>5. UNCHANGED <<usbRxToken, usbTxBuf>>
  BY <1>4 DEF handleData, Lost, shared
<1>6. faults' \in {faults, faults + 1}
  BY Zenon DEF SendStatus, NoFault, Fault
<1>7. End("ok") \/ Continue("outToken") \/ Retry("outToken")
  BY Zenon DEF SendStatus
<1>8. CASE Continue("outToken") \/ Retry("outToken")
  <2>1. /\ UNCHANGED <<toggle, got>>
        /\ \/ phase' = "outToken" /\ outcome' = outcome
           \/ phase' = "idle" /\ outcome' = [outcome EXCEPT ![id] = "failed"]
    BY <1>8, RetryOutcome DEF Continue
  <2> QED
    BY <1>1, <1>3, <1>5, <1>6, <2>1, HostKeeps
<1>9. CASE End("ok")
  <2>1. /\ phase' = "idle" /\ UNCHANGED <<toggle, got>>
        /\ outcome' = [outcome EXCEPT ![id] = "ok"]
    BY <1>9 DEF End
  <2>2. UNCHANGED <<pc, usbMsgLen, usbMsgPtr, IoByte, executed>>
    BY <1>1 DEF HandlerUnchanged, message
  <2>3. TxInv'
    BY <1>1, <1>2, <1>5, <1>6, <2>1, <2>2 DEF TxInv, AfterSetupPhases
  <2>4. ASSUME id \notin dropped
        PROVE  WasExecuted /\ (RightAnswer \/ Excused)
    <3>1. Answering /\ ~Waiting
      BY <1>1, <2>4 DEF AnswerInv, AfterSetupPhases, Waiting
    <3>2. PICK n \in Nat : InStep(n) \/ Excused
      BY <3>1 DEF Answering
    <3>3. InStep(n) => RightAnswer
      BY <1>1 DEF InStep, RightAnswer, Total
    <3> QED
      BY <3>1, <3>2, <3>3 DEF Answering
  <2>5. RightAnswer' = RightAnswer
    BY <1>1, <2>1 DEF RightAnswer, Block
  <2>6. Excused => Excused'
    BY <1>1, <1>2, <1>6 DEF Excused, LongReply, TxInv
  <2>7. SuccessIsReal'
    BY <1>1, <2>1, <2>2, <2>4, <2>5, <2>6
       DEF SuccessIsReal, WasExecuted, Excused
  <2> QED
    BY <2>1, <2>3, <2>7 DEF AnswerInv, AfterSetupPhases
<1> QED
  BY <1>7, <1>8, <1>9

-----------------------------------------------------------------------------

(* No transfer has been made.                                              *)
LEMMA AnswerInitially == Init => AnswerInv
<1> SUFFICES ASSUME Init PROVE AnswerInv
  OBVIOUS
<1>1. UsbInv
  BY UsbInitially
<1>2. TxInv
  BY VUsbAssumption DEF Init, TxInv, Data, NO_MSG, AfterSetupPhases
<1> QED
  BY <1>1, <1>2 DEF Init, AnswerInv, AfterSetupPhases, SuccessIsReal

(* Every step of either thread and of the host preserves the invariant.    *)
LEMMA AnswerStep == AnswerInv /\ [Next]_vars => AnswerInv'
<1> SUFFICES ASSUME AnswerInv, [Next]_vars PROVE AnswerInv'
  OBVIOUS
<1>0. UsbInv'
  BY UsbStep DEF AnswerInv
<1>1. CASE usbPoll
  BY <1>1, PollAnswers
<1>2. CASE \E r \in Requests : Start(r)
  BY <1>0, <1>2, StartAnswers
<1>3. CASE SendToken("setupToken", "setupData", "SETUP")
  BY <1>0, <1>3, TokenAnswers
<1>4. CASE SendSetup
  BY <1>0, <1>4, SetupAnswers
<1>5. CASE SendIn
  BY <1>0, <1>5, InAnswers
<1>6. CASE SendToken("outToken", "outData", "OUT")
  BY <1>0, <1>6, TokenAnswers
<1>7. CASE SendStatus
  BY <1>0, <1>7, StatusAnswers
<1>8. CASE GiveUp
  BY <1>0, <1>8, GiveUpAnswers
<1>9. CASE UNCHANGED vars
  BY SMTT(60), <1>0, <1>9 DEF vars, shared, message, host, AnswerInv, TxInv, Answering, Waiting,
       Replying, Source, Block, Total, InStep, Taken, Excused, LongReply,
       WasExecuted, SuccessIsReal, RightAnswer, Received
<1> QED
  BY <1>1, <1>2, <1>3, <1>4, <1>5, <1>6, <1>7, <1>8, <1>9 DEF Next, HostContinues

(* What the host takes for success is one: the request was executed, and   *)
(* its whole reply has been handed over, block by block, unless its SETUP  *)
(* was dropped or one of three blocks or more was lost.                    *)
THEOREM SuccessesAreReal == Spec => []SuccessIsReal
<1>1. AnswerInv => SuccessIsReal
  BY DEF AnswerInv
<1> QED
  BY <1>1, AnswerInitially, AnswerStep, PTL DEF Spec

-----------------------------------------------------------------------------
(***************************************************************************)
(* The wire side: UsbBits. Its invariant says that there are numbers P and *)
(* R: the levels each bit sent took and the ones in a row it ends, and     *)
(* relates the receiver's place on the line to them.                       *)
(***************************************************************************)

(* Bit i of what is sent, the sync byte included; the level before the     *)
(* first one and those sent; how many ones in a row the newest bits are.   *)
BitAt(i) == i % 8 \in Outgoing[(i \div 8) + 1]
Lev(s, k) == IF k = 0 THEN "J" ELSE s[k]
RunIs(history, r) ==
  (\A k \in 0..7 : k >= 8 - r => k \in history) /\ 7 - r \notin history

(* A stuffed bit follows the sixth one and ends the run.                   *)
Extra(r) == IF r = 6 THEN 1 ELSE 0
Counted(r) == IF r = 6 THEN 0 ELSE r

(* The levels of the line that are bits: all but SE0 at the end.           *)
Width == Len(line) - (IF at = "send" THEN 0 ELSE 2)

(* After i bits the line had P[i] levels, without the bit stuffed behind   *)
(* them if there is one, and the last R[i] bits were ones.                 *)
Wire(P, R) ==
  /\ P \in [0..sent -> Nat] /\ R \in [0..sent -> 0..6]
  /\ P[0] = 0 /\ R[0] = 0
  /\ \A i \in 0..(sent - 1) :
       /\ P[i + 1] = P[i] + Extra(R[i]) + 1
       /\ R[i + 1] = IF BitAt(i) THEN Counted(R[i]) + 1 ELSE 0
       /\ Lev(line, P[i + 1]) = Lev(line, P[i + 1] - 1) <=> BitAt(i)
  /\ \A i \in 0..sent :
       /\ P[i] <= Width
       /\ R[i] = 6 /\ P[i] < Width => Lev(line, P[i] + 1) # Lev(line, P[i])
  /\ at = "send" =>
       \/ Width = P[sent] /\ (sent > 0 => RunIs(x2, R[sent]))
       \/ Width = P[sent] + 1 /\ R[sent] = 6 /\ x2 = {}
  /\ at # "send" => Width = P[sent] + Extra(R[sent])

(* What the receiver holds.                                                *)
Arrived == 8 + 8 * Len(stored) + bit
Prefix ==
  Len(stored) <= Len(body) /\ \A k \in 1..Len(stored) : stored[k] = body[k]

(* The turns of lsr that are left for a byte of which k bits are in.       *)
Turns(k) == CASE k = 0 -> 3 [] k \in 1..2 -> 2 [] k \in 3..4 -> 1 [] OTHER -> 0
Top(k) ==
  CASE k = 0 -> 7 [] k \in {1, 3, 5} -> 4 [] k \in {2, 4, 6} -> 5 [] OTHER -> 6

(* The bits that are in, in the history s, those marked in m inverted.     *)
Partial(k, s, m, byte) ==
  /\ m \subseteq 0..Top(k)
  /\ \A j \in 0..(k - 1) :
       j \in byte <=> (8 - k + j \in s <=> j + 2 * Turns(k) \notin m)

Sure(n) == \A i \in 9..(n - 1) : BitAt(i)

(* The receiver counts the ones as the transmitter does, but for the first *)
(* bit of the packet, until the next zero.                                 *)
Alike(n, r, q) ==
  \/ q = Counted(r)
  \/ /\ n <= 13 /\ Sure(n)
     /\ r = (n - 9) + (IF BitAt(8) THEN 2 ELSE 0)
     /\ q = (n - 9) + (IF BitAt(8) THEN 0 ELSE 1)

OnBit(P, R) ==
  /\ Arrived <= sent /\ Prefix
  /\ sample + 7 = P[Arrived] + Extra(R[Arrived]) /\ last = Lev(line, sample + 7)
  /\ Arrived = 8 => shift = {} /\ x3 = {4}
  /\ Arrived > 8 =>
       /\ \E q \in 0..5 : RunIs(shift, q) /\ Alike(Arrived, R[Arrived], q)
       /\ Partial(bit, shift, x3, body[Len(stored) + 1])

(* Behind the last bit.                                                    *)
CutOdd ==
  Arrived = sent + 1 /\ Prefix /\ bit \in {1, 3, 5} /\ LevelAt(sample) = "SE0"
CutLate ==
  /\ sent % 8 \in {6, 7}
  /\ \/ /\ bit \in {0, 7} /\ sample + 7 = Width + 1
        /\ last = "SE0" /\ 7 \notin shift
     \/ sample + 7 >= Width + 2

Where(P, R) == OnBit(P, R) \/ CutOdd \/ CutLate

BitsType ==
  /\ body \in Seq(SUBSET (0..7)) /\ Len(body) >= 1
  /\ \A k \in 0..3 : k + 4 \in body[1] <=> k \notin body[1]
  /\ at \in {"send", "receive", "done", "overflow"}
  /\ line \in Seq({"J", "K", "SE0"}) /\ sent \in 0..(8 * Len(Outgoing))
  /\ \A k \in 1..Width : line[k] \in {"J", "K"}
  /\ at # "send" => /\ sent >= 8 /\ Len(line) >= 2
                    /\ line[Width + 1] = "SE0" /\ line[Width + 2] = "SE0"
  /\ x2 \in SUBSET (0..7) /\ shift \in SUBSET (0..7) /\ x3 \in SUBSET (0..7)
  /\ last \in {"J", "K", "SE0"} /\ bit \in 0..7 /\ sample \in Nat
  /\ stored \in Seq(SUBSET (0..7))
  /\ cnt \in Nat /\ cnt = BufSize - Len(stored) - (IF bit = 7 THEN 1 ELSE 0)

Fresh ==
  shift = {} /\ x3 = {4} /\ last = "K" /\ bit = 0 /\ sample = 1 /\ stored = <<>>

Whole == sent = 8 * Len(Outgoing)

(* The last toggle of the line is not further back than the run of ones.   *)
TogglesInv ==
  /\ Toggles
  /\ at = "send" /\ sent > 0 =>
       \E r \in 0..6 : /\ RunIs(x2, r) /\ Len(line) > r
                       /\ Lev(line, Len(line) - r) # Lev(line, Len(line) - r - 1)
  /\ sent = 0 => at = "send" /\ line = <<>>

BitsInv ==
  /\ BitsType /\ TogglesInv
  /\ at = "send" => Fresh
  /\ \E P \in [0..sent -> Nat], R \in [0..sent -> 0..6] :
       /\ Wire(P, R)
       /\ at = "receive" => Where(P, R)
  /\ at = "done" => Prefix /\ (Whole => Len(stored) = Len(body))
  /\ at = "overflow" /\ Whole => Len(body) > BufSize

-----------------------------------------------------------------------------
(* Registers.                                                              *)

(* A register shifted right: each bit moves down, bit 0 falls out.         *)
LEMMA RightIs ==
  ASSUME NEW s \in SUBSET Nat
  PROVE  Right(s) \in SUBSET Nat /\ \A k : k \in Right(s) <=> k \in Nat /\ k + 1 \in s
<1>1. ASSUME NEW k, k \in Right(s) PROVE k \in Nat /\ k + 1 \in s
  BY <1>1 DEF Right
<1>2. ASSUME NEW k \in Nat, k + 1 \in s PROVE k \in Right(s)
  <2>1. k + 1 \in s \ {0} /\ k = (k + 1) - 1
    BY <1>2
  <2> QED
    BY <2>1, Zenon DEF Right
<1> QED
  BY <1>1, <1>2

(* The same for a byte: bit 7 is free.                                     *)
LEMMA RightByte ==
  ASSUME NEW s \in SUBSET (0..7)
  PROVE  Right(s) \in SUBSET (0..6) /\ \A k \in 0..6 : k \in Right(s) <=> k + 1 \in s
  BY RightIs

(* A run of ones as a bit is shifted in, and six ones.                     *)
LEMMA Runs ==
  ASSUME NEW h \in SUBSET (0..7), NEW r \in 0..6, RunIs(h, r)
  PROVE  /\ SixOnes(h) <=> r = 6
         /\ r <= 5 => RunIs(Right(h) \cup {7}, r + 1)
         /\ RunIs(Right(h), 0)
<1>1. SixOnes(h) <=> r = 6
  <2>1. 7 - r \in 1..7 /\ (r < 6 => 7 - r \in 2..7) /\ (r = 6 => 8 - r = 2)
    OBVIOUS
  <2>2. CASE r = 6
    BY <2>2 DEF RunIs, SixOnes
  <2>3. CASE r < 6
    BY <2>1, <2>3 DEF RunIs, SixOnes
  <2> QED
    BY <2>2, <2>3
<1>2. ASSUME r <= 5 PROVE RunIs(Right(h) \cup {7}, r + 1)
  <2>1. 6 - r \in 0..6 /\ 6 - r # 7 /\ (6 - r) + 1 = 7 - r /\ 7 - (r + 1) = 6 - r
    BY <1>2
  <2>2. 6 - r \notin Right(h) \cup {7}
    BY <2>1, RightByte DEF RunIs
  <2>3. ASSUME NEW k \in 0..7, k >= 8 - (r + 1), k # 7 PROVE k \in Right(h)
    <3>1. k \in 0..6 /\ k + 1 \in 0..7 /\ k + 1 >= 8 - r
      BY <2>3
    <3> QED
      BY <3>1, RightByte DEF RunIs
  <2> QED
    BY <2>1, <2>2, <2>3 DEF RunIs
<1>3. RunIs(Right(h), 0)
  BY RightByte DEF RunIs
<1> QED
  BY <1>1, <1>2, <1>3

(* An empty history ends no run of ones.                                   *)
LEMMA NoRun == RunIs({}, 0)
  BY DEF RunIs

(* Nor does one whose newest bit was made a zero.                          *)
LEMMA RunEnds ==
  ASSUME NEW h \in SUBSET (0..7)
  PROVE  RunIs(h \ {7}, 0)
  BY DEF RunIs

-----------------------------------------------------------------------------
(* The packet and the line.                                                *)

(* The body of a packet is its pid, two nibbles of which one is the        *)
(* complement of the other, and bytes.                                     *)
LEMMA BodyIs ==
  ASSUME BitsInit
  PROVE  /\ body \in Seq(SUBSET (0..7)) /\ Len(body) >= 1
         /\ \A k \in 0..3 : k + 4 \in body[1] <=> k \notin body[1]
<1>1. PICK n \in 0..MaxData : payload \in [1..n -> Bytes]
  BY DEF BitsInit
<1>2. payload \in Seq(SUBSET (0..7))
  <2>1. Bytes \subseteq SUBSET (0..7) /\ n \in Nat
    BY BitsAssumption
  <2>2. payload \in [1..n -> SUBSET (0..7)]
    BY <1>1, <2>1
  <2> QED
    BY <2>1, <2>2, SeqDef
<1>3. PICK pid \in Pids : body = <<pid>> \o usbCrc16Append(payload)
  BY DEF BitsInit
<1>4. pid \in SUBSET (0..7) /\ \A k \in 0..3 : k + 4 \in pid <=> k \notin pid
  BY BitsAssumption
<1>5. PICK low \in SUBSET (0..7), high \in SUBSET (0..7) :
        usbCrc16Append(payload) = payload \o <<low, high>>
  <2> DEFINE l == {k \in 0..7 : k \in usbCrc16(payload)}
             h == {k \in 0..7 : k + 8 \in usbCrc16(payload)}
  <2>1. l \in SUBSET (0..7) /\ h \in SUBSET (0..7)
    OBVIOUS
  <2>2. usbCrc16Append(payload) = payload \o <<l, h>>
    BY Zenon DEF usbCrc16Append
  <2> HIDE DEF l, h
  <2> QED
    BY <2>1, <2>2
<1>6. <<low, high>> \in Seq(SUBSET (0..7)) /\ <<pid>> \in Seq(SUBSET (0..7)) /\ Len(<<pid>>) = 1
  BY <1>4
<1>7. payload \o <<low, high>> \in Seq(SUBSET (0..7))
  BY <1>2, <1>6, ConcatProperties
<1> DEFINE rest == payload \o <<low, high>>
<1>8. rest \in Seq(SUBSET (0..7)) /\ body = <<pid>> \o rest
  BY <1>3, <1>5, <1>7
<1> HIDE DEF rest
<1>9. /\ <<pid>> \o rest \in Seq(SUBSET (0..7)) /\ Len(<<pid>> \o rest) = Len(<<pid>>) + Len(rest)
      /\ \A k \in 1..(Len(<<pid>>) + Len(rest)) :
           (<<pid>> \o rest)[k] = IF k <= Len(<<pid>>) THEN <<pid>>[k] ELSE rest[k - Len(<<pid>>)]
  BY <1>6, <1>8, ConcatProperties, ZenonT(60)
<1>10. Len(rest) \in Nat
  BY <1>8
<1>11. Len(body) >= 1 /\ body[1] = pid
  BY <1>6, <1>8, <1>9, <1>10
<1> QED
  BY <1>4, <1>8, <1>9, <1>11

(* What is sent: the sync byte, then the packet.                           *)
LEMMA OutgoingIs ==
  ASSUME body \in Seq(SUBSET (0..7))
  PROVE  /\ Outgoing \in Seq(SUBSET (0..7)) /\ Len(Outgoing) = Len(body) + 1
         /\ Outgoing[1] = {7} /\ \A k \in 1..Len(body) : Outgoing[k + 1] = body[k]
<1>1. <<{7}>> \in Seq(SUBSET (0..7)) /\ Len(<<{7}>>) = 1 /\ <<{7}>>[1] = {7}
  <2>1. {7} \in SUBSET (0..7)
    OBVIOUS
  <2> QED
    BY <2>1
<1> DEFINE sync == <<{7}>>
<1>2. sync \in Seq(SUBSET (0..7)) /\ Len(sync) = 1 /\ sync[1] = {7} /\ Outgoing = sync \o body
  BY <1>1 DEF Outgoing
<1> HIDE DEF sync
<1>3. /\ Outgoing \in Seq(SUBSET (0..7)) /\ Len(Outgoing) = Len(sync) + Len(body)
      /\ \A k \in 1..(Len(sync) + Len(body)) :
           Outgoing[k] = IF k <= Len(sync) THEN sync[k] ELSE body[k - Len(sync)]
  <2>1. /\ sync \o body \in Seq(SUBSET (0..7)) /\ Len(sync \o body) = Len(sync) + Len(body)
        /\ \A k \in 1..(Len(sync) + Len(body)) :
             (sync \o body)[k] = IF k <= Len(sync) THEN sync[k] ELSE body[k - Len(sync)]
    BY <1>2, ConcatProperties, ZenonT(60)
  <2> QED
    BY <1>2, <2>1, Zenon
<1>4. Len(body) \in Nat
  OBVIOUS
<1>5. /\ Outgoing \in Seq(SUBSET (0..7)) /\ Len(Outgoing) = Len(body) + 1
      /\ \A k \in 1..(1 + Len(body)) : Outgoing[k] = IF k <= 1 THEN sync[1] ELSE body[k - 1]
  <2>1. Len(sync) = 1
    BY <1>2
  <2>2. \A k \in 1..(1 + Len(body)) : k <= 1 => k = 1
    OBVIOUS
  <2> QED
    BY <1>3, <1>4, <2>1, <2>2
<1>6. \A k \in 1..Len(body) : k + 1 \in 1..(1 + Len(body)) /\ ~(k + 1 <= 1) /\ (k + 1) - 1 = k
  BY <1>4
<1> QED
  BY <1>2, <1>4, <1>5, <1>6

(* The bits of the sync byte, of the packet identifier and of a byte.      *)
LEMMA BitsAre ==
  ASSUME BitsType
  PROVE  /\ \A i \in 0..6 : ~BitAt(i)
         /\ BitAt(7)
         /\ BitAt(12) <=> ~BitAt(8)
         /\ BitAt(13) <=> ~BitAt(9)
         /\ \A n \in 1..Len(body), k \in 0..7 : BitAt(8 * n + k) <=> k \in body[n]
<1>1. body \in Seq(SUBSET (0..7)) /\ Len(body) >= 1 /\ Len(body) \in Nat
  BY DEF BitsType
<1>2. \A n \in 1..Len(body), k \in 0..7 : BitAt(8 * n + k) <=> k \in body[n]
  <2> SUFFICES ASSUME NEW n \in 1..Len(body), NEW k \in 0..7
               PROVE  BitAt(8 * n + k) <=> k \in body[n]
    OBVIOUS
  <2>1. (8 * n + k) % 8 = k /\ (8 * n + k) \div 8 = n
    OBVIOUS
  <2> QED
    BY <1>1, <2>1, OutgoingIs DEF BitAt
<1>3. ASSUME NEW i \in 0..7 PROVE BitAt(i) <=> i = 7
  <2>1. i % 8 = i /\ i \div 8 = 0
    OBVIOUS
  <2> QED
    BY <1>1, <2>1, OutgoingIs DEF BitAt
<1>4. \A k \in 0..3 : k + 4 \in body[1] <=> k \notin body[1]
  BY DEF BitsType
<1>5. ASSUME NEW k \in 0..7 PROVE BitAt(8 * 1 + k) <=> k \in body[1]
  <2>1. 1 \in 1..Len(body)
    BY <1>1
  <2> QED
    BY <1>2, <2>1
<1>6. (BitAt(8 * 1 + 0) <=> 0 \in body[1]) /\ (BitAt(8 * 1 + 1) <=> 1 \in body[1])
  <2>1. 0 \in 0..7 /\ 1 \in 0..7
    OBVIOUS
  <2> QED
    BY <1>5, <2>1, Zenon
<1>7. (BitAt(8 * 1 + 4) <=> 4 \in body[1]) /\ (BitAt(8 * 1 + 5) <=> 5 \in body[1])
  <2>1. 4 \in 0..7 /\ 5 \in 0..7
    OBVIOUS
  <2> QED
    BY <1>5, <2>1, Zenon
<1>9. (4 \in body[1] <=> 0 \notin body[1]) /\ (5 \in body[1] <=> 1 \notin body[1])
  <2>1. (0 + 4 \in body[1] <=> 0 \notin body[1]) /\ (1 + 4 \in body[1] <=> 1 \notin body[1])
    BY <1>4
  <2> QED
    BY <2>1
<1>10. 8 * 1 + 0 = 8 /\ 8 * 1 + 1 = 9 /\ 8 * 1 + 4 = 12 /\ 8 * 1 + 5 = 13
  OBVIOUS
<1>11. (BitAt(12) <=> ~BitAt(8)) /\ (BitAt(13) <=> ~BitAt(9))
  BY <1>6, <1>7, <1>9, <1>10
<1> QED
  BY <1>2, <1>3, <1>11

(* The levels are J and K up to the two SE0 that end the packet.           *)
LEMMA LevelsAre ==
  ASSUME BitsType
  PROVE  /\ Len(line) \in Nat /\ Width \in Nat /\ Width <= Len(line)
         /\ at = "send" => Width = Len(line)
         /\ at # "send" => /\ Width = Len(line) - 2
                           /\ Lev(line, Width + 1) = "SE0" /\ Lev(line, Width + 2) = "SE0"
         /\ \A k \in 0..Width : Lev(line, k) \in {"J", "K"}
         /\ \A k \in 1..Len(line) : Lev(line, k) = line[k]
         /\ Level = Lev(line, Len(line))
<1>1. line \in Seq({"J", "K", "SE0"}) /\ Len(line) \in Nat
  BY DEF BitsType
<1>2. /\ Width \in Nat /\ Width <= Len(line) /\ (at = "send" => Width = Len(line))
      /\ at # "send" => Width = Len(line) - 2
  BY <1>1 DEF BitsType, Width
<1>3. \A k \in 0..Width : Lev(line, k) \in {"J", "K"}
  BY <1>1, <1>2 DEF BitsType, Lev
<1>4. at # "send" => Lev(line, Width + 1) = "SE0" /\ Lev(line, Width + 2) = "SE0"
  BY <1>1, <1>2 DEF BitsType, Lev
<1>5. \A k \in 1..Len(line) : Lev(line, k) = line[k]
  BY DEF Lev
<1>6. Level = Lev(line, Len(line))
  <2>1. CASE line = <<>>
    BY <2>1 DEF Level, Lev
  <2>2. CASE line # <<>>
    <3>1. Len(line) # 0
      BY <1>1, <2>2, EmptySeq
    <3> QED
      BY <2>2, <3>1 DEF Level, Lev
  <2> QED
    BY <2>1, <2>2
<1> QED
  BY <1>1, <1>2, <1>3, <1>4, <1>5, <1>6

(* Toggle returns the other level.                                         *)
LEMMA Toggled ==
  /\ \A l : Toggle(l) \in {"J", "K"}
  /\ \A l \in {"J", "K"} : Toggle(l) # l
  BY DEF Toggle

(* One more level.                                                         *)
LEMMA Appended ==
  ASSUME BitsType, at = "send", at' = at, NEW l \in {"J", "K"}, line' = Append(line, l)
  PROVE  /\ line' \in Seq({"J", "K", "SE0"}) /\ Len(line)' = Len(line) + 1
         /\ Width' = Width + 1 /\ \A k \in 1..Width' : line'[k] \in {"J", "K"}
         /\ \A k \in 0..Len(line) : Lev(line', k) = Lev(line, k)
         /\ Lev(line', Len(line')) = l /\ Level' = l
         /\ Width = Len(line)
<1>1. line \in Seq({"J", "K", "SE0"}) /\ Len(line) \in Nat /\ Width = Len(line)
  BY LevelsAre DEF BitsType
<1>2. /\ line' \in Seq({"J", "K", "SE0"}) /\ Len(line)' = Len(line) + 1
      /\ \A k \in 1..Len(line) : line'[k] = line[k]
      /\ line'[Len(line) + 1] = l
  BY <1>1
<1>3. Width' = Width + 1
  BY <1>1, <1>2 DEF Width
<1>4. \A k \in 1..Width : line[k] \in {"J", "K"}
  BY DEF BitsType
<1>5. \A k \in 1..Width' : line'[k] \in {"J", "K"}
  <2> SUFFICES ASSUME NEW k \in 1..(Len(line) + 1) PROVE line'[k] \in {"J", "K"}
    BY <1>1, <1>3
  <2>1. CASE k = Len(line) + 1
    BY <1>2, <2>1
  <2>2. CASE k \in 1..Len(line)
    BY <1>1, <1>2, <1>4, <2>2
  <2> QED
    BY <1>1, <2>1, <2>2
<1>6. \A k \in 0..Len(line) : Lev(line', k) = Lev(line, k)
  BY <1>1, <1>2 DEF Lev
<1>7. Lev(line', Len(line')) = l
  BY <1>1, <1>2 DEF Lev
<1>8. Level' = l
  <2>1. Len(line') # 0 /\ Len(line') = Len(line) + 1
    BY <1>1, <1>2
  <2>2. line' # <<>>
    BY <1>2, <2>1, EmptySeq
  <2> QED
    BY <1>2, <2>1, <2>2 DEF Level
<1> QED
  BY <1>1, <1>2, <1>3, <1>5, <1>6, <1>7, <1>8

(* SE0 for two bits.                                                       *)
LEMMA Ended ==
  ASSUME BitsType, EndOfPacket
  PROVE  /\ line' \in Seq({"J", "K", "SE0"}) /\ Len(line)' = Len(line) + 2
         /\ Width' = Width /\ Width = Len(line)
         /\ \A k \in 0..Len(line) : Lev(line', k) = Lev(line, k)
         /\ \A k \in 1..Len(line) : line'[k] = line[k]
         /\ line'[Len(line) + 1] = "SE0" /\ line'[Len(line) + 2] = "SE0"
<1>1. line \in Seq({"J", "K", "SE0"}) /\ Len(line) \in Nat /\ Width = Len(line)
  BY LevelsAre DEF BitsType, EndOfPacket
<1> DEFINE tail == <<"SE0", "SE0">>
<1>2. tail \in Seq({"J", "K", "SE0"}) /\ Len(tail) = 2 /\ tail[1] = "SE0" /\ tail[2] = "SE0"
  OBVIOUS
<1>3. line' = line \o tail /\ at' = "receive"
  BY DEF EndOfPacket
<1> HIDE DEF tail
<1>4. /\ line \o tail \in Seq({"J", "K", "SE0"}) /\ Len(line \o tail) = Len(line) + Len(tail)
      /\ \A k \in 1..(Len(line) + Len(tail)) :
           (line \o tail)[k] = IF k <= Len(line) THEN line[k] ELSE tail[k - Len(line)]
  BY <1>1, <1>2, ConcatProperties, Zenon
<1>5. /\ line' \in Seq({"J", "K", "SE0"}) /\ Len(line') = Len(line) + Len(tail)
      /\ \A k \in 1..(Len(line) + Len(tail)) :
           line'[k] = IF k <= Len(line) THEN line[k] ELSE tail[k - Len(line)]
  BY <1>3, <1>4, Zenon
<1>6. Len(line') = Len(line) + 2 /\ \A k \in 1..Len(line) : line'[k] = line[k]
  BY <1>1, <1>2, <1>5
<1>7. line'[Len(line) + 1] = "SE0" /\ line'[Len(line) + 2] = "SE0"
  <2>1. /\ Len(line) + 1 \in 1..(Len(line) + 2) /\ Len(line) + 2 \in 1..(Len(line) + 2)
        /\ ~(Len(line) + 1 <= Len(line)) /\ ~(Len(line) + 2 <= Len(line))
        /\ (Len(line) + 1) - Len(line) = 1 /\ (Len(line) + 2) - Len(line) = 2
    BY <1>1
  <2> QED
    BY <1>2, <1>5, <2>1
<1>8. \A k \in 0..Len(line) : Lev(line', k) = Lev(line, k)
  BY <1>1, <1>6 DEF Lev
<1>9. Width' = Width
  BY <1>1, <1>3, <1>6 DEF Width
<1> QED
  BY <1>1, <1>5, <1>6, <1>7, <1>8, <1>9

-----------------------------------------------------------------------------
(* Types.                                                                  *)

(* The steps keep the types: first what is true at the start.              *)
LEMMA TypeStarts ==
  ASSUME BitsInit PROVE BitsType /\ Fresh
<1>1. Len(Outgoing) \in Nat
  BY BodyIs, OutgoingIs
<1>2. /\ at = "send" /\ line = <<>> /\ sent = 0 /\ x2 \in SUBSET (0..7)
      /\ shift = {} /\ x3 = {4} /\ last = "K" /\ bit = 0 /\ sample = 1
      /\ cnt = BufSize /\ stored = <<>> /\ BufSize \in Nat
  BY BitsAssumption DEF BitsInit
<1>3. Width = 0
  BY <1>2 DEF Width
<1> QED
  BY <1>1, <1>2, <1>3, BodyIs DEF BitsType, Fresh

(* What the transmitter's steps leave alone.                               *)
LEMMA TransmitterType ==
  ASSUME BitsType, UNCHANGED body, ReceiverIdle
  PROVE  /\ body' \in Seq(SUBSET (0..7)) /\ Len(body)' >= 1
         /\ \A k \in 0..3 : k + 4 \in body'[1] <=> k \notin body'[1]
         /\ Outgoing' = Outgoing
         /\ shift' \in SUBSET (0..7) /\ x3' \in SUBSET (0..7)
         /\ last' \in {"J", "K", "SE0"} /\ bit' \in 0..7 /\ sample' \in Nat
         /\ stored' \in Seq(SUBSET (0..7))
         /\ cnt' \in Nat /\ cnt' = BufSize - Len(stored') - (IF bit' = 7 THEN 1 ELSE 0)
  BY DEF BitsType, ReceiverIdle, Outgoing

(* txBitLoop keeps the types.                                              *)
LEMMA SendType ==
  ASSUME BitsType, SendBit PROVE BitsType'
<1> DEFINE l == IF NextBit THEN Level ELSE Toggle(Level)
<1>1. l \in {"J", "K"}
  <2>1. Level \in {"J", "K"}
    BY LevelsAre DEF SendBit
  <2> QED
    BY <2>1, Toggled
<1>2. line' = Append(line, l) /\ at = "send" /\ at' = at /\ sent' = sent + 1
      /\ sent < 8 * Len(Outgoing)
  BY DEF SendBit
<1>3. x2' \in SUBSET (0..7)
  <2>1. x2' = Right(x2) \cup (IF NextBit THEN {7} ELSE {}) /\ x2 \in SUBSET (0..7)
    BY DEF SendBit, BitsType
  <2> QED
    BY <2>1, RightByte
<1> HIDE DEF l
<1>4. /\ line' \in Seq({"J", "K", "SE0"}) /\ \A k \in 1..Width' : line'[k] \in {"J", "K"}
  BY <1>1, <1>2, Appended
<1>5. UNCHANGED body /\ ReceiverIdle
  BY DEF SendBit
<1>6. sent' \in 0..(8 * Len(Outgoing)) /\ at' = "send"
  BY <1>2, OutgoingIs DEF BitsType
<1> QED
  BY <1>3, <1>4, <1>5, <1>6, TransmitterType DEF BitsType

(* So does the stuffed bit.                                                *)
LEMMA StuffType ==
  ASSUME BitsType, StuffBit PROVE BitsType'
<1> DEFINE l == Toggle(Level)
<1>1. l \in {"J", "K"}
  BY Toggled
<1>2. line' = Append(line, l) /\ at = "send" /\ at' = at /\ sent' = sent /\ x2' = {}
  BY DEF StuffBit
<1> HIDE DEF l
<1>4. /\ line' \in Seq({"J", "K", "SE0"}) /\ \A k \in 1..Width' : line'[k] \in {"J", "K"}
  BY <1>1, <1>2, Appended
<1>5. UNCHANGED body /\ ReceiverIdle
  BY DEF StuffBit
<1>6. sent' \in 0..(8 * Len(Outgoing)) /\ at' = "send" /\ x2' \in SUBSET (0..7)
  BY <1>2 DEF BitsType
<1> QED
  BY <1>4, <1>5, <1>6, TransmitterType DEF BitsType

(* So does the end of the packet.                                          *)
LEMMA EndType ==
  ASSUME BitsType, EndOfPacket PROVE BitsType'
<1>1. at = "send" /\ at' = "receive" /\ sent' = sent /\ x2' = x2 /\ sent >= 8
  BY DEF EndOfPacket
<1>2. UNCHANGED body /\ ReceiverIdle
  BY DEF EndOfPacket
<1>3. sent' \in 0..(8 * Len(Outgoing)) /\ sent' >= 8 /\ x2' \in SUBSET (0..7)
  BY <1>1 DEF BitsType
<1>4. Width' = Len(line) /\ Len(line) \in Nat /\ Width = Len(line)
  BY Ended, LevelsAre
<1>5. /\ line' \in Seq({"J", "K", "SE0"}) /\ Len(line)' >= 2
      /\ line'[Width' + 1] = "SE0" /\ line'[Width' + 2] = "SE0"
  BY <1>4, Ended
<1>6. \A k \in 1..Width' : line'[k] \in {"J", "K"}
  BY <1>4, Ended DEF BitsType
<1> QED
  BY <1>1, <1>2, <1>3, <1>5, <1>6, TransmitterType DEF BitsType

(* What the receiver's steps leave alone.                                  *)
LEMMA ReceiverType ==
  ASSUME BitsType, TransmitterIdle, at = "receive", at' \in {"receive", "done", "overflow"}
  PROVE  /\ body' \in Seq(SUBSET (0..7)) /\ Len(body)' >= 1
         /\ \A k \in 0..3 : k + 4 \in body'[1] <=> k \notin body'[1]
         /\ line' \in Seq({"J", "K", "SE0"}) /\ sent' \in 0..(8 * Len(Outgoing'))
         /\ Outgoing' = Outgoing /\ Width' = Width /\ line' = line /\ sent' = sent
         /\ \A k \in 1..Width' : line'[k] \in {"J", "K"}
         /\ sent' >= 8 /\ Len(line') >= 2
         /\ line'[Width' + 1] = "SE0" /\ line'[Width' + 2] = "SE0"
         /\ x2' \in SUBSET (0..7)
<1>1. body' = body /\ line' = line /\ sent' = sent /\ x2' = x2
  BY DEF TransmitterIdle
<1>2. Width' = Width
  BY <1>1 DEF Width
<1>3. Outgoing' = Outgoing
  BY <1>1 DEF Outgoing
<1> QED
  BY <1>1, <1>2, <1>3 DEF BitsType

(* The receiver's registers are bytes.                                     *)
LEMMA ShiftedType ==
  ASSUME BitsType
  PROVE  Shifted \in SUBSET (0..7) /\ Marks \in SUBSET (0..7)
<1>1. Shifted \in SUBSET (0..7)
  BY RightByte DEF BitsType, Shifted
<1>2. Mark(bit) \in 0..7
  BY DEF Mark
<1> DEFINE set == IF Unstuffs THEN {Mark(bit)} ELSE {}
<1>3. set \in SUBSET (0..7)
  BY <1>2
<1>4. Marks = IF bit \in {0, 2, 4} /\ ~First THEN Right(Right((x3 \ {6, 7}) \cup set))
              ELSE x3 \cup set
  BY DEF Marks
<1> HIDE DEF set
<1>5. x3 \cup set \in SUBSET (0..7) /\ (x3 \ {6, 7}) \cup set \in SUBSET (0..7)
  BY <1>3 DEF BitsType
<1>6. Right(Right((x3 \ {6, 7}) \cup set)) \in SUBSET (0..7)
  <2>1. Right((x3 \ {6, 7}) \cup set) \in SUBSET (0..7)
    BY <1>5, RightByte
  <2> QED
    BY <2>1, RightByte
<1> QED
  BY <1>1, <1>4, <1>5, <1>6

(* A bit received keeps the types: cnt is never taken below zero, for bit  *)
(* 6 is refused when there is no room.                                     *)
LEMMA ReceiveBitType ==
  ASSUME BitsType, ReceiveBit PROVE BitsType'
<1>1. /\ at = "receive" /\ at' = at /\ TransmitterIdle /\ ~(bit = 6 /\ NoRoom)
      /\ shift' = (IF Unstuffs THEN Shifted \ {7} ELSE Shifted)
      /\ last' = LevelAt(IF Unstuffs THEN sample + 1 ELSE sample)
      /\ sample' = sample + (IF Unstuffs THEN 2 ELSE 1)
      /\ bit' = (bit + 1) % 8 /\ cnt' = (IF bit = 6 THEN cnt - 1 ELSE cnt)
  BY DEF ReceiveBit
<1>2. shift' \in SUBSET (0..7)
  BY <1>1, ShiftedType
<1>3. \A n \in Nat : LevelAt(n) \in {"J", "K", "SE0"}
  BY DEF BitsType, LevelAt
<1>4. last' \in {"J", "K", "SE0"}
  <2>1. sample \in Nat /\ sample + 1 \in Nat
    BY DEF BitsType
  <2> QED
    BY <1>1, <1>3, <2>1
<1>5. sample' \in Nat /\ bit' \in 0..7
  BY <1>1 DEF BitsType
<1>6. x3' \in SUBSET (0..7) /\ stored' \in Seq(SUBSET (0..7))
      /\ Len(stored') = (IF bit = 7 THEN Len(stored) + 1 ELSE Len(stored))
  <2>1. stored \in Seq(SUBSET (0..7))
    BY DEF BitsType
  <2>2. CASE bit = 7
    <3>1. x3' = Xor(Marks, shift') /\ stored' = Append(stored, x3')
      BY <2>2 DEF ReceiveBit
    <3>2. x3' \in SUBSET (0..7)
      BY <1>2, <3>1, ShiftedType DEF Xor
    <3> QED
      BY <2>1, <2>2, <3>1, <3>2
  <2>3. CASE bit # 7
    BY <2>1, <2>3, ShiftedType DEF ReceiveBit
  <2> QED
    BY <2>2, <2>3
<1>7. cnt' \in Nat /\ cnt' = BufSize - Len(stored') - (IF bit' = 7 THEN 1 ELSE 0)
  <2>1. /\ Len(stored) \in Nat /\ cnt \in Nat /\ bit \in 0..7 /\ BufSize \in Nat
        /\ cnt = BufSize - Len(stored) - (IF bit = 7 THEN 1 ELSE 0)
        /\ bit = 6 => cnt # 0
    BY <1>1, BitsAssumption DEF BitsType, NoRoom
  <2>2. bit' = 7 <=> bit = 6
    BY <1>1, <2>1
  <2>3. Len(stored') = Len(stored) + (IF bit = 7 THEN 1 ELSE 0)
    BY <1>6, <2>1
  <2>4. cnt' = cnt - (IF bit = 6 THEN 1 ELSE 0)
    BY <1>1, <2>1
  <2> DEFINE n == Len(stored)
             m == Len(stored')
  <2>5. /\ n \in Nat /\ cnt = BufSize - n - (IF bit = 7 THEN 1 ELSE 0)
        /\ m = n + (IF bit = 7 THEN 1 ELSE 0)
    BY <2>1, <2>3
  <2> HIDE DEF n, m
  <2>6. cnt' \in Nat /\ cnt' = BufSize - m - (IF bit' = 7 THEN 1 ELSE 0)
    <3>1. CASE bit = 6
      BY <2>1, <2>2, <2>4, <2>5, <3>1
    <3>2. CASE bit = 7
      BY <2>1, <2>2, <2>4, <2>5, <3>2
    <3>3. CASE bit # 6 /\ bit # 7
      BY <2>1, <2>2, <2>4, <2>5, <3>3
    <3> QED
      BY <3>1, <3>2, <3>3
  <2> QED
    BY <2>6 DEF m
<1> QED
  BY <1>1, <1>2, <1>4, <1>5, <1>6, <1>7, ReceiverType DEF BitsType

(* So does the end of the reception.                                       *)
LEMMA LeaveType ==
  ASSUME BitsType, NEW how \in {"done", "overflow"}, Leave(how) PROVE BitsType'
<1>1. /\ at = "receive" /\ at' = how /\ TransmitterIdle
      /\ shift' = shift /\ x3' = x3 /\ last' = last /\ bit' = bit /\ sample' = sample
      /\ cnt' = cnt /\ stored' = stored
  BY DEF Leave
<1> QED
  BY <1>1, ReceiverType DEF BitsType

-----------------------------------------------------------------------------
(* The line toggles.                                                       *)

(* The level before the first one put in front of those sent.              *)
LEMMA LevelsIndexed ==
  ASSUME NEW s \in Seq({"J", "K", "SE0"})
  PROVE  /\ Len(<<"J">> \o s) = Len(s) + 1
         /\ \A k \in 1..(Len(s) + 1) :
              (<<"J">> \o s)[k] = IF k - 1 = 0 THEN "J" ELSE s[k - 1]
<1> DEFINE j == <<"J">>
<1>1. j \in Seq({"J", "K", "SE0"}) /\ Len(j) = 1 /\ j[1] = "J"
  OBVIOUS
<1> HIDE DEF j
<1>2. /\ Len(j \o s) = Len(j) + Len(s)
      /\ \A k \in 1..(Len(j) + Len(s)) : (j \o s)[k] = IF k <= Len(j) THEN j[k] ELSE s[k - Len(j)]
  BY <1>1, ConcatProperties, Zenon
<1> DEFINE t == j \o s
<1>3. /\ Len(t) = Len(j) + Len(s)
      /\ \A k \in 1..(Len(j) + Len(s)) : t[k] = IF k <= Len(j) THEN j[k] ELSE s[k - Len(j)]
  BY <1>2
<1> HIDE DEF t
<1>4. Len(t) = Len(s) + 1 /\ \A k \in 1..(Len(s) + 1) : t[k] = IF k - 1 = 0 THEN "J" ELSE s[k - 1]
  <2>1. Len(s) \in Nat
    OBVIOUS
  <2>2. \A k \in 1..(Len(s) + 1) : k <= 1 <=> k = 1
    OBVIOUS
  <2> QED
    BY <1>1, <1>3, <2>1, <2>2
<1> QED
  BY <1>4 DEF t, j

(* Any eight levels in a row, numbered from the idle line on.              *)
LEMMA TogglesIs ==
  ASSUME NEW s \in Seq({"J", "K", "SE0"})
  PROVE  (LET levels == <<"J">> \o s IN
            \A i \in 1..(Len(levels) - 7) : \E j \in 1..7 : levels[i + j] # levels[i])
         <=> \A i \in 0..(Len(s) - 7) : \E j \in 1..7 :
               s[i + j] # IF i = 0 THEN "J" ELSE s[i]
<1> DEFINE levels == <<"J">> \o s
<1>1. /\ Len(levels) = Len(s) + 1 /\ Len(s) \in Nat
      /\ \A k \in 1..(Len(s) + 1) : levels[k] = IF k - 1 = 0 THEN "J" ELSE s[k - 1]
  BY LevelsIndexed
<1> HIDE DEF levels
<1>2. ASSUME \A i \in 1..(Len(levels) - 7) : \E j \in 1..7 : levels[i + j] # levels[i],
             NEW i \in 0..(Len(s) - 7)
      PROVE  \E j \in 1..7 : s[i + j] # IF i = 0 THEN "J" ELSE s[i]
  <2>1. i + 1 \in 1..(Len(levels) - 7)
    BY <1>1
  <2>2. PICK j \in 1..7 : levels[(i + 1) + j] # levels[i + 1]
    BY <1>2, <2>1
  <2>3. levels[(i + 1) + j] = s[i + j] /\ levels[i + 1] = IF i = 0 THEN "J" ELSE s[i]
    BY <1>1
  <2> QED
    BY <2>2, <2>3
<1>3. ASSUME \A i \in 0..(Len(s) - 7) : \E j \in 1..7 : s[i + j] # IF i = 0 THEN "J" ELSE s[i],
             NEW i \in 1..(Len(levels) - 7)
      PROVE  \E j \in 1..7 : levels[i + j] # levels[i]
  <2>1. i - 1 \in 0..(Len(s) - 7)
    BY <1>1
  <2>2. PICK j \in 1..7 : s[(i - 1) + j] # IF i - 1 = 0 THEN "J" ELSE s[i - 1]
    BY <1>3, <2>1
  <2>3. /\ i \in 1..(Len(s) + 1) /\ i + j \in 1..(Len(s) + 1)
        /\ (i + j) - 1 # 0 /\ (i + j) - 1 = (i - 1) + j
    BY <1>1
  <2>4. levels[i + j] = s[(i - 1) + j] /\ levels[i] = IF i - 1 = 0 THEN "J" ELSE s[i - 1]
    BY <1>1, <2>3
  <2> QED
    BY <2>2, <2>4
<1> QED
  BY <1>2, <1>3 DEF levels

(* Toggles without the shift of the indexes.                               *)
LEMMA TogglesNow ==
  ASSUME BitsType
  PROVE  Toggles <=> \A i \in 0..(Len(line) - 7) : \E j \in 1..7 : Lev(line, i + j) # Lev(line, i)
<1>1. line \in Seq({"J", "K", "SE0"}) /\ Len(line) \in Nat
  BY DEF BitsType
<1>2. Toggles <=> \A i \in 0..(Len(line) - 7) : \E j \in 1..7 :
                    line[i + j] # IF i = 0 THEN "J" ELSE line[i]
  BY <1>1, TogglesIs, Zenon DEF Toggles
<1>3. \A i \in 0..(Len(line) - 7), j \in 1..7 : Lev(line, i + j) = line[i + j]
  BY <1>1 DEF Lev
<1> QED
  BY <1>2, <1>3 DEF Lev

(* The same in the next state.                                             *)
LEMMA TogglesThen ==
  ASSUME line' \in Seq({"J", "K", "SE0"})
  PROVE  Toggles' <=> \A i \in 0..(Len(line') - 7) :
                        \E j \in 1..7 : Lev(line', i + j) # Lev(line', i)
<1>2. Toggles' <=> \A i \in 0..(Len(line') - 7) : \E j \in 1..7 :
                    line'[i + j] # IF i = 0 THEN "J" ELSE line'[i]
  BY TogglesIs, Zenon DEF Toggles
<1>3. \A i \in 0..(Len(line') - 7), j \in 1..7 : Lev(line', i + j) = line'[i + j]
  BY DEF Lev
<1> QED
  BY <1>2, <1>3 DEF Lev

(* A level is added, and the last toggle was at most seven levels ago.     *)
LEMMA TogglesGrow ==
  ASSUME BitsType, Toggles, line' \in Seq({"J", "K", "SE0"}), Len(line') = Len(line) + 1,
         \A k \in 0..Len(line) : Lev(line', k) = Lev(line, k),
         NEW r \in 0..6, Len(line') > r, Lev(line', Len(line') - r) # Lev(line', Len(line') - r - 1)
  PROVE  Toggles'
<1> DEFINE n == Len(line)
<1>1. n \in Nat /\ Len(line') = n + 1
  BY DEF BitsType
<1>2. \A i \in 0..(n - 7) : \E j \in 1..7 : Lev(line, i + j) # Lev(line, i)
  BY TogglesNow
<1>3. \A k \in 0..n : Lev(line', k) = Lev(line, k)
  OBVIOUS
<1>4. (n + 1) - r >= 1 /\ Lev(line', (n + 1) - r) # Lev(line', (n + 1) - r - 1)
  BY <1>1
<1> HIDE DEF n
<1>5. ASSUME NEW i \in 0..((n + 1) - 7) PROVE \E j \in 1..7 : Lev(line', i + j) # Lev(line', i)
  <2>1. CASE i <= n - 7
    <3>1. i \in 0..(n - 7) /\ \A j \in 0..7 : i + j \in 0..n
      BY <1>1, <2>1
    <3>2. PICK j \in 1..7 : Lev(line, i + j) # Lev(line, i)
      BY <1>2, <3>1
    <3> QED
      BY <1>3, <3>1, <3>2
  <2>2. CASE i = (n + 1) - 7
    <3>1. (n + 1) - r = i + (7 - r) /\ (n + 1) - r - 1 = i + (6 - r) /\ 7 - r \in 1..7
      BY <1>1, <2>2
    <3>2. Lev(line', i + (7 - r)) # Lev(line', i + (6 - r))
      BY <1>4, <3>1
    <3>3. CASE Lev(line', i + (7 - r)) # Lev(line', i)
      BY <3>1, <3>3
    <3>4. CASE Lev(line', i + (7 - r)) = Lev(line', i)
      <4>1. Lev(line', i + (6 - r)) # Lev(line', i)
        BY <3>2, <3>4
      <4>2. 6 - r = 0 => i + (6 - r) = i
        BY <1>1
      <4>3. 6 - r \in 1..7
        BY <4>1, <4>2
      <4> QED
        BY <4>1, <4>3
    <3> QED
      BY <3>3, <3>4
  <2> QED
    BY <1>1, <2>1, <2>2
<1> QED
  BY <1>1, <1>5, TogglesThen

(* A level the transmitter adds: a toggle, or one more of a run of ones.   *)
LEMMA TogglesAdd ==
  ASSUME BitsType, TogglesInv, at = "send", at' = at, sent' >= 1,
         NEW l \in {"J", "K"}, line' = Append(line, l),
         NEW r \in 0..6, RunIs(x2', r),
         l = Level => r >= 1 /\ Len(line) > r - 1
                      /\ Lev(line, Len(line) - (r - 1)) # Lev(line, Len(line) - (r - 1) - 1),
         l # Level => r = 0
  PROVE  TogglesInv'
<1>1. /\ line' \in Seq({"J", "K", "SE0"}) /\ Len(line') = Len(line) + 1 /\ Len(line) \in Nat
      /\ \A k \in 0..Len(line) : Lev(line', k) = Lev(line, k)
      /\ Lev(line', Len(line')) = l /\ Level = Lev(line, Len(line))
  BY Appended, LevelsAre
<1>2. Len(line') > r /\ Lev(line', Len(line') - r) # Lev(line', Len(line') - r - 1)
  <2>1. CASE l = Level
    <3> DEFINE k == Len(line) - (r - 1)
    <3>1. /\ Len(line') - r = k /\ Len(line') - r - 1 = k - 1
          /\ k \in 0..Len(line) /\ k - 1 \in 0..Len(line) /\ Len(line') > r
      BY <1>1, <2>1
    <3>2. Lev(line, k) # Lev(line, k - 1)
      BY <2>1
    <3> HIDE DEF k
    <3> QED
      BY <1>1, <3>1, <3>2
  <2>2. CASE l # Level
    <3>1. r = 0 /\ Len(line') - r = Len(line') /\ Len(line') - r - 1 = Len(line) /\ Len(line') > r
      BY <1>1, <2>2
    <3>2. Lev(line', Len(line)) = Lev(line, Len(line))
      BY <1>1
    <3> QED
      BY <1>1, <2>2, <3>1, <3>2
  <2> QED
    BY <2>1, <2>2
<1>3. Toggles'
  BY <1>1, <1>2, TogglesGrow DEF TogglesInv
<1>4. at' = "send" /\ sent' > 0 =>
         \E q \in 0..6 : /\ RunIs(x2', q) /\ Len(line') > q
                         /\ Lev(line', Len(line') - q) # Lev(line', Len(line') - q - 1)
  BY <1>2
<1>5. sent' # 0
  OBVIOUS
<1> QED
  BY <1>3, <1>4, <1>5 DEF TogglesInv

(* A bit sent: a one makes the run of equal levels longer, and there are   *)
(* at most six ones; a zero toggles.                                       *)
LEMMA TogglesSend ==
  ASSUME BitsType, TogglesInv, SendBit PROVE TogglesInv'
<1> DEFINE l == IF NextBit THEN Level ELSE Toggle(Level)
<1>1. /\ line' = Append(line, l) /\ at = "send" /\ at' = at /\ sent' = sent + 1 /\ ~Stuffs
      /\ x2' = Right(x2) \cup (IF NextBit THEN {7} ELSE {})
  BY DEF SendBit
<1>2. Level \in {"J", "K"} /\ l \in {"J", "K"} /\ (l = Level <=> NextBit) /\ sent' >= 1
  <2>1. Level \in {"J", "K"}
    BY <1>1, LevelsAre
  <2>2. sent' >= 1
    BY <1>1 DEF BitsType
  <2> QED
    BY <2>1, <2>2, Toggled
<1>3. x2 \in SUBSET (0..7) /\ sent \in Nat
  BY DEF BitsType
<1> HIDE DEF l
<1>4. CASE NextBit
  <2>1. sent > 0
    <3>1. ~BitAt(0)
      BY BitsAre
    <3>2. NextBit <=> BitAt(sent)
      BY DEF NextBit, BitAt
    <3> QED
      BY <1>3, <1>4, <3>1, <3>2
  <2>2. PICK r \in 0..6 : /\ RunIs(x2, r) /\ Len(line) > r
                          /\ Lev(line, Len(line) - r) # Lev(line, Len(line) - r - 1)
    BY <1>1, <2>1 DEF TogglesInv
  <2>3. r <= 5
    <3>1. SixOnes(x2) <=> r = 6
      BY <1>3, <2>2, Runs
    <3>2. ~SixOnes(x2)
      BY <1>1, <2>1 DEF Stuffs
    <3> QED
      BY <3>1, <3>2
  <2>4. RunIs(x2', r + 1)
    BY <1>1, <1>3, <1>4, <2>2, <2>3, Runs
  <2> DEFINE s == r + 1
  <2>5. s \in 0..6 /\ s >= 1 /\ s - 1 = r /\ RunIs(x2', s)
    BY <2>3, <2>4
  <2> HIDE DEF s
  <2> QED
    BY <1>1, <1>2, <1>4, <2>2, <2>5, TogglesAdd
<1>5. CASE ~NextBit
  <2>1. RunIs(x2', 0)
    <3>1. x2' = Right(x2)
      BY <1>1, <1>5
    <3> QED
      BY <1>3, <3>1, RightByte DEF RunIs
  <2> DEFINE z == 0
  <2>2. z \in 0..6 /\ RunIs(x2', z) /\ z = 0
    BY <2>1
  <2> HIDE DEF z
  <2> QED
    BY <1>1, <1>2, <1>5, <2>2, TogglesAdd
<1> QED
  BY <1>4, <1>5

(* A stuffed bit toggles.                                                  *)
LEMMA TogglesStuff ==
  ASSUME BitsType, TogglesInv, StuffBit PROVE TogglesInv'
<1> DEFINE l == Toggle(Level)
           z == 0
<1>1. /\ line' = Append(line, l) /\ at = "send" /\ at' = at /\ sent' = sent /\ sent > 0 /\ x2' = {}
  BY DEF StuffBit, Stuffs
<1>2. l \in {"J", "K"} /\ l # Level /\ sent' >= 1
  <2>1. Level \in {"J", "K"} /\ sent \in Nat
    BY <1>1, LevelsAre DEF BitsType
  <2> QED
    BY <1>1, <2>1, Toggled
<1>3. z \in 0..6 /\ RunIs(x2', z) /\ z = 0
  BY <1>1, NoRun
<1> HIDE DEF l, z
<1> QED
  BY <1>1, <1>2, <1>3, TogglesAdd

(* SE0 is neither of the levels before it.                                 *)
LEMMA TogglesEnd ==
  ASSUME BitsType, TogglesInv, EndOfPacket PROVE TogglesInv'
<1> DEFINE n == Len(line)
<1>1. at = "send" /\ at' = "receive" /\ sent' = sent /\ sent >= 8
  BY DEF EndOfPacket
<1>2. /\ n \in Nat /\ line' \in Seq({"J", "K", "SE0"}) /\ Len(line') = n + 2
      /\ \A k \in 0..n : Lev(line', k) = Lev(line, k)
      /\ \A k \in 0..n : Lev(line, k) \in {"J", "K"}
  BY <1>1, Ended, LevelsAre
<1>3. Lev(line', n + 1) = "SE0" /\ Lev(line', n + 2) = "SE0"
  BY <1>2, Ended DEF Lev
<1>4. \A i \in 0..(n - 7) : \E j \in 1..7 : Lev(line, i + j) # Lev(line, i)
  BY TogglesNow DEF TogglesInv
<1> HIDE DEF n
<1>5. ASSUME NEW i \in 0..((n + 2) - 7) PROVE \E j \in 1..7 : Lev(line', i + j) # Lev(line', i)
  <2>1. CASE i <= n - 7
    <3>1. i \in 0..(n - 7) /\ \A j \in 0..7 : i + j \in 0..n
      BY <1>2, <2>1
    <3>2. PICK j \in 1..7 : Lev(line, i + j) # Lev(line, i)
      BY <1>4, <3>1
    <3>3. Lev(line', i) = Lev(line, i) /\ Lev(line', i + j) = Lev(line, i + j)
      BY <1>2, <3>1
    <3> QED
      BY <3>2, <3>3
  <2>2. CASE i = n - 6 \/ i = n - 5
    <3>1. i \in 0..n /\ (n + 1) - i \in 1..7 /\ i + ((n + 1) - i) = n + 1
      BY <1>2, <2>2
    <3>2. Lev(line', i) \in {"J", "K"} /\ Lev(line', i + ((n + 1) - i)) = "SE0"
      BY <1>2, <1>3, <3>1
    <3> QED
      BY <3>1, <3>2
  <2> QED
    BY <1>2, <2>1, <2>2
<1>6. Toggles'
  BY <1>2, <1>5, TogglesThen
<1> QED
  BY <1>1, <1>6 DEF TogglesInv, BitsType

-----------------------------------------------------------------------------
(* What is on the line.                                                    *)

(* The bits stuffed behind a run.                                          *)
LEMMA Extras ==
  ASSUME NEW r \in 0..6
  PROVE  /\ Extra(r) \in 0..1 /\ (Extra(r) = 1 <=> r = 6) /\ (r # 6 => Extra(r) = 0)
         /\ Counted(r) \in 0..5 /\ (r # 6 => Counted(r) = r) /\ (r = 6 => Counted(r) = 0)
  BY DEF Extra, Counted

(* Before the first bit the line has no level.                             *)
LEMMA WireStarts ==
  ASSUME BitsInit
  PROVE  \E P \in [0..sent -> Nat], R \in [0..sent -> 0..6] : Wire(P, R)
<1> DEFINE Z == [i \in 0..0 |-> 0]
<1>1. sent = 0 /\ at = "send" /\ line = <<>>
  BY DEF BitsInit
<1>2. Width = 0
  BY <1>1 DEF Width
<1>3. Z \in [0..0 -> Nat] /\ Z \in [0..0 -> 0..6] /\ Z[0] = 0
  OBVIOUS
<1> HIDE DEF Z
<1>4. Wire(Z, Z)
  BY <1>1, <1>2, <1>3 DEF Wire
<1> QED
  BY <1>1, <1>3, <1>4

(* The bits to send stay as they are.                                      *)
LEMMA SameBits ==
  ASSUME UNCHANGED body
  PROVE  \A i : BitAt(i)' <=> BitAt(i)
  BY DEF BitAt, Outgoing

(* The bits before the last one are on the line with their stuffed bits.   *)
LEMMA WireInside ==
  ASSUME BitsType, NEW P, NEW R, Wire(P, R), NEW i \in 0..(sent - 1)
  PROVE  /\ P[i] \in Nat /\ R[i] \in 0..6 /\ P[i + 1] \in Nat /\ R[i + 1] \in 0..6
         /\ P[i] + Extra(R[i]) < Width /\ P[i + 1] >= 1 /\ P[i + 1] <= Width
<1>1. sent \in Nat /\ i + 1 \in 0..sent /\ i \in 0..sent
  BY DEF BitsType
<1>2. P[i + 1] = P[i] + Extra(R[i]) + 1 /\ P[i + 1] <= Width
  BY <1>1 DEF Wire
<1>3. P[i] \in Nat /\ R[i] \in 0..6 /\ P[i + 1] \in Nat /\ R[i + 1] \in 0..6
  BY <1>1 DEF Wire
<1>4. Width \in Nat /\ Extra(R[i]) \in 0..1
  BY <1>3, Extras, LevelsAre
<1> QED
  BY <1>2, <1>3, <1>4

(* When nothing is to be stuffed, the run of ones in x2 is what is left of *)
(* the run behind the stuffed bit.                                         *)
LEMMA WireEven ==
  ASSUME BitsType, NEW P, NEW R, Wire(P, R), at = "send", ~Stuffs
  PROVE  /\ Width = P[sent] + Extra(R[sent]) /\ P[sent] \in Nat /\ R[sent] \in 0..6
         /\ sent > 0 => RunIs(x2, Counted(R[sent]))
<1>1. sent \in Nat /\ P[sent] \in Nat /\ R[sent] \in 0..6 /\ x2 \in SUBSET (0..7)
  BY DEF BitsType, Wire
<1>2. CASE Width = P[sent] + 1 /\ R[sent] = 6 /\ x2 = {}
  BY <1>1, <1>2, Extras, NoRun
<1>3. CASE Width = P[sent] /\ sent = 0
  <2>1. R[sent] = 0
    BY <1>3 DEF Wire
  <2> QED
    BY <1>1, <1>3, <2>1, Extras
<1>4. CASE Width = P[sent] /\ sent > 0 /\ RunIs(x2, R[sent])
  <2>1. SixOnes(x2) <=> R[sent] = 6
    BY <1>1, <1>4, Runs
  <2>2. R[sent] # 6
    BY <1>4, <2>1 DEF Stuffs
  <2> QED
    BY <1>1, <1>4, <2>2, Extras
<1> QED
  BY <1>1, <1>2, <1>3, <1>4 DEF Wire

(* A bit sent is one level more behind the bit before it and what was      *)
(* stuffed.                                                                *)
LEMMA WireSend ==
  ASSUME BitsType, NEW P, NEW R, Wire(P, R), SendBit
  PROVE  \E Q \in [0..sent' -> Nat], S \in [0..sent' -> 0..6] : Wire(Q, S)'
<1> DEFINE l == IF NextBit THEN Level ELSE Toggle(Level)
           w == Width
           n == sent
           r == IF BitAt(n) THEN Counted(R[n]) + 1 ELSE 0
<1>1. /\ line' = Append(line, l) /\ at = "send" /\ at' = "send" /\ sent' = n + 1 /\ ~Stuffs
      /\ x2' = Right(x2) \cup (IF NextBit THEN {7} ELSE {}) /\ UNCHANGED body
  BY DEF SendBit
<1>2. Level \in {"J", "K"} /\ l \in {"J", "K"} /\ (l = Level <=> NextBit)
  <2>1. Level \in {"J", "K"}
    BY <1>1, LevelsAre
  <2> QED
    BY <2>1, Toggled
<1>3. x2 \in SUBSET (0..7) /\ n \in Nat /\ (NextBit <=> BitAt(n))
  BY DEF BitsType, NextBit, BitAt
<1>4. /\ w = P[n] + Extra(R[n]) /\ P[n] \in Nat /\ R[n] \in 0..6 /\ w \in Nat
      /\ n > 0 => RunIs(x2, Counted(R[n]))
  BY <1>1, WireEven, LevelsAre
<1>5. r \in 0..6 /\ Counted(R[n]) \in 0..5
  BY <1>4, Extras
<1>6. /\ Width' = w + 1 /\ Level = Lev(line, w)
      /\ \A k \in 0..w : Lev(line', k) = Lev(line, k)
      /\ Lev(line', w + 1) = l
  <2>1. Len(line) = w /\ Len(line') = w + 1
    BY <1>1, <1>2, LevelsAre, Appended
  <2>2. Width' = w + 1
    BY <1>1, <1>2, Appended
  <2>3. Level = Lev(line, w)
    BY <2>1, LevelsAre
  <2>4. \A k \in 0..Len(line) : Lev(line', k) = Lev(line, k)
    BY <1>1, <1>2, Appended
  <2>5. Lev(line', Len(line')) = l
    BY <1>1, <1>2, Appended
  <2> QED
    BY <2>1, <2>2, <2>3, <2>4, <2>5
<1>7. RunIs(x2', r)
  <2>1. CASE BitAt(n)
    <3>1. n > 0
      <4>1. ~BitAt(0)
        BY BitsAre
      <4> QED
        BY <1>3, <2>1, <4>1
    <3>2. RunIs(x2, Counted(R[n])) /\ r = Counted(R[n]) + 1 /\ x2' = Right(x2) \cup {7}
      BY <1>1, <1>3, <1>4, <2>1, <3>1
    <3> QED
      BY <1>3, <1>5, <3>2, Runs
  <2>2. CASE ~BitAt(n)
    <3>1. r = 0 /\ x2' = Right(x2)
      BY <1>1, <1>3, <2>2
    <3> QED
      BY <1>3, <3>1, RightByte DEF RunIs
  <2> QED
    BY <2>1, <2>2
<1>8. P \in [0..n -> Nat] /\ R \in [0..n -> 0..6] /\ P[0] = 0 /\ R[0] = 0
  BY DEF Wire
<1>9. \A i \in 0..(n - 1) :
        /\ P[i + 1] = P[i] + Extra(R[i]) + 1
        /\ R[i + 1] = IF BitAt(i) THEN Counted(R[i]) + 1 ELSE 0
        /\ Lev(line, P[i + 1]) = Lev(line, P[i + 1] - 1) <=> BitAt(i)
  BY DEF Wire
<1>10. \A i \in 0..(n - 1) :
         /\ P[i] \in Nat /\ R[i] \in 0..6 /\ P[i + 1] \in Nat /\ R[i + 1] \in 0..6
         /\ P[i] + Extra(R[i]) < w /\ P[i + 1] >= 1 /\ P[i + 1] <= w
  BY WireInside
<1>11. \A i \in 0..n : R[i] = 6 /\ P[i] < w => Lev(line, P[i] + 1) # Lev(line, P[i])
  BY DEF Wire
<1>12. \A i : BitAt(i)' <=> BitAt(i)
  BY <1>1, SameBits
<1> HIDE DEF w, n, r, l
<1>13. PICK Q \in [0..(n + 1) -> Nat], S \in [0..(n + 1) -> 0..6] :
         /\ \A i \in 0..n : Q[i] = P[i] /\ S[i] = R[i]
         /\ Q[n + 1] = w + 1 /\ S[n + 1] = r
  <2> DEFINE F == [i \in 0..(n + 1) |-> IF i <= n THEN P[i] ELSE w + 1]
             G == [i \in 0..(n + 1) |-> IF i <= n THEN R[i] ELSE r]
  <2>1. \A i \in 0..(n + 1) : i <= n \/ i = n + 1
    BY <1>3
  <2>2. /\ F \in [0..(n + 1) -> Nat] /\ G \in [0..(n + 1) -> 0..6]
        /\ \A i \in 0..n : F[i] = P[i] /\ G[i] = R[i]
        /\ F[n + 1] = w + 1 /\ G[n + 1] = r
    BY <1>3, <1>4, <1>5, <1>8, <2>1
  <2> HIDE DEF F, G
  <2> QED
    BY <2>2
<1>14. Q[0] = 0 /\ S[0] = 0
  BY <1>3, <1>8, <1>13
<1>15. ASSUME NEW i \in 0..n
       PROVE  /\ Q[i + 1] = Q[i] + Extra(S[i]) + 1
              /\ S[i + 1] = IF BitAt(i)' THEN Counted(S[i]) + 1 ELSE 0
              /\ Lev(line', Q[i + 1]) = Lev(line', Q[i + 1] - 1) <=> BitAt(i)'
  <2>1. CASE i \in 0..(n - 1)
    <3>1. i + 1 \in 0..n /\ Q[i] = P[i] /\ Q[i + 1] = P[i + 1] /\ S[i] = R[i] /\ S[i + 1] = R[i + 1]
      BY <1>3, <1>13, <2>1
    <3>2. P[i + 1] \in 0..w /\ P[i + 1] - 1 \in 0..w
      BY <1>4, <1>10, <2>1
    <3>3. /\ Lev(line', P[i + 1]) = Lev(line, P[i + 1])
          /\ Lev(line', P[i + 1] - 1) = Lev(line, P[i + 1] - 1)
      BY <1>6, <3>2
    <3> QED
      BY <1>9, <1>12, <2>1, <3>1, <3>3
  <2>2. CASE i = n
    <3>1. Q[i] = P[n] /\ Q[i + 1] = w + 1 /\ S[i] = R[n] /\ S[i + 1] = r /\ (w + 1) - 1 = w
      BY <1>3, <1>4, <1>13, <2>2
    <3>2. Q[i + 1] = Q[i] + Extra(S[i]) + 1
      BY <1>4, <3>1
    <3>3. Lev(line', w) = Level /\ Lev(line', w + 1) = l
      BY <1>4, <1>6
    <3>4. Lev(line', Q[i + 1]) = Lev(line', Q[i + 1] - 1) <=> BitAt(i)'
      BY <1>2, <1>3, <1>12, <2>2, <3>1, <3>3
    <3>5. S[i + 1] = IF BitAt(i)' THEN Counted(S[i]) + 1 ELSE 0
      BY <1>12, <2>2, <3>1 DEF r
    <3> QED
      BY <3>2, <3>4, <3>5
  <2> QED
    BY <1>3, <2>1, <2>2
<1>16. ASSUME NEW i \in 0..(n + 1)
       PROVE  /\ Q[i] <= w + 1
              /\ S[i] = 6 /\ Q[i] < w + 1 => Lev(line', Q[i] + 1) # Lev(line', Q[i])
  <2>1. CASE i \in 0..n
    <3>1. Q[i] = P[i] /\ S[i] = R[i] /\ P[i] \in Nat
      BY <1>8, <1>13, <2>1
    <3>2. P[i] <= w
      <4>1. CASE i = n
        BY <1>4, <4>1, Extras
      <4>2. CASE i \in 0..(n - 1)
        <5>1. P[i] + Extra(R[i]) < w /\ R[i] \in 0..6 /\ P[i] \in Nat
          BY <1>10, <4>2
        <5>2. Extra(R[i]) \in 0..1
          BY <5>1, Extras
        <5> QED
          BY <1>4, <5>1, <5>2
      <4> QED
        BY <1>3, <2>1, <4>1, <4>2
    <3>3. R[i] = 6 => P[i] < w
      <4>1. CASE i = n
        BY <1>4, <4>1, Extras
      <4>2. CASE i \in 0..(n - 1)
        <5>1. P[i] + Extra(R[i]) < w /\ R[i] \in 0..6 /\ P[i] \in Nat
          BY <1>10, <4>2
        <5>2. Extra(R[i]) \in 0..1
          BY <5>1, Extras
        <5> QED
          BY <1>4, <5>1, <5>2
      <4> QED
        BY <1>3, <2>1, <4>1, <4>2
    <3>4. R[i] = 6 => Lev(line', P[i] + 1) # Lev(line', P[i])
      BY <1>4, <1>6, <1>11, <2>1, <3>1, <3>3
    <3> QED
      BY <1>4, <3>1, <3>2, <3>4
  <2>2. CASE i = n + 1
    BY <1>4, <1>13, <2>2
  <2> QED
    BY <1>3, <2>1, <2>2
<1>17. Wire(Q, S)'
  <2>1. sent' - 1 = n /\ sent' > 0
    BY <1>1, <1>3
  <2> QED
    BY <1>1, <1>6, <1>7, <1>13, <1>14, <1>15, <1>16, <2>1 DEF Wire
<1> QED
  BY <1>1, <1>13, <1>17

(* The line gets longer, the bits on it stay where they are.               *)
LEMMA WireLonger ==
  ASSUME BitsType, NEW P, NEW R, Wire(P, R), UNCHANGED <<body, sent>>,
         \A k \in 0..Width : Lev(line', k) = Lev(line, k),
         Width' \in {Width, Width + 1}, P[sent] <= Width,
         R[sent] = 6 /\ P[sent] < Width' => Lev(line', P[sent] + 1) # Lev(line', P[sent]),
         at' = "send" => Width' = P[sent] + 1 /\ R[sent] = 6 /\ x2' = {},
         at' # "send" => Width' = P[sent] + Extra(R[sent])
  PROVE  Wire(P, R)'
<1> DEFINE w == Width
           n == sent
           v == Width'
<1>1. n \in Nat /\ w \in Nat /\ sent' = n /\ v \in {w, w + 1}
  BY LevelsAre DEF BitsType
<1>2. P \in [0..n -> Nat] /\ R \in [0..n -> 0..6] /\ P[0] = 0 /\ R[0] = 0
  BY DEF Wire
<1>3. \A i \in 0..(n - 1) :
        /\ P[i + 1] = P[i] + Extra(R[i]) + 1
        /\ R[i + 1] = IF BitAt(i) THEN Counted(R[i]) + 1 ELSE 0
        /\ Lev(line, P[i + 1]) = Lev(line, P[i + 1] - 1) <=> BitAt(i)
  BY DEF Wire
<1>4. \A i \in 0..(n - 1) :
        /\ P[i] \in Nat /\ R[i] \in 0..6 /\ P[i + 1] \in Nat /\ R[i + 1] \in 0..6
        /\ P[i] + Extra(R[i]) < w /\ P[i + 1] >= 1 /\ P[i + 1] <= w
  BY WireInside
<1>5. \A i \in 0..n : R[i] = 6 /\ P[i] < w => Lev(line, P[i] + 1) # Lev(line, P[i])
  BY DEF Wire
<1>6. \A i : BitAt(i)' <=> BitAt(i)
  BY SameBits
<1>7. \A k \in 0..w : Lev(line', k) = Lev(line, k)
  OBVIOUS
<1>8. /\ P[n] <= w /\ P[n] \in Nat
      /\ R[n] = 6 /\ P[n] < v => Lev(line', P[n] + 1) # Lev(line', P[n])
  BY <1>1, <1>2
<1>9. /\ at' = "send" => v = P[n] + 1 /\ R[n] = 6 /\ x2' = {}
      /\ at' # "send" => v = P[n] + Extra(R[n])
  OBVIOUS
<1> HIDE DEF w, n, v
<1>10. ASSUME NEW i \in 0..(n - 1)
       PROVE  /\ P[i + 1] = P[i] + Extra(R[i]) + 1
              /\ R[i + 1] = IF BitAt(i)' THEN Counted(R[i]) + 1 ELSE 0
              /\ Lev(line', P[i + 1]) = Lev(line', P[i + 1] - 1) <=> BitAt(i)'
  <2>1. P[i + 1] \in 0..w /\ P[i + 1] - 1 \in 0..w
    <3>1. P[i + 1] \in Nat /\ P[i + 1] >= 1 /\ P[i + 1] <= w
      BY <1>4
    <3>2. w \in Nat
      BY <1>1
    <3> QED
      BY <3>1, <3>2
  <2>2. /\ Lev(line', P[i + 1]) = Lev(line, P[i + 1])
        /\ Lev(line', P[i + 1] - 1) = Lev(line, P[i + 1] - 1)
    BY <1>7, <2>1
  <2> QED
    BY <1>3, <1>6, <2>2
<1>11. ASSUME NEW i \in 0..n
       PROVE  P[i] <= v /\ (R[i] = 6 /\ P[i] < v => Lev(line', P[i] + 1) # Lev(line', P[i]))
  <2>1. CASE i = n
    BY <1>1, <1>8, <2>1
  <2>2. CASE i \in 0..(n - 1)
    <3>1. P[i] \in 0..w /\ P[i] + 1 \in 0..w /\ P[i] < w
      BY <1>1, <1>4, <2>2, Extras
    <3>2. R[i] = 6 => Lev(line, P[i] + 1) # Lev(line, P[i])
      BY <1>5, <3>1
    <3> QED
      BY <1>1, <1>7, <3>1, <3>2
  <2> QED
    BY <1>1, <2>1, <2>2
<1> QED
  BY <1>1, <1>2, <1>9, <1>10, <1>11 DEF Wire, v

(* A stuffed bit is the level that was owed behind the sixth one.          *)
LEMMA WireStuff ==
  ASSUME BitsType, NEW P, NEW R, Wire(P, R), StuffBit
  PROVE  Wire(P, R)'
<1> DEFINE l == Toggle(Level)
<1>1. /\ line' = Append(line, l) /\ at = "send" /\ at' = "send" /\ sent' = sent /\ sent > 0
      /\ x2' = {} /\ SixOnes(x2) /\ UNCHANGED body
  BY DEF StuffBit, Stuffs
<1>2. l \in {"J", "K"} /\ l # Level
  <2>1. Level \in {"J", "K"}
    BY <1>1, LevelsAre
  <2> QED
    BY <2>1, Toggled
<1> HIDE DEF l
<1>3. sent \in Nat /\ P[sent] \in Nat /\ R[sent] \in 0..6 /\ x2 \in SUBSET (0..7)
  BY DEF BitsType, Wire
<1>4. Width = P[sent] /\ RunIs(x2, R[sent])
  <2>1. x2 # {}
    BY <1>1 DEF SixOnes
  <2> QED
    BY <1>1, <2>1 DEF Wire
<1>5. R[sent] = 6
  BY <1>1, <1>3, <1>4, Runs
<1>6. /\ Width' = Width + 1 /\ Len(line) = Width /\ Len(line') = Width + 1
      /\ \A k \in 0..Width : Lev(line', k) = Lev(line, k)
      /\ Lev(line', Len(line')) = l
  BY <1>1, <1>2, Appended
<1>7. Level = Lev(line, Width) /\ Width \in Nat
  BY <1>6, LevelsAre
<1>8. Lev(line', P[sent] + 1) # Lev(line', P[sent])
  <2>1. Lev(line', Width + 1) = l /\ Lev(line', Width) = Level
    BY <1>6, <1>7
  <2> QED
    BY <1>2, <1>4, <2>1
<1>9. Width' \in {Width, Width + 1} /\ P[sent] <= Width /\ Width' = P[sent] + 1
  BY <1>4, <1>6, <1>7
<1> QED
  BY <1>1, <1>5, <1>6, <1>8, <1>9, WireLonger

(* The packet ends only when no stuffed bit is owed.                       *)
LEMMA WireEnd ==
  ASSUME BitsType, NEW P, NEW R, Wire(P, R), EndOfPacket
  PROVE  Wire(P, R)'
<1>1. at = "send" /\ at' = "receive" /\ ~Stuffs /\ UNCHANGED <<body, sent>>
  BY DEF EndOfPacket
<1>2. /\ Width' = Width /\ Width = Len(line) /\ Width \in Nat
      /\ \A k \in 0..Width : Lev(line', k) = Lev(line, k)
  BY Ended, LevelsAre
<1>3. /\ Width = P[sent] + Extra(R[sent]) /\ P[sent] \in Nat /\ R[sent] \in 0..6
  BY <1>1, WireEven
<1>4. P[sent] <= Width
  BY <1>3, Extras
<1>5. R[sent] = 6 /\ P[sent] < Width => Lev(line', P[sent] + 1) # Lev(line', P[sent])
  <2>1. R[sent] = 6 /\ P[sent] < Width => Lev(line, P[sent] + 1) # Lev(line, P[sent])
    <3>1. sent \in 0..sent
      BY DEF BitsType
    <3> QED
      BY <3>1 DEF Wire
  <2>2. P[sent] < Width => P[sent] \in 0..Width /\ P[sent] + 1 \in 0..Width
    BY <1>2, <1>3
  <2> QED
    BY <1>2, <2>1, <2>2
<1> QED
  BY <1>1, <1>2, <1>3, <1>4, <1>5, WireLonger

(* The receiver changes nothing on the line.                               *)
LEMMA WireKept ==
  ASSUME BitsType, NEW P, NEW R, Wire(P, R), TransmitterIdle, at = "receive", at' # "send"
  PROVE  Wire(P, R)'
<1>1. UNCHANGED <<body, line, sent>>
  BY DEF TransmitterIdle
<1>2. Width' = Width /\ Width \in Nat
  BY <1>1, LevelsAre DEF Width
<1>3. /\ Width = P[sent] + Extra(R[sent]) /\ P[sent] \in Nat /\ R[sent] \in 0..6
  BY DEF Wire, BitsType
<1>4. P[sent] <= Width
  BY <1>3, Extras
<1>5. R[sent] = 6 /\ P[sent] < Width => Lev(line, P[sent] + 1) # Lev(line, P[sent])
  <2>1. sent \in 0..sent
    BY DEF BitsType
  <2> QED
    BY <2>1 DEF Wire
<1> QED
  BY <1>1, <1>2, <1>3, <1>4, <1>5, WireLonger

(* The sync pattern: seven toggles, and the level it ends with again.      *)
LEMMA Sync ==
  ASSUME BitsType, NEW P, NEW R, Wire(P, R), sent >= 8
  PROVE  P[8] = 8 /\ R[8] = 1 /\ Lev(line, 8) = "K"
<1>1. Lev(line, 0) = "J" /\ P[0] = 0 /\ R[0] = 0
  BY DEF Lev, Wire
<1>2. \A i \in 0..7 :
        /\ P[i + 1] = P[i] + Extra(R[i]) + 1
        /\ R[i + 1] = IF i = 7 THEN Counted(R[i]) + 1 ELSE 0
        /\ Lev(line, P[i + 1]) = Lev(line, P[i + 1] - 1) <=> i = 7
        /\ Lev(line, P[i + 1]) \in {"J", "K"}
  <2> SUFFICES ASSUME NEW i \in 0..7
               PROVE  /\ P[i + 1] = P[i] + Extra(R[i]) + 1
                      /\ R[i + 1] = IF i = 7 THEN Counted(R[i]) + 1 ELSE 0
                      /\ Lev(line, P[i + 1]) = Lev(line, P[i + 1] - 1) <=> i = 7
                      /\ Lev(line, P[i + 1]) \in {"J", "K"}
    OBVIOUS
  <2>1. i \in 0..(sent - 1)
    BY DEF BitsType
  <2>2. BitAt(i) <=> i = 7
    <3>1. i \in 0..6 \/ i = 7
      OBVIOUS
    <3> QED
      BY <3>1, BitsAre
  <2>3. Lev(line, P[i + 1]) \in {"J", "K"}
    <3>1. P[i + 1] \in 0..Width
      BY <2>1, WireInside
    <3> QED
      BY <3>1, LevelsAre
  <2> QED
    BY <2>1, <2>2, <2>3 DEF Wire
<1> DEFINE Step(i, l) == P[i] = i /\ R[i] = 0 /\ Lev(line, i) = l
<1>3. ASSUME NEW i \in 0..6, NEW l \in {"J", "K"}, Step(i, l)
      PROVE  Step(i + 1, Toggle(l))
  <2>1. Extra(R[i]) = 0
    BY <1>3 DEF Extra
  <2>2. P[i + 1] = i + 1 /\ R[i + 1] = 0
    BY <1>2, <1>3, <2>1
  <2>3. Lev(line, i + 1) # Lev(line, i) /\ Lev(line, i + 1) \in {"J", "K"}
    <3>1. i # 7 /\ (i + 1) - 1 = i
      OBVIOUS
    <3> QED
      BY <1>2, <2>2, <3>1
  <2> QED
    BY <1>3, <2>2, <2>3 DEF Toggle
<1>4. Step(0, "J")
  BY <1>1
<1> HIDE DEF Step
<1>5. Toggle("J") = "K" /\ Toggle("K") = "J"
  BY DEF Toggle
<1>6. Step(0 + 1, "K")
  BY <1>3, <1>4, <1>5
<1>7. Step(1 + 1, "J")
  BY <1>3, <1>6, <1>5
<1>8. Step(2 + 1, "K")
  BY <1>3, <1>7, <1>5
<1>9. Step(3 + 1, "J")
  BY <1>3, <1>8, <1>5
<1>10. Step(4 + 1, "K")
  BY <1>3, <1>9, <1>5
<1>11. Step(5 + 1, "J")
  BY <1>3, <1>10, <1>5
<1>12. Step(6 + 1, "K")
  BY <1>3, <1>11, <1>5
<1>13. P[7] = 7 /\ R[7] = 0 /\ Lev(line, 7) = "K"
  BY <1>12 DEF Step
<1>14. P[7 + 1] = 8 /\ R[7 + 1] = 1
  <2>1. Extra(R[7]) = 0 /\ Counted(R[7]) = 0
    BY <1>13 DEF Extra, Counted
  <2> QED
    BY <1>2, <1>13, <2>1
<1>15. Lev(line, 8) = Lev(line, 7)
  BY <1>2, <1>14
<1> QED
  BY <1>13, <1>14, <1>15

-----------------------------------------------------------------------------
(* A byte comes in bit by bit.                                             *)

NextHistory(s, one, six) == (Right(s) \cup (IF one THEN {7} ELSE {})) \ (IF six THEN {7} ELSE {})
NextMarks(k, m, six) ==
  LET set == IF six THEN {Mark(k)} ELSE {} IN
  IF k \in {0, 2, 4} THEN Right(Right((m \ {6, 7}) \cup set)) ELSE m \cup set

(* Where the bits and marks of a byte go.                                  *)
LEMMA HistoryMoves ==
  ASSUME NEW s \in SUBSET (0..7), NEW one \in BOOLEAN, NEW six \in BOOLEAN
  PROVE  /\ NextHistory(s, one, six) \in SUBSET (0..7)
         /\ \A j \in 0..6 : j \in NextHistory(s, one, six) <=> j + 1 \in s
         /\ 7 \in NextHistory(s, one, six) <=> one /\ ~six
  BY RightByte DEF NextHistory

(* In the three turns of rxBitLoop a mark moves down by two.               *)
LEMMA MarksMove ==
  ASSUME NEW m \in SUBSET (0..7), NEW k \in {0, 2, 4}, NEW six \in BOOLEAN
  PROVE  /\ NextMarks(k, m, six) \in SUBSET (0..4)
         /\ \A x \in 0..4 : x \in NextMarks(k, m, six) <=>
              (x + 2 \in m /\ x <= 3) \/ (six /\ x = 4)
<1> DEFINE a == (m \ {6, 7}) \cup (IF six THEN {6} ELSE {})
           b == Right(a)
           c == Right(b)
<1>1. a \in SUBSET (0..7) /\ \A x \in 0..7 : x \in a <=> (x \in m /\ x <= 5) \/ (six /\ x = 6)
  OBVIOUS
<1>2. NextMarks(k, m, six) = c
  <2>1. Mark(k) = 6
    BY DEF Mark
  <2> QED
    BY <2>1 DEF NextMarks
<1> HIDE DEF a
<1>3. b \in SUBSET (0..6) /\ \A x \in 0..6 : x \in b <=> x + 1 \in a
  BY <1>1, RightByte
<1> HIDE DEF b
<1>4. c \in SUBSET (0..6) /\ \A x \in 0..6 : x \in c <=> x + 1 \in b
  BY <1>3, RightByte
<1> HIDE DEF c
<1>5. ASSUME NEW x \in 0..6 PROVE x \in c <=> (x + 2 \in m /\ x <= 3) \/ (six /\ x = 4)
  <2>1. CASE x = 6
    <3>1. x + 1 \notin b
      BY <1>3, <2>1
    <3> QED
      BY <1>4, <2>1, <3>1
  <2>2. CASE x <= 5
    <3>1. x \in c <=> x + 1 \in b
      BY <1>4
    <3>2. x + 1 \in 0..6 /\ x + 2 \in 0..7 /\ (x + 1) + 1 = x + 2
      BY <2>2
    <3>3. x + 1 \in b <=> x + 2 \in a
      BY <1>3, <3>2
    <3>4. x + 2 \in a <=> (x + 2 \in m /\ x + 2 <= 5) \/ (six /\ x + 2 = 6)
      BY <1>1, <3>2
    <3> QED
      BY <3>1, <3>3, <3>4
  <2> QED
    BY <2>1, <2>2
<1>6. c \in SUBSET (0..4)
  <2>1. 5 \notin c /\ 6 \notin c
    BY <1>5
  <2> QED
    BY <1>4, <2>1
<1> QED
  BY <1>2, <1>5, <1>6

(* The numbers of turns and marks, bit for bit.                            *)
LEMMA TurnsAre ==
  ASSUME NEW k \in 0..7
  PROVE  /\ k \in {0, 2, 4} => Turns(k) = Turns(k + 1) + 1 /\ k + 2 * Turns(k + 1) = 4
                                /\ Top(k + 1) = 4
         /\ k \in {1, 3, 5, 6} => Turns(k) = Turns(k + 1) /\ Top(k) < Top(k + 1)
                                /\ Top(k + 1) = Mark(k)
         /\ k \in {1, 3, 5, 6, 7} => k + 2 * Turns(k) = Mark(k) /\ Top(k) = Mark(k) - 1
         /\ k = 7 => Mark(k) = 7
         /\ Turns(k) \in 0..3 /\ Top(k) \in 0..7
<1>1. Turns(0) = 3 /\ Turns(1) = 2 /\ Turns(2) = 2 /\ Turns(3) = 1 /\ Turns(4) = 1
      /\ Turns(5) = 0 /\ Turns(6) = 0 /\ Turns(7) = 0
  BY DEF Turns
<1>2. Top(0) = 7 /\ Top(1) = 4 /\ Top(2) = 5 /\ Top(3) = 4 /\ Top(4) = 5
      /\ Top(5) = 4 /\ Top(6) = 5 /\ Top(7) = 6
  BY DEF Top
<1>3. Mark(1) = 5 /\ Mark(3) = 5 /\ Mark(5) = 5 /\ Mark(6) = 6 /\ Mark(7) = 7
  BY DEF Mark
<1> QED
  BY <1>1, <1>2, <1>3

(* A bit shifted in and its mark make the byte one bit longer; after       *)
(* eight, inverting the marked bits gives the byte.                        *)
LEMMA ByteGrows ==
  ASSUME NEW k \in 0..7, NEW s \in SUBSET (0..7), NEW m \in SUBSET (0..7),
         NEW byte \in SUBSET (0..7), NEW one \in BOOLEAN, NEW six \in BOOLEAN,
         Partial(k, s, m, byte), one <=> k \in byte, six => one
  PROVE  LET t == NextHistory(s, one, six)
             u == NextMarks(k, m, six)
         IN  /\ k < 7 => Partial(k + 1, t, u, byte)
             /\ k = 7 => Xor(u, t) = byte
<1> DEFINE t == NextHistory(s, one, six)
           u == NextMarks(k, m, six)
<1>1. /\ t \in SUBSET (0..7) /\ \A j \in 0..6 : j \in t <=> j + 1 \in s
      /\ 7 \in t <=> one /\ ~six
  BY HistoryMoves
<1>2. /\ m \subseteq 0..Top(k)
      /\ \A j \in 0..(k - 1) : j \in byte <=> (8 - k + j \in s <=> j + 2 * Turns(k) \notin m)
  BY DEF Partial
<1>3. CASE k \in {0, 2, 4}
  <2>1. /\ u \in SUBSET (0..4)
        /\ \A x \in 0..4 : x \in u <=> (x + 2 \in m /\ x <= 3) \/ (six /\ x = 4)
    BY <1>3, MarksMove, ZenonT(60)
  <2>2. Turns(k) = Turns(k + 1) + 1 /\ k + 2 * Turns(k + 1) = 4 /\ Top(k + 1) = 4
        /\ Turns(k + 1) \in 0..3
    BY <1>3, TurnsAre
  <2> DEFINE e == Turns(k + 1)
  <2> HIDE DEF t, u, e
  <2>3. ASSUME NEW j \in 0..k
        PROVE  j \in byte <=> (8 - (k + 1) + j \in t <=> j + 2 * e \notin u)
    <3>1. CASE j < k
      <4>1. j \in 0..(k - 1) /\ 8 - (k + 1) + j \in 0..6 /\ (8 - (k + 1) + j) + 1 = 8 - k + j
        BY <3>1
      <4>2. j + 2 * e \in 0..3 /\ (j + 2 * e) + 2 = j + 2 * Turns(k)
        BY <2>2, <3>1 DEF e
      <4>3. 8 - (k + 1) + j \in t <=> 8 - k + j \in s
        BY <1>1, <4>1
      <4>4. j + 2 * e \in u <=> j + 2 * Turns(k) \in m
        BY <2>1, <4>2
      <4> QED
        BY <1>2, <4>1, <4>3, <4>4
    <3>2. CASE j = k
      <4>1. 8 - (k + 1) + j = 7 /\ j + 2 * e = 4
        BY <2>2, <3>2 DEF e
      <4>2. 4 \in u <=> six
        BY <2>1
      <4> QED
        BY <1>1, <3>2, <4>1, <4>2
    <3> QED
      BY <3>1, <3>2
  <2>4. Partial(k + 1, t, u, byte)
    <3>1. (k + 1) - 1 = k
      OBVIOUS
    <3> QED
      BY <2>1, <2>2, <2>3, <3>1 DEF Partial, e
  <2> QED
    BY <1>3, <2>4 DEF t, u
<1>4. CASE k \in {1, 3, 5, 6, 7}
  <2>1. u = m \cup (IF six THEN {Mark(k)} ELSE {})
    BY <1>4 DEF NextMarks
  <2>2. /\ k + 2 * Turns(k) = Mark(k) /\ Top(k) = Mark(k) - 1 /\ Turns(k) \in 0..3
        /\ k # 7 => Turns(k + 1) = Turns(k) /\ Top(k + 1) = Mark(k)
        /\ k = 7 => Mark(k) = 7
        /\ Mark(k) \in 5..7
    BY <1>4, TurnsAre DEF Mark
  <2> DEFINE e == Turns(k)
             h == Mark(k)
  <2>3. e \in 0..3 /\ h \in 5..7 /\ k + 2 * e = h /\ m \subseteq 0..(h - 1)
        /\ u = m \cup (IF six THEN {h} ELSE {})
    BY <1>2, <2>1, <2>2
  <2>7. k = 7 => h = 7
    BY <2>2
  <2> HIDE DEF t, u, e, h
  <2>8. u \subseteq 0..h
    BY <2>3
  <2>4. ASSUME NEW j \in 0..k
        PROVE  j \in byte <=> (8 - (k + 1) + j \in t <=> j + 2 * e \notin u)
    <3>1. CASE j < k
      <4>1. j \in 0..(k - 1) /\ 8 - (k + 1) + j \in 0..6 /\ (8 - (k + 1) + j) + 1 = 8 - k + j
        BY <3>1
      <4>2. j + 2 * e # h
        BY <2>3, <3>1
      <4>3. 8 - (k + 1) + j \in t <=> 8 - k + j \in s
        BY <1>1, <4>1
      <4>4. j + 2 * e \in u <=> j + 2 * e \in m
        BY <2>3, <4>2
      <4> QED
        BY <1>2, <4>1, <4>3, <4>4 DEF e
    <3>2. CASE j = k
      <4>1. 8 - (k + 1) + j = 7 /\ j + 2 * e = h
        BY <2>3, <3>2
      <4>2. h \in u <=> six
        BY <2>3
      <4> QED
        BY <1>1, <3>2, <4>1, <4>2
    <3> QED
      BY <3>1, <3>2
  <2>5. ASSUME k # 7 PROVE Partial(k + 1, t, u, byte)
    <3>1. (k + 1) - 1 = k
      OBVIOUS
    <3>2. Top(k + 1) = h /\ Turns(k + 1) = e
      BY <2>2, <2>5 DEF h, e
    <3> QED
      BY <2>4, <2>8, <3>1, <3>2 DEF Partial
  <2>6. ASSUME k = 7 PROVE Xor(u, t) = byte
    <3>1. e = 0 /\ h = 7 /\ u \subseteq 0..7
      BY <2>3, <2>6, <2>7, <2>8
    <3>2. \A j \in 0..7 : j \in byte <=> (j \in t <=> j \notin u)
      <4> SUFFICES ASSUME NEW j \in 0..7 PROVE j \in byte <=> (j \in t <=> j \notin u)
        OBVIOUS
      <4>1. j \in byte <=> (8 - (7 + 1) + j \in t <=> j + 2 * 0 \notin u)
        BY <2>4, <2>6, <3>1
      <4>2. 8 - (7 + 1) + j = j /\ j + 2 * 0 = j
        OBVIOUS
      <4> QED
        BY <4>1, <4>2
    <3>3. \A j \in 0..7 : j \in Xor(u, t) <=> j \in byte
      BY <3>2 DEF Xor
    <3>4. Xor(u, t) \subseteq 0..7
      BY <1>1, <3>1 DEF Xor
    <3> QED
      BY <3>3, <3>4
  <2> QED
    BY <2>5, <2>6 DEF t, u
<1> QED
  BY <1>3, <1>4

(* Both sides count the ones alike, so the receiver takes a bit out where  *)
(* the transmitter has put one in. Before the first zero their counts may  *)
(* differ: the complement in the identifier makes that zero come in time.  *)
LEMMA RunsStayAlike ==
  ASSUME BitsType, NEW n \in Nat, n >= 9, NEW s \in SUBSET (0..7),
         NEW q \in 0..5, NEW r \in 0..6, RunIs(s, q), Alike(n, r, q)
  PROVE  LET one == BitAt(n)
             t == Right(s) \cup (IF one THEN {7} ELSE {})
             c == IF one THEN Counted(r) + 1 ELSE 0
         IN  /\ SixOnes(t) <=> c = 6
             /\ \E p \in 0..5 : /\ RunIs(IF SixOnes(t) THEN t \ {7} ELSE t, p)
                                /\ Alike(n + 1, c, p)
<1> DEFINE one == BitAt(n)
           t == Right(s) \cup (IF one THEN {7} ELSE {})
           c == IF one THEN Counted(r) + 1 ELSE 0
           p == IF one THEN q + 1 ELSE 0
<1>1. t \in SUBSET (0..7)
  BY RightByte
<1>2. RunIs(t, p)
  <2>1. CASE one
    BY <2>1, Runs
  <2>2. CASE ~one
    BY <2>2, RightByte DEF RunIs
  <2> QED
    BY <2>1, <2>2
<1>3. p \in 0..6 /\ c \in 0..6
  BY Extras
<1>4. /\ p = (IF one THEN q + 1 ELSE 0) /\ c = (IF one THEN Counted(r) + 1 ELSE 0)
      /\ one <=> BitAt(n)
  OBVIOUS
<1> HIDE DEF one, t, c, p
<1>5. SixOnes(t) <=> p = 6
  BY <1>1, <1>2, <1>3, Runs
<1>6. CASE q = Counted(r)
  <2>1. p = c
    BY <1>4, <1>6
  <2>2. RunIs(IF SixOnes(t) THEN t \ {7} ELSE t, Counted(p))
    <3>1. CASE p = 6
      BY <1>1, <1>5, <3>1, RunEnds, Extras
    <3>2. CASE p # 6
      BY <1>2, <1>3, <1>5, <3>2, Extras
    <3> QED
      BY <3>1, <3>2
  <2>3. Counted(p) \in 0..5 /\ Alike(n + 1, c, Counted(p))
    BY <1>3, <2>1, Extras DEF Alike
  <2> QED
    BY <1>5, <2>1, <2>2, <2>3 DEF t, c, one
<1>7. CASE q # Counted(r)
  <2>1. /\ n <= 13 /\ Sure(n)
        /\ r = (n - 9) + (IF BitAt(8) THEN 2 ELSE 0) /\ q = (n - 9) + (IF BitAt(8) THEN 0 ELSE 1)
    BY <1>7 DEF Alike
  <2>2. CASE ~BitAt(n)
    <3>1. p = 0 /\ c = 0
      BY <1>4, <2>2
    <3>2. ~SixOnes(t) /\ Alike(n + 1, c, p) /\ RunIs(t, p) /\ p \in 0..5
      BY <1>2, <1>5, <3>1 DEF Alike, Counted
    <3> QED
      BY <3>1, <3>2 DEF t, c, one
  <2>3. CASE BitAt(n)
    <3>1. n # 13
      <4>1. ASSUME n = 13 PROVE FALSE
        <5>1. BitAt(9)
          BY <2>1, <4>1 DEF Sure
        <5> QED
          BY <2>3, <4>1, <5>1, BitsAre
      <4> QED
        BY <4>1
    <3>2. n = 12 => ~BitAt(8)
      BY <2>3, BitsAre
    <3>3. n - 9 \in 0..3 /\ (n = 12 => ~BitAt(8)) /\ n + 1 <= 13
      BY <2>1, <3>1, <3>2
    <3>4. r # 6 /\ Counted(r) = r
      BY <2>1, <3>3, Extras
    <3>5. /\ c = ((n + 1) - 9) + (IF BitAt(8) THEN 2 ELSE 0)
          /\ p = ((n + 1) - 9) + (IF BitAt(8) THEN 0 ELSE 1)
      BY <1>4, <2>1, <2>3, <3>4
    <3>6. c # 6 /\ p # 6 /\ p \in 0..5
      BY <3>3, <3>5
    <3>7. Sure(n + 1)
      <4>1. \A i \in 9..n : i = n \/ i \in 9..(n - 1)
        OBVIOUS
      <4>2. (n + 1) - 1 = n
        OBVIOUS
      <4> QED
        BY <2>1, <2>3, <4>1, <4>2 DEF Sure
    <3>8. Alike(n + 1, c, p)
      BY <3>3, <3>5, <3>7 DEF Alike
    <3> QED
      BY <1>2, <1>5, <3>6, <3>8 DEF t, c, one
  <2> QED
    BY <2>2, <2>3
<1> QED
  BY <1>6, <1>7

(* The first bit of a packet is taken inverted.                            *)
LEMMA RunsBegin ==
  ASSUME NEW r, r = 1
  PROVE  LET t == Right({}) \cup (IF BitAt(8) THEN {} ELSE {7})
             c == IF BitAt(8) THEN Counted(r) + 1 ELSE 0
         IN  ~SixOnes(t) /\ c # 6 /\ c \in 0..6 /\ \E p \in 0..5 : RunIs(t, p) /\ Alike(9, c, p)
<1> DEFINE t == Right({}) \cup (IF BitAt(8) THEN {} ELSE {7})
           c == IF BitAt(8) THEN Counted(r) + 1 ELSE 0
           p == IF BitAt(8) THEN 0 ELSE 1
<1>1. Right({}) = {}
  BY DEF Right
<1>2. Sure(9)
  BY DEF Sure
<1>3. c = IF BitAt(8) THEN 2 ELSE 0
  BY DEF Counted
<1>4. Alike(9, c, p)
  BY <1>2, <1>3 DEF Alike
<1>5. RunIs(t, p) /\ ~SixOnes(t)
  BY <1>1 DEF RunIs, SixOnes
<1>6. p \in 0..5 /\ c # 6 /\ c \in 0..6
  BY <1>3
<1> QED
  BY <1>4, <1>5, <1>6

-----------------------------------------------------------------------------
(* The receiver in step with what is on the line.                          *)

(* What is sampled: a level sent, SE0 twice, then the idle line.           *)
LEMMA SampleIs ==
  ASSUME BitsType, at = "receive", NEW k \in Nat
  PROVE  /\ k + 8 <= Width => LevelAt(k) = Lev(line, k + 8) /\ LevelAt(k) \in {"J", "K"}
         /\ k + 8 \in {Width + 1, Width + 2} => LevelAt(k) = "SE0"
         /\ k + 8 > Width + 2 => LevelAt(k) = "J"
<1>1. /\ Len(line) = Width + 2 /\ Width \in Nat
      /\ Lev(line, Width + 1) = "SE0" /\ Lev(line, Width + 2) = "SE0"
  BY LevelsAre
<1>2. k + 8 <= Len(line) => LevelAt(k) = Lev(line, k + 8)
  BY DEF LevelAt, Lev
<1>3. k + 8 <= Width => Lev(line, k + 8) \in {"J", "K"}
  BY <1>1, LevelsAre
<1>4. k + 8 > Len(line) => LevelAt(k) = "J"
  BY <1>1 DEF LevelAt
<1> QED
  BY <1>1, <1>2, <1>3, <1>4

(* The numbers of a byte and of its bits.                                  *)
LEMMA TakenIs ==
  ASSUME BitsType
  PROVE  /\ Arrived \in Nat /\ Arrived >= 8 /\ Len(stored) \in Nat /\ sent \in Nat
         /\ Arrived = 8 * (Len(stored) + 1) + bit
         /\ First <=> Arrived = 8
         /\ sent <= 8 * (Len(body) + 1) /\ Len(body) \in Nat
         /\ Arrived < sent => Len(stored) + 1 \in 1..Len(body)
                            /\ (BitAt(Arrived) <=> bit \in body[Len(stored) + 1])
         /\ Whole <=> sent = 8 * (Len(body) + 1)
<1>1. Len(stored) \in Nat /\ sent \in Nat /\ bit \in 0..7 /\ Len(body) \in Nat
  BY DEF BitsType
<1>2. Arrived \in Nat /\ Arrived >= 8 /\ Arrived = 8 * (Len(stored) + 1) + bit
  BY <1>1 DEF Arrived
<1>3. First <=> Arrived = 8
  <2>1. stored = <<>> <=> Len(stored) = 0
    BY EmptySeq DEF BitsType
  <2> QED
    BY <1>1, <2>1 DEF First, Arrived
<1>4. Len(Outgoing) = Len(body) + 1
  BY OutgoingIs DEF BitsType
<1>5. sent <= 8 * (Len(body) + 1)
  BY <1>1, <1>4 DEF BitsType
<1>6. ASSUME Arrived < sent
      PROVE  Len(stored) + 1 \in 1..Len(body) /\ (BitAt(Arrived) <=> bit \in body[Len(stored) + 1])
  <2>1. Len(stored) + 1 \in 1..Len(body)
    BY <1>1, <1>2, <1>5, <1>6
  <2> QED
    BY <1>1, <1>2, <2>1, BitsAre
<1> QED
  BY <1>1, <1>2, <1>3, <1>4, <1>5, <1>6 DEF Whole

(* In step, the receiver samples the level of the next bit, behind it a    *)
(* stuffed one if six ones are in, and knows the level before it.          *)
LEMMA LevelsRead ==
  ASSUME BitsType, NEW P, NEW R, Wire(P, R), at = "receive", OnBit(P, R), Arrived < sent
  PROVE  /\ R[Arrived] \in 0..6 /\ R[Arrived + 1] \in 0..6
         /\ R[Arrived + 1] = IF BitAt(Arrived) THEN Counted(R[Arrived]) + 1 ELSE 0
         /\ P[Arrived + 1] = sample + 8 /\ sample \in Nat
         /\ sample + 8 + Extra(R[Arrived + 1]) <= Width
         /\ LevelAt(sample) = Lev(line, sample + 8) /\ LevelAt(sample) \in {"J", "K"}
         /\ R[Arrived + 1] = 6 =>
              LevelAt(sample + 1) = Lev(line, sample + 9) /\ LevelAt(sample + 1) \in {"J", "K"}
         /\ LevelAt(sample) = last <=> BitAt(Arrived)
         /\ last \in {"J", "K"} /\ (Arrived = 8 => last = "K" /\ R[8] = 1)
<1> DEFINE n == Arrived
<1>1. n \in Nat /\ n >= 8 /\ sent \in Nat /\ n < sent /\ sample \in Nat
  BY TakenIs DEF BitsType
<1>2. /\ sample + 7 = P[n] + Extra(R[n]) /\ last = Lev(line, sample + 7)
  BY DEF OnBit
<1> HIDE DEF n
<1>3. n \in 0..(sent - 1) /\ n + 1 \in 0..sent
  BY <1>1
<1>4. /\ P[n + 1] = P[n] + Extra(R[n]) + 1
      /\ R[n + 1] = IF BitAt(n) THEN Counted(R[n]) + 1 ELSE 0
      /\ Lev(line, P[n + 1]) = Lev(line, P[n + 1] - 1) <=> BitAt(n)
  BY <1>3 DEF Wire
<1>5. P[n] \in Nat /\ R[n] \in 0..6 /\ P[n + 1] \in Nat /\ R[n + 1] \in 0..6 /\ P[n + 1] <= Width
  BY <1>3, WireInside
<1>6. P[n + 1] = sample + 8 /\ P[n + 1] - 1 = sample + 7
  BY <1>1, <1>2, <1>4, <1>5, Extras
<1>7. P[n + 1] + Extra(R[n + 1]) <= Width
  <2>1. CASE n + 1 = sent
    BY <2>1, <1>5, Extras, LevelsAre DEF Wire
  <2>2. CASE n + 1 # sent
    <3>1. n + 1 \in 0..(sent - 1)
      BY <1>1, <2>2
    <3>2. P[n + 1] + Extra(R[n + 1]) < Width
      BY <3>1, WireInside
    <3> QED
      BY <1>5, <3>2, Extras, LevelsAre
  <2> QED
    BY <2>1, <2>2
<1>8. sample + 8 + Extra(R[n + 1]) <= Width /\ sample + 8 <= Width /\ Width \in Nat
  BY <1>1, <1>5, <1>6, <1>7, Extras, LevelsAre
<1>9. LevelAt(sample) = Lev(line, sample + 8) /\ LevelAt(sample) \in {"J", "K"}
  BY <1>1, <1>8, SampleIs
<1>10. LevelAt(sample) = last <=> BitAt(n)
  BY <1>2, <1>4, <1>6, <1>9
<1>11. last \in {"J", "K"}
  <2>1. sample + 7 \in 0..Width
    BY <1>1, <1>8
  <2> QED
    BY <1>2, <2>1, LevelsAre
<1>12. ASSUME n = 8 PROVE last = "K" /\ R[8] = 1
  <2>1. P[8] = 8 /\ R[8] = 1 /\ Lev(line, 8) = "K"
    BY <1>1, Sync
  <2>2. Extra(R[8]) = 0
    BY <2>1 DEF Extra
  <2>3. sample + 7 = 8
    BY <1>2, <1>12, <2>1, <2>2
  <2> QED
    BY <1>2, <2>1, <2>3
<1>13. ASSUME R[n + 1] = 6
       PROVE  LevelAt(sample + 1) = Lev(line, sample + 9) /\ LevelAt(sample + 1) \in {"J", "K"}
  <2>1. sample + 1 \in Nat /\ (sample + 1) + 8 <= Width /\ (sample + 1) + 8 = sample + 9
    BY <1>1, <1>8, <1>13 DEF Extra
  <2>2. LevelAt(sample + 1) = Lev(line, (sample + 1) + 8) /\ LevelAt(sample + 1) \in {"J", "K"}
    BY <2>1, SampleIs
  <2> QED
    BY <2>1, <2>2
<1> QED
  BY <1>1, <1>4, <1>5, <1>6, <1>8, <1>9, <1>10, <1>11, <1>12, <1>13 DEF n

(* What is shifted in, and whether a bit is taken out.                     *)
LEMMA ShiftReads ==
  ASSUME BitsType, NEW P, NEW R, Wire(P, R), at = "receive", OnBit(P, R), Arrived < sent
  PROVE  /\ Unstuffs <=> R[Arrived + 1] = 6
         /\ ~SeesEnd
         /\ \E p \in 0..5 : /\ RunIs(IF Unstuffs THEN Shifted \ {7} ELSE Shifted, p)
                            /\ Alike(Arrived + 1, R[Arrived + 1], p)
         /\ Arrived > 8 => Shifted = Right(shift) \cup (IF BitAt(Arrived) THEN {7} ELSE {})
         /\ Arrived = 8 => Shifted = (IF BitAt(8) THEN {} ELSE {7}) /\ ~Unstuffs
<1> DEFINE n == Arrived
<1>1. /\ R[n] \in 0..6 /\ R[n + 1] \in 0..6
      /\ R[n + 1] = IF BitAt(n) THEN Counted(R[n]) + 1 ELSE 0
      /\ LevelAt(sample) \in {"J", "K"} /\ last \in {"J", "K"}
      /\ R[n + 1] = 6 => LevelAt(sample + 1) \in {"J", "K"}
      /\ LevelAt(sample) = last <=> BitAt(n)
      /\ n = 8 => last = "K" /\ R[8] = 1
  BY LevelsRead
<1>2. n \in Nat /\ n >= 8 /\ (First <=> n = 8) /\ shift \in SUBSET (0..7)
  BY TakenIs DEF BitsType
<1>3. /\ n = 8 => shift = {}
      /\ n > 8 => \E q \in 0..5 : RunIs(shift, q) /\ Alike(n, R[n], q)
  BY DEF OnBit
<1>4. Unstuffs <=> SixOnes(Shifted)
  BY DEF Unstuffs
<1> HIDE DEF n
<1>5. CASE n = 8
  <2>1. LevelAt(sample) = "J" <=> ~BitAt(8)
    BY <1>1, <1>5
  <2>2. Shifted = Right({}) \cup (IF BitAt(8) THEN {} ELSE {7})
    BY <1>2, <1>3, <1>5, <2>1 DEF Shifted
  <2>3. Right({}) = {}
    BY DEF Right
  <2> DEFINE t == Right({}) \cup (IF BitAt(8) THEN {} ELSE {7})
             c == IF BitAt(8) THEN Counted(R[8]) + 1 ELSE 0
  <2>4. ~SixOnes(t) /\ c # 6 /\ \E p \in 0..5 : RunIs(t, p) /\ Alike(9, c, p)
    BY <1>1, <1>5, RunsBegin
  <2>5. t = Shifted /\ c = R[n + 1] /\ n + 1 = 9
    BY <1>1, <1>5, <2>2
  <2> HIDE DEF t, c
  <2>6. ~Unstuffs /\ R[n + 1] # 6 /\ \E p \in 0..5 : RunIs(Shifted, p) /\ Alike(n + 1, R[n + 1], p)
    BY <1>4, <2>4, <2>5
  <2>7. ~SeesEnd
    BY <1>1, <2>6 DEF SeesEnd
  <2> QED
    BY <1>5, <2>2, <2>3, <2>6, <2>7 DEF n
<1>6. CASE n > 8
  <2>1. ~First
    BY <1>2, <1>6
  <2>2. Shifted = Right(shift) \cup (IF BitAt(n) THEN {7} ELSE {})
    BY <1>1, <2>1 DEF Shifted
  <2>3. PICK q \in 0..5 : RunIs(shift, q) /\ Alike(n, R[n], q)
    BY <1>3, <1>6
  <2> DEFINE t == Right(shift) \cup (IF BitAt(n) THEN {7} ELSE {})
             c == IF BitAt(n) THEN Counted(R[n]) + 1 ELSE 0
  <2>4. /\ SixOnes(t) <=> c = 6
        /\ \E p \in 0..5 : RunIs(IF SixOnes(t) THEN t \ {7} ELSE t, p) /\ Alike(n + 1, c, p)
    <3>1. n >= 9
      BY <1>2, <1>6
    <3>2. R[n] \in 0..6 /\ n \in Nat /\ shift \in SUBSET (0..7)
      BY <1>1, <1>2
    <3> QED
      BY <2>3, <3>1, <3>2, RunsStayAlike, Zenon
  <2>5. t = Shifted /\ c = R[n + 1]
    BY <1>1, <2>2
  <2> HIDE DEF t, c
  <2>6. /\ Unstuffs <=> R[n + 1] = 6
        /\ \E p \in 0..5 : /\ RunIs(IF Unstuffs THEN Shifted \ {7} ELSE Shifted, p)
                           /\ Alike(n + 1, R[n + 1], p)
    BY <1>4, <2>4, <2>5
  <2>7. ~SeesEnd
    BY <1>1, <2>6 DEF SeesEnd
  <2>8. n # 8
    BY <1>6
  <2> QED
    BY <2>2, <2>6, <2>7, <2>8, Zenon DEF n
<1> QED
  BY <1>2, <1>5, <1>6 DEF n

(* In step before the end, a bit received is the bit sent, and the         *)
(* receiver is in step again.                                              *)
LEMMA StaysInStep ==
  ASSUME BitsType, NEW P, NEW R, Wire(P, R), OnBit(P, R), Arrived < sent, ReceiveBit
  PROVE  OnBit(P, R)'
<1> DEFINE n == Arrived
           len == Len(stored)
           byte == body[len + 1]
<1>1. /\ at = "receive"
      /\ shift' = (IF Unstuffs THEN Shifted \ {7} ELSE Shifted)
      /\ last' = LevelAt(IF Unstuffs THEN sample + 1 ELSE sample)
      /\ sample' = sample + (IF Unstuffs THEN 2 ELSE 1)
      /\ bit' = (bit + 1) % 8 /\ body' = body /\ line' = line /\ sent' = sent
      /\ bit = 7 => x3' = Xor(Marks, shift') /\ stored' = Append(stored, x3')
      /\ bit # 7 => x3' = Marks /\ stored' = stored
  BY DEF ReceiveBit, TransmitterIdle
<1>2. /\ n \in Nat /\ n >= 8 /\ len \in Nat /\ n = 8 * (len + 1) + bit /\ bit \in 0..7
      /\ n < sent /\ sent \in Nat /\ (First <=> n = 8)
      /\ len + 1 \in 1..Len(body) /\ (BitAt(n) <=> bit \in byte) /\ Len(body) \in Nat
  BY TakenIs DEF BitsType
<1>3. /\ shift \in SUBSET (0..7) /\ x3 \in SUBSET (0..7) /\ stored \in Seq(SUBSET (0..7))
      /\ byte \in SUBSET (0..7)
  <2>1. body \in Seq(SUBSET (0..7)) /\ len + 1 \in 1..Len(body)
    BY <1>2 DEF BitsType
  <2>2. byte \in SUBSET (0..7)
    BY <2>1
  <2> QED
    BY <2>2 DEF BitsType
<1>4. /\ R[n] \in 0..6 /\ R[n + 1] \in 0..6
      /\ R[n + 1] = IF BitAt(n) THEN Counted(R[n]) + 1 ELSE 0
      /\ P[n + 1] = sample + 8 /\ sample \in Nat
      /\ LevelAt(sample) = Lev(line, sample + 8)
      /\ R[n + 1] = 6 => LevelAt(sample + 1) = Lev(line, sample + 9)
  BY <1>1, LevelsRead
<1>5. /\ Unstuffs <=> R[n + 1] = 6
      /\ \E p \in 0..5 : /\ RunIs(IF Unstuffs THEN Shifted \ {7} ELSE Shifted, p)
                         /\ Alike(n + 1, R[n + 1], p)
      /\ n > 8 => Shifted = Right(shift) \cup (IF BitAt(n) THEN {7} ELSE {})
      /\ n = 8 => Shifted = (IF BitAt(8) THEN {} ELSE {7}) /\ ~Unstuffs
  BY <1>1, ShiftReads
<1>6. /\ len <= Len(body) /\ \A k \in 1..len : stored[k] = body[k]
      /\ n = 8 => shift = {} /\ x3 = {4}
      /\ n > 8 => Partial(bit, shift, x3, byte)
  BY DEF OnBit, Prefix
<1> HIDE DEF n, byte
<1>7. sample' + 7 = P[n + 1] + Extra(R[n + 1]) /\ last' = Lev(line, sample' + 7)
  <2>1. CASE R[n + 1] = 6
    <3>1. sample' = sample + 2 /\ last' = LevelAt(sample + 1) /\ Extra(R[n + 1]) = 1
      BY <1>1, <1>5, <2>1 DEF Extra
    <3>2. sample' + 7 = sample + 9
      BY <1>4, <3>1
    <3> QED
      BY <1>4, <2>1, <3>1, <3>2
  <2>2. CASE R[n + 1] # 6
    <3>1. sample' = sample + 1 /\ last' = LevelAt(sample) /\ Extra(R[n + 1]) = 0
      BY <1>1, <1>5, <2>2 DEF Extra
    <3>2. sample' + 7 = sample + 8
      BY <1>4, <3>1
    <3> QED
      BY <1>4, <2>2, <3>1, <3>2
  <2> QED
    BY <2>1, <2>2
<1>8. \E p \in 0..5 : RunIs(shift', p) /\ Alike(n + 1, R[n + 1], p)
  BY <1>1, <1>5
<1>9. /\ bit < 7 => bit' = bit + 1 /\ stored' = stored /\ x3' = Marks
                    /\ Partial(bit + 1, shift', x3', byte)
      /\ bit = 7 => bit' = 0 /\ stored' = Append(stored, byte)
  <2>1. (bit < 7 => bit' = bit + 1) /\ (bit = 7 => bit' = 0)
    BY <1>1, <1>2
  <2>2. CASE n = 8
    <3>1. bit = 0 /\ First /\ ~Unstuffs /\ x3 = {4} /\ Shifted = (IF BitAt(8) THEN {} ELSE {7})
      BY <1>2, <1>5, <1>6, <2>2
    <3>2. Marks = {4}
      BY <3>1 DEF Marks
    <3>3. shift' = (IF 0 \in byte THEN {} ELSE {7}) /\ x3' = {4}
      BY <1>1, <1>2, <2>2, <3>1, <3>2
    <3>4. Partial(1, shift', x3', byte)
      <4>1. Top(1) = 4 /\ Turns(1) = 2
        BY DEF Top, Turns
      <4>2. \A j \in 0..(1 - 1) : j = 0
        OBVIOUS
      <4>3. 8 - 1 + 0 = 7 /\ 0 + 2 * 2 = 4 /\ {4} \subseteq 0..4
        OBVIOUS
      <4>4. 0 \in byte <=> (7 \in shift' <=> 4 \notin x3')
        BY <3>3
      <4> QED
        BY <3>3, <4>1, <4>2, <4>3, <4>4 DEF Partial
    <3> QED
      BY <1>1, <2>1, <3>1, <3>4
  <2>3. CASE n > 8
    <3> DEFINE one == BitAt(n)
               six == Unstuffs
    <3>1. one \in BOOLEAN /\ six \in BOOLEAN /\ (one <=> bit \in byte)
      BY <1>2 DEF BitAt, Unstuffs, SixOnes
    <3>2. six => one
      BY <1>4, <1>5
    <3>3. shift' = NextHistory(shift, one, six)
      BY <1>1, <1>5, <2>3 DEF NextHistory
    <3>4. Marks = NextMarks(bit, x3, six)
      BY <1>2, <2>3 DEF Marks, NextMarks
    <3>5. Partial(bit, shift, x3, byte)
      BY <1>6, <2>3
    <3> DEFINE t == NextHistory(shift, one, six)
               u == NextMarks(bit, x3, six)
    <3> HIDE DEF one, six
    <3>6. /\ bit < 7 => Partial(bit + 1, t, u, byte)
          /\ bit = 7 => Xor(u, t) = byte
      BY <1>2, <1>3, <3>1, <3>2, <3>5, ByteGrows
    <3> HIDE DEF t, u
    <3>7. shift' = t /\ Marks = u
      BY <3>3, <3>4 DEF t, u
    <3>8. ASSUME bit < 7
          PROVE  stored' = stored /\ x3' = Marks /\ Partial(bit + 1, shift', x3', byte)
      <4>1. stored' = stored /\ x3' = Marks
        BY <1>1, <1>2, <3>8
      <4>2. x3' = u /\ shift' = t
        BY <3>7, <4>1
      <4>3. Partial(bit + 1, t, u, byte)
        BY <3>6, <3>8
      <4>4. Partial(bit + 1, shift', x3', byte)
        BY <4>2, <4>3
      <4> QED
        BY <4>1, <4>4
    <3>9. ASSUME bit = 7 PROVE stored' = Append(stored, byte)
      <4>1. x3' = Xor(Marks, shift') /\ stored' = Append(stored, x3')
        BY <1>1, <3>9
      <4>2. Xor(u, t) = byte
        BY <3>6, <3>9
      <4> QED
        BY <3>7, <4>1, <4>2
    <3> QED
      BY <2>1, <3>8, <3>9
  <2> QED
    BY <1>2, <2>2, <2>3
<1>10. Arrived' = n + 1 /\ Len(stored') = (IF bit = 7 THEN len + 1 ELSE len)
  <2>1. Len(stored') = (IF bit = 7 THEN len + 1 ELSE len)
    BY <1>3, <1>9, <1>2
  <2>2. bit' = (IF bit = 7 THEN 0 ELSE bit + 1)
    BY <1>2, <1>9
  <2>3. Arrived' = 8 + 8 * Len(stored') + bit'
    BY DEF Arrived
  <2> QED
    BY <1>2, <2>1, <2>2, <2>3
<1>11. Prefix'
  <2>1. CASE bit = 7
    <3>1. Len(stored') = len + 1 /\ stored' = Append(stored, byte)
      BY <1>9, <1>10, <2>1
    <3>2. \A k \in 1..(len + 1) : stored'[k] = body[k]
      <4> SUFFICES ASSUME NEW k \in 1..(len + 1) PROVE stored'[k] = body[k]
        OBVIOUS
      <4>1. CASE k = len + 1
        BY <1>3, <3>1, <4>1 DEF byte
      <4>2. CASE k \in 1..len
        BY <1>3, <1>6, <3>1, <4>2
      <4> QED
        BY <1>2, <4>1, <4>2
    <3> QED
      BY <1>1, <1>2, <3>1, <3>2 DEF Prefix
  <2>2. CASE bit # 7
    BY <1>1, <1>2, <1>6, <1>9, <2>2 DEF Prefix
  <2> QED
    BY <2>1, <2>2
<1>12. Partial(bit', shift', x3', body'[Len(stored') + 1])
  <2>1. CASE bit < 7
    <3>1. Len(stored') = len /\ bit' = bit + 1
      BY <1>9, <1>10, <2>1
    <3> QED
      BY <1>1, <1>9, <2>1, <3>1 DEF byte
  <2>2. CASE bit = 7
    <3>1. x3' \in SUBSET (0..7) /\ bit' = 0
      BY <1>9, <2>2, ReceiveBitType DEF BitsType
    <3>2. Top(0) = 7 /\ \A j : j \notin 0..(0 - 1)
      BY DEF Top
    <3> QED
      BY <3>1, <3>2 DEF Partial
  <2> QED
    BY <1>2, <2>1, <2>2
<1>13. \A i : BitAt(i)' <=> BitAt(i)
  BY <1>1, SameBits
<1>14. \E q \in 0..5 :
         /\ RunIs(shift', q)
         /\ \/ q = Counted(R[n + 1])
            \/ /\ n + 1 <= 13 /\ \A i \in 9..((n + 1) - 1) : BitAt(i)'
               /\ R[n + 1] = ((n + 1) - 9) + (IF BitAt(8)' THEN 2 ELSE 0)
               /\ q = ((n + 1) - 9) + (IF BitAt(8)' THEN 0 ELSE 1)
  BY <1>8, <1>13 DEF Alike, Sure
<1>15. n + 1 # 8 /\ n + 1 <= sent
  BY <1>2
<1> QED
  BY <1>1, <1>7, <1>10, <1>11, <1>12, <1>14, <1>15 DEF OnBit, Alike, Sure

(* At the end of what was sent the receiver sees SE0 and takes no bit out. *)
LEMMA EndIsSeen ==
  ASSUME BitsType, NEW P, NEW R, Wire(P, R), at = "receive", OnBit(P, R), Arrived = sent
  PROVE  /\ sample + 7 = Width /\ Width \in Nat /\ sample \in Nat
         /\ LevelAt(sample) = "SE0" /\ LevelAt(sample + 1) = "SE0"
         /\ 7 \notin Shifted /\ ~Unstuffs
         /\ SeesEnd <=> bit \in {1, 3, 5}
<1>1. Width = P[sent] + Extra(R[sent]) /\ Width \in Nat /\ sample \in Nat
  BY LevelsAre DEF Wire, BitsType
<1>2. sample + 7 = Width /\ last = Lev(line, sample + 7)
  BY <1>1 DEF OnBit
<1>3. last \in {"J", "K"}
  <2>1. sample + 7 \in 0..Width
    BY <1>1, <1>2
  <2> QED
    BY <1>2, <2>1, LevelsAre
<1>4. LevelAt(sample) = "SE0"
  <2>1. sample + 8 \in {Width + 1, Width + 2}
    BY <1>1, <1>2
  <2> QED
    BY <1>1, <2>1, SampleIs
<1>5. LevelAt(sample + 1) = "SE0"
  <2>1. sample + 1 \in Nat /\ (sample + 1) + 8 \in {Width + 1, Width + 2}
    BY <1>1, <1>2
  <2> QED
    BY <2>1, SampleIs
<1>6. 7 \notin Right(shift)
  <2>1. Right(shift) \in SUBSET (0..6)
    BY RightByte DEF BitsType
  <2> QED
    BY <2>1
<1>7. 7 \notin Shifted
  BY <1>3, <1>4, <1>6 DEF Shifted
<1>8. ~Unstuffs
  BY <1>7 DEF Unstuffs, SixOnes
<1> QED
  BY <1>1, <1>2, <1>4, <1>5, <1>7, <1>8 DEF SeesEnd

(* The number of the last bit in its byte.                                 *)
LEMMA LastBits ==
  ASSUME BitsType
  PROVE  /\ Arrived = sent => sent % 8 = bit
         /\ Arrived = sent + 1 /\ bit # 0 => sent % 8 = bit - 1
         /\ Whole => sent % 8 = 0
         /\ Whole /\ Arrived = sent + 1 /\ bit # 0 => Len(stored) = Len(body)
<1>1. /\ Len(stored) \in Nat /\ sent \in Nat /\ Arrived = 8 * (Len(stored) + 1) + bit
      /\ bit \in 0..7 /\ Len(body) \in Nat /\ (Whole <=> sent = 8 * (Len(body) + 1))
  BY TakenIs DEF BitsType
<1>2. \A l \in Nat, b \in 0..7 : (8 * (l + 1) + b) % 8 = b
  OBVIOUS
<1>3. Arrived = sent => sent % 8 = bit
  BY <1>1, <1>2
<1>4. ASSUME Arrived = sent + 1, bit # 0 PROVE sent % 8 = bit - 1
  <2>1. sent = 8 * (Len(stored) + 1) + (bit - 1) /\ bit - 1 \in 0..7
    BY <1>1, <1>4
  <2> QED
    BY <1>1, <1>2, <2>1
<1>5. Whole => sent % 8 = 0
  <2>1. ASSUME Whole PROVE sent = 8 * (Len(body) + 1) + 0
    BY <1>1, <2>1
  <2> QED
    BY <1>1, <1>2, <2>1
<1>6. Whole /\ Arrived = sent + 1 /\ bit # 0 => Len(stored) = Len(body)
  BY <1>1
<1> QED
  BY <1>3, <1>4, <1>5, <1>6

(* At the end, an even bit that did not look for SE0 is followed by an odd *)
(* one that will; behind bits 6 and 7 the end is missed.                   *)
LEMMA PassesEnd ==
  ASSUME BitsType, NEW P, NEW R, Wire(P, R), OnBit(P, R), Arrived = sent, ReceiveBit
  PROVE  CutOdd' \/ CutLate'
<1>1. at = "receive" /\ ~SeesEnd /\ at' = "receive"
  BY DEF ReceiveBit
<1>2. /\ sample + 7 = Width /\ Width \in Nat /\ sample \in Nat
      /\ LevelAt(sample) = "SE0" /\ LevelAt(sample + 1) = "SE0"
      /\ 7 \notin Shifted /\ ~Unstuffs /\ bit \notin {1, 3, 5}
  BY <1>1, EndIsSeen
<1>3. /\ shift' = Shifted /\ last' = "SE0" /\ sample' = sample + 1
      /\ bit' = (bit + 1) % 8 /\ UNCHANGED <<body, line, sent>>
      /\ bit # 7 => stored' = stored
  BY <1>2 DEF ReceiveBit, TransmitterIdle
<1>4. /\ Len(stored) \in Nat /\ sent \in Nat /\ sent = 8 * (Len(stored) + 1) + bit
      /\ bit \in 0..7 /\ sent % 8 = bit
  BY TakenIs, LastBits DEF BitsType
<1>5. Prefix
  BY DEF OnBit
<1>6. CASE bit \in {0, 2, 4}
  <2>1. bit' = bit + 1 /\ stored' = stored
    BY <1>3, <1>6
  <2>2. Arrived' = sent' + 1 /\ bit' \in {1, 3, 5}
    BY <1>3, <1>4, <1>6, <2>1 DEF Arrived
  <2>3. Prefix'
    BY <1>3, <1>5, <2>1 DEF Prefix
  <2>4. LevelAt(sample)' = "SE0"
    BY <1>2, <1>3 DEF LevelAt
  <2> QED
    BY <2>2, <2>3, <2>4 DEF CutOdd
<1>7. CASE bit \in {6, 7}
  <2>1. bit' \in {0, 7} /\ sent' % 8 \in {6, 7}
    BY <1>3, <1>4, <1>7
  <2>2. sample' + 7 = Width' + 1
    BY <1>1, <1>2, <1>3 DEF Width
  <2>3. last' = "SE0" /\ 7 \notin shift'
    BY <1>2, <1>3
  <2> QED
    BY <2>1, <2>2, <2>3 DEF CutLate
<1> QED
  BY <1>2, <1>4, <1>6, <1>7

(* The odd bit sees SE0.                                                   *)
LEMMA OddSeesEnd ==
  ASSUME CutOdd PROVE SeesEnd
  BY DEF CutOdd, SeesEnd

(* Behind SE0 the receiver never finds the end of this packet.             *)
LEMMA LateGoesOn ==
  ASSUME BitsType, at = "receive", CutLate
  PROVE  /\ ~SeesEnd
         /\ ReceiveBit => CutLate'
<1>1. Width \in Nat /\ sample \in Nat /\ sample + 1 \in Nat
  BY LevelsAre DEF BitsType
<1>2. ~SeesEnd
  <2>1. CASE bit \in {0, 7} /\ sample + 7 = Width + 1 /\ last = "SE0" /\ 7 \notin shift
    <3>1. 6 \notin Right(shift)
      BY <2>1, RightByte DEF BitsType
    <3>2. 6 \notin Shifted
      BY <3>1 DEF Shifted
    <3>3. ~Unstuffs
      BY <3>2 DEF Unstuffs, SixOnes
    <3> QED
      BY <2>1, <3>3 DEF SeesEnd
  <2>2. CASE sample + 7 >= Width + 2
    <3>1. LevelAt(sample) = "J" /\ LevelAt(sample + 1) = "J"
      BY <1>1, <2>2, SampleIs
    <3> QED
      BY <3>1 DEF SeesEnd
  <2> QED
    BY <2>1, <2>2 DEF CutLate
<1>3. ASSUME ReceiveBit PROVE CutLate'
  <2>1. /\ sample' = sample + 1 \/ sample' = sample + 2
        /\ at' = "receive" /\ line' = line /\ sent' = sent
    BY <1>3 DEF ReceiveBit, TransmitterIdle
  <2>2. Width' = Width
    BY <2>1 DEF Width
  <2>3. sample + 7 >= Width + 1
    BY <1>1 DEF CutLate
  <2>5. sent % 8 \in {6, 7}
    BY DEF CutLate
  <2>4. sample' + 7 >= Width' + 2
    BY <1>1, <2>1, <2>2, <2>3
  <2> QED
    BY <2>1, <2>4, <2>5 DEF CutLate
<1> QED
  BY <1>2, <1>3

(* A bit received keeps the receiver where it may be.                      *)
LEMMA ReceivesOn ==
  ASSUME BitsType, NEW P, NEW R, Wire(P, R), Where(P, R), ReceiveBit
  PROVE  Where(P, R)'
<1>1. at = "receive" /\ ~SeesEnd
  BY DEF ReceiveBit
<1>2. CASE OnBit(P, R)
  <2>1. Arrived < sent \/ Arrived = sent
    BY <1>2, TakenIs DEF OnBit
  <2>2. CASE Arrived < sent
    BY <1>2, <2>2, StaysInStep DEF Where
  <2>3. CASE Arrived = sent
    BY <1>2, <2>3, PassesEnd DEF Where
  <2> QED
    BY <2>1, <2>2, <2>3
<1>3. CASE CutOdd
  BY <1>1, <1>3, OddSeesEnd
<1>4. CASE CutLate
  BY <1>1, <1>4, LateGoesOn DEF Where
<1> QED
  BY <1>2, <1>3, <1>4 DEF Where

(* Where the receiver finds the end, and where it has no room.             *)
LEMMA EndsRight ==
  ASSUME BitsType, NEW P, NEW R, Wire(P, R), at = "receive", Where(P, R), SeesEnd
  PROVE  Prefix /\ (Whole => Len(stored) = Len(body))
<1>1. CASE OnBit(P, R)
  <2>1. Arrived = sent
    BY <1>1, TakenIs, ShiftReads DEF OnBit
  <2>2. bit \in {1, 3, 5} /\ sent % 8 = bit
    BY <1>1, <2>1, EndIsSeen, LastBits
  <2> QED
    BY <1>1, <2>2, LastBits DEF OnBit
<1>2. CASE CutOdd
  BY <1>2, LastBits DEF CutOdd
<1>3. CASE CutLate
  BY <1>3, LateGoesOn
<1> QED
  BY <1>1, <1>2, <1>3 DEF Where

(* No room is left for a whole packet only when it is longer than the      *)
(* buffer.                                                                 *)
LEMMA NoRoomIsLong ==
  ASSUME BitsType, NEW P, NEW R, Where(P, R), bit = 6, NoRoom, Whole
  PROVE  Len(body) > BufSize
<1>1. Len(stored) \in Nat /\ Len(stored) = BufSize /\ Len(body) \in Nat
  BY BitsAssumption DEF NoRoom, BitsType
<1>2. sent % 8 = 0
  BY LastBits
<1>3. ~CutOdd /\ ~CutLate
  BY <1>2 DEF CutOdd, CutLate
<1>4. Arrived <= sent /\ Arrived # sent
  BY <1>2, <1>3, LastBits DEF Where, OnBit
<1>5. Arrived < sent
  BY <1>4, TakenIs
<1> QED
  BY <1>1, <1>5, TakenIs

(* After the sync pattern the receiver is in step.                         *)
LEMMA ReceiverStarts ==
  ASSUME BitsType, Fresh, NEW P, NEW R, Wire(P, R), EndOfPacket
  PROVE  OnBit(P, R)'
<1>1. /\ at = "send" /\ sent >= 8 /\ UNCHANGED <<body, sent>> /\ UNCHANGED stored
      /\ shift' = {} /\ x3' = {4} /\ last' = "K" /\ bit' = 0 /\ sample' = 1 /\ stored' = <<>>
  BY DEF EndOfPacket, ReceiverIdle, Fresh
<1>2. P[8] = 8 /\ R[8] = 1 /\ Lev(line, 8) = "K"
  BY <1>1, Sync
<1>3. Lev(line', 8) = "K"
  <2>1. 8 \in 0..sent /\ 8 - 1 \in 0..(sent - 1)
    BY <1>1 DEF BitsType
  <2>2. 8 <= Width
    BY <1>2, <2>1 DEF Wire
  <2>3. 8 \in 0..Len(line) /\ Width = Len(line)
    BY <1>1, <2>2, LevelsAre
  <2> QED
    BY <1>2, <2>3, Ended
<1>4. Arrived' = 8 /\ Len(stored') = 0
  BY <1>1 DEF Arrived
<1>5. Prefix'
  BY <1>1, <1>4 DEF Prefix, BitsType
<1>6. sample' + 7 = P[Arrived'] + Extra(R[Arrived']) /\ last' = Lev(line', sample' + 7)
  <2>1. Extra(R[8]) = 0 /\ sample' + 7 = 8
    BY <1>1, <1>2 DEF Extra
  <2> QED
    BY <1>1, <1>2, <1>3, <1>4, <2>1
<1>7. Arrived' <= sent' /\ Arrived' = 8 /\ ~(Arrived' > 8)
  BY <1>1, <1>4
<1> QED
  BY <1>1, <1>5, <1>6, <1>7 DEF OnBit

-----------------------------------------------------------------------------
(* The invariant.                                                          *)

(* The invariant holds at the start, and every step keeps it.              *)
LEMMA InvStarts == BitsInit => BitsInv
<1> SUFFICES ASSUME BitsInit PROVE BitsInv
  OBVIOUS
<1>1. BitsType /\ Fresh
  BY TypeStarts
<1>2. at = "send" /\ line = <<>> /\ sent = 0
  BY DEF BitsInit
<1>3. Toggles
  <2>1. Len(line) = 0
    BY <1>2
  <2> QED
    BY <1>1, <2>1, TogglesNow
<1>4. TogglesInv
  BY <1>2, <1>3 DEF TogglesInv
<1>5. \E P \in [0..sent -> Nat], R \in [0..sent -> 0..6] : Wire(P, R)
  BY WireStarts
<1> QED
  BY <1>1, <1>2, <1>4, <1>5 DEF BitsInv

(* The transmitter's steps.                                                *)
LEMMA InvSends ==
  ASSUME BitsInv, SendBit \/ StuffBit PROVE BitsInv'
<1>1. BitsType /\ TogglesInv /\ at = "send" /\ Fresh
  BY DEF BitsInv, SendBit, StuffBit
<1>2. PICK P, R : Wire(P, R)
  BY DEF BitsInv
<1>3. at' = "send" /\ ReceiverIdle
  BY <1>1 DEF SendBit, StuffBit
<1>4. BitsType' /\ TogglesInv'
  BY <1>1, SendType, StuffType, TogglesSend, TogglesStuff
<1>5. Fresh'
  BY <1>1, <1>3 DEF Fresh, ReceiverIdle
<1>6. \E Q \in [0..sent' -> Nat], S \in [0..sent' -> 0..6] : Wire(Q, S)'
  <2>1. CASE SendBit
    BY <1>1, <1>2, <2>1, WireSend
  <2>2. CASE StuffBit
    <3>1. Wire(P, R)'
      BY <1>1, <1>2, <2>2, WireStuff
    <3>2. P \in [0..sent' -> Nat] /\ R \in [0..sent' -> 0..6]
      BY <3>1 DEF Wire
    <3> QED
      BY <3>1, <3>2
  <2> QED
    BY <2>1, <2>2
<1> QED
  BY <1>3, <1>4, <1>5, <1>6 DEF BitsInv

(* The end of the packet.                                                  *)
LEMMA InvEnds ==
  ASSUME BitsInv, EndOfPacket PROVE BitsInv'
<1>1. BitsType /\ TogglesInv /\ at = "send" /\ Fresh
  BY DEF BitsInv, EndOfPacket
<1>2. PICK P, R : Wire(P, R)
  BY DEF BitsInv
<1>3. at' = "receive"
  BY DEF EndOfPacket
<1>4. BitsType' /\ TogglesInv'
  BY <1>1, EndType, TogglesEnd
<1>5. Wire(P, R)' /\ Where(P, R)'
  BY <1>1, <1>2, WireEnd, ReceiverStarts DEF Where
<1>6. P \in [0..sent' -> Nat] /\ R \in [0..sent' -> 0..6]
  BY <1>5 DEF Wire
<1> QED
  BY <1>3, <1>4, <1>5, <1>6 DEF BitsInv

(* The receiver's steps leave the toggles of the line alone.               *)
LEMMA TogglesStay ==
  ASSUME BitsType, TogglesInv, TransmitterIdle, at = "receive", at' # "send"
  PROVE  TogglesInv'
<1>1. line' = line /\ sent' = sent /\ sent # 0
  BY DEF TransmitterIdle, BitsType
<1> QED
  BY <1>1 DEF TogglesInv, Toggles

(* A bit received.                                                         *)
LEMMA InvReceives ==
  ASSUME BitsInv, ReceiveBit PROVE BitsInv'
<1>1. BitsType /\ TogglesInv /\ at = "receive" /\ at' = "receive" /\ TransmitterIdle
  BY DEF BitsInv, ReceiveBit
<1>2. PICK P, R : Wire(P, R) /\ Where(P, R)
  BY <1>1 DEF BitsInv
<1>3. BitsType' /\ TogglesInv'
  BY <1>1, ReceiveBitType, TogglesStay
<1>4. Wire(P, R)' /\ Where(P, R)'
  BY <1>1, <1>2, WireKept, ReceivesOn
<1>5. P \in [0..sent' -> Nat] /\ R \in [0..sent' -> 0..6]
  BY <1>4 DEF Wire
<1> QED
  BY <1>1, <1>3, <1>4, <1>5 DEF BitsInv

(* The end of the reception: what was stored is what was sent.             *)
LEMMA InvLeaves ==
  ASSUME BitsInv, se0 \/ overflow PROVE BitsInv'
<1>1. /\ BitsType /\ TogglesInv /\ at = "receive" /\ TransmitterIdle
      /\ UNCHANGED <<bit, cnt, stored>>
  BY DEF BitsInv, se0, overflow, Leave
<1>2. PICK P, R : Wire(P, R) /\ Where(P, R)
  BY <1>1 DEF BitsInv
<1>3. at' \in {"done", "overflow"} /\ Leave(at')
  BY DEF se0, overflow, Leave
<1>4. BitsType' /\ TogglesInv'
  BY <1>1, <1>3, LeaveType, TogglesStay
<1>5. Wire(P, R)'
  BY <1>1, <1>2, <1>3, WireKept
<1>6. P \in [0..sent' -> Nat] /\ R \in [0..sent' -> 0..6]
  BY <1>5 DEF Wire
<1>7. body' = body /\ sent' = sent /\ Outgoing' = Outgoing
  BY <1>1 DEF TransmitterIdle, Outgoing
<1>8. at' = "done" => Prefix' /\ (Whole' => Len(stored') = Len(body'))
  <2>1. ASSUME at' = "done" PROVE Prefix /\ (Whole => Len(stored) = Len(body))
    <3>1. SeesEnd
      BY <2>1 DEF se0, overflow, Leave
    <3> QED
      BY <1>1, <1>2, <3>1, EndsRight
  <2> QED
    BY <1>1, <1>7, <2>1 DEF Prefix, Whole
<1>9. at' = "overflow" /\ Whole' => Len(body') > BufSize
  <2>1. ASSUME at' = "overflow", Whole PROVE Len(body) > BufSize
    <3>1. bit = 6 /\ NoRoom
      BY <2>1 DEF se0, overflow, Leave
    <3> QED
      BY <1>1, <1>2, <2>1, <3>1, NoRoomIsLong
  <2> QED
    BY <1>7, <2>1 DEF Whole
<1> QED
  BY <1>3, <1>4, <1>5, <1>6, <1>8, <1>9 DEF BitsInv

(* Nothing happens.                                                        *)
LEMMA InvStutters ==
  ASSUME BitsInv, UNCHANGED bitsVars PROVE BitsInv'
<1>1. UNCHANGED <<payload, body, at, line, sent, x2, shift, x3, last, bit, sample, cnt, stored>>
  BY DEF bitsVars
<1>2. BitsType'
  BY <1>1 DEF BitsInv, BitsType, Width, Outgoing
<1>3. TogglesInv'
  BY <1>1 DEF BitsInv, TogglesInv, Toggles
<1>4. Fresh' <=> Fresh
  BY <1>1 DEF Fresh
<1>5. (Whole' <=> Whole) /\ (Prefix' <=> Prefix)
  BY <1>1 DEF Whole, Prefix, Outgoing
<1>6. PICK P \in [0..sent -> Nat], R \in [0..sent -> 0..6] :
        Wire(P, R) /\ (at = "receive" => Where(P, R))
  BY DEF BitsInv
<1>7. Wire(P, R)'
  BY <1>1, <1>6 DEF Wire, Width, BitAt, Outgoing
<1>8. at = "receive" => Where(P, R)'
  <2>1. ASSUME at = "receive", OnBit(P, R) PROVE OnBit(P, R)'
    BY <1>1, <2>1 DEF OnBit, Arrived, Prefix, Alike, Sure, BitAt, Outgoing
  <2>2. CutOdd' <=> CutOdd
    BY <1>1 DEF CutOdd, Arrived, Prefix, LevelAt
  <2>3. CutLate' <=> CutLate
    BY <1>1 DEF CutLate, Width
  <2> QED
    BY <1>6, <2>1, <2>2, <2>3 DEF Where
<1> QED
  BY <1>1, <1>2, <1>3, <1>4, <1>5, <1>6, <1>7, <1>8 DEF BitsInv

(* For every packet of every length, every room in usbRxBuf and every      *)
(* history of the transmitter, the receiver is in step with the bits on    *)
(* the line until the packet ends, and behind a packet that was cut it     *)
(* stops with whole bytes or never finds an end.                           *)
THEOREM BitsInvariant == BitsSpec => []BitsInv
<1>1. BitsInv /\ [BitsNext]_bitsVars => BitsInv'
  BY InvSends, InvEnds, InvReceives, InvLeaves, InvStutters DEF BitsNext
<1> QED
  BY InvStarts, <1>1, PTL DEF BitsSpec

(* What the transmitter (usbSendAndReti) puts on the line the receiver     *)
(* (rxBitLoop) gets off it: a whole packet is received as it was sent or,  *)
(* when it is longer than the buffer, ends in overflow; one that is cut is *)
(* received as a prefix of whole bytes. The first bit of the pid is not    *)
(* counted as a one or a zero by the receiver as it is by the transmitter: *)
(* the complement in the pid ends the run before that matters.             *)
THEOREM UsbBitsRoundTrip == BitsSpec => []RoundTrip
<1>1. BitsInv => RoundTrip
  <2> SUFFICES ASSUME BitsInv PROVE RoundTrip
    OBVIOUS
  <2>1. /\ body \in Seq(SUBSET (0..7)) /\ stored \in Seq(SUBSET (0..7))
        /\ Len(stored) \in Nat /\ Len(body) \in Nat
    BY DEF BitsInv, BitsType
  <2>2. ASSUME Prefix PROVE Len(stored) \in 0..Len(body) /\ stored = SubSeq(body, 1, Len(stored))
    <3>1. Len(stored) \in 0..Len(body) /\ \A k \in 1..Len(stored) : stored[k] = body[k]
      BY <2>1, <2>2 DEF Prefix
    <3> DEFINE first == SubSeq(body, 1, Len(stored))
    <3>2. first \in Seq(SUBSET (0..7)) /\ Len(first) = Len(stored)
          /\ \A k \in 1..Len(stored) : first[k] = body[k]
      BY <2>1, <3>1
    <3> HIDE DEF first
    <3>3. stored = first
      BY <2>1, <3>1, <3>2, SeqEqual
    <3> QED
      BY <3>1, <3>3 DEF first
  <2>3. ASSUME at = "done" PROVE Prefix /\ (Whole => Len(stored) = Len(body))
    BY <2>3 DEF BitsInv
  <2>4. ASSUME Prefix, Len(stored) = Len(body) PROVE stored = body
    BY <2>1, <2>4, SeqEqual DEF Prefix
  <2>5. at = "overflow" /\ Whole => ~(Len(body) <= BufSize)
    <3>1. at = "overflow" /\ Whole => Len(body) > BufSize
      BY DEF BitsInv
    <3> QED
      BY <2>1, <3>1, BitsAssumption
  <2> QED
    BY <2>2, <2>3, <2>4, <2>5 DEF RoundTrip, Whole
<1> QED
  BY BitsInvariant, <1>1, PTL

(* Whatever is on the line, the receiver stores no more bytes than its     *)
(* half of usbRxBuf has.                                                   *)
THEOREM UsbBitsInBuffer == BitsSpec => []InBuffer
<1>1. BitsInv => InBuffer
  <2> SUFFICES ASSUME BitsInv PROVE InBuffer
    OBVIOUS
  <2>1. /\ cnt \in Nat /\ cnt = BufSize - Len(stored) - (IF bit = 7 THEN 1 ELSE 0)
        /\ Len(stored) \in Nat
    BY DEF BitsInv, BitsType
  <2> QED
    BY <2>1, BitsAssumption DEF InBuffer
<1> QED
  BY BitsInvariant, <1>1, PTL

(* The line the transmitter leaves has a toggle in every seven bits, from  *)
(* the sync byte to its last bit.                                          *)
THEOREM UsbBitsToggles == BitsSpec => []Toggles
<1>1. BitsInv => Toggles
  BY DEF BitsInv, TogglesInv
<1> QED
  BY BitsInvariant, <1>1, PTL

-----------------------------------------------------------------------------
(* The two versions of the CRC. The word that leaves after eight shifts is *)
(* known bit by bit, in rows: what the row has lost at the low end, and    *)
(* where the polynomial has put it. The bits that fall out are parities of *)
(* the low bits of the byte, which is what the table is made of.           *)

(* Induction as a fact about sets of numbers.                              *)
LEMMA SetInduction ==
  ASSUME NEW S \in SUBSET Nat, 0 \in S, \A n \in S : n + 1 \in S
  PROVE  S = Nat
<1> DEFINE T == Nat \ S
           R == OpToRel(<, Nat)
<1>1. \A x, y \in Nat : <<x, y>> \in R <=> x < y
  BY DEF OpToRel
<1>2. IsWellFoundedOn(R, Nat)
  BY NatLessThanWellFounded
<1>3. ASSUME T # {} PROVE FALSE
  <2> HIDE DEF R
  <2>1. T \subseteq Nat
    OBVIOUS
  <2> HIDE DEF T
  <2>2. \E x \in T : \A y \in T : ~ (<<y, x>> \in R)
    BY <1>2, <1>3, <2>1, WFMin, Zenon
  <2>3. PICK x \in T : \A y \in T : ~ (<<y, x>> \in R)
    BY <2>2
  <2>4. x \in Nat /\ x \notin S /\ x # 0
    BY <2>3 DEF T
  <2>5. x - 1 \in Nat /\ (x - 1) + 1 = x /\ x - 1 < x
    BY <2>4
  <2>6. x - 1 \in T
    BY <2>4, <2>5 DEF T
  <2> QED
    BY <1>1, <2>3, <2>4, <2>5, <2>6
<1> QED
  BY <1>3 DEF T

(* What a loop of N steps over S computes: G holds the function of each    *)
(* step.                                                                   *)
Iterates(f, N, S, a, G) ==
  f \in [0..N -> S] /\ f[0] = a /\ \A n \in 1..N : f[n] = G[n][f[n - 1]]

(* A sequence of functions, one applied after the other, has a list of     *)
(* results: the recursive functions of UsbBits exist.                      *)
LEMMA Iteration ==
  ASSUME NEW N \in Nat, NEW S, NEW a \in S, NEW G \in [1..N -> [S -> S]]
  PROVE  \E f : Iterates(f, N, S, a, G)
<1> DEFINE Is(f, m) == f \in [0..m -> S] /\ f[0] = a /\ \A n \in 1..m : f[n] = G[n][f[n - 1]]
           T == {m \in Nat : m <= N => \E f : Is(f, m)}
<1>1. 0 \in T
  <2>1. Is([n \in 0..0 |-> a], 0)
    OBVIOUS
  <2> QED
    BY <2>1
<1>2. ASSUME NEW m \in T PROVE m + 1 \in T
  <2>1. m \in Nat
    OBVIOUS
  <2>2. ASSUME m + 1 <= N PROVE \E f : Is(f, m + 1)
    <3>1. PICK f : Is(f, m)
      BY <2>1, <2>2
    <3> DEFINE g == [n \in 0..(m + 1) |-> IF n <= m THEN f[n] ELSE G[m + 1][f[m]]]
    <3>2. m + 1 \in 1..N /\ m \in 0..m /\ f[m] \in S
      BY <2>1, <2>2, <3>1
    <3>3. G[m + 1][f[m]] \in S
      BY <3>2
    <3>4. g \in [0..(m + 1) -> S]
      <4>1. \A n \in 0..(m + 1) : n <= m => n \in 0..m
        BY <2>1
      <4> QED
        BY <3>1, <3>3, <4>1
    <3>5. \A n \in 0..m : g[n] = f[n]
      BY <2>1
    <3>6. g[m + 1] = G[m + 1][f[m]]
      BY <2>1
    <3> HIDE DEF g
    <3>7. \A n \in 1..(m + 1) : g[n] = G[n][g[n - 1]]
      <4> SUFFICES ASSUME NEW n \in 1..(m + 1) PROVE g[n] = G[n][g[n - 1]]
        OBVIOUS
      <4>1. CASE n = m + 1
        BY <2>1, <3>2, <3>5, <3>6, <4>1
      <4>2. CASE n \in 1..m
        <5>1. n \in 0..m /\ n - 1 \in 0..m
          BY <2>1, <4>2
        <5> QED
          BY <3>1, <3>5, <4>2, <5>1
      <4> QED
        BY <2>1, <4>1, <4>2
    <3>8. g[0] = a
      BY <2>1, <3>1, <3>5
    <3> QED
      BY <3>4, <3>7, <3>8
  <2> QED
    BY <2>1, <2>2
<1> HIDE DEF Is
<1>3. T = Nat
  <2>1. T \in SUBSET Nat
    OBVIOUS
  <2> HIDE DEF T
  <2> QED
    BY <1>1, <1>2, <2>1, SetInduction
<1>4. N \in T
  BY <1>3
<1>5. PICK f : Is(f, N)
  BY <1>4
<1> QED
  BY <1>5 DEF Is, Iterates

(* The values of the CRC register.                                         *)
Words == SUBSET (0..15)

(* A shift of a word, as usbCrcBitLoop makes it, is a word.                *)
LEMMA ShiftIsWord ==
  ASSUME NEW c \in Words
  PROVE  CrcShift(c) \in Words
<1>1. Right(c) \in SUBSET (0..14)
  BY DEF Right, Words
<1> QED
  BY <1>1 DEF CrcShift, Xor, Poly, Words

(* Eight shifts.                                                           *)
LEMMA CrcByteSteps ==
  ASSUME NEW c \in Words
  PROVE  \E b \in [0..8 -> Words] :
           /\ CrcByte(c) = b[8] /\ b[0] = c
           /\ \A n \in 0..7 : b[n + 1] = CrcShift(b[n])
<1> DEFINE G == [n \in 1..8 |-> [d \in Words |-> CrcShift(d)]]
<1>1. G \in [1..8 -> [Words -> Words]]
  BY ShiftIsWord
<1>2. PICK f \in [0..8 -> Words] : f[0] = c /\ \A n \in 1..8 : f[n] = G[n][f[n - 1]]
  <2>1. 8 \in Nat
    OBVIOUS
  <2> HIDE DEF G
  <2>2. \E f : Iterates(f, 8, Words, c, G)
    BY <1>1, <2>1, Iteration
  <2> QED
    BY <2>2 DEF Iterates
<1>3. \A n \in 1..8 : f[n] = CrcShift(f[n - 1])
  <2> SUFFICES ASSUME NEW n \in 1..8 PROVE f[n] = CrcShift(f[n - 1])
    OBVIOUS
  <2>1. n - 1 \in 0..8
    OBVIOUS
  <2> QED
    BY <1>2, <2>1
<1> HIDE DEF G
<1> DEFINE bits[n \in 0..8] == IF n = 0 THEN c ELSE CrcShift(bits[n - 1])
<1>4. CrcByte(c) = bits[8]
  BY DEF CrcByte
<1>5. bits = [n \in 0..8 |-> IF n = 0 THEN c ELSE CrcShift(bits[n - 1])]
  <2>1. \A n \in 0..8 : f[n] = IF n = 0 THEN c ELSE CrcShift(f[n - 1])
    BY <1>2, <1>3
  <2>2. f = [n \in 0..8 |-> IF n = 0 THEN c ELSE CrcShift(f[n - 1])]
    BY <1>2, <2>1
  <2>3. \E b : b = [n \in 0..8 |-> IF n = 0 THEN c ELSE CrcShift(b[n - 1])]
    BY <2>2
  <2> QED
    BY <2>3
<1> HIDE DEF bits
<1>6. bits[0] = c /\ DOMAIN bits = 0..8
  BY <1>5
<1>7. ASSUME NEW n \in 0..7 PROVE bits[n + 1] = CrcShift(bits[n])
  <2>1. n + 1 \in 0..8 /\ n + 1 # 0 /\ (n + 1) - 1 = n
    OBVIOUS
  <2> QED
    BY <1>5, <2>1
<1> DEFINE T == {n \in Nat : n <= 8 => bits[n] \in Words}
<1>8. T = Nat
  <2>1. T \in SUBSET Nat /\ 0 \in T
    BY <1>6
  <2>2. ASSUME NEW n \in T PROVE n + 1 \in T
    <3>1. n \in Nat
      OBVIOUS
    <3>2. ASSUME n + 1 <= 8 PROVE bits[n + 1] \in Words
      <4>1. n \in 0..7 /\ bits[n] \in Words
        BY <3>1, <3>2
      <4> QED
        BY <1>7, <4>1, ShiftIsWord
    <3> QED
      BY <3>1, <3>2
  <2> HIDE DEF T
  <2> QED
    BY <2>1, <2>2, SetInduction
<1>9. \A n \in 0..8 : bits[n] \in Words
  BY <1>8
<1>10. bits \in [0..8 -> Words]
  BY <1>5, <1>9
<1> QED
  BY <1>4, <1>6, <1>7, <1>10

(* The shift of the remainder as the CRC has it, not inverted.             *)
Plain(e) == IF 0 \in e THEN Xor(Right(e), Poly) ELSE Right(e)

(* The shift of an inverted word is the inverted shift of the word.        *)
LEMMA PlainIs ==
  ASSUME NEW e \in Words
  PROVE  /\ Plain(e) \in Words
         /\ \A k \in 0..15 : k \in Plain(e) <=> ~(k + 1 \in e <=> 0 \in e /\ k \in {0, 13, 15})
         /\ CrcShift((0..15) \ e) = (0..15) \ Plain(e)
<1>1. \A s \in Words :
        Right(s) \in SUBSET (0..14) /\ \A k \in 0..15 : k \in Right(s) <=> k + 1 \in s
  <2> SUFFICES ASSUME NEW s \in Words
               PROVE  Right(s) \in SUBSET (0..14) /\ \A k \in 0..15 : k \in Right(s) <=> k + 1 \in s
    OBVIOUS
  <2>1. Right(s) \in SUBSET (0..14)
    BY DEF Right, Words
  <2>2. ASSUME NEW k \in 0..15, k \in Right(s) PROVE k + 1 \in s
    BY <2>2 DEF Right, Words
  <2>3. ASSUME NEW k \in 0..15, k + 1 \in s PROVE k \in Right(s)
    <3>1. k + 1 \in s \ {0} /\ k = (k + 1) - 1
      BY <2>3
    <3> QED
      BY <3>1, Zenon DEF Right
  <2> QED
    BY <2>1, <2>2, <2>3
<1> DEFINE c == (0..15) \ e
           r == Right(e)
           t == Right(c)
<1>2. c \in Words /\ \A k \in 0..15 : k \in c <=> k \notin e
  BY DEF Words
<1>3. r \in SUBSET (0..14) /\ \A k \in 0..15 : k \in r <=> k + 1 \in e
  BY <1>1
<1>4. t \in SUBSET (0..14) /\ \A k \in 0..15 : k \in t <=> k + 1 \in c
  <2> HIDE DEF c
  <2> QED
    BY <1>1, <1>2
<1> HIDE DEF r, t, c
<1>5. {15} \cup t = (0..15) \ r
  <2>1. \A k \in 0..14 : k \in t <=> k \notin r
    <3> SUFFICES ASSUME NEW k \in 0..14 PROVE k \in t <=> k \notin r
      OBVIOUS
    <3>1. k \in 0..15 /\ k + 1 \in 0..15
      OBVIOUS
    <3> QED
      BY <1>2, <1>3, <1>4, <3>1
  <2>2. 15 \notin r
    BY <1>3
  <2>3. \A k : k \in {15} \cup t <=> k \in (0..15) \ r
    <3>1. \A k : k \in 0..15 <=> k \in 0..14 \/ k = 15
      OBVIOUS
    <3>2. \A k : k \in t => k \in 0..14
      BY <1>4
    <3> QED
      BY <2>1, <2>2, <3>1, <3>2
  <2> QED
    BY <2>3
<1>6. 0 \in c <=> 0 \notin e
  BY <1>2
<1>7. CrcShift(c) = (0..15) \ Plain(e)
  <2>1. CASE 0 \in e
    <3>1. CrcShift(c) = Xor((0..15) \ r, Poly) /\ Plain(e) = Xor(r, Poly)
      BY <1>5, <1>6, <2>1 DEF CrcShift, Plain, r, t
    <3>2. Xor((0..15) \ r, Poly) = (0..15) \ Xor(r, Poly)
      BY <1>3 DEF Xor, Poly
    <3> QED
      BY <3>1, <3>2
  <2>2. CASE 0 \notin e
    BY <1>5, <1>6, <2>2 DEF CrcShift, Plain, r, t
  <2> QED
    BY <2>1, <2>2
<1>8. Plain(e) \in Words
  BY <1>3 DEF Plain, Xor, Poly, Words, r
<1>9. ASSUME NEW k \in 0..15
      PROVE  k \in Plain(e) <=> ~(k + 1 \in e <=> 0 \in e /\ k \in {0, 13, 15})
  <2>1. k \in r <=> k + 1 \in e
    BY <1>3
  <2> QED
    BY <2>1 DEF Plain, Xor, Poly, r
<1> QED
  BY <1>7, <1>8, <1>9 DEF c

(* Bit k after n of the shifts: bit k + n of the word, or the bit that     *)
(* fell out when the polynomial set bit 15, and once more from bit 13.     *)
Fallen(o, i) == i \in 0..7 /\ o[i]
RowIs(e, o, w, n) ==
  \A k \in 1..15 :
    k \in e <=> ~((IF k + n <= 15 THEN k + n \in w ELSE Fallen(o, k + n - 16))
                  <=> k <= 13 /\ k + n >= 14 /\ Fallen(o, k + n - 14))

(* One more shift moves the row by one.                                    *)
LEMMA NextRow ==
  ASSUME NEW e \in Words, NEW w \in Words, NEW o, NEW n \in 0..7,
         RowIs(e, o, w, n), o[n] <=> 0 \in e
  PROVE  RowIs(Plain(e), o, w, n + 1)
<1> DEFINE p == Plain(e)
<1>1. \A k \in 0..15 : k \in p <=> ~(k + 1 \in e <=> 0 \in e /\ k \in {0, 13, 15})
  BY PlainIs
<1>2. Fallen(o, n) <=> 0 \in e
  BY DEF Fallen
<1> HIDE DEF p
<1> SUFFICES ASSUME NEW k \in 1..15
             PROVE  k \in p <=> ~((IF k + (n + 1) <= 15 THEN k + (n + 1) \in w
                                   ELSE Fallen(o, k + (n + 1) - 16))
                                  <=> k <= 13 /\ k + (n + 1) >= 14 /\ Fallen(o, k + (n + 1) - 14))
  BY DEF RowIs, p
<1>3. CASE k = 15
  <2>1. k + 1 \notin e
    BY <1>3 DEF Words
  <2>2. k \in p <=> 0 \in e
    BY <1>1, <1>3, <2>1
  <2>3. ~(k + (n + 1) <= 15) /\ k + (n + 1) - 16 = n /\ ~(k <= 13)
    BY <1>3
  <2> QED
    BY <1>2, <2>2, <2>3
<1>4. CASE k <= 14
  <2> DEFINE m == k + (n + 1)
  <2>1. k + 1 \in 1..15 /\ (k + 1) + n = m /\ m \in Nat
    BY <1>4
  <2>2. k + 1 \in e <=> ~((IF m <= 15 THEN m \in w ELSE Fallen(o, m - 16))
                          <=> k + 1 <= 13 /\ m >= 14 /\ Fallen(o, m - 14))
    <3> HIDE DEF m
    <3> QED
      BY <2>1 DEF RowIs
  <2>3. CASE k = 14
    <3>1. k \in p <=> k + 1 \in e
      BY <1>1, <2>3
    <3>2. ~(k + 1 <= 13) /\ ~(k <= 13)
      BY <2>3
    <3> HIDE DEF m
    <3> QED
      BY <2>2, <3>1, <3>2 DEF m
  <2>4. CASE k = 13
    <3>1. k \in p <=> ~(k + 1 \in e <=> 0 \in e)
      BY <1>1, <2>4
    <3>2. m - 14 = n /\ m >= 14 /\ ~(k + 1 <= 13) /\ k <= 13
      BY <2>4
    <3> HIDE DEF m
    <3> QED
      BY <1>2, <2>2, <3>1, <3>2 DEF m
  <2>5. CASE k <= 12
    <3>1. k \in p <=> k + 1 \in e
      BY <1>1, <2>5
    <3>2. k + 1 <= 13 /\ k <= 13
      BY <2>5
    <3> HIDE DEF m
    <3> QED
      BY <2>2, <3>1, <3>2 DEF m
  <2> QED
    BY <1>4, <2>3, <2>4, <2>5
<1> QED
  BY <1>3, <1>4

(* How many ones the low bits of a byte have.                              *)
LEMMA Parity ==
  ASSUME NEW x \in SUBSET (0..7), NEW o, o[0] <=> 0 \in x,
         \A n \in 0..6 : o[n + 1] <=> ~(n + 1 \in x <=> o[n])
  PROVE  Cardinality(x) % 2 = 1 <=> o[7]
<1> DEFINE below(n) == x \cap (0..n)
           T == {n \in Nat : n <= 7 =>
                   /\ IsFiniteSet(below(n)) /\ Cardinality(below(n)) \in Nat
                   /\ Cardinality(below(n)) % 2 = 1 <=> o[n]}
<1>1. ASSUME NEW s, NEW k, IsFiniteSet(s), Cardinality(s) \in Nat, k \notin s
      PROVE  /\ IsFiniteSet(s \cup {k}) /\ Cardinality(s \cup {k}) \in Nat
             /\ Cardinality(s \cup {k}) % 2 = 1 <=> ~(Cardinality(s) % 2 = 1)
  <2>1. IsFiniteSet(s \cup {k}) /\ Cardinality(s \cup {k}) = Cardinality(s) + 1
    BY <1>1, FS_AddElement
  <2> QED
    BY <1>1, <2>1
<1>2. IsFiniteSet({}) /\ Cardinality({}) = 0
  BY FS_EmptySet
<1>0. \A k : k \in x => k \in 0..7
  OBVIOUS
<1>3. 0 \in T
  <2>0. \A k : k \in 0..0 <=> k = 0
    OBVIOUS
  <2>1. CASE 0 \in x
    <3>1. below(0) = {} \cup {0}
      <4>1. \A k : k \in below(0) <=> k \in {} \cup {0}
        BY <2>0, <2>1
      <4> QED
        BY <4>1
    <3> QED
      BY <1>1, <1>2, <2>1, <3>1
  <2>2. CASE 0 \notin x
    <3>1. below(0) = {}
      <4>1. \A k : k \notin below(0)
        BY <2>0, <2>2
      <4> QED
        BY <4>1
    <3> QED
      BY <1>2, <2>2, <3>1
  <2> QED
    BY <2>1, <2>2
<1>4. ASSUME NEW n \in T PROVE n + 1 \in T
  <2>1. n \in Nat
    OBVIOUS
  <2>0. \A k : k \in 0..(n + 1) <=> k \in 0..n \/ k = n + 1
    BY <2>1
  <2>2. CASE n + 1 <= 7
    <3>1. /\ IsFiniteSet(below(n)) /\ Cardinality(below(n)) \in Nat
          /\ Cardinality(below(n)) % 2 = 1 <=> o[n]
      BY <2>1, <2>2
    <3>2. o[n + 1] <=> ~(n + 1 \in x <=> o[n])
      BY <2>1, <2>2
    <3>3. CASE n + 1 \in x
      <4>1. below(n + 1) = below(n) \cup {n + 1} /\ n + 1 \notin below(n)
        <5>1. \A k : k \in below(n + 1) <=> k \in below(n) \cup {n + 1}
          BY <2>0, <3>3
        <5>2. below(n + 1) = below(n) \cup {n + 1}
          BY <5>1
        <5>3. n + 1 \notin 0..n
          BY <2>1
        <5> QED
          BY <5>2, <5>3
      <4> HIDE DEF below
      <4>2. /\ IsFiniteSet(below(n + 1)) /\ Cardinality(below(n + 1)) \in Nat
            /\ Cardinality(below(n + 1)) % 2 = 1 <=> ~(Cardinality(below(n)) % 2 = 1)
        BY <1>1, <3>1, <4>1
      <4> QED
        BY <2>1, <3>1, <3>2, <3>3, <4>2
    <3>4. CASE n + 1 \notin x
      <4>1. below(n + 1) = below(n)
        <5>1. \A k : k \in below(n + 1) <=> k \in below(n)
          BY <2>0, <3>4
        <5> QED
          BY <5>1
      <4> HIDE DEF below
      <4> QED
        BY <2>1, <3>1, <3>2, <3>4, <4>1
    <3> QED
      BY <3>3, <3>4
  <2>3. CASE ~(n + 1 <= 7)
    BY <2>1, <2>3
  <2> QED
    BY <2>2, <2>3
<1>5. T = Nat
  <2>1. T \in SUBSET Nat
    OBVIOUS
  <2> HIDE DEF T
  <2> QED
    BY <1>3, <1>4, <2>1, SetInduction
<1>6. 7 \in T
  BY <1>5
<1>7. below(7) = x
  <2>1. \A k : k \in below(7) <=> k \in x
    BY <1>0
  <2> QED
    BY <2>1
<1>8. Cardinality(below(7)) % 2 = 1 <=> o[7]
  BY <1>6
<1> HIDE DEF below
<1> QED
  BY <1>7, <1>8

(* The table of a byte and the high byte, bit by bit.                      *)
LEMMA TableIs ==
  ASSUME NEW e \in Words, NEW m \in 0..15
  PROVE  LET x == {k \in e : k < 8}
             high == {k - 8 : k \in {l \in e : l >= 8}}
         IN  m \in Xor(Table(x), high) <=>
               ~((m - 6 \in x <=> m - 7 \in x)
                 <=> (Cardinality(x) % 2 = 1 /\ m \in {0, 14, 15} <=> m + 8 \in e))
<1> DEFINE x == {k \in e : k < 8}
           high == {k - 8 : k \in {l \in e : l >= 8}}
           a == {k + 6 : k \in x}
           b == {k + 7 : k \in x}
           p == IF Cardinality(x) % 2 = 1 THEN {0, 14, 15} ELSE {}
<1>1. \A k : (k \in e => k \in 0..15) /\ (k \in x => k \in 0..7)
  <2>1. \A k : k \in e => k \in 0..15
    BY DEF Words
  <2>2. \A k : k \in x => k \in e /\ k < 8
    OBVIOUS
  <2> HIDE DEF x
  <2>3. \A k : k \in x => k \in 0..7
    BY <2>1, <2>2
  <2> QED
    BY <2>1, <2>3
<1>2. m \in a <=> m - 6 \in x
  <2>1. ASSUME m \in a PROVE m - 6 \in x
    BY <1>1, <2>1
  <2>2. ASSUME m - 6 \in x PROVE m \in a
    <3>1. m = (m - 6) + 6
      OBVIOUS
    <3> HIDE DEF x
    <3> QED
      BY <2>2, <3>1
  <2> QED
    BY <2>1, <2>2
<1>3. m \in b <=> m - 7 \in x
  <2>1. ASSUME m \in b PROVE m - 7 \in x
    BY <1>1, <2>1
  <2>2. ASSUME m - 7 \in x PROVE m \in b
    <3>1. m = (m - 7) + 7
      OBVIOUS
    <3> HIDE DEF x
    <3> QED
      BY <2>2, <3>1
  <2> QED
    BY <2>1, <2>2
<1>4. m \in high <=> m + 8 \in e
  <2>1. ASSUME m \in high PROVE m + 8 \in e
    BY <1>1, <2>1
  <2>2. ASSUME m + 8 \in e PROVE m \in high
    <3>1. m = (m + 8) - 8 /\ m + 8 >= 8
      OBVIOUS
    <3> QED
      BY <2>2, <3>1
  <2> QED
    BY <2>1, <2>2
<1>5. m \in p <=> Cardinality(x) % 2 = 1 /\ m \in {0, 14, 15}
  OBVIOUS
<1>6. Table(x) = Xor(Xor(a, b), p)
  BY DEF Table
<1> HIDE DEF x, high, a, b, p
<1>7. m \in Xor(Table(x), high) <=> ~((m \in a <=> m \in b) <=> (m \in p <=> m \in high))
  BY <1>6 DEF Xor
<1>8. m \in Xor(Table(x), high) <=>
        ~((m - 6 \in x <=> m - 7 \in x)
          <=> (Cardinality(x) % 2 = 1 /\ m \in {0, 14, 15} <=> m + 8 \in e))
  BY <1>2, <1>3, <1>4, <1>5, <1>7
<1> QED
  BY <1>8 DEF x, high

(* After eight shifts the low byte of the word has fallen out, and the     *)
(* high byte has moved down and is changed by the table.                   *)
LEMMA EightShifts ==
  ASSUME NEW e \in Words, NEW d \in [0..8 -> Words], d[0] = e,
         \A n \in 0..7 : d[n + 1] = Plain(d[n])
  PROVE  d[8] = Xor(Table({k \in e : k < 8}), {k - 8 : k \in {l \in e : l >= 8}})
<1> DEFINE o == [n \in 0..7 |-> 0 \in d[n]]
           x == {k \in e : k < 8}
           T == {n \in Nat : n <= 8 => RowIs(d[n], o, e, n)}
<1>1. \A n \in 0..7 : o[n] <=> 0 \in d[n]
  OBVIOUS
<1> HIDE DEF o
<1>2. 0 \in T
  <2>1. \A k \in 1..15 : k + 0 = k /\ (k <= 13 => ~(k >= 14))
    OBVIOUS
  <2> QED
    BY <2>1 DEF RowIs
<1>3. ASSUME NEW n \in T PROVE n + 1 \in T
  <2>1. n \in Nat
    OBVIOUS
  <2>2. ASSUME n + 1 <= 8 PROVE RowIs(d[n + 1], o, e, n + 1)
    <3>1. n \in 0..7 /\ RowIs(d[n], o, e, n) /\ d[n] \in Words
      BY <2>1, <2>2
    <3>2. RowIs(Plain(d[n]), o, e, n + 1)
      BY <1>1, <3>1, NextRow
    <3> QED
      BY <3>1, <3>2
  <2> QED
    BY <2>1, <2>2
<1>4. \A n \in 0..8 : RowIs(d[n], o, e, n)
  <2>1. T \in SUBSET Nat
    OBVIOUS
  <2>2. T = Nat
    <3> HIDE DEF T
    <3> QED
      BY <1>2, <1>3, <2>1, SetInduction
  <2> QED
    BY <2>2
<1> HIDE DEF T
<1>5. \A n \in 0..7 : 1 \in d[n] <=> n + 1 \in e
  <2> SUFFICES ASSUME NEW n \in 0..7 PROVE 1 \in d[n] <=> n + 1 \in e
    OBVIOUS
  <2>1. RowIs(d[n], o, e, n)
    BY <1>4
  <2>2. 1 + n <= 15 /\ ~(1 + n >= 14) /\ 1 + n = n + 1
    OBVIOUS
  <2> QED
    BY <2>1, <2>2 DEF RowIs
<1>6. \A n \in 0..7 : 0 \in d[n + 1] <=> ~(n + 1 \in e <=> o[n])
  <2> SUFFICES ASSUME NEW n \in 0..7 PROVE 0 \in d[n + 1] <=> ~(n + 1 \in e <=> o[n])
    OBVIOUS
  <2>1. 0 \in Plain(d[n]) <=> ~(0 + 1 \in d[n] <=> 0 \in d[n] /\ 0 \in {0, 13, 15})
    <3>1. d[n] \in Words /\ 0 \in 0..15
      OBVIOUS
    <3> QED
      BY <3>1, PlainIs
  <2> QED
    BY <1>1, <1>5, <2>1
<1>7. \A n \in 0..6 : o[n + 1] <=> ~(n + 1 \in e <=> o[n])
  BY <1>1, <1>6
<1>8. o[0] <=> 0 \in e
  BY <1>1
<1>9. x \in SUBSET (0..7) /\ \A k \in 0..7 : k \in x <=> k \in e
  BY DEF Words
<1>10. \A k : k \in x => k \in 0..7
  BY <1>9
<1>11. \A k : k \in e => k \in 0..15
  BY DEF Words
<1> HIDE DEF x
<1>12. Cardinality(x) % 2 = 1 <=> o[7]
  <2>1. \A n \in 0..6 : o[n + 1] <=> ~(n + 1 \in x <=> o[n])
    BY <1>7, <1>9
  <2>2. o[0] <=> 0 \in x
    BY <1>8, <1>9
  <2> QED
    BY <1>9, <2>1, <2>2, Parity
<1> DEFINE par == Cardinality(x) % 2 = 1
           value(m) == ~((m - 6 \in x <=> m - 7 \in x)
                         <=> (par /\ m \in {0, 14, 15} <=> m + 8 \in e))
<1>13. par <=> o[7]
  BY <1>12
<1> HIDE DEF par
<1>14. RowIs(d[8], o, e, 8)
  BY <1>4
<1>15. ASSUME NEW m \in 0..15 PROVE m \in d[8] <=> value(m)
  <2>1. CASE m = 0
    <3>1. 0 \in d[8] <=> ~(8 \in e <=> o[7])
      BY <1>6
    <3>2. m - 6 \notin x /\ m - 7 \notin x /\ m + 8 = 8
      BY <1>10, <2>1
    <3> QED
      BY <1>13, <2>1, <3>1, <3>2
  <2>2. CASE m \in 1..5
    <3>1. m \in d[8] <=> m + 8 \in e
      BY <1>14, <2>2 DEF RowIs
    <3>2. m - 6 \notin x /\ m - 7 \notin x /\ m \notin {0, 14, 15}
      BY <1>10, <2>2
    <3> QED
      BY <3>1, <3>2
  <2>3. CASE m \in 6..7
    <3>1. m \in d[8] <=> ~(m + 8 \in e <=> o[m - 6])
      BY <1>14, <2>3 DEF RowIs, Fallen
    <3>2. m \notin {0, 14, 15}
      BY <2>3
    <3>3. CASE m = 6
      <4>1. m - 6 = 0 /\ m - 7 \notin x
        BY <1>10, <3>3
      <4> QED
        BY <1>8, <1>9, <3>1, <3>2, <4>1
    <3>4. CASE m = 7
      <4>1. m - 6 = 0 + 1 /\ m - 7 = 0 /\ 0 + 1 = 1
        BY <3>4
      <4> QED
        BY <1>7, <1>8, <1>9, <3>1, <3>2, <4>1
    <3> QED
      BY <2>3, <3>3, <3>4
  <2>4. CASE m \in 8..13
    <3>1. m \in d[8] <=> ~(o[m - 8] <=> o[m - 6])
      BY <1>14, <2>4 DEF RowIs, Fallen
    <3>2. m \notin {0, 14, 15} /\ m + 8 \notin e
      BY <1>11, <2>4
    <3>3. m - 8 \in 0..6 /\ m - 7 \in 0..6 /\ (m - 8) + 1 = m - 7 /\ (m - 7) + 1 = m - 6
          /\ m - 7 \in 0..7 /\ m - 6 \in 0..7
      BY <2>4
    <3>4. o[m - 7] <=> ~(m - 7 \in e <=> o[m - 8])
      BY <1>7, <3>3
    <3>5. o[m - 6] <=> ~(m - 6 \in e <=> o[m - 7])
      BY <1>7, <3>3
    <3>6. (m - 7 \in x <=> m - 7 \in e) /\ (m - 6 \in x <=> m - 6 \in e)
      BY <1>9, <3>3
    <3> QED
      BY <3>1, <3>2, <3>4, <3>5, <3>6
  <2>5. CASE m = 14
    <3>1. m \in d[8] <=> o[6]
      BY <1>14, <2>5 DEF RowIs, Fallen
    <3>2. o[7] <=> ~(7 \in x <=> o[6])
      <4>1. 6 \in 0..6 /\ 6 + 1 = 7
        OBVIOUS
      <4> QED
        BY <1>7, <1>9, <4>1
    <3>3. m - 6 \notin x /\ m - 7 = 7 /\ m + 8 \notin e
      BY <1>10, <1>11, <2>5
    <3> QED
      BY <1>13, <2>5, <3>1, <3>2, <3>3
  <2>6. CASE m = 15
    <3>1. m \in d[8] <=> o[7]
      BY <1>14, <2>6 DEF RowIs, Fallen
    <3>2. m - 6 \notin x /\ m - 7 \notin x /\ m + 8 \notin e
      BY <1>10, <1>11, <2>6
    <3> QED
      BY <1>13, <2>6, <3>1, <3>2
  <2> QED
    BY <2>1, <2>2, <2>3, <2>4, <2>5, <2>6
<1> DEFINE table == Xor(Table(x), {k - 8 : k \in {l \in e : l >= 8}})
<1>16. ASSUME NEW m \in 0..15 PROVE m \in table <=> value(m)
  BY TableIs DEF x, par
<1>17. table \in Words
  <2>1. \A k \in x : k + 6 \in 0..15 /\ k + 7 \in 0..15
    BY <1>9
  <2>2. \A k \in e : k >= 8 => k - 8 \in 0..15
    BY <1>11
  <2> QED
    BY <2>1, <2>2 DEF Table, Xor, Words
<1> HIDE DEF table, value
<1>18. d[8] \in Words /\ \A m \in 0..15 : m \in d[8] <=> m \in table
  BY <1>15, <1>16
<1>19. d[8] = table
  <2>1. \A m : m \in d[8] <=> m \in table
    BY <1>17, <1>18 DEF Words
  <2> QED
    BY <1>17, <1>18, <2>1 DEF Words
<1> QED
  BY <1>19 DEF table, x

(* One byte of the faster version.                                         *)
FastByte(d, byte) ==
  Xor(Table(Xor({k \in d : k < 8}, byte)), {k - 8 : k \in {l \in d : l >= 8}})

(* The eight shifts of usbCrcBitLoop do what a look at the table does.     *)
LEMMA BytesAgree ==
  ASSUME NEW d \in Words, NEW byte \in SUBSET (0..7)
  PROVE  /\ FastByte(d, byte) \in Words
         /\ CrcByte(Xor((0..15) \ d, byte)) = (0..15) \ FastByte(d, byte)
<1> DEFINE e == Xor(d, byte)
           c == (0..15) \ e
<1>1. e \in Words /\ c \in Words
  BY DEF Xor, Words
<1>2. Xor((0..15) \ d, byte) = c
  <2>1. \A k : k \in byte => k \in 0..15
    OBVIOUS
  <2>2. \A k : k \in Xor((0..15) \ d, byte) <=> k \in c
    BY <2>1 DEF Xor
  <2> QED
    BY <2>2
<1>3. {k \in e : k < 8} = Xor({k \in d : k < 8}, byte)
  <2>1. \A k : k \in byte => k < 8
    OBVIOUS
  <2>2. \A k : k \in {l \in e : l < 8} <=> k \in Xor({l \in d : l < 8}, byte)
    BY <2>1 DEF Xor
  <2> QED
    BY <2>2
<1>4. {l \in e : l >= 8} = {l \in d : l >= 8}
  <2>1. \A k : k \in byte => ~(k >= 8)
    OBVIOUS
  <2>2. \A k : k \in {l \in e : l >= 8} <=> k \in {l \in d : l >= 8}
    BY <2>1 DEF Xor
  <2> QED
    BY <2>2
<1>5. PICK b \in [0..8 -> Words] :
        CrcByte(c) = b[8] /\ b[0] = c /\ \A n \in 0..7 : b[n + 1] = CrcShift(b[n])
  BY <1>1, CrcByteSteps
<1> DEFINE f == [n \in 0..8 |-> (0..15) \ b[n]]
<1>6. f \in [0..8 -> Words] /\ \A n \in 0..8 : b[n] = (0..15) \ f[n]
  <2>1. \A n \in 0..8 : f[n] \in Words /\ b[n] = (0..15) \ f[n]
    BY <1>5 DEF Words
  <2> QED
    BY <2>1
<1>7. f[0] = e
  BY <1>1, <1>5 DEF Words
<1> HIDE DEF f, e, c
<1>8. \A n \in 0..7 : f[n + 1] = Plain(f[n])
  <2> SUFFICES ASSUME NEW n \in 0..7 PROVE f[n + 1] = Plain(f[n])
    OBVIOUS
  <2>1. n \in 0..8 /\ n + 1 \in 0..8
    OBVIOUS
  <2>2. f[n] \in Words /\ f[n + 1] \in Words
    BY <1>6, <2>1
  <2>3. CrcShift(b[n]) = (0..15) \ Plain(f[n]) /\ Plain(f[n]) \in Words
    BY <1>6, <2>1, <2>2, PlainIs
  <2>4. (0..15) \ f[n + 1] = (0..15) \ Plain(f[n])
    BY <1>5, <1>6, <2>1, <2>3
  <2> QED
    BY <2>2, <2>3, <2>4 DEF Words
<1>9. f[8] = Xor(Table({k \in e : k < 8}), {k - 8 : k \in {l \in e : l >= 8}})
  BY <1>1, <1>6, <1>7, <1>8, EightShifts
<1>10. f[8] = FastByte(d, byte)
  BY <1>3, <1>4, <1>9 DEF FastByte
<1>11. b[8] = (0..15) \ f[8] /\ f[8] \in Words
  BY <1>6
<1> QED
  BY <1>2, <1>5, <1>10, <1>11

(* What the two loops over the bytes compute.                              *)
LEMMA CrcSteps ==
  ASSUME NEW bytes \in Seq(SUBSET (0..7))
  PROVE  \E f : /\ usbCrc16(bytes) = f[Len(bytes)] /\ f[0] = {}
                /\ \A n \in 1..Len(bytes) : f[n] = CrcByte(Xor(f[n - 1], bytes[n]))
<1> DEFINE N == Len(bytes)
           G == [n \in 1..N |-> [c \in Words |-> CrcByte(Xor(c, bytes[n]))]]
<1>1. N \in Nat /\ \A n \in 1..N : bytes[n] \in SUBSET (0..7)
  OBVIOUS
<1> HIDE DEF N
<1>2. G \in [1..N -> [Words -> Words]]
  <2>1. ASSUME NEW n \in 1..N, NEW c \in Words PROVE CrcByte(Xor(c, bytes[n])) \in Words
    <3> DEFINE d == (0..15) \ c
    <3>1. d \in Words /\ c = (0..15) \ d
      BY DEF Words
    <3>2. bytes[n] \in SUBSET (0..7)
      BY <1>1
    <3> HIDE DEF d
    <3>3. CrcByte(Xor((0..15) \ d, bytes[n])) = (0..15) \ FastByte(d, bytes[n])
      BY <3>1, <3>2, BytesAgree
    <3> QED
      BY <3>1, <3>3 DEF Words
  <2> QED
    BY <2>1
<1>3. {} \in Words
  BY DEF Words
<1>4. \E f : Iterates(f, N, Words, {}, G)
  <2> HIDE DEF G
  <2> QED
    BY <1>1, <1>2, <1>3, Iteration
<1>5. PICK f : Iterates(f, N, Words, {}, G)
  BY <1>4
<1>6. ASSUME NEW n \in 1..N PROVE f[n] = CrcByte(Xor(f[n - 1], bytes[n]))
  <2>1. n - 1 \in 0..N
    BY <1>1
  <2> QED
    BY <1>5, <2>1 DEF Iterates
<1> HIDE DEF G
<1> DEFINE crc[n \in 0..Len(bytes)] == IF n = 0 THEN {} ELSE CrcByte(Xor(crc[n - 1], bytes[n]))
<1>7. usbCrc16(bytes) = crc[Len(bytes)]
  BY DEF usbCrc16
<1>8. crc = [n \in 0..N |-> IF n = 0 THEN {} ELSE CrcByte(Xor(crc[n - 1], bytes[n]))]
  <2>1. \A n \in 0..N : f[n] = IF n = 0 THEN {} ELSE CrcByte(Xor(f[n - 1], bytes[n]))
    BY <1>1, <1>5, <1>6 DEF Iterates
  <2>2. f = [n \in 0..N |-> IF n = 0 THEN {} ELSE CrcByte(Xor(f[n - 1], bytes[n]))]
    BY <1>5, <2>1 DEF Iterates
  <2>3. \E g : g = [n \in 0..N |-> IF n = 0 THEN {} ELSE CrcByte(Xor(g[n - 1], bytes[n]))]
    BY <2>2
  <2> QED
    BY <2>3 DEF N
<1> HIDE DEF crc
<1>9. crc[0] = {}
  BY <1>1, <1>8
<1>10. ASSUME NEW n \in 1..N PROVE crc[n] = CrcByte(Xor(crc[n - 1], bytes[n]))
  <2>1. n \in 0..N /\ n # 0
    BY <1>1
  <2>2. crc[n] = IF n = 0 THEN {} ELSE CrcByte(Xor(crc[n - 1], bytes[n]))
    BY <1>8, <2>1, Zenon
  <2> QED
    BY <2>1, <2>2
<1> QED
  BY <1>7, <1>9, <1>10 DEF N

(* The loop of the other version, which does not invert.                   *)
LEMMA FastSteps ==
  ASSUME NEW bytes \in Seq(SUBSET (0..7))
  PROVE  \E f : /\ Fast(bytes) = (0..15) \ f[Len(bytes)] /\ f[0] = 0..15
                /\ \A n \in 1..Len(bytes) : f[n] = FastByte(f[n - 1], bytes[n])
<1> DEFINE N == Len(bytes)
           G == [n \in 1..N |-> [d \in Words |-> FastByte(d, bytes[n])]]
<1>1. N \in Nat /\ \A n \in 1..N : bytes[n] \in SUBSET (0..7)
  OBVIOUS
<1> HIDE DEF N
<1>2. G \in [1..N -> [Words -> Words]]
  BY <1>1, BytesAgree
<1>3. 0..15 \in Words
  BY DEF Words
<1>4. \E f : Iterates(f, N, Words, 0..15, G)
  <2> HIDE DEF G
  <2> QED
    BY <1>1, <1>2, <1>3, Iteration
<1>5. PICK f : Iterates(f, N, Words, 0..15, G)
  BY <1>4
<1>6. ASSUME NEW n \in 1..N PROVE f[n] = FastByte(f[n - 1], bytes[n])
  <2>1. n - 1 \in 0..N
    BY <1>1
  <2> QED
    BY <1>5, <2>1 DEF Iterates
<1> HIDE DEF G
<1> DEFINE crc[n \in 0..Len(bytes)] ==
             IF n = 0 THEN 0..15
             ELSE Xor(Table(Xor({k \in crc[n - 1] : k < 8}, bytes[n])),
                      {k - 8 : k \in {l \in crc[n - 1] : l >= 8}})
<1>7. Fast(bytes) = (0..15) \ crc[Len(bytes)]
  BY DEF Fast
<1>8. crc = [n \in 0..N |-> IF n = 0 THEN 0..15 ELSE FastByte(crc[n - 1], bytes[n])]
  <2>1. \A n \in 0..N : f[n] = IF n = 0 THEN 0..15 ELSE FastByte(f[n - 1], bytes[n])
    BY <1>1, <1>5, <1>6 DEF Iterates
  <2>2. f = [n \in 0..N |-> IF n = 0 THEN 0..15 ELSE FastByte(f[n - 1], bytes[n])]
    BY <1>5, <2>1 DEF Iterates
  <2>3. \E g : g = [n \in 0..N |-> IF n = 0 THEN 0..15 ELSE FastByte(g[n - 1], bytes[n])]
    BY <2>2
  <2> QED
    BY <2>3 DEF N, FastByte
<1> HIDE DEF crc
<1>9. crc[0] = 0..15
  BY <1>1, <1>8
<1>10. ASSUME NEW n \in 1..N PROVE crc[n] = FastByte(crc[n - 1], bytes[n])
  <2>1. n \in 0..N /\ n # 0
    BY <1>1
  <2>2. crc[n] = IF n = 0 THEN 0..15 ELSE FastByte(crc[n - 1], bytes[n])
    BY <1>8, <2>1, Zenon
  <2> QED
    BY <2>1, <2>2
<1> QED
  BY <1>7, <1>9, <1>10 DEF N

(* Byte by byte, the one remainder is the complement of the other.         *)
LEMMA CrcsAgree ==
  ASSUME NEW bytes \in Seq(SUBSET (0..7))
  PROVE  usbCrc16(bytes) = Fast(bytes)
<1>1. PICK f : /\ usbCrc16(bytes) = f[Len(bytes)] /\ f[0] = {}
               /\ \A n \in 1..Len(bytes) : f[n] = CrcByte(Xor(f[n - 1], bytes[n]))
  BY CrcSteps
<1>2. PICK g : /\ Fast(bytes) = (0..15) \ g[Len(bytes)] /\ g[0] = 0..15
               /\ \A n \in 1..Len(bytes) : g[n] = FastByte(g[n - 1], bytes[n])
  BY FastSteps
<1>3. Len(bytes) \in Nat /\ \A n \in 1..Len(bytes) : bytes[n] \in SUBSET (0..7)
  OBVIOUS
<1> DEFINE T == {n \in Nat : n <= Len(bytes) => g[n] \in Words /\ f[n] = (0..15) \ g[n]}
<1>4. 0 \in T
  BY <1>1, <1>2 DEF Words
<1>5. ASSUME NEW n \in T PROVE n + 1 \in T
  <2>1. n \in Nat
    OBVIOUS
  <2>2. ASSUME n + 1 <= Len(bytes) PROVE g[n + 1] \in Words /\ f[n + 1] = (0..15) \ g[n + 1]
    <3>1. g[n] \in Words /\ f[n] = (0..15) \ g[n]
      BY <1>3, <2>1, <2>2
    <3>2. n + 1 \in 1..Len(bytes) /\ (n + 1) - 1 = n
      BY <1>3, <2>1, <2>2
    <3>3. /\ f[n + 1] = CrcByte(Xor((0..15) \ g[n], bytes[n + 1]))
          /\ g[n + 1] = FastByte(g[n], bytes[n + 1])
      BY <1>1, <1>2, <3>1, <3>2
    <3>4. bytes[n + 1] \in SUBSET (0..7)
      BY <1>3, <3>2
    <3> QED
      BY <3>1, <3>3, <3>4, BytesAgree
  <2> QED
    BY <2>1, <2>2
<1>6. T = Nat
  <2>1. T \in SUBSET Nat
    OBVIOUS
  <2> HIDE DEF T
  <2> QED
    BY <1>4, <1>5, <2>1, SetInduction
<1>7. f[Len(bytes)] = (0..15) \ g[Len(bytes)]
  BY <1>3, <1>6
<1> QED
  BY <1>1, <1>2, <1>7

(* For payloads of every length and content, the CRC the driver computes   *)
(* with eight shifts a byte (usbCrc16) is the one of the version it could  *)
(* be built with, which looks each byte up in a table (USB_USE_FAST_CRC).  *)
THEOREM UsbCrcAgrees == BitsSpec => []CrcAgrees
<1> DEFINE Inv == payload \in Seq(SUBSET (0..7))
<1>1. BitsInit => Inv
  <2> SUFFICES ASSUME BitsInit PROVE Inv
    OBVIOUS
  <2>1. PICK n \in 0..MaxData : payload \in [1..n -> Bytes]
    BY DEF BitsInit
  <2>2. n \in Nat /\ Bytes \subseteq SUBSET (0..7)
    BY BitsAssumption
  <2>3. payload \in [1..n -> SUBSET (0..7)]
    BY <2>1, <2>2
  <2> QED
    BY <2>2, <2>3
<1>2. Inv /\ [BitsNext]_bitsVars => Inv'
  BY DEF BitsNext, bitsVars, SendBit, StuffBit, EndOfPacket, ReceiveBit, se0, overflow,
         Leave, TransmitterIdle
<1>3. Inv => CrcAgrees
  BY CrcsAgree DEF CrcAgrees
<1> QED
  BY <1>1, <1>2, <1>3, PTL DEF BitsSpec

=============================================================================
