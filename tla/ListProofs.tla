----------------------------- MODULE ListProofs -----------------------------
(***************************************************************************)
(* Listing adapters. Dfu, for any devices on the bus, any image, block     *)
(* size, number of tries and failures: the list stays in its bounds, an    *)
(* update that reports success is complete, and one call is enough when    *)
(* nothing fails. DeviceList, for any number of devices, strings and       *)
(* languages: what is held when a call of the system fails.                *)
(***************************************************************************)
EXTENDS Dfu, DeviceList, FiniteSetTheorems, TLAPS

DevType == [kind : {"other", "epp", "dfu", "reboot"}, flash : SUBSET Image,
            final : BOOLEAN]

Kinds == {"success", "error", "version", "rest"}

Loading == pc \in {"erase", "block", "finalize", "reset", "close"}

(* While a device is updated it is one of the bus, a block that is sent    *)
(* begins in the image, and, unless an answer has been left in the pipe:   *)
(* the flash holds every block before the next one, and in the end all of  *)
(* them.                                                                   *)
LoadInv ==
  /\ Loading => i \in Slots
  /\ pc = "erase" => firmware_offset = 0
  /\ pc = "block" => firmware_offset < FirmwareSize
  /\ pc = "block" /\ late[i] = <<>> => 0..(firmware_offset - 1) \subseteq dev[i].flash
  /\ pc = "finalize" /\ late[i] = <<>> => dev[i].flash = Image
  /\ pc = "reset" /\ late[i] = <<>> => dev[i].flash = Image /\ dev[i].final
  /\ pc = "close" /\ updated = "yes" /\ late[i] = <<>> =>
       dev[i].flash = Image /\ dev[i].final

DfuInv == TypeOK /\ LoadInv

-----------------------------------------------------------------------------
(* Lengths, and what the blocks add up to. *)

LEMMA SizesAre ==
  /\ FirmwareSize \in Nat \ {0} /\ BlockSize \in Nat \ {0} /\ MaxTryCount \in Nat \ {0}
  /\ DevicesMax \in Nat /\ Len(Devices) \in Nat
BY DfuAssumption

(* The block at an offset lies in the image, and ends where the next block *)
(* begins or where the image ends.                                         *)
LEMMA ChunkIs ==
  ASSUME NEW offset \in Nat, offset < FirmwareSize
  PROVE  /\ Chunk(offset) \subseteq Image
         /\ offset + BlockSize < FirmwareSize =>
              0..(offset + BlockSize - 1) \subseteq (0..(offset - 1)) \cup Chunk(offset)
         /\ ~(offset + BlockSize < FirmwareSize) =>
              Image \subseteq (0..(offset - 1)) \cup Chunk(offset)
BY SizesAre DEF Chunk, Image, Min2

-----------------------------------------------------------------------------
(* A command. *)

LEMMA ExecutedIs ==
  ASSUME TypeOK, NEW d \in DevType, NEW cmd \in {"erase", "block", "finalize"},
         cmd = "block" => firmware_offset < FirmwareSize
  PROVE  /\ Executed(d, cmd) \in DevType
         /\ Executed(d, cmd).kind = d.kind
         /\ cmd = "block" => Executed(d, cmd).flash = d.flash \cup Chunk(firmware_offset)
         /\ cmd = "finalize" =>
              /\ Executed(d, cmd).flash = d.flash
              /\ d.flash = Image => Executed(d, cmd).final
<1>1. CASE cmd = "erase"
  BY <1>1 DEF Executed, DevType
<1>2. CASE cmd = "block"
  <2>1. Chunk(firmware_offset) \subseteq Image
    BY <1>2, ChunkIs DEF TypeOK
  <2>. QED  BY <1>2, <2>1 DEF Executed, DevType
<1>3. CASE cmd = "finalize"
  BY <1>3 DEF Executed, DevType
<1>. QED  BY <1>1, <1>2, <1>3

LEMMA ResultIs ==
  ASSUME NEW d, NEW cmd
  PROVE  Result(d, cmd) \in {"success", "error"}
BY DEF Result

(* The answers in the pipe, the one of this command last.                  *)
LEMMA ResultsAre ==
  ASSUME NEW s \in Seq(Kinds), NEW r \in Kinds
  PROVE  /\ Append(s, r) \in Seq(Kinds) /\ Append(s, r) # <<>>
         /\ Tail(Append(s, r)) \in Seq(Kinds)
         /\ s # <<>> => Tail(Append(s, r)) # <<>> /\ Head(Append(s, r)) = Head(s)
         /\ s = <<>> => Head(Append(s, r)) = r /\ Tail(Append(s, r)) = <<>>
         /\ [Append(s, r) EXCEPT ![1] = "rest"] \in Seq(Kinds)
         /\ [Append(s, r) EXCEPT ![1] = "rest"] # <<>>
<1>1. /\ Append(s, r) \in Seq(Kinds) /\ Len(Append(s, r)) = Len(s) + 1 /\ Len(s) \in Nat
      /\ Append(s, r) # <<>>
  OBVIOUS
<1>2. PICK a \in Seq(Kinds) : a = Append(s, r)
  BY <1>1
<1>3. Tail(a) \in Seq(Kinds) /\ Len(Tail(a)) = Len(s) /\ 1 \in 1..Len(a)
  BY <1>1, <1>2
<1>4. [a EXCEPT ![1] = "rest"] \in Seq(Kinds) /\ Len([a EXCEPT ![1] = "rest"]) = Len(a)
  BY <1>3 DEF Kinds
<1>5. s # <<>> => Len(s) # 0 /\ Head(Append(s, r)) = Head(s)
  OBVIOUS
<1>6. s = <<>> => Head(Append(s, r)) = r /\ Tail(Append(s, r)) = <<>>
  OBVIOUS
<1>. QED  BY <1>1, <1>2, <1>3, <1>4, <1>5, <1>6

(* A read takes the only answer, or leaves one for a later read.           *)
LEMMA ReadsOne ==
  ASSUME NEW s \in Seq(Kinds), NEW r \in {"success", "error"}, NEW ok \in BOOLEAN,
         Reads(Append(s, r), ok)
  PROVE  \E a \in Seq(Kinds) :
           /\ late' = [late EXCEPT ![i] = a]
           /\ s # <<>> => a # <<>>
           /\ s = <<>> => a = <<>> /\ (ok <=> r = "success")
<1>1. r \in Kinds
  BY DEF Kinds
<1>2. CASE late' = [late EXCEPT ![i] = Tail(Append(s, r))]
  BY <1>1, <1>2, ResultsAre DEF Reads
<1>3. CASE /\ Head(Append(s, r)) \in {"version", "rest"}
           /\ late' = [late EXCEPT ![i] = [Append(s, r) EXCEPT ![1] = "rest"]]
  BY <1>1, <1>3, ResultsAre
<1>. QED  BY <1>2, <1>3 DEF Reads

(* What any command leaves behind. *)
LEMMA CommandTypes ==
  ASSUME DfuInv, Loading, NEW cmd \in {"erase", "block", "finalize"}, NEW ok \in BOOLEAN,
         cmd = "block" => firmware_offset < FirmwareSize, Command(cmd, ok)
  PROVE  /\ dev' \in [Slots -> DevType] /\ late' \in [Slots -> Seq(Kinds)]
         /\ misread' \in BOOLEAN
         /\ late[i] # <<>> => late'[i] # <<>>
         /\ \A d \in Slots : d # i => late'[d] = late[d]
         /\ dev' = dev \/ dev' = [dev EXCEPT ![i] = Executed(@, cmd)]
<1>1. i \in Slots /\ dev \in [Slots -> DevType] /\ late \in [Slots -> Seq(Kinds)]
  BY DEF DfuInv, LoadInv, TypeOK, DevType, Kinds
<1>2. Executed(dev[i], cmd) \in DevType
  BY <1>1, ExecutedIs DEF DfuInv
<1>3. Result(dev[i], cmd) \in {"success", "error"}
  BY ResultIs
<1>4. \E a \in Seq(Kinds) : late' = [late EXCEPT ![i] = a] /\ (late[i] # <<>> => a # <<>>)
  <2>1. CASE late' = late
    <3>1. late' = [late EXCEPT ![i] = late[i]] /\ late[i] \in Seq(Kinds)
      BY <1>1, <2>1
    <3>. QED  BY <3>1
  <2>2. CASE late' = [late EXCEPT ![i] = Append(late[i], Result(dev[i], cmd))]
    <3>1. PICK r \in Kinds : r = Result(dev[i], cmd)
      BY <1>3 DEF Kinds
    <3>2. Append(late[i], r) \in Seq(Kinds) /\ Append(late[i], r) # <<>>
      BY <1>1, ResultsAre
    <3>. QED  BY <2>2, <3>1, <3>2
  <2>3. CASE \E x \in {"success", "error"} : Reads(Append(late[i], x), ok)
    BY <1>1, <2>3, ReadsOne
  <2>. QED  BY <1>3, <2>1, <2>2, <2>3 DEF Command
<1>5. dev' = dev \/ dev' = [dev EXCEPT ![i] = Executed(@, cmd)]
  BY DEF Command
<1>6. dev' \in [Slots -> DevType]
  BY <1>1, <1>2, <1>5
<1>. QED  BY <1>1, <1>4, <1>5, <1>6 DEF Command, DfuInv, TypeOK

(* A command with an empty pipe succeeds only if it was executed with      *)
(* success.                                                                *)
LEMMA CommandClean ==
  ASSUME DfuInv, Loading, NEW cmd, NEW ok \in BOOLEAN, ok, Command(cmd, ok),
         late[i] = <<>>
  PROVE  dev' = [dev EXCEPT ![i] = Executed(@, cmd)] /\ Result(dev[i], cmd) = "success"
<1>1. <<>> \in Seq(Kinds) /\ Result(dev[i], cmd) \in {"success", "error"}
  BY ResultIs
<1>2. ASSUME NEW x \in {"success", "error"}, Reads(Append(<<>>, x), ok)
      PROVE  x = "success"
  BY <1>1, <1>2, ReadsOne
<1>. QED  BY <1>1, <1>2 DEF Command

-----------------------------------------------------------------------------
(* The steps of an update. *)

LEMMA EraseStep ==
  ASSUME DfuInv, Erase
  PROVE  DfuInv'
<1>1. PICK ok \in BOOLEAN :
        /\ Command("erase", ok)
        /\ IF ok THEN pc' = "block" /\ UNCHANGED progress ELSE Fail
  BY DEF Erase
<1>2. /\ pc = "erase" /\ UNCHANGED <<i, list, opened>>
      /\ i \in Slots /\ firmware_offset = 0 /\ TypeOK /\ Loading
  BY DEF Erase, DfuInv, LoadInv, Loading
<1>3. /\ dev' \in [Slots -> DevType] /\ late' \in [Slots -> Seq(Kinds)] /\ misread' \in BOOLEAN
      /\ late[i] # <<>> => late'[i] # <<>>
  BY <1>1, <1>2, CommandTypes
<1>4. TypeOK'
  BY <1>1, <1>2, <1>3 DEF TypeOK, Fail, list, progress, Slots, Image, DevType, Kinds
<1>5. CASE ~ok
  BY <1>1, <1>2, <1>4, <1>5 DEF Fail, DfuInv, LoadInv, Loading, Slots
<1>6. CASE ok
  <2>1. pc' = "block" /\ firmware_offset' = 0
    BY <1>1, <1>2, <1>6 DEF progress
  <2>3. 0..(0 - 1) = {} /\ 0 < FirmwareSize
    BY SizesAre
  <2>. QED  BY <1>2, <1>4, <2>1, <2>3 DEF DfuInv, LoadInv, Loading, Slots
<1>. QED  BY <1>5, <1>6

LEMMA BlockStep ==
  ASSUME DfuInv, SendFirmware
  PROVE  DfuInv'
<1>1. PICK ok \in BOOLEAN :
        /\ Command("block", ok)
        /\ \/ /\ ok
              /\ firmware_offset' = firmware_offset + BlockSize /\ try' = 0
              /\ pc' = IF firmware_offset' < FirmwareSize THEN "block" ELSE "finalize"
              /\ UNCHANGED updated
           \/ /\ ~ok /\ try + 1 < MaxTryCount
              /\ try' = try + 1 /\ UNCHANGED <<pc, firmware_offset, updated>>
           \/ ~ok /\ try + 1 = MaxTryCount /\ Fail
  BY DEF SendFirmware
<1>2. /\ pc = "block" /\ UNCHANGED <<i, list, opened>>
      /\ i \in Slots /\ firmware_offset \in Nat /\ firmware_offset < FirmwareSize
      /\ TypeOK /\ Loading /\ dev \in [Slots -> DevType] /\ dev[i] \in DevType
  BY DEF SendFirmware, DfuInv, LoadInv, Loading, TypeOK, DevType
<1>3. /\ dev' \in [Slots -> DevType] /\ late' \in [Slots -> Seq(Kinds)] /\ misread' \in BOOLEAN
      /\ late[i] # <<>> => late'[i] # <<>>
      /\ dev' = dev \/ dev' = [dev EXCEPT ![i] = Executed(@, "block")]
  BY <1>1, <1>2, CommandTypes
<1>t. TypeOK'
  <2>1. /\ firmware_offset' \in Nat /\ try' \in 0..(MaxTryCount - 1)
        /\ pc' \in {"block", "finalize", "close"} /\ updated' \in {"none", "yes", "no"}
    BY <1>1, <1>2, SizesAre DEF TypeOK, Fail
  <2>. QED  BY <1>2, <1>3, <2>1 DEF TypeOK, list, Slots, Image, DevType, Kinds
<1>4. /\ i' \in Slots' /\ Slots' = Slots
  BY <1>2 DEF Slots
<1>5. Executed(dev[i], "block").flash = dev[i].flash \cup Chunk(firmware_offset)
  BY <1>2, ExecutedIs
<1>6. dev[i].flash \subseteq dev'[i].flash
  BY <1>2, <1>3, <1>5
<1>7. ASSUME late[i] = <<>>
      PROVE  0..(firmware_offset - 1) \subseteq dev[i].flash
  BY <1>2, <1>7 DEF DfuInv, LoadInv
<1>8. CASE ok
  <2>1. ASSUME late'[i] = <<>>
        PROVE  (0..(firmware_offset - 1)) \cup Chunk(firmware_offset) \subseteq dev'[i].flash
    <3>1. late[i] = <<>>
      BY <1>2, <1>3, <2>1 DEF DfuInv, LoadInv
    <3>2. dev' = [dev EXCEPT ![i] = Executed(@, "block")]
      BY <1>1, <1>2, <1>8, <3>1, CommandClean
    <3>. QED  BY <1>2, <1>5, <1>7, <3>1, <3>2
  <2>2. CASE firmware_offset + BlockSize < FirmwareSize
    <3>1. pc' = "block" /\ firmware_offset' = firmware_offset + BlockSize
      BY <1>1, <1>8, <2>2
    <3>2. late'[i] = <<>> => 0..(firmware_offset' - 1) \subseteq dev'[i].flash
      <4>1. 0..(firmware_offset + BlockSize - 1)
              \subseteq (0..(firmware_offset - 1)) \cup Chunk(firmware_offset)
        BY <1>2, <2>2, ChunkIs
      <4>2. 0..(firmware_offset' - 1) = 0..(firmware_offset + BlockSize - 1)
        BY <1>2, <3>1, SizesAre
      <4>. QED  BY <2>1, <4>1, <4>2
    <3>. QED  BY <1>2, <1>4, <1>t, <2>2, <3>1, <3>2 DEF DfuInv, LoadInv, Loading
  <2>3. CASE ~(firmware_offset + BlockSize < FirmwareSize)
    <3>1. pc' = "finalize"
      BY <1>1, <1>8, <2>3
    <3>2. dev'[i].flash \subseteq Image
      BY <1>2, <1>3 DEF DevType
    <3>3. late'[i] = <<>> => dev'[i].flash = Image
      BY <1>2, <2>1, <2>3, <3>2, ChunkIs
    <3>. QED  BY <1>2, <1>4, <1>t, <3>1, <3>3 DEF DfuInv, LoadInv, Loading, Image
  <2>. QED  BY <2>2, <2>3
<1>9. CASE ~ok /\ UNCHANGED <<pc, firmware_offset, updated>>
  <2>1. late'[i] = <<>> => 0..(firmware_offset - 1) \subseteq dev'[i].flash
    BY <1>3, <1>6, <1>7
  <2>. QED  BY <1>2, <1>4, <1>9, <1>t, <2>1 DEF DfuInv, LoadInv, Loading
<1>10. CASE ~ok /\ Fail
  BY <1>4, <1>10, <1>t DEF Fail, DfuInv, LoadInv, Loading
<1>. QED  BY <1>1, <1>8, <1>9, <1>10

LEMMA FinalizeStep ==
  ASSUME DfuInv, Finalize
  PROVE  DfuInv'
<1>1. PICK ok \in BOOLEAN :
        /\ Command("finalize", ok)
        /\ IF ok THEN pc' = "reset" /\ UNCHANGED progress ELSE Fail
  BY DEF Finalize
<1>2. /\ pc = "finalize" /\ UNCHANGED <<i, list, opened>>
      /\ i \in Slots /\ TypeOK /\ Loading /\ dev \in [Slots -> DevType] /\ dev[i] \in DevType
  BY DEF Finalize, DfuInv, LoadInv, Loading, TypeOK, DevType
<1>3. /\ dev' \in [Slots -> DevType] /\ late' \in [Slots -> Seq(Kinds)] /\ misread' \in BOOLEAN
      /\ late[i] # <<>> => late'[i] # <<>>
  BY <1>1, <1>2, CommandTypes
<1>4. TypeOK'
  BY <1>1, <1>2, <1>3 DEF TypeOK, Fail, list, progress, Slots, Image, DevType, Kinds
<1>5. CASE ~ok
  BY <1>1, <1>2, <1>4, <1>5 DEF Fail, DfuInv, LoadInv, Loading, Slots
<1>6. CASE ok
  <2>1. ASSUME late'[i] = <<>>
        PROVE  dev'[i].flash = Image /\ dev'[i].final
    <3>1. late[i] = <<>> /\ dev[i].flash = Image
      BY <1>2, <1>3, <2>1 DEF DfuInv, LoadInv
    <3>2. dev' = [dev EXCEPT ![i] = Executed(@, "finalize")]
      BY <1>1, <1>2, <1>6, <3>1, CommandClean
    <3>3. /\ Executed(dev[i], "finalize").flash = dev[i].flash
          /\ Executed(dev[i], "finalize").final
      BY <1>2, <3>1, ExecutedIs
    <3>. QED  BY <1>2, <3>1, <3>2, <3>3
  <2>2. pc' = "reset" /\ i' \in Slots'
    BY <1>1, <1>2, <1>6 DEF Slots
  <2>. QED  BY <1>2, <1>4, <2>1, <2>2 DEF DfuInv, LoadInv, Loading, Image
<1>. QED  BY <1>5, <1>6

LEMMA ResetStep ==
  ASSUME DfuInv, Reset
  PROVE  DfuInv'
<1>1. /\ pc = "reset" /\ pc' = "close"
      /\ UNCHANGED <<pipe, i, firmware_offset, try, list, opened>>
  BY DEF Reset
<1>i. /\ i \in Slots /\ TypeOK
      /\ late[i] = <<>> => dev[i].flash = Image /\ dev[i].final
  BY <1>1 DEF DfuInv, LoadInv, Loading
<1>d. dev \in [Slots -> DevType] /\ dev[i] \in DevType
  BY <1>i DEF TypeOK, DevType
<1>2. /\ updated' \in {"yes", "no"}
      /\ dev' = dev \/ dev' = [dev EXCEPT ![i].kind = "reboot"]
  BY DEF Reset
<1>3. /\ dev' \in [Slots -> DevType]
      /\ dev'[i].flash = dev[i].flash /\ dev'[i].final = dev[i].final
  BY <1>i, <1>d, <1>2 DEF DevType
<1>4. TypeOK'
  BY <1>1, <1>i, <1>2, <1>3 DEF TypeOK, list, pipe, Slots, Image, DevType
<1>. QED  BY <1>1, <1>i, <1>3, <1>4 DEF DfuInv, LoadInv, Loading, Slots, Image, pipe

-----------------------------------------------------------------------------
(* The list. *)

(* What asking for the version does to the pipe.                           *)
LEMMA VersionsAre ==
  ASSUME TypeOK, i \in Slots
  PROVE  /\ [late EXCEPT ![i] = Versions] \in [Slots -> Seq(Kinds)]
         /\ [late EXCEPT ![i] = Tail(Versions)] \in [Slots -> Seq(Kinds)]
         /\ late[i] = <<>> => Head(Versions) = "version" /\ Tail(Versions) = <<>>
<1>1. late \in [Slots -> Seq(Kinds)] /\ late[i] \in Seq(Kinds) /\ "version" \in Kinds
  BY DEF TypeOK, Kinds
<1>. QED  BY <1>1, ResultsAre DEF Versions

LEMMA UpdateStep ==
  ASSUME DfuInv, Update
  PROVE  DfuInv'
<1>1. /\ TypeOK /\ i \in Slots /\ UNCHANGED <<dev, i, list, opened>>
      /\ firmware_offset' = 0 /\ try' = 0
      /\ \/ pc' = "erase" /\ updated' = "none"
         \/ pc' = "close" /\ updated' = "no"
  BY SizesAre DEF Update, InLoop, DfuInv, TypeOK, Slots
<1>2. 0 \in Nat /\ 0 \in 0..(MaxTryCount - 1)
  BY SizesAre
<1>3. late' \in [Slots -> Seq(Kinds)] /\ misread' \in BOOLEAN
  BY <1>1, VersionsAre DEF Update, TypeOK, Kinds
<1>4. TypeOK'
  BY <1>1, <1>2, <1>3 DEF TypeOK, list, Slots, Image, Kinds
<1>. QED  BY <1>1, <1>4 DEF DfuInv, LoadInv, Loading, Slots

LEMMA RefuseStep ==
  ASSUME DfuInv, Refuse
  PROVE  DfuInv'
<1>1. /\ TypeOK /\ i \in Slots /\ pc = "scan" /\ i' = i + 1
      /\ UNCHANGED <<dev, pc, progress, list, opened>>
  BY SizesAre DEF Refuse, InLoop, DfuInv, TypeOK, Slots
<1>2. i' \in 1..(Len(Devices) + 1)
  BY <1>1, SizesAre DEF Slots
<1>3. late' \in [Slots -> Seq(Kinds)] /\ misread' \in BOOLEAN
  BY <1>1, VersionsAre DEF Refuse, TypeOK, Kinds
<1>4. TypeOK'
  BY <1>1, <1>2, <1>3 DEF TypeOK, progress, list, Slots, Image, Kinds
<1>. QED  BY <1>1, <1>4 DEF DfuInv, LoadInv, Loading, Slots

LEMMA ListStep ==
  ASSUME DfuInv, List
  PROVE  DfuInv'
<1>1. /\ TypeOK /\ i \in Slots /\ Len(devices) < DevicesMax /\ Len(devices) \in Nat
      /\ devices' = Append(devices, i) /\ i' = i + 1 /\ pc = "scan"
      /\ UNCHANGED <<dev, pipe, pc, progress, dfu_happens, pass, opened>>
  BY SizesAre DEF List, InLoop, DfuInv, TypeOK, Slots
<1>2. /\ devices' \in Seq(Slots) /\ Len(devices') = Len(devices) + 1
      /\ i' \in 1..(Len(Devices) + 1)
  BY <1>1, SizesAre DEF TypeOK, Slots
<1>3. TypeOK'
  BY <1>1, <1>2, SizesAre DEF TypeOK, pipe, progress, Slots, Image
<1>. QED  BY <1>1, <1>3 DEF DfuInv, LoadInv, Loading

(* A pass begins. *)
LEMMA PassStep ==
  ASSUME DfuInv, NEW n \in {1, 2}, BeginPass(n), dev' \in [Slots -> DevType],
         late' \in [Slots -> Seq(Kinds)], UNCHANGED misread
  PROVE  DfuInv'
<1>1. /\ n \in 0..2 /\ 1 \in 1..(Len(Devices) + 1)
      /\ <<>> \in Seq(Slots) /\ Len(<<>>) <= DevicesMax
  BY SizesAre
<1>2. TypeOK'
  BY <1>1 DEF BeginPass, DfuInv, TypeOK, progress, Slots, Image, DevType, Kinds
<1>. QED  BY <1>2 DEF BeginPass, DfuInv, LoadInv, Loading

LEMMA RebootIs ==
  ASSUME TypeOK
  PROVE  /\ [d \in Slots |-> Reboot(dev[d])] \in [Slots -> DevType]
         /\ [d \in Slots |-> IF dev[d].kind = "reboot" THEN <<>> ELSE late[d]]
              \in [Slots -> Seq(Kinds)]
<1>1. ASSUME NEW d \in Slots
      PROVE  Reboot(dev[d]) \in DevType
  BY DEF TypeOK, Reboot, DevType
<1>2. ASSUME NEW d \in Slots
      PROVE  (IF dev[d].kind = "reboot" THEN <<>> ELSE late[d]) \in Seq(Kinds)
  <2>1. late[d] \in Seq(Kinds) /\ <<>> \in Seq(Kinds)
    BY DEF TypeOK, Kinds
  <2>. QED  BY <2>1
<1>. QED  BY <1>1, <1>2

(* What is closed keeps the answers that are not in a buffer of WinUSB.    *)
LEMMA UnbufferedIs ==
  ASSUME NEW s \in Seq(Kinds)
  PROVE  Unbuffered(s) \in Seq(Kinds) /\ (s = <<>> => Unbuffered(s) = <<>>)
BY DEF Unbuffered

(* The other steps leave the devices alone, and no update is in progress.  *)
LEMMA OtherSteps ==
  ASSUME DfuInv, NoDevices \/ Skip \/ CloseUpdated \/ Done
  PROVE  DfuInv'
<1>1. /\ pc' \in {"scan", "done"} /\ i' \in 1..(Len(Devices) + 1)
      /\ updated' \in {updated, "none"} /\ dfu_happens' \in {dfu_happens, TRUE}
      /\ UNCHANGED <<dev, misread, firmware_offset, try, devices, pass, opened>>
      /\ late' = late \/ (i \in Slots /\ late' = [late EXCEPT ![i] = Unbuffered(@)])
  <2>1. i \in 1..(Len(Devices) + 1) /\ Len(Devices) \in Nat
    BY SizesAre DEF DfuInv, TypeOK
  <2>2. CASE NoDevices
    BY <2>1, <2>2 DEF NoDevices, progress, list, pipe
  <2>3. CASE Skip
    BY <2>1, <2>3 DEF Skip, InLoop, progress, list, pipe
  <2>4. CASE CloseUpdated
    <3>1. i \in 1..Len(Devices)
      BY <2>4 DEF CloseUpdated, DfuInv, LoadInv, Loading, Slots
    <3>. QED  BY <2>1, <2>4, <3>1 DEF CloseUpdated, Slots
  <2>5. CASE Done
    BY <2>1, <2>5 DEF Done, progress, list, pipe
  <2>. QED  BY <2>2, <2>3, <2>4, <2>5
<1>2. late' \in [Slots -> Seq(Kinds)]
  <2>1. late \in [Slots -> Seq(Kinds)]
    BY DEF DfuInv, TypeOK, Kinds
  <2>. QED  BY <1>1, <2>1, UnbufferedIs
<1>3. TypeOK'
  BY <1>1, <1>2 DEF DfuInv, TypeOK, Slots, Image, Kinds
<1>. QED  BY <1>1, <1>3 DEF DfuInv, LoadInv, Loading

LEMMA OpenStep ==
  ASSUME DfuInv, OpenAuto
  PROVE  DfuInv'
<1>1. /\ pc' = "idle" /\ UNCHANGED <<i, progress, list>> /\ Rebooted
      /\ TypeOK /\ devices \in Seq(Slots) /\ Len(devices) \in Nat
  BY DEF OpenAuto, DfuInv, TypeOK
<1>2. \A n \in 1..Len(devices) : devices[n] \in Slots
  BY <1>1
<1>3. opened' \in {0} \cup Slots
  <2>1. CASE Len(devices) = 1 /\ opened' = devices[1]
    BY <1>2, <2>1
  <2>2. CASE opened' \in {devices[n] : n \in 1..Len(devices)}
    BY <1>2, <2>2
  <2>. QED  BY <2>1, <2>2 DEF OpenAuto
<1>4. TypeOK'
  BY <1>1, <1>3, RebootIs DEF Rebooted, TypeOK, progress, list, Slots, Image, DevType, Kinds
<1>. QED  BY <1>1, <1>4 DEF DfuInv, LoadInv, Loading

-----------------------------------------------------------------------------
(* The theorems. *)

LEMMA DfuInit == Init => DfuInv
<1>. SUFFICES ASSUME Init PROVE DfuInv
  OBVIOUS
<1>1. dev \in [Slots -> DevType]
  <2>1. \A d \in Slots : Devices[d] \in DeviceType
    BY DfuAssumption DEF Slots
  <2>. QED  BY <2>1 DEF Init, DevType, DeviceType
<1>2. /\ 0 \in Nat /\ 0 \in 0..2 /\ 0 \in 0..(MaxTryCount - 1)
      /\ 1 \in 1..(Len(Devices) + 1) /\ <<>> \in Seq(Kinds)
      /\ <<>> \in Seq(Slots) /\ Len(<<>>) <= DevicesMax
  BY SizesAre
<1>3. TypeOK
  BY <1>1, <1>2 DEF Init, TypeOK, DevType, Kinds
<1>. QED  BY <1>3 DEF Init, DfuInv, LoadInv, Loading

LEMMA DfuAlways == Spec => []DfuInv
<1>1. DfuInv /\ [Next]_vars => DfuInv'
  <2>. SUFFICES ASSUME DfuInv, [Next]_vars PROVE DfuInv'
    OBVIOUS
  <2>1. CASE GetList
    <3>1. BeginPass(1) /\ UNCHANGED <<dev, late, misread>>
      BY <2>1 DEF GetList, pipe
    <3>. QED  BY <3>1, PassStep DEF DfuInv, TypeOK, DevType, Kinds
  <2>2. CASE ListAgain
    <3>1. BeginPass(2)
      BY <2>2 DEF ListAgain
    <3>2. dev' \in [Slots -> DevType] /\ late' \in [Slots -> Seq(Kinds)] /\ UNCHANGED misread
      BY <2>2, RebootIs DEF ListAgain, Rebooted, pipe, DfuInv, TypeOK, DevType, Kinds
    <3>. QED  BY <3>1, <3>2, PassStep
  <2>3. CASE UNCHANGED vars
    BY <2>3 DEF vars, pipe, progress, list, DfuInv, TypeOK, LoadInv, Loading, Slots, Image
  <2>. QED
    BY <2>1, <2>2, <2>3, OtherSteps, ListStep, UpdateStep, RefuseStep, EraseStep, BlockStep,
       FinalizeStep, ResetStep, OpenStep DEF Next, Steps
<1>. QED  BY DfuInit, <1>1, PTL DEF Spec

(* The list never outgrows the caller's array, holds only devices that are *)
(* there, and UsbLpt_OpenAuto opens one of them or none.                   *)
THEOREM DfuTypes == Spec => []TypeOK
<1>1. DfuInv => TypeOK
  BY DEF DfuInv
<1>. QED  BY DfuAlways, <1>1, PTL

(* An update that reports success has loaded the whole image, whatever its *)
(* size, that of a block and the number of tries, and finalized it.        *)
THEOREM UpdateIsComplete == Spec => []SuccessIsComplete
<1>1. DfuInv => SuccessIsComplete
  BY DEF DfuInv, LoadInv, SuccessIsComplete
<1>. QED  BY DfuAlways, <1>1, PTL

-----------------------------------------------------------------------------
(* One call lists every adapter. The devices that have been passed over in *)
(* a pass without a failure are listed, or have been updated and will be   *)
(* back as adapters in the next one.                                       *)

Listed == {devices[n] : n \in 1..Len(devices)}

(* A device is never taken for another kind, the list holds each adapter   *)
(* once, and only a bootloader of ours is loaded.                          *)
ListInv ==
  /\ faults \in Nat /\ (pc # "idle" => pass \in {1, 2})
  /\ \A d \in Slots : /\ dev[d].kind = "other" => Devices[d].kind = "other"
                      /\ dev[d].kind \in {"dfu", "reboot"} => Devices[d].kind = "dfu"
                      /\ dev[d].kind \in {"epp", "reboot"} => d \in Adapters
  /\ Listed \subseteq {d \in Slots : d < i /\ dev[d].kind = "epp"}
  /\ IsFiniteSet(Listed) /\ Cardinality(Listed) = Len(devices)
  /\ Loading => Devices[i].kind = "dfu"
  /\ Loading /\ pc # "close" => dev[i].kind = "dfu" /\ Devices[i].ours

Fine == faults = 0 /\ Cardinality(Adapters) <= DevicesMax

Empty == [d \in Slots |-> <<>>]

FineInv ==
  /\ late = Empty
  /\ \A d \in Slots : dev[d].kind = "reboot" =>
       /\ dev[d].final /\ pc # "idle" /\ pass = 1
       /\ d < i \/ (d = i /\ pc = "close")
  /\ pc = "close" /\ Devices[i].ours => dev[i].kind = "reboot"
  /\ pc # "idle" => \A d \in Adapters :
       d < i => d \in Listed \/ (dev[d].kind = "reboot" /\ dfu_happens)
  /\ pass = 2 => \A d \in Adapters : dev[d].kind = "epp"
  /\ pc = "done" => Adapters \subseteq Listed

CallInv == DfuInv /\ ListInv /\ (Fine => FineInv)

(* There are finitely many adapters.                                       *)
LEMMA AdaptersFinite ==
  /\ Adapters \subseteq Slots /\ IsFiniteSet(Adapters) /\ Cardinality(Adapters) \in Nat
  /\ \A d \in Slots : Devices[d] \in DeviceType
<1>1. IsFiniteSet(Slots)
  BY SizesAre, FS_Interval DEF Slots
<1>2. Adapters \subseteq Slots
  BY DEF Adapters
<1>3. \A d \in Slots : Devices[d] \in DeviceType
  BY DfuAssumption DEF Slots
<1> QED
  BY <1>1, <1>2, <1>3, FS_Subset, FS_CardinalityType

(* A list that is full although there was room for every adapter has them  *)
(* all.                                                                    *)
LEMMA FullList ==
  ASSUME DfuInv, ListInv, Cardinality(Adapters) <= DevicesMax, Len(devices) >= DevicesMax
  PROVE  Adapters \subseteq Listed
<1>1. Listed \subseteq Adapters
  BY DEF ListInv
<1>2. Cardinality(Listed) <= Cardinality(Adapters)
      /\ (Cardinality(Adapters) = Cardinality(Listed) => Adapters = Listed)
  BY <1>1, AdaptersFinite, FS_Subset
<1>3. Len(devices) \in Nat /\ Cardinality(Listed) = Len(devices)
  BY DEF ListInv, DfuInv, TypeOK
<1> QED
  BY <1>2, <1>3, AdaptersFinite, SizesAre

(* A command changes nothing but the contents of the flash.                *)
LEMMA CommandKinds ==
  ASSUME DfuInv, ListInv, Loading, NEW cmd \in {"erase", "block", "finalize"},
         NEW ok \in BOOLEAN,
         cmd = "block" => firmware_offset < FirmwareSize, Command(cmd, ok)
  PROVE  /\ \A d \in Slots : /\ dev'[d].kind = dev[d].kind
                             /\ d # i => dev'[d] = dev[d]
         /\ faults' \in {faults, faults + 1}
<1>1. i \in Slots /\ dev \in [Slots -> DevType] /\ dev[i] \in DevType
  BY DEF DfuInv, LoadInv, TypeOK, DevType
<1>2. dev' = dev \/ dev' = [dev EXCEPT ![i] = Executed(@, cmd)]
  BY CommandTypes
<1>3. Executed(dev[i], cmd).kind = dev[i].kind
  BY <1>1, ExecutedIs DEF DfuInv
<1>4. faults' \in {faults, faults + 1}
  BY DEF Command, NoFault, Fault
<1> QED
  BY <1>1, <1>2, <1>3, <1>4

(* Without a failure a command has the result it should have.              *)
LEMMA CommandFine ==
  ASSUME DfuInv, ListInv, Loading, NEW cmd, NEW ok \in BOOLEAN, Command(cmd, ok),
         late = Empty, faults' = 0, Result(dev[i], cmd) = "success"
  PROVE  ok /\ late' = Empty
<1>1. i \in Slots /\ late[i] = <<>>
  BY DEF DfuInv, LoadInv, Empty
<1>2. ~(faults' = faults + 1)
  BY DEF ListInv
<1>3. Reads(Append(<<>>, "success"), ok)
  BY <1>1, <1>2 DEF Command, Fault
<1>4. <<>> \in Seq(Kinds)
  OBVIOUS
<1>5. ok /\ late' = [late EXCEPT ![i] = <<>>]
  BY <1>3, <1>4, ReadsOne
<1> QED
  BY <1>1, <1>5 DEF Empty

(* A step of an update.                                                    *)
LEMMA LoadingStep ==
  ASSUME CallInv, DfuInv', pc \in {"erase", "block", "finalize"},
         pc' \in {"block", "finalize", "reset", "close"}, UNCHANGED <<i, list>>,
         \A d \in Slots : dev'[d].kind = dev[d].kind /\ (d # i => dev'[d] = dev[d]),
         faults' \in {faults, faults + 1},
         Fine /\ faults' = 0 => pc' # "close" /\ late' = Empty
  PROVE  CallInv'
<1>1. /\ i \in Slots /\ Loading /\ UNCHANGED <<devices, dfu_happens, pass>>
      /\ Slots' = Slots /\ Adapters' = Adapters /\ Listed' = Listed
  BY DEF CallInv, DfuInv, LoadInv, Loading, list, Slots, Adapters, Listed
<1>2. ListInv'
  BY <1>1 DEF CallInv, ListInv, Loading
<1>3. ASSUME Fine' PROVE FineInv'
  <2>1. Fine /\ faults' = 0
    BY <1>1, <1>3 DEF Fine, CallInv, ListInv
  <2>2. FineInv /\ pc' # "close" /\ late' = Empty
    BY <2>1 DEF CallInv
  <2>3. \A d \in Slots : dev'[d].kind = "reboot" => d # i /\ dev'[d] = dev[d]
    BY <1>1 DEF CallInv, ListInv, Loading
  <2> QED
    BY <1>1, <2>2, <2>3, AdaptersFinite DEF FineInv, Empty
<1> QED
  BY <1>2, <1>3 DEF CallInv

LEMMA LoadingSteps ==
  ASSUME CallInv, DfuInv', Erase \/ SendFirmware \/ Finalize
  PROVE  CallInv'
<1>0. DfuInv /\ ListInv /\ UNCHANGED <<i, list>>
  BY DEF CallInv, Erase, SendFirmware, Finalize
<1>1. CASE Erase
  <2>1. PICK ok \in BOOLEAN :
          /\ Command("erase", ok)
          /\ IF ok THEN pc' = "block" /\ UNCHANGED progress ELSE Fail
    BY <1>1 DEF Erase
  <2>2. pc = "erase" /\ Loading
    BY <1>1 DEF Erase, Loading
  <2>3. Fine /\ faults' = 0 => ok /\ late' = Empty
    <3>1. Fine => late = Empty
      BY DEF CallInv, FineInv
    <3> QED
      BY <1>0, <2>1, <2>2, <3>1, CommandFine DEF Result
  <2> QED
    BY <1>0, <2>1, <2>2, <2>3, CommandKinds, LoadingStep DEF Fail
<1>2. CASE SendFirmware
  <2>1. PICK ok \in BOOLEAN :
          /\ Command("block", ok)
          /\ \/ ok /\ pc' \in {"block", "finalize"}
             \/ ~ok /\ pc' \in {"block", "close"}
    BY <1>2 DEF SendFirmware, Fail
  <2>2. pc = "block" /\ Loading /\ firmware_offset < FirmwareSize
    BY <1>0, <1>2 DEF SendFirmware, Loading, DfuInv, LoadInv
  <2>3. Fine /\ faults' = 0 => ok /\ late' = Empty
    <3>1. Fine => late = Empty
      BY DEF CallInv, FineInv
    <3> QED
      BY <1>0, <2>1, <2>2, <3>1, CommandFine DEF Result
  <2> QED
    BY <1>0, <2>1, <2>2, <2>3, CommandKinds, LoadingStep
<1>3. CASE Finalize
  <2>1. PICK ok \in BOOLEAN :
          /\ Command("finalize", ok)
          /\ IF ok THEN pc' = "reset" /\ UNCHANGED progress ELSE Fail
    BY <1>3 DEF Finalize
  <2>2. pc = "finalize" /\ Loading
    BY <1>3 DEF Finalize, Loading
  <2>3. Fine /\ faults' = 0 => ok /\ late' = Empty
    <3>1. Fine => late = Empty /\ dev[i].flash = Image
      BY <2>2 DEF CallInv, FineInv, DfuInv, LoadInv, Empty
    <3> QED
      BY <1>0, <2>1, <2>2, <3>1, CommandFine DEF Result
  <2> QED
    BY <1>0, <2>1, <2>2, <2>3, CommandKinds, LoadingStep DEF Fail
<1> QED
  BY <1>1, <1>2, <1>3

(* The reset: an update that has not failed leaves a device that comes     *)
(* back as an adapter.                                                     *)
LEMMA ResetCall ==
  ASSUME CallInv, DfuInv', Reset
  PROVE  CallInv'
<1>1. /\ pc = "reset" /\ pc' = "close" /\ Loading /\ i \in Slots
      /\ UNCHANGED <<late, i, devices, dfu_happens, pass>>
      /\ dev \in [Slots -> DevType]
      /\ dev[i].kind = "dfu" /\ Devices[i].ours /\ Devices[i].kind = "dfu"
  BY DEF Reset, Loading, CallInv, ListInv, DfuInv, LoadInv, pipe, list, TypeOK, DevType
<1>2. Listed' = Listed /\ i \in Adapters
  BY <1>1 DEF Listed, Adapters
<1>3. \/ faults' = faults /\ dev' = [dev EXCEPT ![i].kind = "reboot"]
      \/ /\ faults' = faults + 1
         /\ dev' = dev \/ dev' = [dev EXCEPT ![i].kind = "reboot"]
  BY DEF Reset, NoFault, Fault
<1>4. \A d \in Slots : /\ d # i => dev'[d] = dev[d]
                       /\ dev'[i] = dev[i] \/ (dev'[i].kind = "reboot" /\ dev'[i].final = dev[i].final)
  BY <1>1, <1>3 DEF DevType
<1>5. ListInv'
  BY <1>1, <1>2, <1>3, <1>4 DEF CallInv, ListInv, Loading
<1>6. ASSUME Fine' PROVE FineInv'
  <2>1. Fine /\ dev' = [dev EXCEPT ![i].kind = "reboot"]
    BY <1>3, <1>6 DEF Fine, CallInv, ListInv
  <2>2. FineInv
    BY <2>1 DEF CallInv
  <2>3. dev'[i].kind = "reboot" /\ dev'[i].final
    BY <1>1, <2>1, <2>2 DEF FineInv, CallInv, DfuInv, LoadInv, DevType, Empty
  <2>4. pass = 1
    <3>1. pass # 2
      BY <1>1, <1>2, <2>2 DEF FineInv
    <3>2. pass \in {1, 2}
      BY <1>1 DEF CallInv, ListInv
    <3> QED
      BY <3>1, <3>2
  <2> QED
    BY <1>1, <1>2, <1>4, <2>2, <2>3, <2>4, AdaptersFinite DEF FineInv, Empty, Slots
<1> QED
  BY <1>5, <1>6 DEF CallInv

(* The update is over, and remembered.                                     *)
LEMMA CloseCall ==
  ASSUME CallInv, DfuInv', CloseUpdated
  PROVE  CallInv'
<1>1. /\ pc = "close" /\ pc' = "scan" /\ i' = i + 1 /\ dfu_happens' = TRUE
      /\ i \in Slots /\ i \in Nat /\ Devices[i].kind = "dfu"
      /\ UNCHANGED <<dev, devices, pass, faults>>
      /\ late' = [late EXCEPT ![i] = Unbuffered(@)]
  BY DEF CloseUpdated, Loading, CallInv, ListInv, DfuInv, LoadInv, Slots
<1>2. Listed' = Listed /\ Adapters' = Adapters /\ Slots' = Slots
      /\ (\A d \in Slots : d < i' <=> d < i \/ d = i)
  BY <1>1, SizesAre DEF Listed, Adapters, Slots
<1>3. ListInv'
  BY <1>1, <1>2 DEF CallInv, ListInv, Loading
<1>4. ASSUME Fine' PROVE FineInv'
  <2>1. FineInv
    BY <1>1, <1>4 DEF Fine, CallInv
  <2>2. i \in Adapters => dev[i].kind = "reboot"
    BY <1>1, <2>1, AdaptersFinite DEF FineInv, Adapters
  <2>3. late' = late
    <3>1. <<>> \in Seq(Kinds)
      OBVIOUS
    <3>2. Unbuffered(late[i]) = <<>> /\ late = Empty
      BY <1>1, <2>1, <3>1, UnbufferedIs DEF FineInv, Empty
    <3> QED
      BY <1>1, <3>2 DEF Empty
  <2> QED
    BY <1>1, <1>2, <2>1, <2>2, <2>3, AdaptersFinite DEF FineInv, Empty
<1> QED
  BY <1>3, <1>4 DEF CallInv

(* An update begins.                                                       *)
LEMMA UpdateCall ==
  ASSUME CallInv, DfuInv', Update
  PROVE  CallInv'
<1>1. /\ pc = "scan" /\ pc' \in {"erase", "close"} /\ TypeOK
      /\ i \in Slots /\ i \in Nat /\ dev[i].kind = "dfu"
      /\ (pc' = "erase" <=> Devices[i].ours)
      /\ UNCHANGED <<dev, i, devices, dfu_happens, pass, faults>>
  BY SizesAre DEF Update, InLoop, CallInv, DfuInv, TypeOK, list, Slots
<1>2. Listed' = Listed /\ Adapters' = Adapters /\ Slots' = Slots
      /\ Devices[i].kind = "dfu"
  <2>1. Listed' = Listed /\ Adapters' = Adapters /\ Slots' = Slots
    BY <1>1 DEF Listed, Adapters, Slots
  <2>2. Devices[i].kind = "dfu"
    BY <1>1 DEF CallInv, ListInv
  <2> QED
    BY <2>1, <2>2
<1>3. ListInv'
  BY <1>1, <1>2 DEF CallInv, ListInv, Loading
<1>4. ASSUME Fine' PROVE FineInv'
  <2>1. FineInv
    BY <1>1, <1>4 DEF Fine, CallInv
  <2>2. late' = late
    <3>1. late[i] = <<>> /\ Tail(Versions) = <<>> /\ late = Empty
      BY <1>1, <2>1, VersionsAre DEF FineInv, Empty
    <3> QED
      BY <1>1, <3>1 DEF Update, Empty
  <2> QED
    BY <1>1, <1>2, <2>1, <2>2 DEF FineInv, Empty
<1> QED
  BY <1>3, <1>4 DEF CallInv

(* Without a failure no device is refused.                                 *)
LEMMA RefuseCall ==
  ASSUME CallInv, DfuInv', Refuse
  PROVE  CallInv'
<1>1. /\ pc = "scan" /\ pc' = "scan" /\ i' = i + 1 /\ TypeOK
      /\ i \in Slots /\ i \in Nat /\ faults \in Nat
      /\ UNCHANGED <<dev, devices, dfu_happens, pass>>
      /\ faults' = faults + 1 \/ (faults' = faults /\ Head(Versions) # "version")
  BY SizesAre DEF Refuse, InLoop, CallInv, DfuInv, ListInv, TypeOK, list, Slots, Fault, NoFault
<1>2. Listed' = Listed /\ Adapters' = Adapters /\ Slots' = Slots
      /\ (\A d \in Slots : d < i' <=> d < i \/ d = i)
  BY <1>1, SizesAre DEF Listed, Adapters, Slots
<1>3. ListInv'
  <2>1. faults' \in Nat
    BY <1>1
  <2>2. \A d \in Slots : d < i => d < i'
    BY <1>2
  <2> QED
    BY <1>1, <1>2, <2>1, <2>2 DEF CallInv, ListInv, Loading
<1>4. ~Fine'
  <2>1. FineInv => Head(Versions) = "version"
    BY <1>1, VersionsAre DEF FineInv, Empty
  <2>. QED  BY <1>1, <1>2, <2>1 DEF Fine, CallInv
<1> QED
  BY <1>3, <1>4 DEF CallInv

(* One more device of the list is known.                                   *)
LEMMA ListedGrows ==
  ASSUME DfuInv, ListInv, devices' = Append(devices, i), i \in Slots
  PROVE  /\ Listed' = Listed \cup {i}
         /\ i \notin Listed
         /\ IsFiniteSet(Listed') /\ Cardinality(Listed') = Len(devices')
<1>1. devices \in Seq(Slots) /\ Len(devices) \in Nat
  BY DEF DfuInv, TypeOK
<1>2. /\ Len(devices') = Len(devices) + 1
      /\ devices'[Len(devices) + 1] = i
      /\ \A n \in 1..Len(devices) : devices'[n] = devices[n]
  BY <1>1
<1>3. Listed' = Listed \cup {i}
  <2>1. Listed' \subseteq Listed \cup {i}
    <3> SUFFICES ASSUME NEW n \in 1..Len(devices')
                 PROVE  devices'[n] \in Listed \cup {i}
      BY DEF Listed
    <3>1. n \in 1..Len(devices) \/ n = Len(devices) + 1
      BY <1>1, <1>2
    <3> QED
      BY <1>2, <3>1 DEF Listed
  <2>2. Listed \cup {i} \subseteq Listed'
    <3>1. Len(devices) + 1 \in 1..Len(devices')
          /\ \A n \in 1..Len(devices) : n \in 1..Len(devices')
      BY <1>1, <1>2
    <3> QED
      BY <1>2, <3>1 DEF Listed
  <2> QED
    BY <2>1, <2>2
<1>4. i \notin Listed
  BY DEF ListInv, Slots
<1>5. IsFiniteSet(Listed) /\ Cardinality(Listed) = Len(devices)
  BY DEF ListInv
<1>6. /\ IsFiniteSet(Listed \cup {i})
      /\ Cardinality(Listed \cup {i}) = Cardinality(Listed) + 1
  BY <1>4, <1>5, FS_AddElement
<1> QED
  BY <1>2, <1>3, <1>4, <1>5, <1>6

LEMMA ListCall ==
  ASSUME CallInv, DfuInv', List
  PROVE  CallInv'
<1>1. /\ pc = "scan" /\ pc' = "scan" /\ i' = i + 1
      /\ i \in Slots /\ i \in Nat /\ dev[i].kind = "epp"
      /\ devices' = Append(devices, i)
      /\ UNCHANGED <<dev, late, dfu_happens, pass, faults>>
  BY SizesAre DEF List, InLoop, CallInv, DfuInv, TypeOK, pipe, Slots
<1>2. /\ Listed' = Listed \cup {i}
      /\ IsFiniteSet(Listed') /\ Cardinality(Listed') = Len(devices')
  BY <1>1, ListedGrows DEF CallInv
<1>3. Adapters' = Adapters /\ Slots' = Slots
      /\ (\A d \in Slots : d < i' <=> d < i \/ d = i)
  BY <1>1, SizesAre DEF Adapters, Slots
<1>4. ListInv'
  BY <1>1, <1>2, <1>3 DEF CallInv, ListInv, Loading
<1>5. ASSUME Fine' PROVE FineInv'
  <2>1. FineInv
    BY <1>1, <1>5 DEF Fine, CallInv
  <2> QED
    BY <1>1, <1>2, <1>3, <2>1, AdaptersFinite DEF FineInv
<1> QED
  BY <1>4, <1>5 DEF CallInv

(* What is passed over without a failure is no adapter.                    *)
LEMMA SkipCall ==
  ASSUME CallInv, DfuInv', Skip
  PROVE  CallInv'
<1>1. /\ pc = "scan" /\ pc' = "scan" /\ i' = i + 1
      /\ i \in Slots /\ i \in Nat /\ dev[i].kind \in {"other", "epp", "dfu", "reboot"}
      /\ UNCHANGED <<dev, late, devices, dfu_happens, pass>>
      /\ \/ dev[i].kind \in {"epp", "dfu"} /\ faults' = faults + 1
         \/ dev[i].kind \notin {"epp", "dfu"} /\ faults' = faults
  <2>1. i \in Slots /\ i \in Nat
    BY SizesAre DEF Skip, InLoop, CallInv, DfuInv, TypeOK, Slots
  <2>2. dev[i].kind \in {"other", "epp", "dfu", "reboot"}
    BY <2>1 DEF CallInv, DfuInv, TypeOK
  <2>3. IF dev[i].kind \in {"epp", "dfu"} THEN Fault ELSE NoFault
    BY DEF Skip
  <2>4. \/ dev[i].kind \in {"epp", "dfu"} /\ faults' = faults + 1
        \/ dev[i].kind \notin {"epp", "dfu"} /\ faults' = faults
    BY <2>3 DEF Fault, NoFault
  <2>5. /\ pc = "scan" /\ pc' = "scan" /\ i' = i + 1
        /\ UNCHANGED <<dev, late, devices, dfu_happens, pass>>
    BY DEF Skip, pipe, list
  <2> QED
    BY <2>1, <2>2, <2>4, <2>5
<1>2. Listed' = Listed /\ Adapters' = Adapters /\ Slots' = Slots
      /\ (\A d \in Slots : d < i' <=> d < i \/ d = i)
  BY <1>1, SizesAre DEF Listed, Adapters, Slots
<1>3. ListInv'
  BY <1>1, <1>2 DEF CallInv, ListInv, Loading
<1>4. ASSUME Fine' PROVE FineInv'
  <2>1. Fine /\ FineInv /\ dev[i].kind \in {"other", "reboot"}
    BY <1>1, <1>4 DEF Fine, CallInv, ListInv
  <2>2. dev[i].kind # "reboot"
    BY <1>1, <2>1 DEF FineInv
  <2>3. i \notin Adapters
    BY <1>1, <2>1, <2>2 DEF CallInv, ListInv, Adapters
  <2> QED
    BY <1>1, <1>2, <2>1, <2>3, AdaptersFinite DEF FineInv
<1> QED
  BY <1>3, <1>4 DEF CallInv

LEMMA NoDevicesCall ==
  ASSUME CallInv, DfuInv', NoDevices
  PROVE  CallInv'
<1>1. /\ pc = "scan" /\ pc' = "scan" /\ i = 1 /\ i' = Len(Devices) + 1
      /\ UNCHANGED <<dev, devices, dfu_happens, pass>> /\ faults' = faults + 1
  BY DEF NoDevices, list, Fault
<1>2. Listed' = Listed /\ (\A d \in Slots : d < i' /\ ~(d < 1))
  BY <1>1, SizesAre DEF Listed, Slots
<1>3. ListInv'
  BY <1>1, <1>2 DEF CallInv, ListInv, Loading
<1>4. ~Fine'
  BY <1>1 DEF Fine, CallInv, ListInv
<1> QED
  BY <1>3, <1>4 DEF CallInv

-----------------------------------------------------------------------------
(* The end of a pass. *)

(* A pass that is over has handled every adapter.                          *)
LEMMA PassOver ==
  ASSUME CallInv, Fine, pc = "scan", ~InLoop, NEW d \in Adapters
  PROVE  \/ d \in Listed
         \/ dev[d].kind = "reboot" /\ dev[d].final /\ dfu_happens /\ pass = 1
<1>1. FineInv /\ d \in Slots /\ d \in Nat /\ i \in Nat /\ Len(devices) \in Nat
  BY AdaptersFinite, SizesAre DEF CallInv, DfuInv, TypeOK, Slots
<1>2. CASE i > Len(Devices)
  <2>1. d < i
    BY <1>1, <1>2, SizesAre DEF Slots
  <2> QED
    BY <1>1, <2>1 DEF FineInv
<1>3. CASE Len(devices) >= DevicesMax
  BY <1>3, FullList DEF CallInv, Fine
<1> QED
  BY <1>1, <1>2, <1>3, SizesAre DEF InLoop

LEMMA DoneCall ==
  ASSUME CallInv, DfuInv', Done
  PROVE  CallInv'
<1>1. /\ pc = "scan" /\ ~InLoop /\ (dfu_happens => pass = 2) /\ pc' = "done"
      /\ UNCHANGED <<dev, late, i, devices, dfu_happens, pass, faults>>
  BY DEF Done, pipe, list
<1>2. Listed' = Listed /\ Adapters' = Adapters /\ Slots' = Slots
  BY <1>1 DEF Listed, Adapters, Slots
<1>3. ListInv'
  BY <1>1, <1>2 DEF CallInv, ListInv, Loading
<1>4. ASSUME Fine' PROVE FineInv'
  <2>1. Fine /\ FineInv
    BY <1>1, <1>4 DEF Fine, CallInv
  <2>2. Adapters \subseteq Listed
    BY <1>1, <2>1, PassOver
  <2> QED
    BY <1>1, <1>2, <2>1, <2>2 DEF FineInv
<1> QED
  BY <1>3, <1>4 DEF CallInv

(* What a device that has been reset comes back as: it stays of the kind   *)
(* it may be, and an adapter stays an adapter.                             *)
LEMMA RebootedIs ==
  ASSUME CallInv, NEW d \in Slots
  PROVE  /\ Reboot(dev[d]).kind \in {"other", "epp", "dfu"}
         /\ Reboot(dev[d]).kind = "other" => Devices[d].kind = "other"
         /\ Reboot(dev[d]).kind = "dfu" => Devices[d].kind = "dfu"
         /\ Reboot(dev[d]).kind = "epp" => d \in Adapters
         /\ dev[d].kind = "epp" => Reboot(dev[d]).kind = "epp"
         /\ dev[d].kind = "reboot" /\ dev[d].final => Reboot(dev[d]).kind = "epp"
<1>1. dev[d] \in DevType
  BY DEF CallInv, DfuInv, TypeOK, DevType
<1>2. /\ dev[d].kind = "other" => Devices[d].kind = "other"
      /\ dev[d].kind \in {"dfu", "reboot"} => Devices[d].kind = "dfu"
      /\ dev[d].kind \in {"epp", "reboot"} => d \in Adapters
  BY DEF CallInv, ListInv
<1>3. CASE dev[d].kind # "reboot"
  BY <1>1, <1>2, <1>3 DEF Reboot, DevType
<1>4. CASE dev[d].kind = "reboot"
  <2>1. Reboot(dev[d]).kind = IF dev[d].final THEN "epp" ELSE "dfu"
    BY <1>1, <1>4 DEF Reboot, DevType
  <2> QED
    BY <1>2, <1>4, <2>1
<1> QED
  BY <1>3, <1>4

(* An empty list.                                                          *)
LEMMA NothingListed ==
  ASSUME devices' = <<>>
  PROVE  Listed' = {} /\ IsFiniteSet(Listed') /\ Cardinality(Listed') = Len(devices')
<1>1. Listed' = {}
  BY DEF Listed
<1> QED
  BY <1>1, FS_EmptySet

(* The devices may be listed: nothing is mistaken for an adapter.          *)
LEMMA PassCall ==
  ASSUME CallInv, NEW n \in {1, 2}, BeginPass(n), faults' \in Nat,
         \A d \in Slots : /\ dev'[d].kind = "other" => Devices[d].kind = "other"
                          /\ dev'[d].kind \in {"dfu", "reboot"} => Devices[d].kind = "dfu"
                          /\ dev'[d].kind \in {"epp", "reboot"} => d \in Adapters
  PROVE  ListInv'
<1>1. pc' = "scan" /\ pass' = n /\ devices' = <<>>
  BY DEF BeginPass
<1>2. Slots' = Slots /\ Adapters' = Adapters
  BY DEF Slots, Adapters
<1> QED
  BY <1>1, <1>2, NothingListed DEF ListInv, Loading

LEMMA GetListCall ==
  ASSUME CallInv, DfuInv', GetList
  PROVE  CallInv'
<1>1. BeginPass(1) /\ pc = "idle" /\ UNCHANGED <<dev, late, faults>>
  BY DEF GetList, pipe
<1>2. ListInv'
  BY <1>1, PassCall DEF CallInv, ListInv
<1>3. ASSUME Fine' PROVE FineInv'
  <2>1. FineInv
    BY <1>1, <1>3 DEF Fine, CallInv, Adapters, Slots
  <2>2. /\ pc' = "scan" /\ pass' = 1 /\ i' = 1 /\ Slots' = Slots /\ Adapters' = Adapters
    BY <1>1 DEF BeginPass, Slots, Adapters
  <2>3. \A d \in Slots : dev[d].kind # "reboot"
    BY <1>1, <2>1 DEF FineInv
  <2>4. \A d \in Adapters : ~(d < 1)
    BY AdaptersFinite, SizesAre DEF Slots
  <2> QED
    BY <1>1, <2>1, <2>2, <2>3, <2>4 DEF FineInv, Empty
<1> QED
  BY <1>2, <1>3 DEF CallInv

(* The second pass: without a failure every adapter runs its firmware.     *)
LEMMA ListAgainCall ==
  ASSUME CallInv, DfuInv', ListAgain
  PROVE  CallInv'
<1>1. /\ BeginPass(2) /\ pc = "scan" /\ ~InLoop /\ dfu_happens /\ pass = 1
      /\ \/ faults' = faults /\ Rebooted
         \/ faults' = faults + 1 /\ dev' = dev
  BY DEF ListAgain, NoFault, Fault, pipe
<1>2. ListInv'
  <2>1. faults' \in Nat
    BY <1>1 DEF CallInv, ListInv
  <2>2. \A d \in Slots : /\ dev'[d].kind = "other" => Devices[d].kind = "other"
                         /\ dev'[d].kind \in {"dfu", "reboot"} => Devices[d].kind = "dfu"
                         /\ dev'[d].kind \in {"epp", "reboot"} => d \in Adapters
    <3>1. CASE dev' = dev
      BY <3>1 DEF CallInv, ListInv
    <3>2. CASE dev' = [d \in Slots |-> Reboot(dev[d])]
      BY <3>2, RebootedIs
    <3> QED
      BY <1>1, <3>1, <3>2 DEF Rebooted
  <2> QED
    BY <1>1, <2>1, <2>2, PassCall
<1>3. ASSUME Fine' PROVE FineInv'
  <2>1. /\ Fine /\ FineInv /\ dev' = [d \in Slots |-> Reboot(dev[d])] /\ late' = Empty
    BY <1>1, <1>3 DEF Fine, CallInv, ListInv, Adapters, Slots, Rebooted, FineInv, Empty
  <2>2. /\ pc' = "scan" /\ pass' = 2 /\ i' = 1 /\ Slots' = Slots /\ Adapters' = Adapters
    BY <1>1 DEF BeginPass, Slots, Adapters
  <2>3. \A d \in Slots : dev'[d].kind # "reboot"
    BY <2>1, RebootedIs
  <2>4. \A d \in Adapters : ~(d < 1) /\ d \in Slots
    BY AdaptersFinite, SizesAre DEF Slots
  <2>5. ASSUME NEW d \in Adapters
        PROVE  dev'[d].kind = "epp"
    <3>1. d \in Slots /\ dev'[d] = Reboot(dev[d])
      BY <2>1, <2>4
    <3>2. CASE d \in Listed
      <4>1. dev[d].kind = "epp"
        BY <3>2 DEF CallInv, ListInv
      <4> QED
        BY <3>1, <4>1, RebootedIs
    <3>3. CASE dev[d].kind = "reboot" /\ dev[d].final
      BY <3>1, <3>3, RebootedIs
    <3> QED
      BY <1>1, <2>1, <3>2, <3>3, PassOver
  <2> QED
    BY <2>1, <2>2, <2>3, <2>4, <2>5 DEF FineInv, Empty
<1> QED
  BY <1>2, <1>3 DEF CallInv

LEMMA OpenCall ==
  ASSUME CallInv, DfuInv', OpenAuto
  PROVE  CallInv'
<1>1. /\ pc = "done" /\ pc' = "idle" /\ UNCHANGED <<i, devices, pass>>
      /\ dev' = [d \in Slots |-> Reboot(dev[d])]
      /\ late' = [d \in Slots |-> IF dev[d].kind = "reboot" THEN <<>> ELSE late[d]]
      /\ faults' \in {faults, faults + 1}
  BY DEF OpenAuto, Rebooted, list, NoFault, Fault
<1>2. Slots' = Slots /\ Adapters' = Adapters /\ Listed' = Listed
  BY <1>1 DEF Slots, Adapters, Listed
<1>3. \A d \in Slots : /\ dev'[d].kind \in {"other", "epp", "dfu"}
                       /\ dev'[d].kind = "other" => Devices[d].kind = "other"
                       /\ dev'[d].kind = "dfu" => Devices[d].kind = "dfu"
                       /\ dev'[d].kind = "epp" => d \in Adapters
                       /\ dev[d].kind = "epp" => dev'[d].kind = "epp"
  BY <1>1, RebootedIs
<1>4. ListInv'
  BY <1>1, <1>2, <1>3 DEF CallInv, ListInv, Loading
<1>5. ASSUME Fine' PROVE FineInv'
  <2>1. FineInv
    BY <1>1, <1>2, <1>5 DEF Fine, CallInv, ListInv
  <2>2. late' = Empty
    BY <1>1, <2>1 DEF FineInv, Empty
  <2> QED
    BY <1>1, <1>2, <1>3, <2>1, <2>2, AdaptersFinite DEF FineInv, Empty
<1> QED
  BY <1>4, <1>5 DEF CallInv

LEMMA CallInit == Init => CallInv
<1> SUFFICES ASSUME Init PROVE CallInv
  OBVIOUS
<1>1. /\ pc = "idle" /\ devices = <<>> /\ pass = 0 /\ faults = 0 /\ late = Empty
      /\ \A d \in Slots : dev[d].kind = Devices[d].kind
  BY DEF Init, Empty
<1>2. \A d \in Slots : Devices[d].kind \in {"other", "epp", "dfu"}
  BY AdaptersFinite DEF DeviceType
<1>3. Listed = {} /\ IsFiniteSet(Listed) /\ Cardinality(Listed) = Len(devices)
  <2>1. Listed = {}
    BY <1>1 DEF Listed
  <2> QED
    BY <1>1, <2>1, FS_EmptySet
<1>4. ListInv
  BY <1>1, <1>2, <1>3 DEF ListInv, Loading, Adapters
<1>5. FineInv
  BY <1>1, <1>2 DEF FineInv
<1> QED
  BY <1>4, <1>5, DfuInit DEF CallInv

LEMMA CallAlways == Spec => []CallInv
<1>1. CallInv /\ DfuInv' /\ [Next]_vars => CallInv'
  <2> SUFFICES ASSUME CallInv, DfuInv', [Next]_vars PROVE CallInv'
    OBVIOUS
  <2>1. CASE UNCHANGED vars
    <3>1. /\ UNCHANGED <<dev, late, pc, i, devices, dfu_happens, pass, faults>>
          /\ Slots' = Slots /\ Adapters' = Adapters
      BY <2>1 DEF vars, pipe, list, Slots, Adapters
    <3>2. Listed' = Listed
      BY <3>1 DEF Listed
    <3>3. ListInv' /\ (Fine' => Fine)
      BY <3>1, <3>2 DEF CallInv, ListInv, Fine, Loading
    <3>4. Fine => FineInv'
      BY <3>1, <3>2 DEF CallInv, FineInv, Empty
    <3> QED
      BY <3>3, <3>4 DEF CallInv
  <2> QED
    BY <2>1, GetListCall, NoDevicesCall, SkipCall, ListCall, UpdateCall, RefuseCall, LoadingSteps,
       ResetCall, CloseCall, ListAgainCall, DoneCall, OpenCall DEF Next, Steps
<1> QED  BY CallInit, DfuAlways, <1>1, PTL DEF Spec

(* When nothing fails one call of UsbLpt_GetList lists every adapter, the  *)
(* ones it has to update first included, whatever else is on the bus and   *)
(* in whatever order, if the caller's array has room for them.             *)
THEOREM OneCallEnough == Spec => []OneCallListsAll
<1>1. CallInv => OneCallListsAll
  <2>1. ASSUME CallInv, pc = "done", Fine
        PROVE  \A d \in Adapters : \E n \in 1..Len(devices) : devices[n] = d
    BY <2>1 DEF CallInv, FineInv, Listed
  <2> QED
    BY <2>1 DEF OneCallListsAll, Fine
<1> QED  BY CallAlways, <1>1, PTL

-----------------------------------------------------------------------------
(* The list of devices that UsbLpt_GetList goes through, see DeviceList.   *)

Gets(f, n) == UNION {f[k].get : k \in 1..n}
Frees(f, n) == UNION {f[k].free : k \in 1..n}

(* What n calls have acquired, from what one less has.                     *)
LEMMA GotNext ==
  ASSUME NEW f
  PROVE  /\ \A n \in Nat : Got(f, n) = Gets(f, n) \ Frees(f, n)
         /\ Gets(f, 0) = {} /\ Frees(f, 0) = {}
         /\ \A n \in 1..9 : /\ Gets(f, n) = Gets(f, n - 1) \cup f[n].get
                            /\ Frees(f, n) = Frees(f, n - 1) \cup f[n].free
<1>1. \A n \in Nat : Got(f, n) = Gets(f, n) \ Frees(f, n)
  BY Zenon DEF Got, Gets, Frees
<1>2. Gets(f, 0) = {} /\ Frees(f, 0) = {}
  BY DEF Gets, Frees
<1>3. ASSUME NEW n \in 1..9
      PROVE  /\ Gets(f, n) = Gets(f, n - 1) \cup f[n].get
             /\ Frees(f, n) = Frees(f, n - 1) \cup f[n].free
  <2>1. 1..n = (1..(n - 1)) \cup {n}
    OBVIOUS
  <2> QED
    BY <2>1, Zenon DEF Gets, Frees
<1> QED
  BY <1>1, <1>2, <1>3, Zenon

(* A call of the system that fails leaves nothing of what the function     *)
(* acquired before it, and its branch releases nothing else.               *)
FailsClean(f) ==
  \A n \in 1..Len(f) : CanFail(f, n) =>
    /\ Got(f, n - 1) \ f[n].undo = {}
    /\ f[n].undo \subseteq Got(f, n - 1)

LEMMA PortGets == FailsClean(DeviceGetPortHub) /\ Got(DeviceGetPortHub, Len(DeviceGetPortHub)) = {}
<1> DEFINE f == DeviceGetPortHub
<1>1. /\ Len(f) = 5
      /\ f[1] = Step({}, {})
      /\ f[2] = Step({"location"}, {})
      /\ f[3] = Step({}, {"location"})
      /\ f[4] = Step({}, {"location"})
      /\ f[5] = Free({"location"})
  BY DEF DeviceGetPortHub
<1> HIDE DEF f
<1>2. /\ Gets(f, 1) = {} /\ Frees(f, 1) = {}
      /\ Gets(f, 2) = {"location"} /\ Frees(f, 2) = {}
      /\ Gets(f, 3) = {"location"} /\ Frees(f, 3) = {}
      /\ Gets(f, 4) = {"location"} /\ Frees(f, 4) = {}
      /\ Gets(f, 5) = {"location"} /\ Frees(f, 5) = {"location"}
  BY <1>1, GotNext DEF Step, Free
<1>3. /\ Got(f, 0) = {}
      /\ Got(f, 1) = {}
      /\ Got(f, 2) = {"location"}
      /\ Got(f, 3) = {"location"}
      /\ Got(f, 4) = {"location"}
      /\ Got(f, 5) = {}
  BY <1>2, GotNext
<1> QED
  BY <1>1, <1>3 DEF FailsClean, CanFail, Step, Free, f

LEMMA HubGets == FailsClean(GetUsbDeviceHubHandle) /\ Got(GetUsbDeviceHubHandle, Len(GetUsbDeviceHubHandle)) = {"hub"}
<1> DEFINE f == GetUsbDeviceHubHandle
<1>1. /\ Len(f) = 9
      /\ f[1] = Step({}, {})
      /\ f[2] = Step({}, {})
      /\ f[3] = Step({"parent_id"}, {})
      /\ f[4] = Step({}, {"parent_id"})
      /\ f[5] = Step({"parent_path"}, {"parent_id"})
      /\ f[6] = Step({}, {"parent_id", "parent_path"})
      /\ f[7] = Free({"parent_id"})
      /\ f[8] = Step({"hub"}, {"parent_path"})
      /\ f[9] = Free({"parent_path"})
  BY DEF GetUsbDeviceHubHandle
<1> HIDE DEF f
<1>2. /\ Gets(f, 1) = {} /\ Frees(f, 1) = {}
      /\ Gets(f, 2) = {} /\ Frees(f, 2) = {}
      /\ Gets(f, 3) = {"parent_id"} /\ Frees(f, 3) = {}
      /\ Gets(f, 4) = {"parent_id"} /\ Frees(f, 4) = {}
      /\ Gets(f, 5) = {"parent_id", "parent_path"} /\ Frees(f, 5) = {}
      /\ Gets(f, 6) = {"parent_id", "parent_path"} /\ Frees(f, 6) = {}
      /\ Gets(f, 7) = {"parent_id", "parent_path"} /\ Frees(f, 7) = {"parent_id"}
      /\ Gets(f, 8) = {"parent_id", "parent_path", "hub"} /\ Frees(f, 8) = {"parent_id"}
      /\ Gets(f, 9) = {"parent_id", "parent_path", "hub"} /\ Frees(f, 9) = {"parent_id", "parent_path"}
  BY <1>1, GotNext DEF Step, Free
<1>3. /\ Got(f, 0) = {}
      /\ Got(f, 1) = {}
      /\ Got(f, 2) = {}
      /\ Got(f, 3) = {"parent_id"}
      /\ Got(f, 4) = {"parent_id"}
      /\ Got(f, 5) = {"parent_id", "parent_path"}
      /\ Got(f, 6) = {"parent_id", "parent_path"}
      /\ Got(f, 7) = {"parent_path"}
      /\ Got(f, 8) = {"parent_path", "hub"}
      /\ Got(f, 9) = {"hub"}
  BY <1>2, GotNext
<1> QED
  BY <1>1, <1>3 DEF FailsClean, CanFail, Step, Free, f

LEMMA DetailGets == FailsClean(SetupDiGetDeviceInterfaceDetailAlloc) /\ Got(SetupDiGetDeviceInterfaceDetailAlloc, Len(SetupDiGetDeviceInterfaceDetailAlloc)) = {"detail"}
<1> DEFINE f == SetupDiGetDeviceInterfaceDetailAlloc
<1>1. /\ Len(f) = 3
      /\ f[1] = Step({}, {})
      /\ f[2] = Step({"detail"}, {})
      /\ f[3] = Step({}, {"detail"})
  BY DEF SetupDiGetDeviceInterfaceDetailAlloc
<1> HIDE DEF f
<1>2. /\ Gets(f, 1) = {} /\ Frees(f, 1) = {}
      /\ Gets(f, 2) = {"detail"} /\ Frees(f, 2) = {}
      /\ Gets(f, 3) = {"detail"} /\ Frees(f, 3) = {}
  BY <1>1, GotNext DEF Step, Free
<1>3. /\ Got(f, 0) = {}
      /\ Got(f, 1) = {}
      /\ Got(f, 2) = {"detail"}
      /\ Got(f, 3) = {"detail"}
  BY <1>2, GotNext
<1> QED
  BY <1>1, <1>3 DEF FailsClean, CanFail, Step, Free, f

LEMMA InterfaceGets == FailsClean(<<Step({}, {})>>) /\ Got(<<Step({}, {})>>, Len(<<Step({}, {})>>)) = {}
<1> DEFINE f == <<Step({}, {})>>
<1>1. /\ Len(f) = 1
      /\ f[1] = Step({}, {})
  OBVIOUS
<1> HIDE DEF f
<1>2. /\ Gets(f, 1) = {} /\ Frees(f, 1) = {}
  BY <1>1, GotNext DEF Step, Free
<1>3. /\ Got(f, 0) = {}
      /\ Got(f, 1) = {}
  BY <1>2, GotNext
<1> QED
  BY <1>1, <1>3 DEF FailsClean, CanFail, Step, Free, f

LEMMA ConnectionGets == FailsClean(GetConnectionInformation) /\ Got(GetConnectionInformation, Len(GetConnectionInformation)) = {"connection"}
<1> DEFINE f == GetConnectionInformation
<1>1. /\ Len(f) = 2
      /\ f[1] = Step({"connection"}, {})
      /\ f[2] = Step({}, {"connection"})
  BY DEF GetConnectionInformation
<1> HIDE DEF f
<1>2. /\ Gets(f, 1) = {"connection"} /\ Frees(f, 1) = {}
      /\ Gets(f, 2) = {"connection"} /\ Frees(f, 2) = {}
  BY <1>1, GotNext DEF Step, Free
<1>3. /\ Got(f, 0) = {}
      /\ Got(f, 1) = {"connection"}
      /\ Got(f, 2) = {"connection"}
  BY <1>2, GotNext
<1> QED
  BY <1>1, <1>3 DEF FailsClean, CanFail, Step, Free, f

LEMMA StringLeavesNothing ==
  /\ Len(GetStringDescriptor) = 7
  /\ \A n \in 1..Len(GetStringDescriptor) : FailedString(n) = {}
<1> DEFINE f == GetStringDescriptor
<1>1. /\ Len(f) = 7
      /\ \A n \in 1..5 : f[n] = Step({}, {})
      /\ f[6] = Step({"node"}, {}) /\ f[7] = Step({"text"}, {"node"})
  BY DEF GetStringDescriptor
<1> HIDE DEF f
<1>2. /\ Gets(f, 1) = {} /\ Gets(f, 2) = {} /\ Gets(f, 3) = {} /\ Gets(f, 4) = {}
      /\ Gets(f, 5) = {} /\ Gets(f, 6) = {"node"}
  BY <1>1, GotNext DEF Step, Free
<1>3. /\ Frees(f, 1) = {} /\ Frees(f, 2) = {} /\ Frees(f, 3) = {} /\ Frees(f, 4) = {}
      /\ Frees(f, 5) = {} /\ Frees(f, 6) = {}
  BY <1>1, GotNext DEF Step, Free
<1>4. /\ \A n \in 0..5 : Got(f, n) = {}
      /\ Got(f, 6) = {"node"}
  BY <1>2, <1>3, GotNext
<1> QED
  BY <1>1, <1>4 DEF FailedString, Step, f

-----------------------------------------------------------------------------
(* What is held at each step. *)

Looping == {"port", "hub", "interface", "detail", "gather", "append", "free"}

(* What the current device holds and nobody refers to yet.                 *)
Current ==
  CASE step \in {"interface", "detail"} -> Of({"hub"})
    [] step \in {"gather", "append", "free"} -> Of({"hub", "detail"})
    [] OTHER -> {}
Infos == IF step \in Looping THEN Global("deviceInfo") ELSE {}

(* What may be recorded for the current device while it is being listed.   *)
Recorded(r) ==
  CASE step = "append" -> r[2] # 0
    [] step = "free" -> r[2] # 0 \/ r[1] = "deviceIdentifier"
    [] OTHER -> FALSE

Entry(r) == r[3] \in Nat /\ r[3] <= device /\ (r[3] = device => Recorded(r))

(* Everything held is referred to by the list, lost, or on its way.        *)
HoldingInv ==
  /\ step \in Looping \cup {"start", "listed", "end"} /\ device \in Nat /\ badFree = FALSE
  /\ step = "start" => owned = {} /\ lost = {}
  /\ step = "end" => owned = {}
  /\ step \in Looping => device # 0 /\ \A r \in owned \cup lost : Entry(r)
  /\ \A r \in lost : r[3] # 0
  /\ \A r \in owned : r[3] = 0 => r[1] = "list"
  /\ owned \cap lost = {}
  /\ held = owned \cup lost \cup Current \cup Infos

LEMMA OfIs ==
  /\ Of({}) = {} /\ Of({"hub"}) = {<<"hub", 0, device>>}
  /\ Of({"detail"}) = {<<"detail", 0, device>>}
  /\ Of({"hub", "detail"}) = {<<"hub", 0, device>>, <<"detail", 0, device>>}
  /\ Of({"detail", "hub"}) = {<<"hub", 0, device>>, <<"detail", 0, device>>}
  /\ Of({"deviceIdentifier"}) = {<<"deviceIdentifier", 0, device>>}
  /\ \A name : Global(name) = {<<name, 0, 0>>}
BY DEF Of, Global

LEMMA HoldingInit == ListInit => HoldingInv
BY OfIs DEF ListInit, HoldingInv, Looping, Current, Infos

(* A function that succeeds adds what it acquires for the device.          *)
LEMMA CallSucceeds ==
  ASSUME HoldingInv, NEW from \in {"port", "hub", "interface", "detail"},
         NEW to \in {"hub", "interface", "detail", "gather"}, NEW f,
         step = from, step' = to, Succeed(f), UNCHANGED <<device, lost, owned>>,
         Current' = Current \cup Of(Got(f, Len(f)))
  PROVE  HoldingInv'
<1>1. step \in Looping /\ step' \in Looping
  BY DEF Looping
<1>2. held' = held \cup Of(Got(f, Len(f))) /\ badFree' = badFree
  BY DEF Succeed
<1>3. Infos' = Infos
  BY <1>1 DEF Infos
<1>4. held' = (owned \cup lost \cup Current \cup Infos)'
  BY <1>2, <1>3 DEF HoldingInv
<1>5. \A r \in owned \cup lost : Entry(r)'
  BY <1>1 DEF HoldingInv, Entry, Recorded
<1> QED
  BY <1>1, <1>2, <1>4, <1>5 DEF HoldingInv, Looping

(* One that fails leaves what the functions before it acquired, and what   *)
(* is still held is lost with it.                                          *)
LEMMA CallFails ==
  ASSUME HoldingInv, NEW from \in {"port", "hub", "interface", "detail"},
         NEW f, NEW names, step = from, FailsClean(f),
         NEW n \in 1..Len(f), FailAt(f, n), Continue(names), UNCHANGED owned,
         Current = Of(names), names \subseteq {"hub"}
  PROVE  HoldingInv'
<1>1. step \in Looping /\ step' = "port" /\ device' = device + 1
  BY DEF Looping, Continue, NextDevice
<1>2. Got(f, n - 1) \ f[n].undo = {} /\ f[n].undo \subseteq Got(f, n - 1)
  BY DEF FailsClean, FailAt
<1>3. held' = held
  <2>1. held' = held \cup Of(Got(f, n - 1) \ f[n].undo)
    BY DEF FailAt
  <2> QED
    BY <1>2, <2>1, OfIs
<1>4. badFree' = FALSE
  BY <1>2, Zenon DEF FailAt, HoldingInv
<1>5. lost' = lost \cup Current
  BY DEF Continue
<1>6. \A r \in Current : r = <<"hub", 0, device>>
  BY DEF Of
<1>7. Current' = {} /\ Infos' = Infos
  BY <1>1 DEF Current, Infos, Looping
<1>8. held' = owned' \cup lost' \cup Current' \cup Infos'
  BY <1>3, <1>5, <1>7 DEF HoldingInv
<1>9. \A r \in owned \cup lost : r[3] \in Nat /\ r[3] < device
  BY <1>1 DEF HoldingInv, Entry, Recorded
<1>10. device \in Nat /\ device # 0
  BY <1>1 DEF HoldingInv
<1>11. \A r \in owned' \cup lost' : Entry(r)'
  BY <1>1, <1>5, <1>6, <1>9, <1>10 DEF Entry
<1>12. owned' \cap lost' = {}
  BY <1>5, <1>6, <1>9, <1>10 DEF HoldingInv
<1>13. \A r \in lost' : r[3] # 0
  BY <1>5, <1>6, <1>10 DEF HoldingInv
<1> QED
  BY <1>1, <1>4, <1>8, <1>10, <1>11, <1>12, <1>13 DEF HoldingInv, Looping

LEMMA CallKeeps ==
  ASSUME HoldingInv, NEW from \in {"port", "hub", "interface", "detail"},
         NEW to \in {"hub", "interface", "detail", "gather"}, NEW f, NEW names,
         Call(from, f, to, names), FailsClean(f),
         step = from => Current = Of(names) /\ names \subseteq {"hub"},
         step = from /\ step' = to /\ device' = device =>
            Current' = Current \cup Of(Got(f, Len(f)))
  PROVE  HoldingInv'
<1>1. step = from /\ UNCHANGED owned
  BY DEF Call
<1>2. CASE Succeed(f) /\ step' = to /\ UNCHANGED <<device, lost>>
  BY <1>1, <1>2, CallSucceeds
<1>3. ASSUME NEW n \in 1..Len(f), FailAt(f, n), Continue(names) PROVE HoldingInv'
  BY <1>1, <1>3, CallFails
<1> QED
  BY <1>2, <1>3 DEF Call

LEMMA FunctionsKeep ==
  ASSUME HoldingInv,
         \/ Call("port", DeviceGetPortHub, "hub", {})
         \/ Call("hub", GetUsbDeviceHubHandle, "interface", {})
         \/ EnumInterfaces \/ DetailAlloc
  PROVE  HoldingInv'
<1>0. /\ "port" \in {"port", "hub", "interface", "detail"}
      /\ "hub" \in {"port", "hub", "interface", "detail"}
      /\ "interface" \in {"port", "hub", "interface", "detail"}
      /\ "detail" \in {"port", "hub", "interface", "detail"}
      /\ "hub" \in {"hub", "interface", "detail", "gather"}
      /\ "interface" \in {"hub", "interface", "detail", "gather"}
      /\ "detail" \in {"hub", "interface", "detail", "gather"}
      /\ "gather" \in {"hub", "interface", "detail", "gather"}
  OBVIOUS
<1>1. CASE Call("port", DeviceGetPortHub, "hub", {})
  <2> DEFINE f == DeviceGetPortHub
  <2>1. FailsClean(f) /\ Got(f, Len(f)) = {}
    BY PortGets
  <2>2. Call("port", f, "hub", {})
    BY <1>1
  <2> HIDE DEF f
  <2>3. step = "port" => Current = Of({}) /\ {} \subseteq {"hub"}
    BY OfIs DEF Current
  <2>4. step = "port" /\ step' = "hub" /\ device' = device => Current' = Current \cup Of(Got(f, Len(f)))
    <3> SUFFICES ASSUME step = "port", step' = "hub", device' = device
                 PROVE  Current' = Current \cup Of(Got(f, Len(f)))
      OBVIOUS
    <3>1. Current' = {}
      BY DEF Current, Of
    <3> QED
      BY <2>1, <2>3, <3>1, OfIs
  <2> QED
    BY <2>1, <2>2, <2>3, <2>4, <1>0, CallKeeps, Zenon
<1>2. CASE Call("hub", GetUsbDeviceHubHandle, "interface", {})
  <2> DEFINE f == GetUsbDeviceHubHandle
  <2>1. FailsClean(f) /\ Got(f, Len(f)) = {"hub"}
    BY HubGets
  <2>2. Call("hub", f, "interface", {})
    BY <1>2
  <2> HIDE DEF f
  <2>3. step = "hub" => Current = Of({}) /\ {} \subseteq {"hub"}
    BY OfIs DEF Current
  <2>4. step = "hub" /\ step' = "interface" /\ device' = device => Current' = Current \cup Of(Got(f, Len(f)))
    <3> SUFFICES ASSUME step = "hub", step' = "interface", device' = device
                 PROVE  Current' = Current \cup Of(Got(f, Len(f)))
      OBVIOUS
    <3>1. Current' = Of({"hub"})
      BY DEF Current, Of
    <3> QED
      BY <2>1, <2>3, <3>1, OfIs
  <2> QED
    BY <2>1, <2>2, <2>3, <2>4, <1>0, CallKeeps, Zenon
<1>3. CASE EnumInterfaces
  <2> DEFINE f == <<Step({}, {})>>
  <2>1. FailsClean(f) /\ Got(f, Len(f)) = {}
    BY InterfaceGets
  <2>2. Call("interface", f, "detail", {"hub"})
    BY <1>3 DEF EnumInterfaces
  <2> HIDE DEF f
  <2>3. step = "interface" => Current = Of({"hub"}) /\ {"hub"} \subseteq {"hub"}
    BY OfIs DEF Current
  <2>4. step = "interface" /\ step' = "detail" /\ device' = device => Current' = Current \cup Of(Got(f, Len(f)))
    <3> SUFFICES ASSUME step = "interface", step' = "detail", device' = device
                 PROVE  Current' = Current \cup Of(Got(f, Len(f)))
      OBVIOUS
    <3>1. Current' = Of({"hub"})
      BY DEF Current, Of
    <3> QED
      BY <2>1, <2>3, <3>1, OfIs
  <2> QED
    BY <2>1, <2>2, <2>3, <2>4, <1>0, CallKeeps, Zenon
<1>4. CASE DetailAlloc
  <2> DEFINE f == SetupDiGetDeviceInterfaceDetailAlloc
  <2>1. FailsClean(f) /\ Got(f, Len(f)) = {"detail"}
    BY DetailGets
  <2>2. Call("detail", f, "gather", {"hub"})
    BY <1>4 DEF DetailAlloc
  <2> HIDE DEF f
  <2>3. step = "detail" => Current = Of({"hub"}) /\ {"hub"} \subseteq {"hub"}
    BY OfIs DEF Current
  <2>4. step = "detail" /\ step' = "gather" /\ device' = device => Current' = Current \cup Of(Got(f, Len(f)))
    <3> SUFFICES ASSUME step = "detail", step' = "gather", device' = device
                 PROVE  Current' = Current \cup Of(Got(f, Len(f)))
      OBVIOUS
    <3>1. Current' = Of({"hub"}) \cup Of({"detail"})
      BY DEF Current, Of
    <3> QED
      BY <2>1, <2>3, <3>1, OfIs
  <2> QED
    BY <2>1, <2>2, <2>3, <2>4, <1>0, CallKeeps, Zenon
<1> QED
  BY <1>1, <1>2, <1>3, <1>4

LEMMA ClassDevsKeeps == HoldingInv /\ GetClassDevs => HoldingInv'
<1> SUFFICES ASSUME HoldingInv, GetClassDevs PROVE HoldingInv'
  OBVIOUS
<1>1. owned = {} /\ lost = {} /\ held = {} /\ UNCHANGED <<owned, lost, badFree>>
  BY OfIs DEF HoldingInv, GetClassDevs, Current, Infos, Looping
<1>2. CASE step' = "end" /\ UNCHANGED <<device, held>>
  BY <1>1, <1>2 DEF HoldingInv, Current, Infos, Looping
<1>3. CASE step' = "port" /\ device' = 1 /\ held' = Global("deviceInfo")
  <2>1. Current' = {} /\ Infos' = Global("deviceInfo")
    BY <1>3 DEF Current, Infos, Looping, Global
  <2> QED
    BY <1>1, <1>3, <2>1 DEF HoldingInv, Looping
<1> QED
  BY <1>2, <1>3 DEF GetClassDevs

(* The strings a device got are entries of its own, with a language.       *)
LEMMA StringsAre ==
  ASSUME NEW got \in [Fields -> SUBSET (1..Languages)]
  PROVE  /\ \A r \in StringsOf(got) : r[3] = device /\ r[2] # 0
         /\ StringsOf([f \in Fields |-> Chain(got[f])]) \subseteq StringsOf(got)
<1> DEFINE kept == [f \in Fields |-> Chain(got[f])]
<1>1. ASSUME NEW r \in StringsOf(got) PROVE r[3] = device /\ r[2] # 0
  <2>1. PICK f \in Fields : r \in {f} \X got[f] \X {device}
    BY Zenon DEF StringsOf
  <2>2. r[2] \in got[f] /\ r[3] = device
    BY <2>1
  <2>3. got[f] \subseteq 1..Languages
    BY <2>1
  <2> QED
    BY <2>2, <2>3, ListAssumption
<1>2. ASSUME NEW r \in StringsOf(kept) PROVE r \in StringsOf(got)
  <2>1. PICK f \in Fields : r \in {f} \X kept[f] \X {device}
    BY <1>2, Zenon DEF StringsOf
  <2>2. kept[f] \subseteq got[f]
    BY DEF Chain
  <2> HIDE DEF kept
  <2>3. r \in {f} \X got[f] \X {device}
    BY <2>1, <2>2
  <2> QED
    BY <2>3, Zenon DEF StringsOf
<1> QED
  BY <1>1, <1>2, Zenon

LEMMA GatherKeeps == HoldingInv /\ Gather => HoldingInv'
<1> SUFFICES ASSUME HoldingInv, Gather PROVE HoldingInv'
  OBVIOUS
<1>1. step = "gather" /\ device' = device /\ device \in Nat /\ device # 0
  BY DEF Gather, HoldingInv, Looping
<1>2. \A r \in owned \cup lost : r[3] \in Nat /\ r[3] < device
  BY <1>1 DEF HoldingInv, Looping, Entry, Recorded
<1>3. CASE /\ \E n \in 1..Len(GetConnectionInformation) : FailAt(GetConnectionInformation, n)
           /\ step' = "free" /\ UNCHANGED <<owned, lost>>
  <2> DEFINE f == GetConnectionInformation
  <2>1. PICK n \in 1..Len(f) : FailAt(f, n)
    BY <1>3
  <2>2. Got(f, n - 1) \ f[n].undo = {} /\ f[n].undo \subseteq Got(f, n - 1)
    BY <2>1, ConnectionGets DEF FailsClean, FailAt
  <2> HIDE DEF f
  <2>3. held' = held
    <3>1. held' = held \cup Of(Got(f, n - 1) \ f[n].undo)
      BY <2>1 DEF FailAt
    <3> QED
      BY <2>2, <3>1, OfIs
  <2>4. badFree' = FALSE
    BY <2>1, <2>2, Zenon DEF FailAt, HoldingInv
  <2>5. Current' = Current /\ Infos' = Infos
    BY <1>1, <1>3 DEF Current, Infos, Looping, Of, Global
  <2>6. \A r \in owned \cup lost : Entry(r)'
    BY <1>1, <1>2 DEF Entry
  <2> QED
    BY <1>1, <1>3, <2>3, <2>4, <2>5, <2>6 DEF HoldingInv, Looping
<1>4. ASSUME NEW got \in [Fields -> SUBSET (1..Languages)],
             NEW n \in 1..Len(GetStringDescriptor), NEW kept,
             kept = [f \in Fields |-> Chain(got[f])],
             step' = "append", badFree' = badFree,
             held' = held \cup StringsOf(got) \cup Of(FailedString(n)),
             owned' = owned \cup StringsOf(kept),
             lost' = lost \cup (StringsOf(got) \ StringsOf(kept))
      PROVE  HoldingInv'
  <2> DEFINE all == StringsOf(got)
             some == StringsOf(kept)
  <2>1. /\ \A r \in all : r[3] = device /\ r[2] # 0
        /\ some \subseteq all
    BY <1>4, StringsAre
  <2>2. held' = held \cup all
    BY <1>4, StringLeavesNothing, OfIs
  <2>3. owned' = owned \cup some /\ lost' = lost \cup (all \ some)
    BY <1>4
  <2> HIDE DEF all, some
  <2>4. Current' = Current /\ Infos' = Infos
    BY <1>1, <1>4 DEF Current, Infos, Looping, Of, Global
  <2>5. held' = owned' \cup lost' \cup Current' \cup Infos'
    BY <2>1, <2>2, <2>3, <2>4 DEF HoldingInv
  <2>6. \A r \in owned' \cup lost' : Entry(r)'
    BY <1>1, <1>2, <1>4, <2>1, <2>3 DEF Entry, Recorded
  <2>7. owned' \cap lost' = {}
    BY <1>1, <1>2, <2>1, <2>3 DEF HoldingInv
  <2>8. (\A r \in lost' : r[3] # 0) /\ (\A r \in owned' : r[3] = 0 => r[1] = "list")
    BY <1>1, <2>1, <2>3 DEF HoldingInv
  <2> QED
    BY <1>1, <1>4, <2>5, <2>6, <2>7, <2>8 DEF HoldingInv, Looping
<1> QED
  BY <1>3, <1>4, Zenon DEF Gather

LEMMA AppendKeeps == HoldingInv /\ AppendInfo => HoldingInv'
<1> SUFFICES ASSUME HoldingInv, AppendInfo PROVE HoldingInv'
  OBVIOUS
<1>1. /\ step = "append" /\ step' = "free" /\ device' = device /\ badFree' = badFree
      /\ device \in Nat /\ device # 0
  BY DEF AppendInfo, HoldingInv, Looping
<1>2. \A r \in owned \cup lost : Entry(r)
  BY <1>1 DEF HoldingInv, Looping
<1>3. Current' = Current /\ Infos' = Infos
  BY <1>1 DEF Current, Infos, Looping, Of, Global
<1>4. CASE /\ held' = held \cup Of({"deviceIdentifier"}) \cup Global("list")
           /\ owned' = owned \cup Of({"deviceIdentifier"}) \cup Global("list")
           /\ UNCHANGED lost
  <2> DEFINE r1 == <<"deviceIdentifier", 0, device>>
             r2 == <<"list", 0, 0>>
  <2>1. Of({"deviceIdentifier"}) = {r1} /\ Global("list") = {r2}
    BY OfIs
  <2>2. held' = owned' \cup lost' \cup Current' \cup Infos'
    BY <1>3, <1>4 DEF HoldingInv
  <2>3. \A r \in owned' \cup lost' : Entry(r)'
    BY <1>1, <1>2, <1>4, <2>1 DEF Entry, Recorded
  <2>4. r1 \notin lost /\ r2 \notin lost
    BY <1>1, <1>2 DEF Entry, Recorded, HoldingInv
  <2>5. owned' \cap lost' = {}
    BY <1>4, <2>1, <2>4 DEF HoldingInv
  <2>6. (\A r \in lost' : r[3] # 0) /\ (\A r \in owned' : r[3] = 0 => r[1] = "list")
    BY <1>1, <1>4, <2>1 DEF HoldingInv
  <2> QED
    BY <1>1, <2>2, <2>3, <2>5, <2>6 DEF HoldingInv, Looping
<1>5. CASE owned' = owned \ Mine /\ lost' = lost \cup Mine /\ UNCHANGED held
  <2>1. Mine \subseteq owned /\ \A r \in Mine : r[3] = device
    BY DEF Mine
  <2>2. held' = owned' \cup lost' \cup Current' \cup Infos'
    BY <1>3, <1>5, <2>1 DEF HoldingInv
  <2>3. \A r \in owned' \cup lost' : Entry(r)'
    BY <1>1, <1>2, <1>5, <2>1 DEF Entry, Recorded
  <2>4. owned' \cap lost' = {}
    BY <1>5, <2>1 DEF HoldingInv
  <2>5. (\A r \in lost' : r[3] # 0) /\ (\A r \in owned' : r[3] = 0 => r[1] = "list")
    BY <1>1, <1>5, <2>1 DEF HoldingInv
  <2> QED
    BY <1>1, <2>2, <2>3, <2>4, <2>5 DEF HoldingInv, Looping
<1> QED
  BY <1>4, <1>5 DEF AppendInfo

LEMMA FreeKeeps == HoldingInv /\ FreeDevice => HoldingInv'
<1> SUFFICES ASSUME HoldingInv, FreeDevice PROVE HoldingInv'
  OBVIOUS
<1>1. /\ step = "free" /\ step' = "port" /\ device' = device + 1 /\ UNCHANGED <<owned, lost>>
      /\ device \in Nat /\ device # 0
  BY DEF FreeDevice, NextDevice, HoldingInv, Looping
<1>2. \A r \in owned \cup lost : Entry(r)
  BY <1>1 DEF HoldingInv, Looping
<1> DEFINE gone == {<<"hub", 0, device>>, <<"detail", 0, device>>}
<1>3. Current = gone /\ Of({"detail", "hub"}) = gone
  BY <1>1, OfIs DEF Current
<1>4. Infos = {<<"deviceInfo", 0, 0>>} /\ Infos' = Infos /\ Current' = {}
  BY <1>1, OfIs DEF Infos, Looping, Current
<1>5. \A r \in owned \cup lost \cup Infos : r \notin gone
  BY <1>1, <1>2, <1>4 DEF Entry, Recorded
<1>6. held = owned \cup lost \cup gone \cup Infos
  BY <1>3 DEF HoldingInv
<1>7. held' = held \ gone /\ badFree' = FALSE
  <2>1. held' = held \ gone /\ badFree' = (badFree \/ ~(gone \subseteq held))
    BY <1>3 DEF FreeDevice, Release
  <2>2. gone \subseteq held
    BY <1>6
  <2> QED
    BY <2>1, <2>2, Zenon DEF HoldingInv
<1> HIDE DEF gone
<1>8. held' = owned' \cup lost' \cup Current' \cup Infos'
  BY <1>1, <1>4, <1>5, <1>6, <1>7
<1>9. \A r \in owned \cup lost : Entry(r)'
  BY <1>1, <1>2 DEF Entry
<1> QED
  BY <1>1, <1>7, <1>8, <1>9 DEF HoldingInv, Looping

LEMMA EndKeeps == HoldingInv /\ EndOfLoop => HoldingInv'
<1> SUFFICES ASSUME HoldingInv, EndOfLoop PROVE HoldingInv'
  OBVIOUS
<1>1. step = "port" /\ step' = "listed" /\ UNCHANGED <<device, owned, lost>>
  BY DEF EndOfLoop
<1> DEFINE gone == {<<"deviceInfo", 0, 0>>}
<1>2. Infos = gone /\ Current = {} /\ Infos' = {} /\ Current' = {} /\ Global("deviceInfo") = gone
  BY <1>1, OfIs DEF Infos, Looping, Current
<1>3. \A r \in owned \cup lost : r \notin gone
  BY DEF HoldingInv
<1>4. held' = held \ gone /\ badFree' = FALSE
  <2>1. held' = held \ gone /\ badFree' = (badFree \/ ~(gone \subseteq held))
    BY <1>2 DEF EndOfLoop, Release
  <2>2. gone \subseteq held
    BY <1>2 DEF HoldingInv
  <2> QED
    BY <2>1, <2>2, Zenon DEF HoldingInv
<1> HIDE DEF gone
<1>5. held' = owned' \cup lost' \cup Current' \cup Infos'
  BY <1>1, <1>2, <1>3, <1>4 DEF HoldingInv
<1> QED
  BY <1>1, <1>4, <1>5 DEF HoldingInv, Looping

LEMMA DestroyKeeps == HoldingInv /\ Destroy => HoldingInv'
<1> SUFFICES ASSUME HoldingInv, Destroy PROVE HoldingInv'
  OBVIOUS
<1>1. step = "listed" /\ step' = "end" /\ owned' = {} /\ UNCHANGED <<device, lost>>
  BY DEF Destroy
<1>2. Infos = {} /\ Current = {} /\ Infos' = {} /\ Current' = {}
  BY <1>1 DEF Infos, Looping, Current
<1>3. held = owned \cup lost
  BY <1>2 DEF HoldingInv
<1>4. held' = held \ owned /\ badFree' = FALSE
  BY <1>3, Zenon DEF Destroy, Release, HoldingInv
<1>5. held' = owned' \cup lost' \cup Current' \cup Infos'
  BY <1>1, <1>2, <1>3, <1>4 DEF HoldingInv
<1> QED
  BY <1>1, <1>4, <1>5 DEF HoldingInv, Looping

LEMMA HoldingNext == HoldingInv /\ [ListNext]_listVars => HoldingInv'
<1> SUFFICES ASSUME HoldingInv, [ListNext]_listVars PROVE HoldingInv'
  OBVIOUS
<1>1. CASE UNCHANGED listVars
  BY <1>1 DEF listVars, HoldingInv, Looping, Current, Infos, Entry, Recorded, Of, Global
<1> QED
  BY <1>1, ClassDevsKeeps, FunctionsKeep, GatherKeeps, AppendKeeps, FreeKeeps, EndKeeps,
     DestroyKeeps DEF ListNext

(* Whichever calls of the system fail while the devices are listed, for    *)
(* any number of devices, strings and languages: nothing is released twice *)
(* or without being held, and once the list is destroyed only the known    *)
(* losses remain (USBWRAP_CreateUsbDevicesInfoList).                       *)
THEOREM LossesAreKnown == ListSpec => []OnlyKnownLosses
<1>1. HoldingInv => OnlyKnownLosses
  BY DEF HoldingInv, OnlyKnownLosses, Current, Infos, Looping
<1> QED
  BY <1>1, HoldingInit, HoldingNext, PTL DEF ListSpec
=============================================================================
