-------------------------- MODULE UsbLptHostProofs --------------------------
(***************************************************************************)
(* UsbLptHost, for any number of threads, registers, devices and failures: *)
(* opening leaks nothing and finds the right transport, and the calls      *)
(* implement AtomicPort.                                                   *)
(***************************************************************************)
EXTENDS UsbLptHost, TLAPS

(* What is held after n resources were acquired.                           *)
Parts(n) == {Resources[i] : i \in 1..n}

(* The parts of the handle, and how far UsbLpt_Open has come.              *)
OpenInv ==
  /\ device \in Devices /\ flag \in BOOLEAN
  /\ state \in {"closed", "opening", "version", "open"}
  /\ state = "closed" => held = {}
  /\ state = "opening" => \E n \in 1..3 : held = Parts(n)
  /\ state \in {"version", "open"} => held = Parts(4)
  /\ state = "open" => flag = ~device.bulk

(* The answers to a command.                                               *)
Fitting(c) == IF c.cmd = "GET_VERSION" THEN {"version"} ELSE Bytes

(* The calls: which thread has one, and where it is.                       *)
CallInv ==
  /\ pc \in [Threads -> {"idle", "send", "receive", "done"}]
  /\ call \in [Threads -> Commands \cup {NoCall, GetVersion}]
  /\ answer \in [Threads -> AnswerType] /\ due \in [Threads -> AnswerType]
  /\ crossed \subseteq Threads /\ stray \in BOOLEAN
  /\ \A t \in Threads :
       /\ pc[t] = "idle" <=> call[t] = NoCall
       /\ pc[t] = "send" => due[t] = "none"
       /\ pc[t] = "receive" => due[t] \in Fitting(call[t]) /\ HasAnswer(call[t])
       /\ state = "open" => call[t] # GetVersion
       /\ state \in {"closed", "opening"} => pc[t] = "idle"
       /\ state = "version" /\ pc[t] # "idle" => t = Opener /\ call[t] = GetVersion
       /\ pc[t] = "done" =>
            \/ answer[t] = "failed"
            \/ answer[t] = due[t] /\ due[t] # "none"
            \/ t \in crossed /\ answer[t] \in Bytes \cup {"version"}

(* What is on its way from the adapter. *)
Entry == [to : Threads, val : AnswerType \cup {"rest"}]
Answers == Seq(Entry)

(* The pipes: f is the register file before each command on its way and,  *)
(* last, after all of them.                                                *)
Executed(f) ==
  /\ f[1] = port /\ f[Len(out) + 1] = regs
  /\ \A j \in 1..Len(out) : f[j + 1] = Effect(f[j], out[j].cmd)

FlowInv ==
  /\ port \in [Regs -> Bytes] /\ regs \in [Regs -> Bytes]
  /\ out \in Seq([from : Threads, cmd : CallType])
  /\ in \in Answers
  /\ out # <<>> => device.bulk
  /\ \A t \in Threads : pc[t] = "receive" => device.bulk /\ (stray => t \in crossed)
  /\ \E f \in [1..(Len(out) + 1) -> [Regs -> Bytes]] : Executed(f)

(* While no answer was left: w and v say which waiting thread an answer in *)
(* the pipe, or one that a command will have, is for.                      *)
Matched(w, v, f) ==
  /\ Executed(f)
  /\ \A i \in 1..Len(in) :
       /\ pc[w[i]] = "receive" /\ in[i].val \in Bytes \cup {"version"}
       /\ w[i] \in crossed \/ in[i].val = due[w[i]]
  /\ \A j \in 1..Len(out) : HasAnswer(out[j].cmd) =>
       /\ pc[v[j]] = "receive"
       /\ v[j] \in crossed \/ Answer(f[j], out[j].cmd) = due[v[j]]
  /\ \A i, k \in 1..Len(in) : w[i] = w[k] => i = k
  /\ \A j, k \in 1..Len(out) :
       HasAnswer(out[j].cmd) /\ HasAnswer(out[k].cmd) /\ v[j] = v[k] => j = k
  /\ \A i \in 1..Len(in), j \in 1..Len(out) :
       HasAnswer(out[j].cmd) => w[i] # v[j]

QueueInv ==
  /\ \A t, u \in Threads :
       pc[t] = "receive" /\ pc[u] = "receive" /\ t \notin crossed => t = u
  /\ \E w \in [1..Len(in) -> Threads], v \in [1..Len(out) -> Threads],
       f \in [1..(Len(out) + 1) -> [Regs -> Bytes]] : Matched(w, v, f)

(* And the version is asked for before the handle is used.                 *)
KindInv ==
  state = "open" =>
    /\ \A i \in 1..Len(in) : in[i].val \in Bytes
    /\ \A j \in 1..Len(out) : out[j].cmd.cmd # "GET_VERSION"

HostInv ==
  /\ OpenInv /\ CallInv /\ FlowInv
  /\ ~stray => QueueInv /\ KindInv

-----------------------------------------------------------------------------
(* The parts of the handle. *)

LEMMA PartsAre ==
  /\ Parts(0) = {} /\ Parts(1) = {"USBLPT_t"} /\ Parts(2) = {"USBLPT_t", "file"}
  /\ Parts(3) = {"USBLPT_t", "file", "winusb"}
  /\ Parts(4) = {"USBLPT_t", "file", "winusb", "USBHANDLE_t"}
<1>1. /\ Resources[1] = "USBLPT_t" /\ Resources[2] = "file"
      /\ Resources[3] = "winusb" /\ Resources[4] = "USBHANDLE_t"
  BY DEF Resources
<1>2. 1..0 = {} /\ 1..1 = {1} /\ 1..2 = {1, 2} /\ 1..3 = {1, 2, 3} /\ 1..4 = {1, 2, 3, 4}
  OBVIOUS
<1>3. Parts(0) = {} /\ Parts(1) = {Resources[1]} /\ Parts(2) = {Resources[1], Resources[2]}
  BY <1>2, Zenon DEF Parts
<1>4. Parts(3) = {Resources[1], Resources[2], Resources[3]}
  BY <1>2, Zenon DEF Parts
<1>5. Parts(4) = {Resources[1], Resources[2], Resources[3], Resources[4]}
  BY <1>2, Zenon DEF Parts
<1>. QED  BY <1>1, <1>3, <1>4, <1>5, Zenon

LEMMA AcquiredIs ==
  ASSUME NEW n \in 0..4, held = Parts(n)
  PROVE  Acquired = n
<1>3. \A m \in 0..4 : /\ "USBLPT_t" \in Parts(m) <=> m >= 1
                      /\ "file" \in Parts(m) <=> m >= 2
                      /\ "winusb" \in Parts(m) <=> m >= 3
                      /\ "USBHANDLE_t" \in Parts(m) <=> m >= 4
  BY PartsAre
<1>1. ASSUME NEW m \in 0..4, held = Parts(m)
      PROVE  m = n
  <2>1. Parts(m) = Parts(n)
    BY <1>1
  <2>2. (m >= 1 <=> n >= 1) /\ (m >= 2 <=> n >= 2) /\ (m >= 3 <=> n >= 3) /\ (m >= 4 <=> n >= 4)
    BY <1>3, <2>1, Zenon
  <2>. QED  BY <2>2
<1>2. Acquired \in 0..4 /\ held = Parts(Acquired)
  BY Zenon DEF Acquired, Parts
<1>. QED  BY <1>1, <1>2

LEMMA ReleasedAll ==
  ASSUME NEW n \in 0..4
  PROVE  Parts(n) \ Released(n + 1) = {} /\ Parts(n) \ Released(5) = {}
<1>1. Released(n + 1) = Parts(n) /\ Released(5) = Parts(4)
  BY DEF Released, Parts
<1>. QED  BY <1>1, PartsAre

LEMMA NextPart ==
  ASSUME NEW n \in 0..3
  PROVE  Parts(n) \cup {Resources[n + 1]} = Parts(n + 1)
BY PartsAre DEF Resources

LEMMA OpenStep ==
  ASSUME OpenInv, [Next]_vars
  PROVE  OpenInv'
<1>1. ASSUME Acquire
      PROVE  OpenInv'
  <2>1. PICK n \in 0..3 : /\ held = Parts(n) /\ (state = "closed" => n = 0)
                         /\ (state = "opening" => n \in 1..3)
    BY <1>1, PartsAre DEF Acquire, OpenInv
  <2>2. Acquired = n
    BY <2>1, AcquiredIs
  <2>3. CASE Discard(n + 1) /\ UNCHANGED <<flag, device>>
    BY <2>1, <2>3, ReleasedAll DEF Discard, OpenInv
  <2>4. CASE /\ held' = held \cup {Resources[n + 1]} /\ flag' \in BOOLEAN /\ UNCHANGED device
             /\ n + 1 < 4 /\ state' = "opening"
    BY <2>1, <2>4, NextPart DEF OpenInv
  <2>5. CASE /\ held' = held \cup {Resources[n + 1]} /\ flag' \in BOOLEAN /\ UNCHANGED device
             /\ ~(n + 1 < 4) /\ state' = "version"
    BY <2>1, <2>5, NextPart DEF OpenInv
  <2>6. flag' \in BOOLEAN
    BY <1>1, <2>2, Zenon DEF Acquire, OpenInv
  <2>. QED  BY <1>1, <2>2, <2>3, <2>4, <2>5, <2>6, Zenon DEF Acquire
<1>2. ASSUME Opened
      PROVE  OpenInv'
  <2>1. UNCHANGED device /\ state = "version"
    BY <1>2 DEF Opened
  <2>2. CASE Discard(5) /\ UNCHANGED flag
    BY <2>1, <2>2, ReleasedAll DEF Discard, OpenInv
  <2>3. CASE /\ state' = "open" /\ UNCHANGED held
             /\ flag' = IF device.implementation < 2 THEN TRUE ELSE FALSE
    <3>1. device.bulk <=> ~(device.implementation < 2)
      BY HostAssumption DEF OpenInv
    <3>2. flag' \in BOOLEAN /\ flag' = ~device.bulk
      BY <2>3, <3>1, Zenon
    <3>. QED  BY <2>1, <2>3, <3>2 DEF OpenInv
  <2>. QED  BY <1>2, <2>2, <2>3, Zenon DEF Opened
<1>3. ASSUME Close
      PROVE  OpenInv'
  BY <1>3, ReleasedAll DEF Close, Discard, OpenInv
<1>4. CASE UNCHANGED <<device, handle>>
  BY <1>4 DEF handle, OpenInv
<1>. QED
  BY <1>1, <1>2, <1>3, <1>4 DEF Next, Work, vars, Start, ControlTransfer, WritePipe,
     ReadPipe, DeviceExecutes, Return

-----------------------------------------------------------------------------
(* The calls. *)

LEMMA TailIs ==
  ASSUME NEW S, NEW s \in Seq(S), s # <<>>
  PROVE  /\ Len(s) \in Nat \ {0} /\ Head(s) = s[1] /\ s[1] \in S
         /\ Tail(s) \in Seq(S) /\ Len(Tail(s)) = Len(s) - 1
         /\ \A j \in 1..(Len(s) - 1) : Tail(s)[j] = s[j + 1]
OBVIOUS

LEMMA AppendIs ==
  ASSUME NEW S, NEW s \in Seq(S), NEW x \in S
  PROVE  /\ Len(s) \in Nat /\ Append(s, x) \in Seq(S) /\ Len(Append(s, x)) = Len(s) + 1
         /\ Append(s, x)[Len(s) + 1] = x
         /\ \A j \in 1..Len(s) : Append(s, x)[j] = s[j]
OBVIOUS

(* What a transfer does, whether it fails or not.                          *)
LEMMA ControlEffect ==
  ASSUME NEW t \in Threads, ControlTransfer(t)
  PROVE  /\ pc[t] = "send" /\ flag
         /\ UNCHANGED <<device, out, in, handle, call>>
         /\ \/ /\ Accept(t, FALSE) /\ port' = Effect(port, call[t])
               /\ Finish(t, Answer(port, call[t])) \/ Finish(t, "failed")
            \/ UNCHANGED <<ghost, port>> /\ Finish(t, "failed")
BY Zenon DEF ControlTransfer

LEMMA WriteEffect ==
  ASSUME NEW t \in Threads, WritePipe(t)
  PROVE  /\ pc[t] = "send" /\ ~flag
         /\ UNCHANGED <<device, port, in, handle, call>>
         /\ \/ /\ device.bulk
               /\ out' = Append(out, [from |-> t, cmd |-> call[t]])
               /\ \/ /\ HasAnswer(call[t]) /\ Accept(t, FALSE)
                     /\ pc' = [pc EXCEPT ![t] = "receive"] /\ UNCHANGED answer
                  \/ ~HasAnswer(call[t]) /\ Accept(t, FALSE) /\ Finish(t, "done")
                  \/ Accept(t, HasAnswer(call[t])) /\ Finish(t, "failed")
            \/ UNCHANGED <<ghost, out>> /\ Finish(t, "failed")
BY Zenon DEF WritePipe

LEMMA ReadEffect ==
  ASSUME NEW t \in Threads, ReadPipe(t)
  PROVE  /\ pc[t] = "receive"
         /\ UNCHANGED <<device, port, out, handle, call>>
         /\ \/ /\ in # <<>> /\ UNCHANGED ghost
               /\ \E a \in Taken(call[t], Head(in).val) : Finish(t, a)
               /\ in' \in Remainders(call[t], Head(in).val)
            \/ /\ Finish(t, "failed") /\ UNCHANGED <<in, regs, crossed>>
               /\ due' = [due EXCEPT ![t] = "failed"] /\ stray' = TRUE
BY Zenon DEF ReadPipe

LEMMA AnswerIs ==
  ASSUME NEW r \in [Regs -> Bytes], NEW c \in Commands \cup {GetVersion}
  PROVE  /\ Answer(r, c) \in AnswerType /\ Answer(r, c) # "none"
         /\ HasAnswer(c) => Answer(r, c) \in Fitting(c) \cap (Bytes \cup {"version"})
         /\ ~HasAnswer(c) => Answer(r, c) = "done"
         /\ Effect(r, c) \in [Regs -> Bytes]
<1>1. Effect(r, c) \in [Regs -> Bytes]
  BY DEF Effect, Commands, GetVersion
<1>2. CASE c.cmd = "GET_REG"
  <2>1. c.reg \in Regs /\ Answer(r, c) = r[c.reg]
    BY <1>2 DEF Answer, Commands, GetVersion
  <2>. QED  BY <1>1, <1>2, <2>1, HostAssumption DEF AnswerType, HasAnswer, Fitting
<1>3. CASE c.cmd = "GET_VERSION"
  BY <1>1, <1>3 DEF Answer, AnswerType, HasAnswer, Fitting
<1>4. CASE c.cmd \notin {"GET_REG", "GET_VERSION"}
  BY <1>1, <1>4 DEF Answer, AnswerType, HasAnswer
<1>. QED  BY <1>2, <1>3, <1>4

(* The command of a thread in a call is a command. *)
LEMMA CallIs ==
  ASSUME CallInv, NEW t \in Threads, pc[t] # "idle"
  PROVE  call[t] \in Commands \cup {GetVersion}
BY DEF CallInv

(* Beginning a call. *)
LEMMA BeginCalls ==
  ASSUME CallInv, NEW t \in Threads, NEW c \in Commands \cup {GetVersion},
         pc[t] = "idle", Begin(t, c),
         state' \in {"version", "open"}, UNCHANGED stray,
         state' = "open" => c # GetVersion /\ \A u \in Threads : call[u] # GetVersion,
         state' = "version" => t = Opener /\ c = GetVersion
                                 /\ \A u \in Threads : pc[u] = "idle"
  PROVE  CallInv'
<1>1. c # NoCall
  BY DEF Commands, GetVersion, NoCall
<1>. QED  BY <1>1 DEF CallInv, Begin, AnswerType

LEMMA CallStep ==
  ASSUME HostInv, [Next]_vars
  PROVE  CallInv'
<1>. USE DEF HostInv
<1>1. ASSUME Acquire
      PROVE  CallInv'
  <2>1. CASE UNCHANGED <<pc, call, answer, due, crossed, stray>> /\ state' \in {"closed", "opening"}
    BY <1>1, <2>1 DEF Acquire, CallInv
  <2>2. CASE Begin(Opener, GetVersion) /\ state' = "version" /\ UNCHANGED stray
    BY <1>1, <2>2, BeginCalls, HostAssumption DEF Acquire, CallInv
  <2>. QED  BY <1>1, <2>1, <2>2, Zenon DEF Acquire, Discard
<1>2. ASSUME Opened
      PROVE  CallInv'
  <2>1. state' \in {"closed", "open"}
    BY <1>2 DEF Opened, Discard
  <2>2. \A t \in Threads : call'[t] = NoCall /\ pc'[t] = "idle"
    BY <1>2, HostAssumption DEF Opened, CallInv
  <2>3. NoCall # GetVersion
    BY DEF NoCall, GetVersion
  <2>. QED  BY <1>2, <2>1, <2>2, <2>3 DEF Opened, CallInv, ghost
<1>3. ASSUME Close
      PROVE  CallInv'
  BY <1>3 DEF Close, Discard, CallInv, ghost
<1>4. ASSUME NEW t \in Threads, Start(t)
      PROVE  CallInv'
  <2>1. PICK c \in Commands : Begin(t, c)
    BY <1>4 DEF Start
  <2>2. c # GetVersion
    BY DEF Commands, GetVersion
  <2>3. state = "open" /\ pc[t] = "idle" /\ UNCHANGED <<state, stray>>
    BY <1>4 DEF Start, handle
  <2>. QED  BY <2>1, <2>2, <2>3, BeginCalls DEF CallInv
<1>5. ASSUME NEW t \in Threads, NEW lost \in BOOLEAN, Accept(t, lost), pc[t] = "send",
             UNCHANGED <<call, state>>,
             \/ Finish(t, due'[t]) \/ Finish(t, "failed")
             \/ /\ HasAnswer(call[t]) /\ ~lost
                /\ pc' = [pc EXCEPT ![t] = "receive"] /\ UNCHANGED answer
      PROVE  CallInv'
  <2>1. /\ due' = [due EXCEPT ![t] = IF lost THEN "failed" ELSE Answer(regs, call[t])]
        /\ crossed \subseteq crossed' /\ crossed' \subseteq Threads /\ stray' \in BOOLEAN
    BY <1>5 DEF Accept, CallInv
  <2>2. /\ due'[t] \in AnswerType /\ due'[t] # "none"
        /\ HasAnswer(call[t]) /\ ~lost => due'[t] \in Fitting(call[t])
    <3>1. due'[t] = IF lost THEN "failed" ELSE Answer(regs, call[t])
      BY <2>1 DEF CallInv
    <3>2. call[t] \in Commands \cup {GetVersion}
      BY <1>5, CallIs
    <3>3. /\ Answer(regs, call[t]) \in AnswerType /\ Answer(regs, call[t]) # "none"
          /\ HasAnswer(call[t]) => Answer(regs, call[t]) \in Fitting(call[t])
      BY <3>2, AnswerIs DEF FlowInv
    <3>. QED  BY <3>1, <3>3 DEF AnswerType
  <2>. QED  BY <1>5, <2>1, <2>2 DEF CallInv, Finish, AnswerType
<1>6. ASSUME NEW t \in Threads, pc[t] \in {"send", "receive"},
             UNCHANGED <<call, state, due, crossed, stray>>,
             NEW a \in AnswerType, Finish(t, a),
             \/ a = "failed" \/ (a = due[t] /\ a # "none")
             \/ t \in crossed /\ a \in Bytes \cup {"version"}
      PROVE  CallInv'
  BY <1>6 DEF CallInv, Finish
<1>7. ASSUME NEW t \in Threads, ControlTransfer(t)
      PROVE  CallInv'
  <2>1. CASE UNCHANGED <<ghost, port>> /\ Finish(t, "failed")
    BY <1>7, <2>1, <1>6, ControlEffect DEF AnswerType, ghost, handle
  <2>2. CASE Accept(t, FALSE) /\ (Finish(t, Answer(port, call[t])) \/ Finish(t, "failed"))
    <3>1. Answer(port, call[t]) = due'[t]
      <4>1. due'[t] = Answer(regs, call[t])
        BY <2>2 DEF Accept, CallInv
      <4>2. CASE out = <<>>
        <5>1. port = regs
          BY <4>2 DEF FlowInv, Executed
        <5>. QED  BY <4>1, <5>1
      <4>3. CASE out # <<>>
        <5>1. call[t] = GetVersion
          BY <1>7, <4>3, ControlEffect DEF OpenInv, CallInv, FlowInv
        <5>. QED  BY <4>1, <5>1 DEF Answer, GetVersion
      <4>. QED  BY <4>2, <4>3
    <3>. QED  BY <1>5, <1>7, <2>2, <3>1, ControlEffect DEF handle
  <2>. QED  BY <1>7, <2>1, <2>2, ControlEffect
<1>8. ASSUME NEW t \in Threads, WritePipe(t)
      PROVE  CallInv'
  <2>0. HasAnswer(call[t]) \in BOOLEAN
    BY DEF HasAnswer
  <2>1. CASE UNCHANGED <<ghost, out>> /\ Finish(t, "failed")
    BY <1>8, <2>1, <1>6, WriteEffect DEF AnswerType, ghost, handle
  <2>2. CASE /\ Accept(t, FALSE) /\ HasAnswer(call[t])
             /\ pc' = [pc EXCEPT ![t] = "receive"] /\ UNCHANGED answer
    BY <1>5, <1>8, <2>2, WriteEffect DEF handle
  <2>3. CASE Accept(t, FALSE) /\ ~HasAnswer(call[t]) /\ Finish(t, "done")
    <3>1. due'[t] = "done"
      BY <1>8, <2>3, WriteEffect, CallIs, AnswerIs DEF Accept, CallInv, FlowInv
    <3>. QED  BY <1>5, <1>8, <2>3, <3>1, WriteEffect DEF handle
  <2>4. CASE Accept(t, HasAnswer(call[t])) /\ Finish(t, "failed")
    BY <1>5, <1>8, <2>0, <2>4, WriteEffect DEF handle
  <2>. QED  BY <1>8, <2>1, <2>2, <2>3, <2>4, WriteEffect
<1>9. ASSUME NEW t \in Threads, ReadPipe(t)
      PROVE  CallInv'
  <2>1. pc[t] = "receive" /\ UNCHANGED <<call, state>>
    BY <1>9, ReadEffect DEF handle
  <2>2. CASE /\ Finish(t, "failed") /\ UNCHANGED <<in, regs, crossed>>
             /\ due' = [due EXCEPT ![t] = "failed"] /\ stray' = TRUE
    BY <2>1, <2>2 DEF CallInv, Finish, AnswerType
  <2>3. CASE /\ in # <<>> /\ UNCHANGED ghost
             /\ \E a \in Taken(call[t], Head(in).val) : Finish(t, a)
    <3>1. PICK a \in Taken(call[t], in[1].val) : Finish(t, a)
      BY <2>3, TailIs DEF FlowInv, Answers
    <3>3. call[t].cmd \in {"GET_VERSION", "GET_REG"}
      BY <2>1 DEF CallInv, HasAnswer
    <3>4. a = "failed" \/ a \in Bytes \cup {"version"}
      BY <3>1, <3>3 DEF Taken
    <3>5. a = "failed" \/ t \in crossed \/ (a = due[t] /\ a # "none")
      <4>1. CASE stray
        BY <2>1, <4>1 DEF FlowInv
      <4>2. CASE ~stray
        <5>1. PICK w \in [1..Len(in) -> Threads], v \in [1..Len(out) -> Threads],
                    f \in [1..(Len(out) + 1) -> [Regs -> Bytes]] : Matched(w, v, f)
          BY <4>2 DEF QueueInv
        <5>2. 1 \in 1..Len(in)
          BY <2>3 DEF FlowInv
        <5>3. /\ pc[w[1]] = "receive" /\ w[1] \in Threads
              /\ w[1] \in crossed \/ in[1].val = due[w[1]]
          BY <5>1, <5>2 DEF Matched
        <5>4. t \in crossed \/ w[1] = t
          BY <2>1, <4>2, <5>3 DEF QueueInv
        <5>5. due[t] \in Fitting(call[t]) /\ "version" \notin Bytes /\ "none" \notin Bytes
          BY <2>1, HostAssumption DEF CallInv
        <5>6. CASE in[1].val = due[t]
          BY <3>1, <3>3, <5>5, <5>6 DEF Taken, Fitting
        <5>. QED  BY <5>3, <5>4, <5>6
      <4>. QED  BY <4>1, <4>2
    <3>6. UNCHANGED <<due, crossed, stray>> /\ a \in AnswerType
      BY <2>3, <3>4 DEF ghost, AnswerType
    <3>. QED  BY <1>6, <2>1, <3>1, <3>4, <3>5, <3>6
  <2>. QED  BY <1>9, <2>2, <2>3, ReadEffect
<1>10. ASSUME NEW t \in Threads, Return(t)
       PROVE  CallInv'
  BY <1>10 DEF Return, CallInv, handle, ghost, NoCall, GetVersion
<1>11. CASE UNCHANGED <<state, pc, call, answer, due, crossed, stray>>
  BY <1>11 DEF CallInv
<1>12. ASSUME DeviceExecutes
       PROVE  CallInv'
  BY <1>11, <1>12 DEF DeviceExecutes, handle, ghost
<1>13. CASE UNCHANGED vars
  BY <1>11, <1>13 DEF vars, handle, ghost
<1>. QED
  BY <1>1, <1>2, <1>3, <1>4, <1>7, <1>8, <1>9, <1>10, <1>12, <1>13 DEF Next, Work

-----------------------------------------------------------------------------
(* The register file behind the commands on their way. *)


(* Nothing is on its way or done; answers may be read or discarded.        *)
LEMMA FlowFrame ==
  ASSUME FlowInv, UNCHANGED <<device, port, regs, out>>, in' \in Answers,
         \A t \in Threads : pc'[t] = "receive" => pc[t] = "receive" /\ (stray' => t \in crossed')
  PROVE  FlowInv'
<1>1. PICK f \in [1..(Len(out) + 1) -> [Regs -> Bytes]] : Executed(f)
  BY DEF FlowInv
<1>2. Executed(f)'
  BY <1>1 DEF Executed, Effect
<1>. QED  BY <1>2 DEF FlowInv, Answers

LEMMA UnbufferedIs ==
  ASSUME FlowInv
  PROVE  Unbuffered \in Answers
BY TailIs DEF Unbuffered, FlowInv, Answers

LEMMA RemaindersAre ==
  ASSUME FlowInv, in # <<>>, NEW c, NEW val, NEW rest \in Remainders(c, val)
  PROVE  rest \in Answers
<1>1. in \in Answers
  BY DEF FlowInv, Answers
<1>2. Tail(in) \in Answers
  BY <1>1, TailIs DEF Answers
<1>3. [in EXCEPT ![1].val = "rest"] \in Answers
  <2>1. 1 \in 1..Len(in) /\ in[1] \in Entry
    BY <1>1, TailIs DEF Answers
  <2>2. [in[1] EXCEPT !.val = "rest"] \in Entry
    BY <2>1 DEF Entry
  <2>3. [in EXCEPT ![1] = [in[1] EXCEPT !.val = "rest"]] \in Answers
    BY <1>1, <2>1, <2>2 DEF Answers
  <2>. QED  BY <2>3
<1>. QED  BY <1>2, <1>3 DEF Remainders

(* A command joins the others.                                             *)
LEMMA FlowAppend ==
  ASSUME FlowInv, NEW t \in Threads, NEW c \in Commands \cup {GetVersion}, device.bulk,
         out' = Append(out, [from |-> t, cmd |-> c]), regs' = Effect(regs, c),
         UNCHANGED <<device, port, in>>,
         \A u \in Threads : pc'[u] = "receive" => (stray' => u \in crossed')
  PROVE  FlowInv'
<1>1. PICK f \in [1..(Len(out) + 1) -> [Regs -> Bytes]] : Executed(f)
  BY DEF FlowInv
<1>n. PICK n \in Nat : n = Len(out)
  BY DEF FlowInv
<1>2. /\ Len(out') = n + 1 /\ out'[n + 1] = [from |-> t, cmd |-> c]
      /\ \A j \in 1..n : out'[j] = out[j]
      /\ out' \in Seq([from : Threads, cmd : CallType])
  <2>1. [from |-> t, cmd |-> c] \in [from : Threads, cmd : CallType]
    BY DEF CallType
  <2>. QED  BY <1>n, <2>1, AppendIs DEF FlowInv
<1>3. regs' \in [Regs -> Bytes]
  BY AnswerIs DEF FlowInv
<1>f. PICK f2 \in [1..(n + 2) -> [Regs -> Bytes]] :
        f2 = [j \in 1..(n + 2) |-> IF j = n + 2 THEN regs' ELSE f[j]]
  <2>1. [j \in 1..(n + 2) |-> IF j = n + 2 THEN regs' ELSE f[j]]
          \in [1..(n + 2) -> [Regs -> Bytes]]
    BY <1>n, <1>3
  <2>. QED  BY <2>1
<1>4. f2[1] = port' /\ f2[n + 2] = regs' /\ f2[n + 1] = regs
  BY <1>1, <1>n, <1>f DEF Executed
<1>5. \A j \in 1..(n + 1) : f2[j + 1] = Effect(f2[j], out'[j].cmd)
  <2>1. ASSUME NEW j \in 1..n
        PROVE  f2[j + 1] = Effect(f2[j], out'[j].cmd)
    BY <1>1, <1>2, <1>n, <1>f DEF Executed
  <2>2. f2[(n + 1) + 1] = Effect(f2[n + 1], out'[n + 1].cmd)
    <3>1. (n + 1) + 1 = n + 2 /\ out'[n + 1].cmd = c
      BY <1>2
    <3>. QED  BY <1>4, <3>1
  <2>3. \A j \in 1..(n + 1) : j \in 1..n \/ j = n + 1
    OBVIOUS
  <2>. QED  BY <2>1, <2>2, <2>3
<1>6. Executed(f2)' /\ f2 \in [1..((n + 1) + 1) -> [Regs -> Bytes]]
  <2>1. Len(out)' = n + 1 /\ Len(out)' + 1 = n + 2 /\ (n + 1) + 1 = n + 2
    BY <1>2
  <2>. QED  BY <1>4, <1>5, <1>f, <2>1, Zenon DEF Executed, Effect
<1>. QED  BY <1>2, <1>3, <1>6 DEF FlowInv

(* The device executes the first one.                                      *)
LEMMA FlowExecute ==
  ASSUME FlowInv, DeviceExecutes
  PROVE  FlowInv'
<1>1. PICK f \in [1..(Len(out) + 1) -> [Regs -> Bytes]] : Executed(f)
  BY DEF FlowInv
<1>n. PICK n \in Nat \ {0} : n = Len(out)
  BY TailIs DEF DeviceExecutes, FlowInv
<1>c. PICK c : c = out[1].cmd
  OBVIOUS
<1>2. /\ Head(out) = out[1] /\ out[1] \in [from : Threads, cmd : CallType]
      /\ out' \in Seq([from : Threads, cmd : CallType]) /\ Len(out') = n - 1
      /\ \A j \in 1..(n - 1) : out'[j] = out[j + 1]
  BY <1>n, TailIs DEF DeviceExecutes, FlowInv
<1>3. /\ port' = Effect(port, c) /\ port' = f[2] /\ port' \in [Regs -> Bytes]
      /\ UNCHANGED <<device, regs, pc, due, crossed, stray>>
  <2>1. port' = Effect(port, c) /\ UNCHANGED <<device, regs, pc, due, crossed, stray>>
    BY <1>c, <1>2 DEF DeviceExecutes, ghost
  <2>2. f[1 + 1] = Effect(f[1], c) /\ f[1] = port
    BY <1>1, <1>n, <1>c DEF Executed
  <2>. QED  BY <1>n, <2>1, <2>2
<1>f. PICK f2 \in [1..n -> [Regs -> Bytes]] : \A j \in 1..n : f2[j] = f[j + 1]
  <2>1. [j \in 1..n |-> f[j + 1]] \in [1..n -> [Regs -> Bytes]]
    BY <1>n
  <2>. QED  BY <2>1
<1>5. /\ f2[1] = port' /\ f2[n] = regs'
      /\ \A j \in 1..(n - 1) : f2[j + 1] = Effect(f2[j], out'[j].cmd)
  <2>1. /\ f[Len(out) + 1] = regs
        /\ \A j \in 1..Len(out) : f[j + 1] = Effect(f[j], out[j].cmd)
    BY <1>1 DEF Executed
  <2>2. f2[1] = port' /\ f2[n] = regs'
    BY <1>3, <1>n, <1>f, <2>1
  <2>3. ASSUME NEW j \in 1..(n - 1)
        PROVE  f2[j + 1] = Effect(f2[j], out'[j].cmd)
    <3>1. /\ j \in 1..n /\ j + 1 \in 1..n /\ j + 1 \in 1..Len(out)
          /\ out'[j] = out[j + 1] /\ f2[j] = f[j + 1] /\ f2[j + 1] = f[(j + 1) + 1]
      BY <1>2, <1>n, <1>f
    <3>2. f[(j + 1) + 1] = Effect(f[j + 1], out[j + 1].cmd)
      BY <2>1, <3>1
    <3>. QED  BY <3>1, <3>2
  <2>. QED  BY <2>2, <2>3
<1>6. /\ n - 1 \in Nat /\ Len(out)' = n - 1 /\ f2[(n - 1) + 1] = regs'
      /\ f2 \in [1..((n - 1) + 1) -> [Regs -> Bytes]]
  BY <1>n, <1>2, <1>5
<1>7. Executed(f2)'
  BY <1>5, <1>6 DEF Executed, Effect
<1>8. in' \in Answers
  <2>1. CASE HasAnswer(c)
    <3>1. c \in Commands \cup {GetVersion}
      BY <1>2, <1>c, <2>1 DEF CallType, HasAnswer, NoCall
    <3>2. Answer(port, c) \in Bytes \cup {"version"}
      BY <2>1, <3>1, AnswerIs DEF FlowInv
    <3>3. in' = Append(in, [to |-> out[1].from, val |-> Answer(port, c)])
      BY <1>2, <1>c, <2>1 DEF DeviceExecutes
    <3>4. [to |-> out[1].from, val |-> Answer(port, c)]
            \in Entry
      BY <1>2, <3>2 DEF Entry, AnswerType
    <3>. QED  BY <3>3, <3>4, AppendIs DEF FlowInv, Answers
  <2>2. CASE ~HasAnswer(c)
    BY <1>2, <1>c, <2>2 DEF DeviceExecutes, FlowInv, Answers
  <2>. QED  BY <2>1, <2>2
<1>9. device.bulk'
  BY <1>3 DEF DeviceExecutes, FlowInv
<1>. QED  BY <1>2, <1>3, <1>6, <1>7, <1>8, <1>9 DEF FlowInv, Answers

(* A control transfer finds no command on its way, or is the version       *)
(* request of an adapter that was used over the pipes before.              *)
LEMMA FlowControl ==
  ASSUME OpenInv, CallInv, FlowInv, NEW t \in Threads, ControlTransfer(t)
  PROVE  FlowInv'
<1>1. \A u \in Threads : pc'[u] = "receive" => pc[u] = "receive"
  BY ControlEffect DEF Finish, CallInv
<1>2. UNCHANGED <<device, in, out>> /\ in \in Answers
  BY ControlEffect DEF FlowInv, Answers
<1>3. CASE UNCHANGED <<ghost, port>>
  BY <1>1, <1>2, <1>3, FlowFrame DEF ghost, FlowInv
<1>4. CASE Accept(t, FALSE) /\ port' = Effect(port, call[t])
  <2>1. stray' = stray /\ regs' = Effect(regs, call[t]) /\ crossed \subseteq crossed'
    BY <1>4 DEF Accept, CallInv
  <2>2. CASE out = <<>>
    <3>1. port = regs
      BY <2>2 DEF FlowInv, Executed
    <3>2. call[t] \in Commands \cup {GetVersion}
      BY ControlEffect, CallIs
    <3>3. port' = regs' /\ port' \in [Regs -> Bytes]
      BY <1>4, <2>1, <3>1, <3>2, AnswerIs DEF FlowInv
    <3>4. PICK f \in [1..(Len(out) + 1) -> [Regs -> Bytes]] : f[1] = port'
      <4>1. [j \in 1..(Len(out) + 1) |-> port'] \in [1..(Len(out) + 1) -> [Regs -> Bytes]]
        BY <3>3
      <4>2. 1 \in 1..(Len(out) + 1)
        BY <2>2
      <4>. QED  BY <4>1, <4>2
    <3>5. Len(out)' = 0 /\ Len(out) = 0
      BY <1>2, <2>2
    <3>6. Executed(f)'
      BY <3>3, <3>4, <3>5 DEF Executed
    <3>. QED  BY <1>1, <1>2, <2>1, <2>2, <3>3, <3>4, <3>5, <3>6 DEF FlowInv
  <2>3. CASE out # <<>>
    <3>1. call[t] = GetVersion
      BY <2>3, ControlEffect DEF OpenInv, CallInv, FlowInv
    <3>2. UNCHANGED <<port, regs>>
      BY <1>4, <2>1, <3>1 DEF Effect, GetVersion
    <3>. QED  BY <1>1, <1>2, <2>1, <3>2, FlowFrame DEF FlowInv
  <2>. QED  BY <2>2, <2>3
<1>. QED  BY <1>3, <1>4, ControlEffect

LEMMA FlowWrite ==
  ASSUME CallInv, FlowInv, NEW t \in Threads, WritePipe(t)
  PROVE  FlowInv'
<1>1. call[t] \in Commands \cup {GetVersion}
  BY WriteEffect, CallIs
<1>2. \A u \in Threads : u # t => pc'[u] = pc[u]
  BY WriteEffect DEF Finish, CallInv
<1>3. CASE UNCHANGED <<ghost, out>> /\ Finish(t, "failed")
  <2>1. \A u \in Threads : pc'[u] = "receive" => pc[u] = "receive"
    BY <1>2, <1>3 DEF Finish, CallInv
  <2>2. UNCHANGED <<device, port, in>> /\ in \in Answers
    BY WriteEffect DEF FlowInv, Answers
  <2>. QED  BY <1>3, <2>1, <2>2, FlowFrame DEF ghost, FlowInv
<1>4. ASSUME NEW lost \in BOOLEAN, Accept(t, lost), lost => HasAnswer(call[t]),
             device.bulk, out' = Append(out, [from |-> t, cmd |-> call[t]]),
             pc'[t] = "receive" => HasAnswer(call[t]) /\ ~lost
      PROVE  FlowInv'
  <2>1. ~flag /\ UNCHANGED <<device, port, in>>
    BY WriteEffect
  <2>2. regs' = Effect(regs, call[t]) /\ crossed \subseteq crossed' /\ stray' = (stray \/ lost)
    BY <1>4 DEF Accept
  <2>3. ASSUME NEW u \in Threads, pc'[u] = "receive", stray'
        PROVE  u \in crossed'
    <3>1. CASE u = t
      BY <1>4, <2>1, <2>2, <2>3, <3>1 DEF Accept
    <3>2. CASE u # t /\ stray
      BY <1>2, <2>2, <2>3, <3>2 DEF FlowInv
    <3>3. CASE u # t /\ ~stray
      <4>1. HasAnswer(call[t]) /\ pc[u] = "receive"
        BY <1>2, <1>4, <2>2, <2>3, <3>3
      <4>. QED  BY <1>4, <2>1, <4>1 DEF Accept
    <3>. QED  BY <3>1, <3>2, <3>3
  <2>. QED  BY <1>1, <1>4, <2>1, <2>2, <2>3, FlowAppend
<1>5. HasAnswer(call[t]) \in BOOLEAN
  BY DEF HasAnswer
<1>6. CASE Finish(t, "done") \/ Finish(t, "failed")
  <2>1. pc'[t] # "receive"
    BY <1>6 DEF Finish, CallInv
  <2>. QED  BY <1>3, <1>4, <1>5, <2>1, WriteEffect
<1>. QED  BY <1>3, <1>4, <1>6, WriteEffect

(* A read that fails leaves its answer to the others that wait, and these  *)
(* are crossed already.                                                    *)
LEMMA FlowRead ==
  ASSUME HostInv, NEW t \in Threads, ReadPipe(t)
  PROVE  FlowInv'
<1>1. /\ pc[t] = "receive" /\ UNCHANGED <<device, port, out>>
      /\ \A u \in Threads : pc'[u] = "receive" => pc[u] = "receive" /\ u # t
  BY ReadEffect DEF Finish, HostInv, CallInv
<1>2. CASE in # <<>> /\ UNCHANGED ghost /\ in' \in Remainders(call[t], Head(in).val)
  BY <1>1, <1>2, RemaindersAre, FlowFrame DEF HostInv, FlowInv, ghost
<1>3. CASE UNCHANGED <<in, regs, crossed>>
  <2>1. \A u \in Threads : pc'[u] = "receive" => u \in crossed'
    BY <1>1, <1>3 DEF HostInv, FlowInv, QueueInv
  <2>2. in' \in Answers
    BY <1>3 DEF HostInv, FlowInv, Answers
  <2>. QED  BY <1>1, <1>3, <2>1, <2>2, FlowFrame DEF HostInv
<1>. QED  BY <1>2, <1>3, ReadEffect

LEMMA FlowStep ==
  ASSUME HostInv, [Next]_vars
  PROVE  FlowInv'
<1>. USE DEF HostInv
<1>0. in \in Answers /\ Unbuffered \in Answers
  BY UnbufferedIs DEF FlowInv, Answers
<1>1. ASSUME UNCHANGED <<device, port, out, regs, stray>>, in' \in Answers,
             \A t \in Threads : pc'[t] = "receive" =>
               pc[t] = "receive" /\ (t \in crossed => t \in crossed')
      PROVE  FlowInv'
  BY <1>1, FlowFrame DEF FlowInv
<1>2. CASE Acquire
  <2>1. in' \in Answers
    BY <1>0, <1>2, Zenon DEF Acquire, Discard
  <2>2. UNCHANGED <<pc, crossed>> \/ Begin(Opener, GetVersion)
    BY <1>2, Zenon DEF Acquire
  <2>3. \A t \in Threads : pc'[t] = "receive" =>
          pc[t] = "receive" /\ (t \in crossed => t \in crossed')
    BY <2>2 DEF Begin, CallInv
  <2>. QED  BY <1>1, <1>2, <2>1, <2>3 DEF Acquire
<1>3. CASE Opened
  BY <1>0, <1>1, <1>3 DEF Opened, Discard, CallInv, ghost
<1>4. CASE Close
  BY <1>0, <1>1, <1>4 DEF Close, Discard, ghost
<1>5. ASSUME NEW t \in Threads, Start(t)
      PROVE  FlowInv'
  BY <1>0, <1>1, <1>5 DEF Start, Begin, CallInv, link
<1>6. ASSUME NEW t \in Threads, Return(t)
      PROVE  FlowInv'
  BY <1>0, <1>1, <1>6 DEF Return, CallInv, link, ghost
<1>7. CASE UNCHANGED vars
  BY <1>0, <1>1, <1>7 DEF vars, link, ghost
<1>. QED
  BY <1>2, <1>3, <1>4, <1>5, <1>6, <1>7, FlowControl, FlowWrite, FlowRead, FlowExecute
     DEF Next, Work

-----------------------------------------------------------------------------
(* The version is only asked for when nobody uses the handle.              *)

LEMMA NobodyWaits ==
  ASSUME QueueInv, FlowInv, \A t \in Threads : pc[t] # "receive"
  PROVE  in = <<>> /\ \A j \in 1..Len(out) : ~HasAnswer(out[j].cmd)
<1>1. PICK w \in [1..Len(in) -> Threads], v \in [1..Len(out) -> Threads],
            f \in [1..(Len(out) + 1) -> [Regs -> Bytes]] : Matched(w, v, f)
  BY DEF QueueInv
<1>2. \A i \in 1..Len(in) : FALSE
  BY <1>1 DEF Matched
<1>3. in = <<>>
  BY <1>2 DEF FlowInv
<1>4. \A j \in 1..Len(out) : ~HasAnswer(out[j].cmd)
  BY <1>1 DEF Matched
<1>. QED  BY <1>3, <1>4

(* What a thread finds in the pipe is the whole of an answer.              *)
LEMMA RemainderIs ==
  ASSUME HostInv, ~stray, NEW t \in Threads, pc[t] = "receive", in # <<>>,
         NEW rest \in Remainders(call[t], Head(in).val)
  PROVE  rest = Tail(in)
<1>1. state = "version" => call[t].cmd = "GET_VERSION"
  BY DEF HostInv, CallInv, GetVersion
<1>2. state = "open" => Head(in).val \in Bytes
  BY TailIs DEF HostInv, FlowInv, KindInv
<1>3. state \in {"version", "open"}
  BY DEF HostInv, OpenInv, CallInv
<1>. QED  BY <1>1, <1>2, <1>3 DEF Remainders

LEMMA UnbufferedAll ==
  ASSUME HostInv, ~stray
  PROVE  Unbuffered = in
<1>1. PICK w \in [1..Len(in) -> Threads], v \in [1..Len(out) -> Threads],
            f \in [1..(Len(out) + 1) -> [Regs -> Bytes]] : Matched(w, v, f)
  BY DEF HostInv, QueueInv
<1>2. in # <<>> => Head(in).val \in Bytes \cup {"version"}
  BY <1>1, TailIs DEF HostInv, FlowInv, Matched
<1>. QED  BY <1>2, HostAssumption DEF Unbuffered

LEMMA KindStep ==
  ASSUME HostInv, [Next]_vars, ~stray'
  PROVE  KindInv'
<1>. USE DEF HostInv
<1>0. ~stray
  BY DEF Next, Work, vars, ghost, Acquire, Opened, Close, Start, Accept, ControlTransfer,
     WritePipe, ReadPipe, DeviceExecutes, Return
<1>1. CASE state' # "open"
  BY <1>1 DEF KindInv
<1>2. CASE state' = "open" /\ state # "open"
  <2>1. Opened /\ state = "version"
    BY <1>2 DEF Next, Work, vars, handle, Acquire, Discard, Opened, Close, Start,
       ControlTransfer, WritePipe, ReadPipe, DeviceExecutes, Return
  <2>2. \A t \in Threads : pc[t] # "receive"
    BY <2>1 DEF Opened, CallInv
  <2>3. in = <<>> /\ \A j \in 1..Len(out) : ~HasAnswer(out[j].cmd)
    BY <1>0, <2>2, NobodyWaits
  <2>4. UNCHANGED out /\ in' = <<>>
    BY <1>2, <2>1, <2>3 DEF Opened, Discard
  <2>. QED  BY <2>3, <2>4 DEF KindInv, HasAnswer
<1>3. CASE state' = "open" /\ state = "open"
  <2>0. /\ \A i \in 1..Len(in) : in[i].val \in Bytes
        /\ \A j \in 1..Len(out) : out[j].cmd.cmd # "GET_VERSION"
    BY <1>0, <1>3 DEF KindInv
  <2>1. CASE UNCHANGED <<in, out>>
    BY <2>0, <2>1 DEF KindInv
  <2>2. ASSUME NEW t \in Threads, WritePipe(t)
        PROVE  KindInv'
    <3>1. /\ call[t] \in Commands \cup {GetVersion}
          /\ call[t] # GetVersion /\ call[t].cmd # "GET_VERSION"
      BY <1>3, <2>2, WriteEffect, CallIs DEF CallInv, Commands
    <3>2. call[t] \in CallType /\ [from |-> t, cmd |-> call[t]] \in [from : Threads, cmd : CallType]
      BY <3>1 DEF CallType
    <3>3. UNCHANGED out \/ out' = Append(out, [from |-> t, cmd |-> call[t]])
      BY <2>2, WriteEffect
    <3>4. CASE out' = Append(out, [from |-> t, cmd |-> call[t]])
      <4>1. /\ Len(out) \in Nat /\ Len(out') = Len(out) + 1
            /\ out'[Len(out) + 1].cmd = call[t] /\ \A j \in 1..Len(out) : out'[j] = out[j]
        BY <3>2, <3>4, AppendIs DEF FlowInv
      <4>2. \A j \in 1..Len(out') : out'[j].cmd.cmd # "GET_VERSION"
        BY <2>0, <3>1, <4>1
      <4>. QED  BY <2>0, <2>2, <4>2, WriteEffect DEF KindInv
    <3>5. CASE UNCHANGED out
      BY <2>1, <2>2, <3>5, WriteEffect
    <3>. QED  BY <3>3, <3>4, <3>5
  <2>3. ASSUME NEW t \in Threads, ReadPipe(t)
        PROVE  KindInv'
    <3>1. UNCHANGED in \/ (in # <<>> /\ in' = Tail(in))
      BY <1>0, <2>3, ReadEffect, RemainderIs
    <3>2. \A i \in 1..Len(in') : in'[i].val \in Bytes
      <4>1. CASE in # <<>> /\ in' = Tail(in)
        <5>1. /\ Len(in) \in Nat /\ Len(in') = Len(in) - 1
              /\ \A i \in 1..(Len(in) - 1) : in'[i] = in[i + 1]
          BY <4>1, TailIs DEF FlowInv, Answers
        <5>. QED  BY <2>0, <5>1
      <4>. QED  BY <2>0, <3>1, <4>1
    <3>. QED  BY <2>0, <2>3, <3>2, ReadEffect DEF KindInv
  <2>4. CASE DeviceExecutes
    <3>1. out # <<>> /\ out' = Tail(out) /\ Head(out) = out[1] /\ 1 \in 1..Len(out)
      BY <2>4, TailIs DEF DeviceExecutes, FlowInv
    <3>2. \A j \in 1..Len(out') : out'[j].cmd.cmd # "GET_VERSION"
      <4>1. /\ Len(out) \in Nat /\ Len(out') = Len(out) - 1
            /\ \A j \in 1..(Len(out) - 1) : out'[j] = out[j + 1]
        BY <3>1, TailIs DEF FlowInv
      <4>. QED  BY <2>0, <4>1
    <3>3. out[1].cmd \in CallType /\ out[1].cmd.cmd # "GET_VERSION" /\ out[1].from \in Threads
      <4>1. out[1] \in [from : Threads, cmd : CallType]
        BY <3>1, TailIs DEF FlowInv
      <4>. QED  BY <2>0, <3>1, <4>1
    <3>4. HasAnswer(out[1].cmd) => Answer(port, out[1].cmd) \in Bytes
      <4>1. CASE HasAnswer(out[1].cmd)
        <5>1. out[1].cmd \in Commands \cup {GetVersion}
          BY <3>3, <4>1 DEF CallType, HasAnswer, NoCall
        <5>. QED  BY <3>3, <4>1, <5>1, AnswerIs DEF FlowInv, Fitting
      <4>. QED  BY <4>1
    <3>5. \/ UNCHANGED in
          \/ /\ HasAnswer(out[1].cmd)
             /\ in' = Append(in, [to |-> out[1].from, val |-> Answer(port, out[1].cmd)])
      BY <2>4, <3>1 DEF DeviceExecutes
    <3>6. \A i \in 1..Len(in') : in'[i].val \in Bytes
      <4>1. CASE UNCHANGED in
        BY <2>0, <4>1
      <4>2. CASE /\ HasAnswer(out[1].cmd)
                 /\ in' = Append(in, [to |-> out[1].from, val |-> Answer(port, out[1].cmd)])
        <5>1. PICK a \in Bytes : a = Answer(port, out[1].cmd)
          BY <3>4, <4>2
        <5>2. [to |-> out[1].from, val |-> a]
                \in Entry
          BY <3>3 DEF Entry, AnswerType
        <5>. QED  BY <2>0, <4>2, <5>1, <5>2, AppendIs DEF FlowInv, Answers, Entry
      <4>. QED  BY <3>5, <4>1, <4>2
    <3>. QED  BY <3>2, <3>6 DEF KindInv
  <2>. QED
    BY <1>3, <2>1, <2>2, <2>3, <2>4, ControlEffect DEF Next, Work, vars, link, Acquire, Opened,
       Close, Discard, Start, Return
<1>. QED  BY <1>1, <1>2, <1>3 DEF OpenInv

-----------------------------------------------------------------------------
(* The pipes, while no answer was left.                                    *)

(* Nothing is known of a thread that is not waiting.                       *)
LEMMA QueueFrame ==
  ASSUME QueueInv, UNCHANGED <<device, port, regs, out, in>>,
         \A t \in Threads : pc'[t] = "receive" <=> pc[t] = "receive",
         \A t \in Threads : pc[t] = "receive" =>
            due'[t] = due[t] /\ (t \in crossed <=> t \in crossed')
  PROVE  QueueInv'
<1>1. PICK w \in [1..Len(in) -> Threads], v \in [1..Len(out) -> Threads],
            f \in [1..(Len(out) + 1) -> [Regs -> Bytes]] : Matched(w, v, f)
  BY DEF QueueInv
<1>2. Matched(w, v, f)'
  <2>1. \A i \in 1..Len(in) : w[i] \in Threads
    OBVIOUS
  <2>2. \A j \in 1..Len(out) : v[j] \in Threads
    OBVIOUS
  <2>3. \A r, c : Answer(r, c)' = Answer(r, c) /\ Effect(r, c)' = Effect(r, c)
    BY DEF Answer, Effect
  <2>4. \A i \in 1..Len(in) :
          /\ pc'[w[i]] = "receive" /\ in[i].val \in Bytes \cup {"version"}
          /\ w[i] \in crossed' \/ in[i].val = due'[w[i]]
    BY <1>1, <2>1 DEF Matched
  <2>5. \A j \in 1..Len(out) : HasAnswer(out[j].cmd) =>
          /\ pc'[v[j]] = "receive"
          /\ v[j] \in crossed' \/ Answer(f[j], out[j].cmd) = due'[v[j]]
    BY <1>1, <2>2 DEF Matched
  <2>6. Executed(f)'
    BY <1>1 DEF Matched, Executed, Effect
  <2>. QED  BY <1>1, <2>4, <2>5, <2>6 DEF Matched
<1>. QED  BY <1>2 DEF QueueInv

(* A command joins the others; when it will have an answer, its thread     *)
(* waits from now on.                                                      *)
LEMMA QueueWrite ==
  ASSUME CallInv, FlowInv, QueueInv, ~stray, NEW t \in Threads, pc[t] = "send", ~flag,
         Accept(t, FALSE), out' = Append(out, [from |-> t, cmd |-> call[t]]),
         UNCHANGED <<device, port, in>>,
         pc' = [pc EXCEPT ![t] = IF HasAnswer(call[t]) THEN "receive" ELSE "done"]
  PROVE  QueueInv'
<1>1. PICK w \in [1..Len(in) -> Threads], v \in [1..Len(out) -> Threads],
            f \in [1..(Len(out) + 1) -> [Regs -> Bytes]] : Matched(w, v, f)
  BY DEF QueueInv
<1>n. PICK n \in Nat : n = Len(out)
  BY DEF FlowInv
<1>2. /\ Len(out') = n + 1 /\ out'[n + 1] = [from |-> t, cmd |-> call[t]]
      /\ \A j \in 1..n : out'[j] = out[j]
      /\ out' \in Seq([from : Threads, cmd : CallType])
  <2>1. call[t] \in CallType
    BY DEF CallInv, CallType
  <2>2. [from |-> t, cmd |-> call[t]] \in [from : Threads, cmd : CallType]
    BY <2>1
  <2>. QED  BY <1>n, <2>2, AppendIs DEF FlowInv
<1>3. call[t] \in Commands \cup {GetVersion}
  BY CallIs
<1>4. regs' = Effect(regs, call[t]) /\ regs' \in [Regs -> Bytes]
        /\ due' = [due EXCEPT ![t] = Answer(regs, call[t])]
  BY <1>3, AnswerIs DEF Accept, FlowInv
<1>v. PICK v2 \in [1..(n + 1) -> Threads] :
        v2 = [j \in 1..(n + 1) |-> IF j = n + 1 THEN t ELSE v[j]]
  <2>1. [j \in 1..(n + 1) |-> IF j = n + 1 THEN t ELSE v[j]] \in [1..(n + 1) -> Threads]
    BY <1>n
  <2>. QED  BY <2>1
<1>f. PICK f2 \in [1..(n + 2) -> [Regs -> Bytes]] :
        f2 = [j \in 1..(n + 2) |-> IF j = n + 2 THEN regs' ELSE f[j]]
  <2>1. [j \in 1..(n + 2) |-> IF j = n + 2 THEN regs' ELSE f[j]]
          \in [1..(n + 2) -> [Regs -> Bytes]]
    BY <1>n, <1>4
  <2>. QED  BY <2>1
<1>5. /\ v2[n + 1] = t /\ \A j \in 1..n : v2[j] = v[j]
      /\ f2[n + 2] = regs' /\ \A j \in 1..(n + 1) : f2[j] = f[j]
  BY <1>v, <1>f
<1>6. crossed \subseteq crossed' /\ \A u \in Threads : u \in crossed' /\ u \notin crossed =>
        /\ HasAnswer(call[t]) /\ \E x \in Threads : pc[x] = "receive"
        /\ u = t \/ pc[u] = "receive"
  BY DEF Accept
<1>7. \A u, x \in Threads :
        pc'[u] = "receive" /\ pc'[x] = "receive" /\ u \notin crossed' => u = x
  BY <1>6 DEF Accept, CallInv, QueueInv
<1>8. QueueInv'
  <2>1. f2[1] = port' /\ f2[n + 2] = regs' /\ f2[n + 1] = regs
    BY <1>1, <1>n, <1>5 DEF Matched, Executed
  <2>2. \A j \in 1..(n + 1) : f2[j + 1] = Effect(f2[j], out'[j].cmd)
    <3>1. ASSUME NEW j \in 1..n
          PROVE  f2[j + 1] = Effect(f2[j], out'[j].cmd)
      BY <1>1, <1>2, <1>n, <1>5 DEF Matched, Executed
    <3>2. f2[(n + 1) + 1] = Effect(f2[n + 1], out'[n + 1].cmd)
      <4>1. (n + 1) + 1 = n + 2 /\ out'[n + 1].cmd = call[t]
        BY <1>2
      <4>. QED  BY <1>4, <2>1, <4>1
    <3>3. \A j \in 1..(n + 1) : j \in 1..n \/ j = n + 1
      OBVIOUS
    <3>. QED  BY <3>1, <3>2, <3>3
  <2>3. \A u \in Threads : pc[u] = "receive" => u # t /\ pc'[u] = "receive" /\ due'[u] = due[u]
    BY <1>4 DEF CallInv
  <2>4. \A i \in 1..Len(in) :
          /\ pc'[w[i]] = "receive" /\ in[i].val \in Bytes \cup {"version"}
          /\ w[i] \in crossed' \/ in[i].val = due'[w[i]]
    BY ZenonT(60), <1>1, <1>6, <2>3 DEF Matched
  <2>5. \A j \in 1..n : HasAnswer(out[j].cmd) =>
          /\ pc'[v[j]] = "receive"
          /\ v[j] \in crossed' \/ Answer(f[j], out[j].cmd) = due'[v[j]]
    BY ZenonT(60), <1>1, <1>6, <1>n, <2>3 DEF Matched
  <2>6. HasAnswer(call[t]) => pc'[t] = "receive" /\ Answer(f[n + 1], call[t]) = due'[t]
    BY <1>1, <1>4, <1>n DEF Matched, Executed, CallInv
  <2>7. \A j \in 1..(n + 1) : HasAnswer(out'[j].cmd) =>
          /\ pc'[v2[j]] = "receive"
          /\ v2[j] \in crossed' \/ Answer(f2[j], out'[j].cmd) = due'[v2[j]]
    BY SMTT(60), <1>2, <1>5, <2>1, <2>5, <2>6
  <2>8. \A j, k \in 1..(n + 1) :
          HasAnswer(out'[j].cmd) /\ HasAnswer(out'[k].cmd) /\ v2[j] = v2[k] => j = k
    BY <1>1, <1>2, <1>n, <1>5, <2>3 DEF Matched
  <2>9. \A i \in 1..Len(in), j \in 1..(n + 1) :
          HasAnswer(out'[j].cmd) => w[i] # v2[j]
    BY <1>1, <1>2, <1>n, <1>5, <2>3 DEF Matched
  <2>10. \A i, k \in 1..Len(in) : w[i] = w[k] => i = k
    BY <1>1 DEF Matched
  <2>11. Len(in)' = Len(in) /\ in' = in
    OBVIOUS
  <2>12. f2 \in [1..((n + 1) + 1) -> [Regs -> Bytes]] /\ f2[(n + 1) + 1] = regs'
    BY <2>1
  <2>13. 1..Len(out)' = 1..(n + 1) /\ Len(out)' + 1 = (n + 1) + 1
    BY <1>2
  <2>14. Matched(w, v2, f2)'
    <3>1. Executed(f2)'
      BY <2>1, <2>2, <2>12, <2>13, Zenon DEF Executed, Effect
    <3>. QED  BY ZenonT(60), <3>1, <2>4, <2>7, <2>8, <2>9, <2>10, <2>11, <2>13 DEF Matched
  <2>. QED  BY <1>7, <2>11, <2>12, <2>13, <2>14 DEF QueueInv
<1>. QED  BY <1>8

(* The device executes the first command. *)
LEMMA QueueExecute ==
  ASSUME FlowInv, QueueInv, DeviceExecutes
  PROVE  QueueInv'
<1>1. PICK w \in [1..Len(in) -> Threads], v \in [1..Len(out) -> Threads],
            f \in [1..(Len(out) + 1) -> [Regs -> Bytes]] : Matched(w, v, f)
  BY DEF QueueInv
<1>n. PICK n \in Nat \ {0} : n = Len(out)
  BY TailIs DEF DeviceExecutes, FlowInv
<1>c. PICK c : c = out[1].cmd
  OBVIOUS
<1>2. /\ Head(out) = out[1] /\ out[1] \in [from : Threads, cmd : CallType]
      /\ out' \in Seq([from : Threads, cmd : CallType]) /\ Len(out') = n - 1
      /\ \A j \in 1..(n - 1) : out'[j] = out[j + 1]
  BY <1>n, TailIs DEF DeviceExecutes, FlowInv
<1>3. /\ port' = Effect(port, c) /\ port' = f[2] /\ port' \in [Regs -> Bytes]
      /\ UNCHANGED <<device, regs, pc, due, crossed>>
  <2>1. port' = Effect(port, c) /\ UNCHANGED <<device, regs, pc, due, crossed>>
    BY <1>c, <1>2 DEF DeviceExecutes, ghost
  <2>2. f[1 + 1] = Effect(f[1], c) /\ f[1] = port
    BY <1>1, <1>n, <1>c DEF Matched, Executed
  <2>. QED  BY <1>n, <2>1, <2>2
<1>v. PICK v2 \in [1..(n - 1) -> Threads] : \A j \in 1..(n - 1) : v2[j] = v[j + 1]
  <2>1. [j \in 1..(n - 1) |-> v[j + 1]] \in [1..(n - 1) -> Threads]
    BY <1>n
  <2>. QED  BY <2>1
<1>f. PICK f2 \in [1..n -> [Regs -> Bytes]] : \A j \in 1..n : f2[j] = f[j + 1]
  <2>1. [j \in 1..n |-> f[j + 1]] \in [1..n -> [Regs -> Bytes]]
    BY <1>n
  <2>. QED  BY <2>1
<1>5. /\ f2[1] = port' /\ f2[n] = regs'
      /\ \A j \in 1..(n - 1) : f2[j + 1] = Effect(f2[j], out'[j].cmd)
  <2>1. /\ f[Len(out) + 1] = regs
        /\ \A j \in 1..Len(out) : f[j + 1] = Effect(f[j], out[j].cmd)
    BY <1>1 DEF Matched, Executed
  <2>2. f2[1] = port' /\ f2[n] = regs'
    BY <1>3, <1>n, <1>f, <2>1
  <2>3. ASSUME NEW j \in 1..(n - 1)
        PROVE  f2[j + 1] = Effect(f2[j], out'[j].cmd)
    <3>1. /\ j \in 1..n /\ j + 1 \in 1..n /\ j + 1 \in 1..Len(out)
          /\ out'[j] = out[j + 1] /\ f2[j] = f[j + 1] /\ f2[j + 1] = f[(j + 1) + 1]
      BY <1>2, <1>n, <1>f
    <3>2. f[(j + 1) + 1] = Effect(f[j + 1], out[j + 1].cmd)
      BY <2>1, <3>1
    <3>. QED  BY <3>1, <3>2
  <2>. QED  BY <2>2, <2>3
<1>6. \A j \in 1..(n - 1) : HasAnswer(out'[j].cmd) =>
        /\ pc'[v2[j]] = "receive"
        /\ v2[j] \in crossed' \/ Answer(f2[j], out'[j].cmd) = due'[v2[j]]
  <2>1. ASSUME NEW j \in 1..(n - 1), HasAnswer(out'[j].cmd)
        PROVE  /\ pc'[v2[j]] = "receive"
               /\ v2[j] \in crossed' \/ Answer(f2[j], out'[j].cmd) = due'[v2[j]]
    <3>1. /\ j + 1 \in 1..Len(out) /\ j \in 1..n
          /\ out'[j] = out[j + 1] /\ v2[j] = v[j + 1] /\ f2[j] = f[j + 1]
      BY <1>2, <1>n, <1>v, <1>f
    <3>. QED  BY <1>1, <1>3, <2>1, <3>1 DEF Matched
  <2>. QED  BY <2>1
<1>7. \A j, k \in 1..(n - 1) :
        HasAnswer(out'[j].cmd) /\ HasAnswer(out'[k].cmd) /\ v2[j] = v2[k] => j = k
  <2>1. ASSUME NEW j \in 1..(n - 1), NEW k \in 1..(n - 1), v2[j] = v2[k],
               HasAnswer(out'[j].cmd), HasAnswer(out'[k].cmd)
        PROVE  j = k
    <3>. \A x, y \in 1..Len(out) :
           HasAnswer(out[x].cmd) /\ HasAnswer(out[y].cmd) /\ v[x] = v[y] => x = y
      BY <1>1 DEF Matched
    <3>1. /\ j + 1 \in 1..Len(out) /\ out'[j] = out[j + 1] /\ v2[j] = v[j + 1]
          /\ k + 1 \in 1..Len(out) /\ out'[k] = out[k + 1] /\ v2[k] = v[k + 1]
      BY <1>2, <1>n, <1>v
    <3>2. j + 1 = k + 1
      BY <2>1, <3>1
    <3>. QED  BY <3>2
  <2>. QED  BY <2>1
<1>q. /\ n - 1 \in Nat /\ 1..Len(out)' = 1..(n - 1) /\ Len(out)' + 1 = (n - 1) + 1
      /\ f2 \in [1..((n - 1) + 1) -> [Regs -> Bytes]]
      /\ Executed(f2)'
      /\ \A t, u \in Threads :
           pc'[t] = "receive" /\ pc'[u] = "receive" /\ t \notin crossed' => t = u
  <2>1. Len(out)' + 1 = n /\ (n - 1) + 1 = n
    BY <1>n, <1>2
  <2>2. Executed(f2)'
    BY <1>2, <1>5, <2>1, Zenon DEF Executed, Effect
  <2>. QED  BY <1>n, <1>2, <1>3, <2>1, <2>2 DEF QueueInv
<1>8. CASE HasAnswer(c)
  <2>m. PICK m \in Nat : m = Len(in)
    BY DEF FlowInv
  <2>a. PICK a : a = Answer(port, c)
    OBVIOUS
  <2>0. c # NoCall /\ c \in Commands \cup {GetVersion}
    BY <1>2, <1>c, <1>8 DEF CallType, HasAnswer, NoCall
  <2>1. a \in Bytes \cup {"version"}
    BY <1>8, <2>0, <2>a, AnswerIs DEF FlowInv
  <2>2. /\ Len(in') = m + 1 /\ in'[m + 1].val = a /\ \A i \in 1..m : in'[i] = in[i]
    <3>1. in' = Append(in, [to |-> out[1].from, val |-> a])
      BY <1>2, <1>c, <1>8, <2>a DEF DeviceExecutes
    <3>2. [to |-> out[1].from, val |-> a] \in Entry
      BY <1>2, <2>1 DEF Entry, AnswerType
    <3>. QED  BY <2>m, <3>1, <3>2, AppendIs DEF FlowInv
  <2>v. v[1] \in Threads /\ pc[v[1]] = "receive"
          /\ (v[1] \in crossed \/ a = due[v[1]])
    <3>1. 1 \in 1..Len(out) /\ f[1] = port
      BY <1>1, <1>n DEF Matched, Executed
    <3>. QED  BY <1>1, <1>c, <1>8, <2>a, <3>1 DEF Matched
  <2>w. PICK w2 \in [1..(m + 1) -> Threads] :
          w2[m + 1] = v[1] /\ \A i \in 1..m : w2[i] = w[i]
    <3>1. [i \in 1..(m + 1) |-> IF i = m + 1 THEN v[1] ELSE w[i]] \in [1..(m + 1) -> Threads]
      BY <2>m, <2>v
    <3>2. m + 1 \in 1..(m + 1) /\ \A i \in 1..m : i \in 1..(m + 1) /\ i # m + 1
      BY <2>m
    <3>. QED  BY <3>1, <3>2
  <2>4. \A i \in 1..(m + 1) :
          /\ pc'[w2[i]] = "receive" /\ in'[i].val \in Bytes \cup {"version"}
          /\ w2[i] \in crossed' \/ in'[i].val = due'[w2[i]]
    <3>1. ASSUME NEW i \in 1..m
          PROVE  /\ pc'[w2[i]] = "receive" /\ in'[i].val \in Bytes \cup {"version"}
                 /\ w2[i] \in crossed' \/ in'[i].val = due'[w2[i]]
      BY <1>1, <1>3, <2>2, <2>m, <2>w DEF Matched
    <3>2. \A i \in 1..(m + 1) : i \in 1..m \/ i = m + 1
      BY <2>m
    <3>. QED  BY <1>3, <2>1, <2>2, <2>v, <2>w, <3>1, <3>2
  <2>5. \A i, k \in 1..(m + 1) : w2[i] = w2[k] => i = k
    <3>1. \A i, k \in 1..Len(in) : w[i] = w[k] => i = k
      BY <1>1 DEF Matched
    <3>2. \A i \in 1..Len(in) : w[i] # v[1]
      <4>1. 1 \in 1..Len(out) /\ HasAnswer(out[1].cmd)
        BY <1>n, <1>c, <1>8
      <4>. QED  BY <1>1, <4>1 DEF Matched
    <3>3. \A i \in 1..(m + 1) : i \in 1..m \/ i = m + 1
      BY <2>m
    <3>4. ASSUME NEW i \in 1..m, NEW k \in 1..(m + 1), w2[i] = w2[k]
          PROVE  i = k
      <4>1. k # m + 1
        BY <2>m, <2>w, <3>2, <3>4
      <4>. QED  BY <2>m, <2>w, <3>1, <3>3, <3>4, <4>1
    <3>5. ASSUME NEW k \in 1..(m + 1), w2[m + 1] = w2[k]
          PROVE  m + 1 = k
      <4>1. k \notin 1..m
        BY <2>m, <2>w, <3>2, <3>5
      <4>. QED  BY <3>3, <4>1
    <3>. QED  BY <3>3, <3>4, <3>5
  <2>6. ASSUME NEW i \in 1..(m + 1), NEW j \in 1..(n - 1), HasAnswer(out'[j].cmd)
        PROVE  w2[i] # v2[j]
    <3>1. /\ j + 1 \in 1..Len(out) /\ 1 \in 1..Len(out) /\ j + 1 # 1
          /\ out'[j] = out[j + 1] /\ v2[j] = v[j + 1]
      BY <1>2, <1>n, <1>v
    <3>2. i \in 1..m \/ i = m + 1
      BY <2>m
    <3>. QED  BY <1>1, <1>c, <1>8, <2>6, <2>m, <2>w, <3>1, <3>2 DEF Matched
  <2>7. 1..Len(in)' = 1..(m + 1)
    BY <2>2
  <2>8. Matched(w2, v2, f2)'
    BY <1>6, <1>7, <1>q, <2>4, <2>5, <2>6, <2>7 DEF Matched
  <2>. QED  BY <1>q, <2>2, <2>7, <2>8 DEF QueueInv
<1>9. CASE ~HasAnswer(c)
  <2>1. in' = in
    BY <1>2, <1>c, <1>9 DEF DeviceExecutes
  <2>2. ASSUME NEW i \in 1..Len(in), NEW j \in 1..(n - 1), HasAnswer(out'[j].cmd)
        PROVE  w[i] # v2[j]
    <3>1. j + 1 \in 1..Len(out) /\ out'[j] = out[j + 1] /\ v2[j] = v[j + 1]
      BY <1>2, <1>n, <1>v
    <3>. QED  BY <1>1, <2>2, <3>1 DEF Matched
  <2>3. \A i \in 1..Len(in) :
          /\ pc'[w[i]] = "receive" /\ in'[i].val \in Bytes \cup {"version"}
          /\ w[i] \in crossed' \/ in'[i].val = due'[w[i]]
    BY <1>1, <1>3, <2>1 DEF Matched
  <2>4. \A i, k \in 1..Len(in) : w[i] = w[k] => i = k
    BY <1>1 DEF Matched
  <2>5. Len(in)' = Len(in)
    BY <2>1
  <2>6. Matched(w, v2, f2)'
    <3>1. n - 1 \in Nat /\ 1..Len(out)' = 1..(n - 1) /\ Executed(f2)'
      BY <1>q
    <3>2. \A i \in 1..Len(in') :
            /\ pc'[w[i]] = "receive" /\ in'[i].val \in Bytes \cup {"version"}
            /\ w[i] \in crossed' \/ in'[i].val = due'[w[i]]
      BY <2>1, <2>3
    <3>3. \A i, k \in 1..Len(in') : w[i] = w[k] => i = k
      BY <2>1, <2>4
    <3>4. \A i \in 1..Len(in'), j \in 1..(n - 1) : HasAnswer(out'[j].cmd) => w[i] # v2[j]
      BY <2>1, <2>2
    <3>. QED  BY <1>6, <1>7, <3>1, <3>2, <3>3, <3>4, Zenon DEF Matched
  <2>. QED  BY <1>q, <2>5, <2>6 DEF QueueInv
<1>. QED  BY <1>8, <1>9

(* A waiting thread takes the first answer. If it was meant for another    *)
(* one, that thread can have what the first one waited for: both crossed.  *)
LEMMA QueueRead ==
  ASSUME HostInv, ~stray, NEW t \in Threads, ReadPipe(t), ~stray'
  PROVE  QueueInv'
<1>. USE DEF HostInv
<1>1. PICK w \in [1..Len(in) -> Threads], v \in [1..Len(out) -> Threads],
            f \in [1..(Len(out) + 1) -> [Regs -> Bytes]] : Matched(w, v, f)
  BY DEF QueueInv
<1>0. /\ pc[t] = "receive" /\ in # <<>> /\ in' = Tail(in) /\ pc' = [pc EXCEPT ![t] = "done"]
      /\ UNCHANGED <<device, port, regs, out, due, crossed>>
  BY ReadEffect, RemainderIs DEF Finish, ghost
<1>m. PICK m \in Nat \ {0} : m = Len(in)
  BY <1>0, TailIs DEF FlowInv
<1>n. PICK n \in Nat : n = Len(out)
  BY DEF FlowInv, Answers
<1>2. /\ Len(in') = m - 1
      /\ \A i \in 1..(m - 1) : in'[i] = in[i + 1]
  BY <1>0, <1>m, TailIs DEF FlowInv
<1>3. /\ UNCHANGED <<device, port, regs, out, due, crossed>>
      /\ pc[t] = "receive" /\ pc' = [pc EXCEPT ![t] = "done"]
  BY <1>0
<1>4. \A u \in Threads : u # t => pc'[u] = pc[u]
  BY <1>3 DEF CallInv
<1> DEFINE New(u) == IF u = t THEN w[1] ELSE u
<1>5. w[1] \in Threads /\ pc[w[1]] = "receive"
  BY <1>1, <1>m DEF Matched
<1>6. w[1] # t => w[1] \in crossed /\ t \in crossed
  BY <1>3, <1>5 DEF QueueInv
<1>v. PICK v2 \in [1..n -> Threads] : \A j \in 1..n : v2[j] = New(v[j])
  <2>1. [j \in 1..n |-> New(v[j])] \in [1..n -> Threads]
    BY <1>n, <1>5
  <2>. QED  BY <2>1
<1>w. PICK w2 \in [1..(m - 1) -> Threads] : \A i \in 1..(m - 1) : w2[i] = New(w[i + 1])
  <2>1. [i \in 1..(m - 1) |-> New(w[i + 1])] \in [1..(m - 1) -> Threads]
    BY <1>m, <1>5
  <2>. QED  BY <2>1
<1>7. ASSUME NEW i \in 1..(m - 1)
      PROVE  /\ pc'[w2[i]] = "receive" /\ in'[i].val \in Bytes \cup {"version"}
             /\ w2[i] \in crossed' \/ in'[i].val = due'[w2[i]]
             /\ w2[i] # w[1] \/ w[i + 1] = t
  <2>1. /\ i + 1 \in 1..Len(in) /\ 1 \in 1..Len(in) /\ i + 1 # 1
        /\ w[i + 1] \in Threads /\ in'[i] = in[i + 1] /\ w2[i] = New(w[i + 1])
    BY <1>2, <1>m, <1>w
  <2>2. /\ pc[w[i + 1]] = "receive" /\ in[i + 1].val \in Bytes \cup {"version"}
        /\ w[i + 1] \in crossed \/ in[i + 1].val = due[w[i + 1]]
        /\ w[i + 1] # w[1]
    BY <1>1, <2>1 DEF Matched
  <2>. QED  BY <1>3, <1>4, <1>5, <1>6, <2>1, <2>2
<1>8. ASSUME NEW j \in 1..n, HasAnswer(out'[j].cmd)
      PROVE  /\ pc'[v2[j]] = "receive"
             /\ v2[j] \in crossed' \/ Answer(f[j], out'[j].cmd) = due'[v2[j]]
             /\ v2[j] # w[1] \/ v[j] = t
  <2>1. /\ j \in 1..Len(out) /\ 1 \in 1..Len(in) /\ v[j] \in Threads
        /\ out'[j] = out[j] /\ v2[j] = New(v[j])
    BY <1>3, <1>m, <1>n, <1>v
  <2>2. /\ pc[v[j]] = "receive"
        /\ v[j] \in crossed \/ Answer(f[j], out[j].cmd) = due[v[j]]
        /\ w[1] # v[j]
    BY <1>1, <1>8, <2>1 DEF Matched
  <2>. QED  BY <1>3, <1>4, <1>5, <1>6, <2>1, <2>2
<1>9. ASSUME NEW i \in 1..(m - 1), NEW k \in 1..(m - 1), w2[i] = w2[k]
      PROVE  i = k
  <2>1. /\ i + 1 \in 1..Len(in) /\ k + 1 \in 1..Len(in)
        /\ w2[i] = New(w[i + 1]) /\ w2[k] = New(w[k + 1])
    BY <1>m, <1>w
  <2>2. w[i + 1] = w[k + 1]
    BY <1>7, <1>9, <2>1
  <2>3. i + 1 = k + 1
    BY <1>1, <2>1, <2>2 DEF Matched
  <2>. QED  BY <2>3
<1>10. ASSUME NEW j \in 1..n, NEW k \in 1..n, v2[j] = v2[k],
              HasAnswer(out'[j].cmd), HasAnswer(out'[k].cmd)
       PROVE  j = k
  <2>1. v2[j] = New(v[j]) /\ v2[k] = New(v[k]) /\ out' = out
    BY <1>3, <1>v
  <2>2. v[j] = v[k]
    BY <1>8, <1>10, <2>1
  <2>. QED  BY <1>1, <1>n, <1>10, <2>1, <2>2 DEF Matched
<1>11. ASSUME NEW i \in 1..(m - 1), NEW j \in 1..n, HasAnswer(out'[j].cmd)
       PROVE  w2[i] # v2[j]
  <2>1. /\ i + 1 \in 1..Len(in) /\ w2[i] = New(w[i + 1])
        /\ v2[j] = New(v[j]) /\ out' = out
    BY <1>3, <1>m, <1>v, <1>w
  <2>2. w[i + 1] # v[j]
    BY <1>1, <1>n, <1>11, <2>1 DEF Matched
  <2>. QED  BY <1>7, <1>8, <1>11, <2>1, <2>2
<1>12. Executed(f)'
  BY <1>1, <1>3 DEF Matched, Executed, Effect
<1>13. 1..Len(in)' = 1..(m - 1) /\ Len(out)' = n
  BY <1>2, <1>3, <1>n
<1>14. Matched(w2, v2, f)'
  <2> HIDE DEF New
  <2>. QED  BY <1>7, <1>8, <1>9, <1>10, <1>11, <1>12, <1>13 DEF Matched
<1>15. \A u, x \in Threads :
         pc'[u] = "receive" /\ pc'[x] = "receive" /\ u \notin crossed' => u = x
  BY <1>3, <1>4 DEF QueueInv
<1>. QED
  BY <1>3, <1>n, <1>13, <1>14, <1>15 DEF QueueInv

LEMMA QueueControl ==
  ASSUME OpenInv, CallInv, FlowInv, QueueInv, NEW t \in Threads, ControlTransfer(t)
  PROVE  QueueInv'
<1>1. \E l : l # "receive" /\ pc[t] = "send" /\ pc' = [pc EXCEPT ![t] = l]
  BY ControlEffect, Zenon DEF Finish
<1>2. \A u \in Threads : /\ pc'[u] = "receive" <=> pc[u] = "receive"
                         /\ pc[u] = "receive" => u # t
  BY <1>1 DEF CallInv
<1>3. CASE UNCHANGED <<ghost, port>>
  BY <1>2, <1>3, ControlEffect, QueueFrame DEF ghost
<1>4. CASE Accept(t, FALSE) /\ port' = Effect(port, call[t])
  <2>1. /\ UNCHANGED <<device, out, in, crossed>> /\ regs' = Effect(regs, call[t])
        /\ \A u \in Threads : u # t => due'[u] = due[u]
    BY <1>4, ControlEffect DEF Accept, CallInv
  <2>2. CASE out = <<>>
    <3>1. PICK w \in [1..Len(in) -> Threads], v \in [1..Len(out) -> Threads],
                f \in [1..(Len(out) + 1) -> [Regs -> Bytes]] : Matched(w, v, f)
      BY DEF QueueInv
    <3>2. port' = regs' /\ port' \in [Regs -> Bytes]
      <4>1. port = regs
        BY <2>2, <3>1 DEF Matched, Executed
      <4>2. call[t] \in Commands \cup {GetVersion}
        BY <1>1, CallIs
      <4>. QED  BY <1>4, <2>1, <4>1, <4>2, AnswerIs DEF FlowInv
    <3>3. PICK f2 \in [1..(Len(out) + 1) -> [Regs -> Bytes]] : f2[1] = port'
      <4>1. [j \in 1..(Len(out) + 1) |-> port'] \in [1..(Len(out) + 1) -> [Regs -> Bytes]]
        BY <3>2
      <4>2. 1 \in 1..(Len(out) + 1)
        BY <2>2
      <4>. QED  BY <4>1, <4>2
    <3>4. Len(out) = 0 /\ Len(out)' = 0 /\ Len(in)' = Len(in)
      BY <2>1, <2>2
    <3>5. \A i \in 1..Len(in) : w[i] \in Threads
      OBVIOUS
    <3>6. Matched(w, v, f2)'
      BY <1>2, <2>1, <3>1, <3>2, <3>3, <3>4, <3>5 DEF Matched, Executed
    <3>. QED  BY <1>2, <2>1, <2>2, <3>4, <3>6 DEF QueueInv
  <2>3. CASE out # <<>>
    <3>1. call[t] = GetVersion
      BY <2>3, ControlEffect DEF OpenInv, CallInv, FlowInv
    <3>2. UNCHANGED <<port, regs>>
      BY <1>4, <2>1, <3>1 DEF Effect, GetVersion
    <3>. QED  BY <1>2, <2>1, <3>2, QueueFrame
  <2>. QED  BY <2>2, <2>3
<1>. QED  BY <1>3, <1>4, ControlEffect

LEMMA QueueStep ==
  ASSUME HostInv, [Next]_vars, ~stray'
  PROVE  QueueInv'
<1>. USE DEF HostInv
<1>0. ~stray
  BY DEF Next, Work, vars, ghost, Acquire, Opened, Close, Start, Accept, ControlTransfer,
     WritePipe, ReadPipe, DeviceExecutes, Return
<1>u. Unbuffered = in
  BY <1>0, UnbufferedAll
<1>1. ASSUME NEW t \in Threads, NEW c, pc[t] = "idle", Begin(t, c),
             UNCHANGED <<device, link, regs>>
      PROVE  QueueInv'
  <2>1. /\ \A u \in Threads : pc'[u] = "receive" <=> pc[u] = "receive"
        /\ \A u \in Threads : pc[u] = "receive" =>
             due'[u] = due[u] /\ (u \in crossed <=> u \in crossed')
    BY <1>1 DEF Begin, CallInv
  <2>. QED  BY <1>0, <1>1, <2>1, QueueFrame DEF link
<1>2. ASSUME NEW t \in Threads, NEW l, pc[t] # "receive", l # "receive",
             pc' = [pc EXCEPT ![t] = l], UNCHANGED <<device, link, ghost>>
      PROVE  QueueInv'
  <2>1. \A u \in Threads : pc'[u] = "receive" <=> pc[u] = "receive"
    BY <1>2 DEF CallInv
  <2>. QED  BY <1>0, <1>2, <2>1, QueueFrame DEF link, ghost
<1>3. CASE UNCHANGED <<device, link, pc, due, crossed, regs>>
  BY <1>0, <1>3, QueueFrame DEF link
<1>4. CASE Acquire
  <2>1. \/ UNCHANGED <<pc, due, crossed>>
        \/ state' = "version" /\ Begin(Opener, GetVersion)
    BY <1>4, Zenon DEF Acquire
  <2>2. UNCHANGED <<device, link, regs>> /\ pc[Opener] = "idle"
    BY <1>4, <1>u, HostAssumption DEF Acquire, Discard, CallInv, link
  <2>. QED  BY <1>1, <1>3, <2>1, <2>2, HostAssumption
<1>5. CASE Opened
  <2>1. /\ pc[Opener] = "done" /\ pc' = [pc EXCEPT ![Opener] = "idle"]
        /\ UNCHANGED <<device, link, ghost>>
    BY <1>5, <1>u DEF Opened, Discard, link
  <2>. QED  BY <1>2, <2>1, HostAssumption
<1>6. CASE Close
  BY <1>3, <1>6, <1>u DEF Close, Discard, link, ghost
<1>7. ASSUME NEW t \in Threads, Start(t)
      PROVE  QueueInv'
  BY <1>1, <1>7 DEF Start
<1>8. ASSUME NEW t \in Threads, WritePipe(t)
      PROVE  QueueInv'
  <2>1. CASE UNCHANGED <<ghost, out>> /\ Finish(t, "failed")
    BY <1>2, <1>8, <2>1, WriteEffect DEF Finish, link
  <2>2. CASE Accept(t, TRUE)
    BY <2>2 DEF Accept
  <2>3. CASE /\ Accept(t, FALSE) /\ out' = Append(out, [from |-> t, cmd |-> call[t]])
             /\ pc' = [pc EXCEPT ![t] = IF HasAnswer(call[t]) THEN "receive" ELSE "done"]
    BY <1>0, <1>8, <2>3, WriteEffect, QueueWrite
  <2>4. CASE /\ Accept(t, FALSE) /\ out' = Append(out, [from |-> t, cmd |-> call[t]])
             /\ ~HasAnswer(call[t]) /\ (Finish(t, "done") \/ Finish(t, "failed"))
    BY <2>3, <2>4 DEF Finish
  <2>5. CASE /\ Accept(t, HasAnswer(call[t])) /\ Finish(t, "failed")
             /\ out' = Append(out, [from |-> t, cmd |-> call[t]])
    <3>1. HasAnswer(call[t]) \in BOOLEAN
      BY DEF HasAnswer
    <3>2. Accept(t, TRUE) \/ (Accept(t, FALSE) /\ ~HasAnswer(call[t]))
      BY <2>5, <3>1
    <3>. QED  BY <2>2, <2>4, <2>5, <3>2
  <2>6. CASE /\ Accept(t, FALSE) /\ out' = Append(out, [from |-> t, cmd |-> call[t]])
             /\ HasAnswer(call[t]) /\ pc' = [pc EXCEPT ![t] = "receive"]
    BY <2>3, <2>6
  <2>. QED  BY <1>8, <2>1, <2>4, <2>5, <2>6, WriteEffect, Zenon
<1>9. ASSUME NEW t \in Threads, Return(t)
      PROVE  QueueInv'
  <2>1. pc[t] = "done" /\ pc' = [pc EXCEPT ![t] = "idle"] /\ UNCHANGED <<device, link, ghost>>
    BY <1>9 DEF Return
  <2>. QED  BY <1>2, <2>1
<1>10. CASE UNCHANGED vars
  BY <1>3, <1>10 DEF vars, ghost
<1>. QED
  BY <1>0, <1>4, <1>5, <1>6, <1>7, <1>8, <1>9, <1>10, QueueControl, QueueRead, QueueExecute
     DEF Next, Work

-----------------------------------------------------------------------------
(* The invariant. *)

LEMMA HostInit == Init => HostInv
<1>. SUFFICES ASSUME Init  PROVE HostInv
  OBVIOUS
<1>1. OpenInv
  BY HostAssumption DEF Init, OpenInv
<1>2. CallInv
  BY DEF Init, CallInv, AnswerType, NoCall, GetVersion
<1>3. FlowInv /\ QueueInv /\ KindInv
  <2>1. Len(out) = 0 /\ Len(in) = 0
    BY DEF Init
  <2>2. PICK f \in [1..(Len(out) + 1) -> [Regs -> Bytes]] : f[1] = port
    <3>1. [j \in 1..(Len(out) + 1) |-> port] \in [1..(Len(out) + 1) -> [Regs -> Bytes]]
      BY DEF Init
    <3>2. 1 \in 1..(Len(out) + 1)
      BY <2>1
    <3>. QED  BY <3>1, <3>2
  <2>3. PICK w \in [1..Len(in) -> Threads], v \in [1..Len(out) -> Threads] : TRUE
    <3>1. [i \in 1..Len(in) |-> Opener] \in [1..Len(in) -> Threads]
      BY HostAssumption
    <3>2. [i \in 1..Len(out) |-> Opener] \in [1..Len(out) -> Threads]
      BY HostAssumption
    <3>. QED  BY <3>1, <3>2
  <2>4. Matched(w, v, f)
    BY <2>1, <2>2 DEF Init, Matched, Executed
  <2>5. /\ port \in [Regs -> Bytes] /\ regs \in [Regs -> Bytes]
        /\ out \in Seq([from : Threads, cmd : CallType])
        /\ in \in Answers
        /\ state # "open" /\ out = <<>> /\ \A t \in Threads : pc[t] # "receive"
    BY DEF Init, Answers
  <2>6. Executed(f)
    BY <2>4 DEF Matched
  <2>. QED  BY <2>4, <2>5, <2>6 DEF FlowInv, QueueInv, KindInv
<1>. QED  BY <1>1, <1>2, <1>3 DEF HostInv

LEMMA HostAlways == Spec => []HostInv
<1>1. HostInv /\ [Next]_vars => HostInv'
  BY OpenStep, CallStep, FlowStep, QueueStep, KindStep, Zenon DEF HostInv
<1>. QED  BY HostInit, <1>1, PTL DEF Spec

(* The handle, the pipes and the calls keep their types, for any threads,  *)
(* registers and devices.                                                  *)
THEOREM HostTypes == Spec => []TypeOK
<1>1. ASSUME OpenInv
      PROVE  \E n \in 0..4 : held = Parts(n)
  <2>1. CASE state = "closed"
    BY <1>1, <2>1, PartsAre DEF OpenInv
  <2>2. CASE state # "closed"
    BY <1>1, <2>2 DEF OpenInv
  <2>. QED  BY <2>1, <2>2
<1>2. HostInv => TypeOK
  BY <1>1 DEF HostInv, OpenInv, CallInv, FlowInv, TypeOK, Parts, CallType, Answers, Entry
<1>. QED  BY HostAlways, <1>2, PTL

(* Opening an adapter leaves nothing behind when it fails, whatever number *)
(* of its steps had succeeded, and closing it gives everything back.       *)
THEOREM OpenLeaksNothing == Spec => []NothingLeaks
<1>1. HostInv => NothingLeaks
  BY DEF HostInv, OpenInv, NothingLeaks, Parts
<1>. QED  BY HostAlways, <1>1, PTL

(* An open handle uses the transport of its device, whatever malloc left   *)
(* in the flag when the version was asked for.                             *)
THEOREM TransportIsOwn == Spec => []OwnTransport
<1>1. HostInv => OwnTransport
  BY DEF HostInv, OpenInv, OwnTransport
<1>. QED  BY HostAlways, <1>1, PTL

-----------------------------------------------------------------------------
(* Calls are accesses to one register file. *)

Shown == [t \in Threads |-> IF pc[t] = "idle" THEN answer[t] ELSE "none"]

LEMMA PortInvokes ==
  ASSUME CallInv, NEW t \in Threads, NEW c \in Commands \cup {GetVersion},
         pc[t] = "idle", Begin(t, c), UNCHANGED <<regs, device, stray>>
  PROVE  Port!Next
<1>1. call[t] = NoCall /\ Port!NoCall = NoCall
  BY DEF CallInv, NoCall, Port!NoCall
<1>2. c \in Port!Calls
  BY DEF Port!Calls, Commands, GetVersion
<1>3. Shown' = [Shown EXCEPT ![t] = "none"]
  BY DEF Shown, Begin, CallInv
<1>4. Port!Invoke(t)
  BY <1>1, <1>2, <1>3 DEF Port!Invoke, Begin, Shown
<1>. QED  BY <1>4 DEF Port!Next

LEMMA PortAccepts ==
  ASSUME CallInv, NEW t \in Threads, NEW lost \in BOOLEAN, Accept(t, lost), pc[t] = "send",
         lost => device.bulk /\ HasAnswer(call[t]),
         NEW l, l # "idle", pc' = [pc EXCEPT ![t] = l],
         \A u \in Threads : u # t => answer'[u] = answer[u],
         ~flag => device.bulk, UNCHANGED <<call, device>>
  PROVE  Port!Next
<1>1. call[t] # Port!NoCall /\ due[t] = "none"
  BY DEF CallInv, NoCall, Port!NoCall
<1>2. /\ Port!Effect(call[t]) = Effect(regs, call[t]) /\ Port!Due(call[t]) = Answer(regs, call[t])
      /\ lost => device.bulk /\ Port!HasAnswer(call[t])
  BY DEF Port!Effect, Effect, Port!Due, Answer, HasAnswer, Port!HasAnswer
<1>3. Shown' = Shown
  BY DEF Shown, CallInv
<1> DEFINE waiting == {u \in Threads : pc[u] = "receive"}
<1>4. waiting \in SUBSET {u \in Threads \ {t} : Port!Waiting(u)}
  <2>1. \A u \in Threads : pc[u] = "receive" => due[u] # "none" /\ HasAnswer(call[u])
    BY HostAssumption DEF CallInv, Fitting
  <2>. QED  BY <2>1 DEF Port!Waiting, HasAnswer, Port!HasAnswer
<1>5. CASE ~flag /\ HasAnswer(call[t]) /\ (stray \/ waiting # {})
  <2>1. crossed' = crossed \cup {t} \cup waiting
    BY <1>5 DEF Accept
  <2>2. device.bulk /\ Port!HasAnswer(call[t])
    BY <1>5 DEF HasAnswer, Port!HasAnswer
  <2>3. Port!Accept(t, lost)
    BY <1>1, <1>2, <1>3, <1>4, <1>5, <2>1, <2>2 DEF Port!Accept, Accept, Shown
  <2>. QED  BY <2>3 DEF Port!Next
<1>6. CASE ~(~flag /\ HasAnswer(call[t]) /\ (stray \/ waiting # {}))
  <2>1. crossed' = crossed
    BY <1>6 DEF Accept
  <2>2. {} \in SUBSET {u \in Threads \ {t} : Port!Waiting(u)}
    OBVIOUS
  <2>3. Port!Accept(t, lost)
    BY <1>1, <1>2, <1>3, <2>1, <2>2 DEF Port!Accept, Accept, Shown
  <2>. QED  BY <2>3 DEF Port!Next
<1>. QED  BY <1>5, <1>6

LEMMA PortReturns ==
  ASSUME CallInv, NEW t \in Threads, pc[t] = "done",
         pc' = [pc EXCEPT ![t] = "idle"], call' = [call EXCEPT ![t] = NoCall],
         UNCHANGED <<answer, regs, due, crossed, stray, device>>
  PROVE  Port!Next
<1>1. call[t] # Port!NoCall /\ NoCall = Port!NoCall
  BY DEF CallInv, NoCall, Port!NoCall
<1>2. Shown' = [Shown EXCEPT ![t] = answer[t]]
  BY DEF Shown, CallInv
<1>3. answer[t] \in {"failed", due[t]}
                      \cup IF t \in crossed THEN Bytes \cup {"version"} ELSE {}
  BY DEF CallInv
<1>4. answer[t] # "none"
  BY HostAssumption DEF CallInv
<1>5. Port!Return(t)
  BY <1>1, <1>2, <1>3, <1>4 DEF Port!Return, Shown
<1>. QED  BY <1>5 DEF Port!Next

LEMMA PortStutters ==
  ASSUME CallInv, UNCHANGED <<regs, call, due, crossed, stray, device>>,
         \/ UNCHANGED <<pc, answer>>
         \/ \E t \in Threads : \E l :
              /\ pc[t] # "idle" /\ l # "idle" /\ pc' = [pc EXCEPT ![t] = l]
              /\ \A u \in Threads : u # t => answer'[u] = answer[u]
  PROVE  UNCHANGED Port!vars
<1>1. Shown' = Shown
  BY DEF Shown, CallInv
<1>. QED  BY <1>1 DEF Port!vars, Shown

LEMMA PortStep ==
  ASSUME HostInv, [Next]_vars
  PROVE  [Port!Next]_(Port!vars)
<1>. USE DEF HostInv
<1>1. ASSUME NEW t \in Threads, NEW a, pc[t] # "idle", Finish(t, a),
             UNCHANGED <<regs, call, due, crossed, stray, device>>
      PROVE  UNCHANGED Port!vars
  <2>1. \A u \in Threads : u # t => answer'[u] = answer[u]
    BY <1>1 DEF Finish, CallInv
  <2>. QED  BY <1>1, <2>1, PortStutters DEF Finish
<1>2. ASSUME NEW t \in Threads, NEW a, pc[t] = "send", Finish(t, a), NEW lost \in BOOLEAN,
             Accept(t, lost), lost => device.bulk /\ HasAnswer(call[t]),
             ~flag => device.bulk, UNCHANGED <<call, device>>
      PROVE  Port!Next
  <2>1. \A u \in Threads : u # t => answer'[u] = answer[u]
    BY <1>2 DEF Finish, CallInv
  <2>. QED  BY <1>2, <2>1, PortAccepts DEF Finish
<1>3. CASE Acquire
  <2>1. \/ UNCHANGED <<pc, call, answer, due, crossed>>
        \/ Begin(Opener, GetVersion)
    BY <1>3, Zenon DEF Acquire
  <2>2. UNCHANGED <<device, regs, stray>> /\ pc[Opener] = "idle"
    BY <1>3, HostAssumption DEF Acquire, CallInv
  <2>. QED  BY <2>1, <2>2, PortStutters, PortInvokes, HostAssumption
<1>4. CASE Opened
  BY <1>4, PortReturns, HostAssumption DEF Opened, ghost
<1>5. CASE Close
  BY <1>5, PortStutters DEF Close, ghost
<1>6. ASSUME NEW t \in Threads, Start(t)
      PROVE  Port!Next
  BY <1>6, PortInvokes DEF Start
<1>7. ASSUME NEW t \in Threads, ControlTransfer(t)
      PROVE  [Port!Next]_(Port!vars)
  <2>1. CASE UNCHANGED <<ghost, port>> /\ Finish(t, "failed")
    BY <1>1, <1>7, <2>1, ControlEffect DEF ghost
  <2>2. CASE Accept(t, FALSE) /\ \E a : Finish(t, a)
    BY <1>2, <1>7, <2>2, ControlEffect DEF OpenInv
  <2>. QED  BY <1>7, <2>1, <2>2, ControlEffect
<1>8. ASSUME NEW t \in Threads, WritePipe(t)
      PROVE  [Port!Next]_(Port!vars)
  <2>0. HasAnswer(call[t]) \in BOOLEAN
    BY DEF HasAnswer
  <2>1. CASE UNCHANGED <<ghost, out>> /\ Finish(t, "failed")
    BY <1>1, <1>8, <2>1, WriteEffect DEF ghost
  <2>2. CASE Accept(t, FALSE) /\ device.bulk /\ Finish(t, "done")
    BY <1>2, <1>8, <2>2, WriteEffect
  <2>3. CASE /\ Accept(t, FALSE) /\ device.bulk
             /\ pc' = [pc EXCEPT ![t] = "receive"] /\ UNCHANGED answer
    BY <1>8, <2>3, WriteEffect, PortAccepts
  <2>4. CASE Accept(t, HasAnswer(call[t])) /\ device.bulk /\ Finish(t, "failed")
    BY <1>2, <1>8, <2>0, <2>4, WriteEffect
  <2>. QED  BY <1>8, <2>1, <2>2, <2>3, <2>4, WriteEffect
<1>9. ASSUME NEW t \in Threads, ReadPipe(t)
      PROVE  [Port!Next]_(Port!vars)
  <2>1. pc[t] = "receive" /\ UNCHANGED <<call, device>>
    BY <1>9, ReadEffect
  <2>2. ASSUME UNCHANGED ghost, NEW a, Finish(t, a)
        PROVE  UNCHANGED Port!vars
    BY <1>1, <2>1, <2>2 DEF ghost
  <2>3. CASE /\ Finish(t, "failed") /\ UNCHANGED <<in, regs, crossed>>
             /\ due' = [due EXCEPT ![t] = "failed"] /\ stray' = TRUE
    <3>1. due[t] # "none" /\ HasAnswer(call[t]) /\ device.bulk
      BY <2>1, HostAssumption DEF CallInv, FlowInv, Fitting
    <3>2. Shown' = Shown
      BY <2>1, <2>3 DEF Shown, Finish, CallInv
    <3>3. Port!Leave(t)
      BY <2>1, <2>3, <3>1, <3>2 DEF Port!Leave, Port!Waiting, HasAnswer, Port!HasAnswer, Shown
    <3>. QED  BY <3>3 DEF Port!Next
  <2>. QED  BY <1>9, <2>2, <2>3, ReadEffect
<1>10. CASE DeviceExecutes
  BY <1>10, PortStutters DEF DeviceExecutes, ghost
<1>11. ASSUME NEW t \in Threads, Return(t)
       PROVE  Port!Next
  BY <1>11, PortReturns DEF Return, ghost
<1>12. CASE UNCHANGED vars
  BY <1>12, PortStutters DEF vars, ghost
<1>. QED
  BY <1>3, <1>4, <1>5, <1>6, <1>7, <1>8, <1>9, <1>10, <1>11, <1>12 DEF Next, Work

(* The calls of any number of threads on one handle are accesses to one    *)
(* register file, one at a time, over either transport.                    *)
THEOREM CallsAreAccesses == Spec => ImplementsPort
<1>1. Init => Port!Init
  BY HostAssumption DEF Init, Port!Init, NoCall, Port!NoCall, DeviceType
<1>2. HostInv /\ [Next]_vars => [Port!Next]_(Port!vars)
  BY PortStep
<1>. QED  BY <1>1, <1>2, HostAlways, PTL DEF Spec, ImplementsPort, Port!Spec
=============================================================================
