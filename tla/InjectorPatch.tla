--------------------------- MODULE InjectorPatch ----------------------------
(***************************************************************************)
(* The injector (LptPatchInjector.c) as the debugger of a program: a       *)
(* thread that meets a port instruction traps, and the injector either     *)
(* emulates the instruction or patches the program: a jump to a worker     *)
(* that calls the injected library, executes the instructions the jump     *)
(* has overwritten and jumps back. Memory is a byte per address, a byte    *)
(* being a part of an instruction; the worker function (injectables.asm)   *)
(* is one instruction, CALL. All threads are suspended while the injector  *)
(* handles an event: a handler is one action.                              *)
(***************************************************************************)
EXTENDS Integers, Sequences, FiniteSets

CONSTANTS
  Threads,     \* threads of the program
  Programs,    \* the programs that may be run: start address -> instruction
  Modes,       \* values of behavior:use_mempatch
  SiteSize,    \* bytes of the program
  RegionSize,  \* bytes of a region that VirtualAllocEx returns
  MaxRegions,  \* number of regions
  MaxFaults    \* bound on the system calls that fail

(* head: the bytes length_disasm reads, see Ld32; len: all of them, with   *)
(* a displacement and an immediate of four bytes at most.                  *)
Instruction ==
  {i \in [kind : {"plain", "io", "branch", "exit"},
          head : 1..8, len : 1..15, bits : {8, 16, 32}, disp : Int] :
     i.len <= i.head + 8}

(* Instructions do not overlap, and lead to instructions. None is a call,  *)
(* a return or an indirect jump, so no return address or pointer refers to *)
(* bytes that a patch writes over.                                         *)
IsProgram(p) ==
  /\ DOMAIN p \subseteq 1..SiteSize /\ 1 \in DOMAIN p
  /\ \A x \in DOMAIN p :
       /\ p[x] \in Instruction /\ x + p[x].len <= SiteSize + 1
       /\ \A w \in DOMAIN p : x < w => x + p[x].len <= w
       /\ p[x].kind # "exit" => x + p[x].len \in DOMAIN p
       /\ p[x].kind = "branch" => x + p[x].disp \in DOMAIN p

ASSUME InjectorAssumption ==
  /\ SiteSize \in Nat /\ RegionSize \in Nat /\ RegionSize >= 40
  /\ MaxRegions \in Nat /\ MaxFaults \in Nat
  /\ Modes \subseteq BOOLEAN
  /\ \A p \in Programs : IsProgram(p)

VARIABLES
  mempatch,  \* Settings.behavior.use_mempatch
  code,      \* the program as it was compiled
  mem,       \* memory of the process
  regions,   \* regions allocated
  located,   \* WritePort8 and ReadPort8 are known
  pc, stack, \* per thread
  trapped,   \* threads with a debug event pending or being handled
  alive,     \* the process runs
  at, served, sound,  \* what the program was to do, see IoProgram
  patched,   \* start addresses of the jumps written
  faults

program == <<mempatch, code>>
vars == <<program, mem, regions, located, pc, stack, trapped, alive, at,
          served, sound, patched, faults>>

\* The regions lie apart from the program.
Addr == 1..(SiteSize + (MaxRegions + 1) * RegionSize)
Region(r) == SiteSize + r * RegionSize + 1

Zero == [op |-> "zero", k |-> 0]
\* The bytes of an original instruction, of PUSH and of RET.
Original(x) == [k \in 1..code[x].len |-> [op |-> "code", x |-> x, k |-> k - 1]]
Push(to) == [k \in 1..5 |-> [op |-> "push", to |-> to, k |-> k - 1]]
Ret == <<[op |-> "ret", k |-> 0]>>
Nop == [op |-> "nop", k |-> 0]

\* Mutant: the RET of the jump is not written.
JmpFarNoRet(to) == Push(to) \o <<Nop>>

JmpFar(to) == Push(to) \o Ret

Compiled(p) ==
  [a \in Addr |->
     IF \E x \in DOMAIN p : a \in x..(x + p[x].len - 1)
     THEN LET x == CHOOSE x \in DOMAIN p : a \in x..(x + p[x].len - 1)
          IN [op |-> "code", x |-> x, k |-> a - x]
     ELSE Zero]

Init ==
  /\ mempatch \in Modes /\ code \in Programs
  /\ mem = Compiled(code) /\ regions = 0 /\ located = FALSE
  /\ pc = [t \in Threads |-> 1] /\ stack = [t \in Threads |-> <<>>]
  /\ trapped = {} /\ alive = TRUE
  /\ at = [t \in Threads |-> 1] /\ sound = TRUE
  /\ served = [t \in Threads |->
                 [port |-> "other", reached |-> FALSE, beat |-> FALSE]]
  /\ patched = {} /\ faults = 0

-----------------------------------------------------------------------------
(* Reading an instruction. *)

\* Length of the instruction at y; 0 when the bytes there are no whole one.
Length(y) ==
  IF y \notin Addr THEN 0 ELSE
  LET b == mem[y]
      n == CASE b.op = "code" -> code[b.x].len
             [] b.op = "push" -> 5
             [] b.op = "zero" -> 2
             [] OTHER -> 1
  IN IF \A k \in 0..(n - 1) : /\ y + k \in Addr
                              /\ b.op = "zero" \/ mem[y + k] = [b EXCEPT !.k = k]
     THEN n ELSE 0

HeadSize(y) == CASE mem[y].op = "code" -> code[mem[y].x].head
             [] mem[y].op = "zero" -> 2
             [] OTHER -> 1

Op(y) == IF Length(y) = 0 THEN "zero"
         ELSE IF mem[y].op = "code" THEN code[mem[y].x].kind ELSE mem[y].op

(* One pass of the loop over length_disasm: the end of what the jump to be *)
(* written at y overwrites, once the instruction at e is among it; 0 when  *)
(* the head of that one is not in the first eight bytes.                   *)
Over(y, e) ==
  IF e = 0 \/ e - y >= 6 THEN e
  ELSE IF Length(e) # 0 /\ HeadSize(e) <= 8 - (e - y) THEN e + Length(e) ELSE 0

\* The six bytes of a jump overwrite six instructions at most.
Cut(y) ==
  LET Overs(ends) == {Over(y, e) : e \in ends}
  IN CHOOSE e \in Overs(Overs(Overs(Overs(Overs(Overs({y})))))) : TRUE

\* DecodeIoInstruction and the first test of PatchIoInstruction.
IsIo(y) == Op(y) = "io"
Patchable(y) == /\ y \in Addr /\ IsIo(y) /\ code[mem[y].x].bits = 8 /\ code[mem[y].x].len = 1
                /\ Cut(y) # 0

-----------------------------------------------------------------------------
(* The program: external. *)

Crash == alive' = FALSE /\ sound' = FALSE

\* The instruction at x was to be executed next and has been.
Done(t, y) == at' = [at EXCEPT ![t] = y]

Execute(t) ==
  /\ alive /\ t \notin trapped /\ Op(pc[t]) \in {"plain", "branch"}
  /\ LET x == mem[pc[t]].x IN
       \/ /\ pc' = [pc EXCEPT ![t] = @ + code[x].len]
          /\ Done(t, x + code[x].len)
       \/ /\ code[x].kind = "branch"
          /\ pc' = [pc EXCEPT ![t] = @ + code[x].disp]
          /\ Done(t, x + code[x].disp)
  /\ UNCHANGED <<program, mem, regions, located, stack, trapped, alive, served,
                 sound, patched, faults>>

Jump(t) ==
  /\ alive /\ t \notin trapped /\ Op(pc[t]) \in {"push", "ret", "nop"}
  /\ CASE Op(pc[t]) = "push" ->
            /\ stack' = [stack EXCEPT ![t] = Append(@, mem[pc[t]].to)]
            /\ pc' = [pc EXCEPT ![t] = @ + 5]
       [] Op(pc[t]) = "ret" /\ stack[t] # <<>> ->
            /\ pc' = [pc EXCEPT ![t] = stack[t][Len(stack[t])]]
            /\ stack' = [stack EXCEPT ![t] = SubSeq(@, 1, Len(@) - 1)]
       [] OTHER ->
            /\ pc' = [pc EXCEPT ![t] = @ + 1]
            /\ UNCHANGED stack
  /\ UNCHANGED <<program, mem, regions, located, trapped, alive, at, served,
                 sound, patched, faults>>

Undefined(t) ==
  /\ alive /\ t \notin trapped /\ Op(pc[t]) = "zero" /\ alive' = FALSE
  /\ UNCHANGED <<program, mem, regions, located, pc, stack, trapped, at,
                 served, sound, patched, faults>>

Trap(t) ==
  /\ alive /\ t \notin trapped /\ IsIo(pc[t])
  /\ trapped' = trapped \cup {t}
  /\ UNCHANGED <<program, mem, regions, located, pc, stack, alive, at, served,
                 sound, patched, faults>>

Serve(t, p) ==
  served' = [served EXCEPT ![t] = [port |-> p, reached |-> p = "register",
                                   beat |-> ~@.beat]]

(* out_byte_fn and in_byte_fn call WritePort8 and ReadPort8, which access  *)
(* the adapter, return at once for a bypassed port and Die for any other.  *)
Call(t) ==
  /\ alive /\ t \notin trapped /\ Op(pc[t]) = "call"
  /\ \/ \E p \in {"register", "bypass"} :
          /\ Serve(t, p) /\ Done(t, mem[pc[t]].x + 1)
          /\ pc' = [pc EXCEPT ![t] = @ + 1]
          /\ UNCHANGED <<alive, sound>>
     \/ Crash /\ UNCHANGED <<pc, at, served>>
  /\ UNCHANGED <<program, mem, regions, located, stack, trapped, patched, faults>>

-----------------------------------------------------------------------------
(* The injector. *)

Fault == faults < MaxFaults /\ faults' = faults + 1

(* Where PatchIoInstruction goes wrong although every call succeeds:       *)
(* another thread stands in the bytes it overwrites, or has trapped there; *)
(* a branch is moved; a branch of the program leads into those bytes.      *)
Overtaken(t, y, e) ==
  \/ \E u \in Threads \ {t} : pc[u] \in (y + 1)..(e - 1)
  \/ \E u \in trapped \ {t} : pc[u] = y
  \/ \E a \in (y + 1)..(e - 1) : Op(a) = "branch"
  \/ \E x \in DOMAIN code : /\ code[x].kind = "branch"
                            /\ x + code[x].disp \in (y + 1)..(e - 1)

\* Mutant: the jump to the worker is written before the worker's pointer
\* and the overwritten instructions.
PartsJumpFirst(y, e, r) ==
  << <<y, JmpFar(r) \o [k \in 1..(e - y - 6) |-> Nop]>>,
     <<r, <<[op |-> "call", x |-> mem[y].x, k |-> 0]>> >>,
     <<r + 1, [k \in 1..(e - y - 1) |-> mem[y + k]]>>,
     <<r + e - y, JmpFar(e)>> >>

\* Mutant: the jump is written after the port instruction, not over it.
PartsAfter(y, e, r) ==
  << <<r, <<[op |-> "call", x |-> mem[y].x, k |-> 0]>> >>,
     <<r + 1, [k \in 1..(e - y - 1) |-> mem[y + k]]>>,
     <<y + 1, JmpFar(r) \o [k \in 1..(e - y - 6) |-> Nop]>>,
     <<r + e - y, JmpFar(e)>> >>

(* What it writes, in this order: the worker function and the pointer it   *)
(* calls, the overwritten instructions up to e, the jump to the worker,    *)
(* and the jump back.                                                      *)
Parts(y, e, r) ==
  << <<r, <<[op |-> "call", x |-> mem[y].x, k |-> 0]>> >>,
     <<r + 1, [k \in 1..(e - y - 1) |-> mem[y + k]]>>,
     <<y, JmpFar(r) \o [k \in 1..(e - y - 6) |-> Nop]>>,
     <<r + e - y, JmpFar(e)>> >>

(* Memory once the first i parts are written; they do not overlap. *)
Written(parts, i) ==
  LET Covers(j, a) == a - parts[j][1] \in 0..(Len(parts[j][2]) - 1)
  IN [a \in Addr |->
        IF \E j \in 1..i : Covers(j, a)
        THEN LET j == CHOOSE j \in 1..i : Covers(j, a)
             IN parts[j][2][a - parts[j][1] + 1]
        ELSE mem[a]]

Refuse(y) == /\ ~Patchable(y) \/ regions = MaxRegions
             /\ UNCHANGED <<mem, regions, sound, patched, faults>>

(* PatchIoInstruction: its result is ignored, the exception counts as      *)
(* handled, and the thread goes on at the address where it trapped.        *)
Patch(t) ==
  /\ IsIo(pc[t]) /\ mempatch
  /\ located' = TRUE
  /\ \E y \in {pc[t]}, e \in {Cut(pc[t])} :
       \/ Refuse(y)
       \/ /\ Patchable(y) /\ regions < MaxRegions
          /\ regions' = regions + 1
          /\ \E parts \in {Parts(y, e, Region(regions + 1))} :
               \/ /\ mem' = Written(parts, 4)
                  /\ sound' = (sound /\ ~Overtaken(t, y, e))
                  /\ patched' = patched \cup {y}
                  /\ UNCHANGED faults
               \/ \E i \in 0..3 :
                    /\ Fault
                    /\ mem' = Written(parts, i)
                    /\ sound' = (sound /\ i < 3)
                    /\ patched' = IF i = 3 THEN patched \cup {y} ELSE patched
       \/ /\ Patchable(y) /\ Fault
          /\ UNCHANGED <<mem, regions, sound, patched>>
  /\ UNCHANGED <<alive, pc, at, served>>

(* The other half of ProcessIoException: the instruction is emulated; only *)
(* its width and its port are looked at, and the context of the thread is  *)
(* written last.                                                           *)
Emulate(t) ==
  /\ IsIo(pc[t]) /\ ~mempatch
  /\ LET i == code[mem[pc[t]].x] IN
       \/ \E p \in {"register", "bypass"} :
            /\ p = "bypass" \/ i.bits = 8
            /\ Serve(t, p) /\ Done(t, mem[pc[t]].x + i.len)
            /\ pc' = [pc EXCEPT ![t] = @ + i.len]
            /\ UNCHANGED <<alive, sound, faults>>
       \/ Crash /\ UNCHANGED <<pc, at, served, faults>>
       \/ Fault /\ Crash /\ Serve(t, "register") /\ UNCHANGED <<pc, at>>
  /\ UNCHANGED <<mem, regions, located, patched>>

(* The exception is passed on to the program: the instruction is not a     *)
(* port instruction, or is not any more; the memory or the thread cannot   *)
(* be read; or the functions of the library are not found, and the         *)
(* injector dies with the program it debugs.                               *)
PassOn(t) ==
  /\ IF IsIo(pc[t]) THEN Fault /\ sound' = FALSE ELSE UNCHANGED <<sound, faults>>
  /\ alive' = FALSE
  /\ UNCHANGED <<mem, regions, located, pc, at, served, patched>>

(* One pass of the loop over WaitForDebugEvent. *)
HandleEvent(t) ==
  /\ alive /\ t \in trapped
  /\ trapped' = trapped \ {t}
  /\ Patch(t) \/ Emulate(t) \/ PassOn(t)
  /\ UNCHANGED <<program, stack>>

Next == \E t \in Threads : \/ Execute(t) \/ Jump(t) \/ Undefined(t) \/ Trap(t)
                           \/ Call(t) \/ HandleEvent(t)

(* Threads run and events are handled. *)
Fairness == \A t \in Threads : WF_vars(Execute(t) \/ Jump(t) \/ Undefined(t)
                                 \/ Trap(t) \/ Call(t) \/ HandleEvent(t))

Spec == Init /\ [][Next]_vars /\ Fairness

-----------------------------------------------------------------------------
(* Properties *)

(* Until a patch overtakes a thread, moves or meets a branch, or loses its *)
(* jump back, and but for ports and widths that cannot be served, the      *)
(* patched or emulated program executes its instructions in order and      *)
(* each port instruction once (PatchIoInstruction, ProcessIoException).    *)
Abstract == INSTANCE IoProgram
ImplementsProgram == Abstract!Spec

(* As long as that holds, no thread executes bytes that are no instruction *)
(* and none is found at anything but a port instruction when its trap is   *)
(* handled (the parts of a patch are written in an order that keeps every  *)
(* prefix of it harmless but the last one).                                *)
NeverLost ==
  sound => \A t \in Threads : /\ Op(pc[t]) # "zero"
                              /\ t \in trapped => IsIo(pc[t])

(* A port instruction that can be patched is passed in the end: no thread  *)
(* traps on it for ever (the result of PatchIoInstruction is ignored).     *)
AtPatchable(t) == mempatch /\ sound /\ Patchable(pc[t])
Passed == \A t \in Threads : []<>~AtPatchable(t)
=============================================================================
