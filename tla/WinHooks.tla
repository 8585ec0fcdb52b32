------------------------------ MODULE WinHooks ------------------------------
(***************************************************************************)
(* The injected library (LptPatchInjectee.c) inside the patched program:   *)
(* DllMain and Init under the loader lock, the hooks of the WinIO device   *)
(* and of the registry key of the parallel ports, and the two functions    *)
(* the patched port instructions call. The handles of the kernel, the      *)
(* program that uses them and the adapter are external.                    *)
(***************************************************************************)
EXTENDS Integers, FiniteSets

CONSTANTS
  Threads, First,   \* threads of the program; the one that loads the library
  Files, Keys,      \* values of file handles and of registry keys
  Ports, Bypass,    \* port numbers used, and behavior:bypass_ports
  Word,             \* number of port numbers, 2^16
  Base,             \* 0x378
  Settings,         \* the settings that may be in the file
  MaxFaults         \* bound on the kernel calls that fail

ASSUME HooksAssumption ==
  /\ First \in Threads
  /\ Base \in Nat /\ Word \in Nat /\ Base + 4 < Word
  /\ Ports \subseteq 0..(Word - 1)
  /\ Files \cap Keys = {} /\ {"null", "invalid"} \cap (Files \cup Keys) = {}
  /\ Settings \subseteq SUBSET {"mempatch", "winio", "ports"}
  /\ MaxFaults \in Nat

Hooks == {"winio", "ports"}
Values(k) == IF k = "winio" THEN Files ELSE Keys
\* NULL, and INVALID_HANDLE_VALUE, as CreateFileA returns it
NoHandle == {"null", "invalid"}

VARIABLES
  settings,   \* as Init loaded them
  attached,   \* hooks in place
  lock,       \* holder of the loader lock, or "free"
  completed,  \* InitCompleted
  adapter,    \* UsbLpt: "closed", "open", "epp"
  opens,      \* number of times it was opened
  alive,      \* the process, until Die
  pc, job,    \* per thread: next step, and what it is about
  kernel,     \* per value: "free", "special" (hooked object) or "plain"
  saved,      \* WinIoHookHandle and ParallelPortsKey
  seen,       \* what the program saw last: a request answered, an open
              \* returned, a register accessed
  closed, reopened, lost,  \* per hook: what the program and the kernel did
  faults

process == <<settings, attached, lock, completed, adapter, opens, alive>>
table == <<kernel, saved>>
history == <<closed, reopened, lost>>
vars == <<process, pc, job, table, seen, history, faults>>

NoJob == [op |-> "none"]
Nothing == [kind |-> "none"]

Init ==
  /\ settings \in Settings /\ attached = {} /\ lock = "free"
  /\ completed = FALSE /\ adapter = "closed" /\ opens = 0 /\ alive = TRUE
  /\ pc = [t \in Threads |-> "new"] /\ job = [t \in Threads |-> NoJob]
  /\ kernel = [v \in Files \cup Keys |-> "free"]
  /\ saved = [k \in Hooks |-> "null"]
  /\ seen = Nothing
  /\ closed = [k \in Hooks |-> FALSE] /\ reopened = closed /\ lost = closed
  /\ faults = 0

Goto(t, l) == pc' = [pc EXCEPT ![t] = l]
Fault == faults < MaxFaults /\ faults' = faults + 1
Die == alive' = FALSE

-----------------------------------------------------------------------------
(* DllMain: for the whole process on the first thread, before the program  *)
(* starts, and again for every new thread; the loader holds its lock.      *)

\* Mutant: DllMain leaves the initialisation to the first port access.
DllMainLazy(t) ==
  /\ alive /\ pc[t] = "new" /\ lock = "free"
  /\ t = First \/ (pc[First] # "new" /\ job[First].op # "DllMain")
  /\ lock' = t /\ Goto(t, "attach")
  /\ job' = [job EXCEPT ![t] = [op |-> "DllMain"]]
  /\ UNCHANGED <<settings, attached, completed, adapter, opens, alive, table,
                 seen, history, faults>>

DllMain(t) ==
  /\ alive /\ pc[t] = "new" /\ lock = "free"
  /\ t = First \/ (pc[First] # "new" /\ job[First].op # "DllMain")
  /\ lock' = t /\ Goto(t, "check")
  /\ job' = [job EXCEPT ![t] = [op |-> "DllMain"]]
  /\ UNCHANGED <<settings, attached, completed, adapter, opens, alive, table,
                 seen, history, faults>>

\* Where Init returns to.
After(t) == IF job[t].op = "DllMain" THEN "attach" ELSE "access"

InitCheck(t) ==
  /\ alive /\ pc[t] = "check"
  /\ IF completed THEN Goto(t, After(t)) /\ UNCHANGED completed
     ELSE IF "mempatch" \in settings THEN Goto(t, "open") /\ UNCHANGED completed
     ELSE Goto(t, After(t)) /\ completed' = TRUE
  /\ UNCHANGED <<settings, attached, lock, adapter, opens, alive, job, table,
                 seen, history, faults>>

InitOpen(t) ==
  /\ alive /\ pc[t] = "open"
  /\ \/ /\ adapter' = "open" /\ opens' = opens + 1 /\ Goto(t, "mode")
        /\ UNCHANGED <<alive, faults>>
     \/ Fault /\ Die /\ UNCHANGED <<adapter, opens, pc>>
  /\ UNCHANGED <<settings, attached, lock, completed, job, table, seen, history>>

InitMode(t) ==
  /\ alive /\ pc[t] = "mode"
  /\ \/ /\ adapter' = "epp" /\ completed' = TRUE /\ Goto(t, After(t))
        /\ UNCHANGED <<alive, faults>>
     \/ Fault /\ Die /\ UNCHANGED <<adapter, completed, pc>>
  /\ UNCHANGED <<settings, attached, lock, opens, job, table, seen, history>>

(* The end of DllMain: on process attach the hooks go in, in one           *)
(* transaction.                                                            *)
Attach(t) ==
  /\ alive /\ pc[t] = "attach"
  /\ attached' = IF t = First THEN settings \cap Hooks ELSE attached
  /\ lock' = "free" /\ Goto(t, "run")
  /\ job' = [job EXCEPT ![t] = NoJob]
  /\ UNCHANGED <<settings, completed, adapter, opens, alive, table, seen,
                 history, faults>>

-----------------------------------------------------------------------------
(* CreateFileA_filter for \\.\WINIO and RegOpenKeyExA_filter for the key   *)
(* of the parallel ports: the real call, then the global, then the return. *)
(* The file is opened without sharing: while it is open it cannot be       *)
(* opened again. A failed RegOpenKeyExA may leave any value in *phkResult. *)

Special(k) == {v \in Values(k) : kernel[v] = "special"}
Opening(k) == {t \in Threads : job[t].op = "open" /\ job[t].hook = k}

(* The values the program has: not those of opens that did not return yet. *)
Held(k) == {v \in Values(k) : kernel[v] # "free"}
             \ {job[t].own : t \in Opening(k)}

OpenSpecial(t, k) ==
  /\ alive /\ pc[t] = "run" /\ k \in attached
  /\ reopened' = [reopened EXCEPT ![k] = @ \/ Special(k) \cup Opening(k) # {}]
  /\ \/ \E v \in Values(k) :
          /\ kernel[v] = "free" /\ (k = "winio" => Special(k) = {})
          /\ kernel' = [kernel EXCEPT ![v] = "special"]
          /\ job' = [job EXCEPT ![t] = [op |-> "open", hook |-> k, own |-> v]]
          /\ UNCHANGED <<lost, faults>>
     \/ \E v \in IF k = "winio" THEN {"invalid"} ELSE Keys \cup {"null"} :
          /\ IF k = "winio" /\ Special(k) # {} THEN UNCHANGED faults ELSE Fault
          /\ job' = [job EXCEPT ![t] = [op |-> "open", hook |-> k, own |-> v]]
          /\ lost' = [lost EXCEPT ![k] = TRUE]
          /\ UNCHANGED kernel
  /\ Goto(t, "save")
  /\ UNCHANGED <<process, saved, seen, closed>>

\* Mutant: a value saved before is kept.
SaveOnce(t) ==
  /\ alive /\ pc[t] = "save"
  /\ saved' = [saved EXCEPT ![job[t].hook] = IF @ = "null" THEN job[t].own ELSE @]
  /\ Goto(t, "return")
  /\ UNCHANGED <<process, job, kernel, seen, history, faults>>

Save(t) ==
  /\ alive /\ pc[t] = "save"
  /\ saved' = [saved EXCEPT ![job[t].hook] = job[t].own]
  /\ Goto(t, "return")
  /\ UNCHANGED <<process, job, kernel, seen, history, faults>>

(* CreateFileA_filter returns the global: the value it has just stored, or *)
(* what another thread has stored since.                                   *)
Return(t) ==
  /\ alive /\ pc[t] = "return"
  /\ seen' = [kind |-> "opened", hook |-> job[t].hook, own |-> job[t].own,
              got |-> IF job[t].hook = "winio" THEN saved["winio"]
                      ELSE job[t].own]
  /\ Goto(t, "run") /\ job' = [job EXCEPT ![t] = NoJob]
  /\ UNCHANGED <<process, table, history, faults>>

\* Mutant: the handle of every file is taken for the hooked one.
OpenOtherSaved(t, k) ==
  /\ alive /\ pc[t] = "run"
  /\ \E v \in Values(k) :
       /\ kernel[v] = "free"
       /\ kernel' = [kernel EXCEPT ![v] = "plain"]
       /\ saved' = [saved EXCEPT ![k] = v]
  /\ UNCHANGED <<process, pc, job, seen, history, faults>>

(* Any other name, and every name without the hook. *)
OpenOther(t, k) ==
  /\ alive /\ pc[t] = "run"
  /\ \E v \in Values(k) :
       /\ kernel[v] = "free"
       /\ kernel' = [kernel EXCEPT ![v] = "plain"]
  /\ UNCHANGED <<process, pc, job, saved, seen, history, faults>>

CloseHandle(t, k) ==
  /\ alive /\ pc[t] = "run"
  /\ \E v \in Held(k) :
       /\ closed' = [closed EXCEPT ![k] = @ \/ kernel[v] = "special"]
       /\ kernel' = [kernel EXCEPT ![v] = "free"]
  /\ UNCHANGED <<process, pc, job, saved, seen, reopened, lost, faults>>

(* DeviceIoControl_filter, RegEnumValueA_filter and RegQueryValueExA_filter *)
(* answer themselves for the saved value, and pass every other one on. The  *)
(* last one also passes on what does not ask for LPT0_KEY, the one value    *)
(* the hooked key is said to have: lpt0 is FALSE for such a query only.     *)
Request(t, k) ==
  /\ alive /\ pc[t] = "run"
  /\ \E v \in Held(k), lpt0 \in IF k = "ports" THEN BOOLEAN ELSE {TRUE} :
       /\ seen' = [kind |-> "request", hook |-> k, object |-> kernel[v], lpt0 |-> lpt0,
                   by |-> IF k \in attached /\ saved[k] = v /\ lpt0 THEN "hook"
                          ELSE "kernel"]
  /\ UNCHANGED <<process, pc, job, table, history, faults>>

-----------------------------------------------------------------------------
(* WritePort8 and ReadPort8, called in place of the patched instructions.  *)

Port(t, p) ==
  /\ alive /\ pc[t] = "run" /\ "mempatch" \in settings
  /\ Goto(t, "check")
  /\ job' = [job EXCEPT ![t] = [op |-> "port", port |-> p]]
  /\ UNCHANGED <<process, table, seen, history, faults>>

\* Mutant: the port number is not reduced to its sixteen bits.
RegisterSigned(p) == p - Base

(* port -= 0x378, in a uint16_t. *)
Register(p) == (p - Base) % Word

Access(t) ==
  /\ alive /\ pc[t] = "access"
  /\ LET p == job[t].port IN
       \/ p \in Bypass /\ UNCHANGED <<alive, seen, faults>>
       \/ p \notin Bypass /\ Register(p) > 4 /\ Die /\ UNCHANGED <<seen, faults>>
       \/ /\ p \notin Bypass /\ Register(p) <= 4
          /\ seen' = [kind |-> "access", port |-> p, reg |-> Register(p)]
          /\ UNCHANGED <<alive, faults>>
       \/ p \notin Bypass /\ Register(p) <= 4 /\ Fault /\ Die /\ UNCHANGED seen
  /\ Goto(t, "run") /\ job' = [job EXCEPT ![t] = NoJob]
  /\ UNCHANGED <<settings, attached, lock, completed, adapter, opens, table,
                 history>>

Next ==
  \E t \in Threads :
    \/ DllMain(t) \/ InitCheck(t) \/ InitOpen(t) \/ InitMode(t) \/ Attach(t)
    \/ \E k \in Hooks : \/ OpenSpecial(t, k) \/ OpenOther(t, k)
                        \/ CloseHandle(t, k) \/ Request(t, k)
    \/ Save(t) \/ Return(t)
    \/ \E p \in Ports : Port(t, p)
    \/ Access(t)

Spec == Init /\ [][Next]_vars

-----------------------------------------------------------------------------
(* Properties *)

Handles == Files \cup Keys
Jobs == {NoJob, [op |-> "DllMain"]} \cup [op : {"port"}, port : Ports]
          \cup [op : {"open"}, hook : Hooks, own : Handles \cup NoHandle]

(* Types of the state of the library (WinIoHookHandle, ParallelPortsKey,   *)
(* InitCompleted, UsbLpt) and of the threads that are inside it.           *)
TypeOK ==
  /\ settings \in Settings /\ attached \subseteq settings \cap Hooks
  /\ lock \in Threads \cup {"free"}
  /\ completed \in BOOLEAN /\ alive \in BOOLEAN
  /\ adapter \in {"closed", "open", "epp"} /\ opens \in Nat
  /\ pc \in [Threads -> {"new", "check", "open", "mode", "attach", "run",
                         "save", "return", "access"}]
  /\ job \in [Threads -> Jobs]
  /\ kernel \in [Handles -> {"free", "special", "plain"}]
  /\ saved \in [Hooks -> Handles \cup NoHandle]
  /\ {closed, reopened, lost} \subseteq [Hooks -> BOOLEAN]

(* Init, which takes no lock of its own, opens the adapter once, and no    *)
(* port is accessed before it is open and in EPP mode: DllMain has run     *)
(* Init under the loader lock before any other thread comes to it.         *)
OneInit ==
  /\ opens <= 1
  /\ \A t \in Threads :
       pc[t] = "access" => completed /\ adapter = "epp"

(* The hooks answer for an object that is not theirs only when the value   *)
(* they compare with has outlived its object: the program has closed a     *)
(* hooked object, or opening the key has failed, at some time before       *)
(* (CreateFileA_filter, RegOpenKeyExA_filter).                             *)
ForeignOnlyIfStale ==
  \A k \in Hooks, lpt0 \in BOOLEAN :
    seen = [kind |-> "request", hook |-> k, by |-> "hook", object |-> "plain", lpt0 |-> lpt0]
      => closed[k] \/ (k = "ports" /\ lost[k])

(* A request for a hooked object that a hook has an answer to reaches the  *)
(* kernel only when the program opened the object again while it was open  *)
(* or being opened, or when an open was in vain, now or at any time        *)
(* before. A query of the hooked key for another value than LPT0_KEY has   *)
(* no answer in the hook (RegQueryValueExA_filter) and is not meant here.  *)
HookedIsAnswered ==
  \A k \in Hooks :
    seen = [kind |-> "request", hook |-> k, by |-> "kernel", object |-> "special", lpt0 |-> TRUE]
      => reopened[k] \/ lost[k]

(* The handle an open of the WinIO device returns is its own, as long as   *)
(* no open has begun while the device was open or being opened             *)
(* (CreateFileA_filter returns the global variable, which another open     *)
(* overwrites). From the first such open on nothing is promised.           *)
OwnHandle ==
  seen.kind = "opened" => seen.got = seen.own \/ reopened[seen.hook]

(* A port access reaches the register at its distance from 0x378 and never *)
(* one for a port that is bypassed or below the base, whose distance wraps.*)
RightRegister ==
  seen.kind = "access" =>
    /\ seen.port \notin Bypass
    /\ seen.reg \in 0..4 /\ seen.port = Base + seen.reg
    /\ "mempatch" \in settings
=============================================================================
