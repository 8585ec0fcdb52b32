----------------------------- MODULE IoProgram ------------------------------
(***************************************************************************)
(* What the injector owes the program it patches (PatchIoInstruction and   *)
(* ProcessIoException of LptPatchInjector.c): the threads execute their    *)
(* instructions in their order, and a port instruction is one access to    *)
(* the adapter, or none for a bypassed port. Once the program is not       *)
(* sound any more nothing is promised.                                     *)
(***************************************************************************)
EXTENDS Integers

CONSTANT Threads

VARIABLES
  code,    \* instruction at each start address
  at,      \* per thread: address of its next instruction
  served,  \* per thread: the port its last port instruction named ("register"
           \* of the adapter, "bypass" or "other"), whether the adapter was
           \* accessed, and a bit that flips every time
  sound    \* nothing has gone wrong

\* Where an instruction at address x may lead.
After(i, x) == {x + i.len} \cup IF i.kind = "branch" THEN {x + i.disp} ELSE {}

Init == /\ at = [t \in Threads |-> 1]
        /\ served = [t \in Threads |->
                        [port |-> "other", reached |-> FALSE, beat |-> FALSE]]
        /\ sound = TRUE

Execute(t) ==
  /\ sound /\ code[at[t]].kind # "exit"
  /\ \E y \in After(code[at[t]], at[t]) : at' = [at EXCEPT ![t] = y]
  /\ IF code[at[t]].kind = "io"
     THEN \E p \in {"register", "bypass"} :
            served' = [served EXCEPT ![t] =
              [port |-> p, reached |-> p = "register", beat |-> ~@.beat]]
     ELSE UNCHANGED served
  /\ UNCHANGED <<code, sound>>

GoWrong == sound /\ sound' = FALSE /\ UNCHANGED code

Next == (\E t \in Threads : Execute(t)) \/ GoWrong \/ (~sound /\ ~sound')

Spec == Init /\ [][Next]_<<code, at, served, sound>>
=============================================================================
