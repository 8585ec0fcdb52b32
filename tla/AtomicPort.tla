----------------------------- MODULE AtomicPort -----------------------------
(***************************************************************************)
(* What the host library promises to the threads that use one adapter: a   *)
(* register file whose accesses happen one at a time, each between the     *)
(* call and its return. A write may still be under way when its call       *)
(* returns, but every access accepted later comes after it. A call that    *)
(* fails may have taken effect or not. When the adapter has the bulk pipes *)
(* calls that wait for their answers at the same time may have these mixed *)
(* up, and one that fails may leave its answer behind: from then on no     *)
(* call is sure of its own. Otherwise a call that waits alone gets its own.*)
(***************************************************************************)
CONSTANTS Threads, Regs, Bytes

NoCall == [cmd |-> "none"]
Calls == [cmd : {"SET_REG"}, reg : Regs, val : Bytes]
           \cup [cmd : {"GET_REG"}, reg : Regs]
           \cup [cmd : {"GET_VERSION", "OTHER"}]

VARIABLES
  regs,    \* the register file
  call,    \* per thread, the access asked for, or NoCall
  due,     \* per thread, what its last accepted access has to return
  answer,  \* per thread, what its last call returned, or "failed"
  shared,  \* answers come through pipes that all threads read
  crossed, \* threads that have not waited alone
  left     \* a call has failed and left its answer

vars == <<regs, call, due, answer, shared, crossed, left>>

Init ==
  /\ regs \in [Regs -> Bytes]
  /\ call = [t \in Threads |-> NoCall]
  /\ due = [t \in Threads |-> "none"]
  /\ answer = [t \in Threads |-> "none"]
  /\ shared \in BOOLEAN /\ crossed = {} /\ left = FALSE

Invoke(t) ==
  /\ call[t] = NoCall
  /\ \E c \in Calls : call' = [call EXCEPT ![t] = c]
  /\ due' = [due EXCEPT ![t] = "none"]
  /\ answer' = [answer EXCEPT ![t] = "none"]
  /\ crossed' = crossed \ {t}
  /\ UNCHANGED <<regs, shared, left>>

Effect(c) ==
  IF c.cmd = "SET_REG" THEN [regs EXCEPT ![c.reg] = c.val] ELSE regs

Due(c) == CASE c.cmd = "GET_REG" -> regs[c.reg]
            [] c.cmd = "GET_VERSION" -> "version"
            [] OTHER -> "done"

HasAnswer(c) == c.cmd \in {"GET_REG", "GET_VERSION"}
Waiting(t) == due[t] # "none" /\ HasAnswer(call[t])

(* The access happens. A lost one will fail, and its answer stays.         *)
Accept(t, lost) ==
  /\ call[t] # NoCall /\ due[t] = "none"
  /\ lost => shared /\ HasAnswer(call[t])
  /\ regs' = Effect(call[t])
  /\ due' = [due EXCEPT ![t] = IF lost THEN "failed" ELSE Due(call[t])]
  /\ left' = (left \/ lost)
  /\ \E others \in SUBSET {u \in Threads \ {t} : Waiting(u)} :
       \/ crossed' = crossed
       \/ /\ shared /\ HasAnswer(call[t]) /\ (left \/ others # {})
          /\ crossed' = crossed \cup {t} \cup others
  /\ UNCHANGED <<call, answer, shared>>

(* The answer is not fetched. *)
Leave(t) ==
  /\ shared /\ Waiting(t)
  /\ due' = [due EXCEPT ![t] = "failed"]
  /\ left' = TRUE
  /\ UNCHANGED <<regs, call, answer, shared, crossed>>

Return(t) ==
  /\ call[t] # NoCall
  /\ call' = [call EXCEPT ![t] = NoCall]
  /\ \E a \in {"failed", due[t]}
                \cup IF t \in crossed THEN Bytes \cup {"version"} ELSE {} :
       a # "none" /\ answer' = [answer EXCEPT ![t] = a]
  /\ UNCHANGED <<regs, due, shared, crossed, left>>

Next ==
  \E t \in Threads :
    \/ Invoke(t) \/ Leave(t) \/ Return(t)
    \/ \E lost \in BOOLEAN : Accept(t, lost)

Spec == Init /\ [][Next]_vars
=============================================================================
