--------------------------- MODULE WinHooksProofs ---------------------------
(***************************************************************************)
(* The invariants of WinHooks, for any number of threads, handles, ports   *)
(* and failures: Init runs once, ports reach their registers, and the      *)
(* hooks know their objects as long as these are opened one at a time.     *)
(***************************************************************************)
EXTENDS WinHooks, TLAPS

(* Which job a thread has at each step.                                    *)
JobInv ==
  \A t \in Threads :
    /\ pc[t] \in {"new", "run"} => job[t] = NoJob
    /\ pc[t] \in {"check", "open", "mode"} => job[t].op \in {"DllMain", "port"}
    /\ pc[t] = "attach" => job[t].op = "DllMain"
    /\ pc[t] \in {"save", "return"} => job[t].op = "open"
    /\ pc[t] = "access" => job[t].op = "port"
    /\ job[t].op = "port" => "mempatch" \in settings

(* Until InitCompleted is set only the first thread runs, inside DllMain;  *)
(* afterwards nobody is inside Init behind its test.                       *)
StartInv ==
  /\ \A t \in Threads :
       \/ pc[t] = "new" \/ completed
       \/ t = First /\ job[t].op = "DllMain" /\ pc[t] \in {"check", "open", "mode"}
  /\ completed => \A t \in Threads : pc[t] \notin {"open", "mode"}
  /\ ~completed => opens = IF pc[First] = "mode" THEN 1 ELSE 0
  /\ opens <= 1
  /\ completed /\ "mempatch" \in settings => adapter = "epp"

(* What CreateFileA_filter or RegOpenKeyExA_filter has stored, or is about *)
(* to store, is a hooked object, or an excuse is on record.                *)
Excused(k, v) ==
  v \in Values(k) =>
    kernel[v] = "special" \/ closed[k] \/ (k = "ports" /\ lost[k])

SavedInv ==
  /\ \A k \in Hooks : Excused(k, saved[k])
  /\ \A t \in Threads : job[t].op = "open" => Excused(job[t].hook, job[t].own)

(* As long as a hooked object is opened by one thread at a time, it is the *)
(* one that is stored or about to be stored, and an open still under way   *)
(* returns what it has stored.                                             *)
Storing(k, v) ==
  \E t \in Threads :
    pc[t] = "save" /\ job[t].op = "open" /\ job[t].hook = k /\ job[t].own = v

AnswerFor(k) ==
  /\ \A t, u \in Opening(k) : t # u => reopened[k]
  /\ \A t \in Opening(k) : pc[t] = "return" => saved[k] = job[t].own \/ reopened[k]
  /\ \/ reopened[k] \/ lost[k]
     \/ \A v \in Values(k) : kernel[v] = "special" =>
          /\ k \in attached
          /\ saved[k] = v \/ Storing(k, v)
          /\ \A t \in Opening(k) : job[t].own = v

AnswerInv == \A k \in Hooks : AnswerFor(k)

(* OwnHandle, of a hook. *)
OwnInv == OwnHandle /\ (seen.kind = "opened" => seen.hook \in Hooks)

HooksInv == TypeOK /\ JobInv /\ StartInv /\ RightRegister /\ SavedInv
              /\ ForeignOnlyIfStale /\ AnswerInv /\ HookedIsAnswered /\ OwnInv

-----------------------------------------------------------------------------
(* The steps of Init that may fail: they have their effect, or the process *)
(* dies and only that changes.                                             *)

LEMMA OpenEffect ==
  ASSUME NEW t \in Threads, InitOpen(t)
  PROVE  /\ pc[t] = "open"
         /\ \/ adapter' = "open" /\ opens' = opens + 1 /\ Goto(t, "mode")
            \/ UNCHANGED <<adapter, opens, pc>>
         /\ UNCHANGED <<settings, attached, lock, completed, job, table, seen, history>>
BY Zenon DEF InitOpen

LEMMA ModeEffect ==
  ASSUME NEW t \in Threads, InitMode(t)
  PROVE  /\ pc[t] = "mode"
         /\ \/ adapter' = "epp" /\ completed' = TRUE /\ Goto(t, After(t))
            \/ UNCHANGED <<adapter, completed, pc>>
         /\ UNCHANGED <<settings, attached, lock, opens, job, table, seen, history>>
BY Zenon DEF InitMode

LEMMA AccessEffect ==
  ASSUME NEW t \in Threads, Access(t)
  PROVE  \/ UNCHANGED seen
         \/ /\ job[t].port \notin Bypass /\ Register(job[t].port) <= 4
            /\ seen' = [kind |-> "access", port |-> job[t].port,
                        reg |-> Register(job[t].port)]
BY Zenon DEF Access

-----------------------------------------------------------------------------
(* Types and jobs. *)

LEMMA TypeStep ==
  ASSUME TypeOK, JobInv, [Next]_vars
  PROVE  TypeOK' /\ JobInv'
<1>1. ASSUME NEW t \in Threads, DllMain(t)
      PROVE  TypeOK' /\ JobInv'
  <2>1. TypeOK'
    BY <1>1 DEF DllMain, TypeOK, JobInv, Jobs, table, history, Goto
  <2>2. JobInv'
    BY <1>1 DEF DllMain, TypeOK, JobInv, Goto
  <2>. QED  BY <2>1, <2>2
<1>2. ASSUME NEW t \in Threads, InitCheck(t)
      PROVE  TypeOK' /\ JobInv'
  <2>1. TypeOK'
    BY <1>2 DEF InitCheck, Goto, After, TypeOK, table, history
  <2>2. JobInv'
    BY <1>2 DEF InitCheck, Goto, After, TypeOK, JobInv, Jobs, NoJob
  <2>. QED  BY <2>1, <2>2
<1>3. ASSUME NEW t \in Threads, InitOpen(t)
      PROVE  TypeOK' /\ JobInv'
  <2>1. TypeOK'
    <3>1. opens' \in Nat /\ adapter' \in {"closed", "open", "epp"}
      BY <1>3, OpenEffect DEF TypeOK
    <3>3. alive' \in BOOLEAN
      BY <1>3, Zenon DEF InitOpen, Die, TypeOK
    <3>2. pc' \in [Threads -> {"new", "check", "open", "mode", "attach", "run",
                               "save", "return", "access"}]
      BY <1>3 DEF InitOpen, Goto, TypeOK
    <3>. QED  BY <1>3, <3>1, <3>2, <3>3 DEF InitOpen, TypeOK, table, history
  <2>2. JobInv'
    BY ZenonT(60), <1>3 DEF InitOpen, Goto, TypeOK, JobInv
  <2>. QED  BY <2>1, <2>2
<1>4. ASSUME NEW t \in Threads, InitMode(t)
      PROVE  TypeOK' /\ JobInv'
  <2>1. TypeOK'
    BY <1>4 DEF InitMode, Goto, After, Die, TypeOK, table, history
  <2>2. JobInv'
    BY ZenonT(60), <1>4 DEF InitMode, Goto, After, TypeOK, JobInv
  <2>. QED  BY <2>1, <2>2
<1>5. ASSUME NEW t \in Threads, Attach(t)
      PROVE  TypeOK' /\ JobInv'
  <2>1. TypeOK'
    BY <1>5 DEF Attach, TypeOK, JobInv, Jobs, table, history, Goto
  <2>2. JobInv'
    BY <1>5 DEF Attach, TypeOK, JobInv, NoJob, Goto
  <2>. QED  BY <2>1, <2>2
<1>6. ASSUME NEW t \in Threads, NEW k \in Hooks, OpenSpecial(t, k)
      PROVE  TypeOK' /\ JobInv'
  <2>1. TypeOK'
    <3>1. job' \in [Threads -> Jobs]
      BY <1>6 DEF OpenSpecial, TypeOK, Jobs, Values, Hooks, Handles, NoHandle
    <3>2. reopened' \in [Hooks -> BOOLEAN]
      BY <1>6, Zenon DEF OpenSpecial, TypeOK
    <3>3. lost' \in [Hooks -> BOOLEAN] /\ closed' \in [Hooks -> BOOLEAN]
      BY <1>6 DEF OpenSpecial, TypeOK
    <3>4. kernel' \in [Handles -> {"free", "special", "plain"}]
      BY <1>6 DEF OpenSpecial, TypeOK
    <3>5. pc' \in [Threads -> {"new", "check", "open", "mode", "attach", "run",
                               "save", "return", "access"}]
      BY <1>6 DEF OpenSpecial, Goto, TypeOK
    <3>. QED  BY <1>6, <3>1, <3>2, <3>3, <3>4, <3>5 DEF OpenSpecial, TypeOK, process
  <2>2. JobInv'
    BY <1>6 DEF OpenSpecial, TypeOK, JobInv, process, Goto
  <2>. QED  BY <2>1, <2>2
<1>7. ASSUME NEW t \in Threads, NEW k \in Hooks, OpenOther(t, k)
      PROVE  TypeOK' /\ JobInv'
  <2>1. TypeOK'
    BY <1>7 DEF OpenOther, TypeOK, JobInv, process, history
  <2>2. JobInv'
    BY <1>7 DEF OpenOther, TypeOK, JobInv, process
  <2>. QED  BY <2>1, <2>2
<1>8. ASSUME NEW t \in Threads, NEW k \in Hooks, CloseHandle(t, k)
      PROVE  TypeOK' /\ JobInv'
  <2>1. TypeOK'
    BY <1>8 DEF CloseHandle, TypeOK, JobInv, process, Values, Handles, Held
  <2>2. JobInv'
    BY <1>8 DEF CloseHandle, TypeOK, JobInv, process
  <2>. QED  BY <2>1, <2>2
<1>9. ASSUME NEW t \in Threads, NEW k \in Hooks, Request(t, k)
      PROVE  TypeOK' /\ JobInv'
  <2>1. TypeOK'
    BY <1>9 DEF Request, TypeOK, JobInv, process, table, history
  <2>2. JobInv'
    BY <1>9 DEF Request, TypeOK, JobInv, process
  <2>. QED  BY <2>1, <2>2
<1>10. ASSUME NEW t \in Threads, Save(t)
      PROVE  TypeOK' /\ JobInv'
  <2>1. TypeOK'
    BY <1>10 DEF Save, TypeOK, JobInv, Jobs, NoJob, process, history, Goto
  <2>2. JobInv'
    BY <1>10 DEF Save, TypeOK, JobInv, process, Goto
  <2>. QED  BY <2>1, <2>2
<1>11. ASSUME NEW t \in Threads, Return(t)
      PROVE  TypeOK' /\ JobInv'
  <2>1. TypeOK'
    BY <1>11 DEF Return, TypeOK, JobInv, Jobs, process, table, history, Goto
  <2>2. JobInv'
    BY <1>11 DEF Return, TypeOK, JobInv, NoJob, process, Goto
  <2>. QED  BY <2>1, <2>2
<1>12. ASSUME NEW t \in Threads, NEW p \in Ports, Port(t, p)
      PROVE  TypeOK' /\ JobInv'
  <2>1. TypeOK'
    BY <1>12 DEF Port, TypeOK, JobInv, Jobs, process, table, history, Goto
  <2>2. JobInv'
    BY <1>12 DEF Port, TypeOK, JobInv, process, Goto
  <2>. QED  BY <2>1, <2>2
<1>13. ASSUME NEW t \in Threads, Access(t)
      PROVE  TypeOK' /\ JobInv'
  <2>1. TypeOK'
    BY <1>13 DEF Access, TypeOK, JobInv, Jobs, table, history, Goto, Die
  <2>2. JobInv'
    BY <1>13 DEF Access, TypeOK, JobInv, Goto
  <2>. QED  BY <2>1, <2>2
<1>14. CASE UNCHANGED vars
  BY <1>14 DEF vars, process, table, history, TypeOK, JobInv
<1>. QED
  BY <1>1, <1>2, <1>3, <1>4, <1>5, <1>6, <1>7, <1>8, <1>9, <1>10, <1>11, <1>12, <1>13, <1>14 DEF Next

-----------------------------------------------------------------------------
(* Init runs once. *)

LEMMA StartStep ==
  ASSUME TypeOK, JobInv, StartInv, [Next]_vars
  PROVE  StartInv'
<1>. USE HooksAssumption
<1>1. ASSUME NEW t \in Threads, DllMain(t)
      PROVE  StartInv'
  BY <1>1 DEF DllMain, Goto, TypeOK, JobInv, StartInv, NoJob
<1>2. ASSUME NEW t \in Threads, InitCheck(t)
      PROVE  StartInv'
  BY <1>2 DEF InitCheck, Goto, After, TypeOK, JobInv, StartInv
<1>3. ASSUME NEW t \in Threads, InitOpen(t)
      PROVE  StartInv'
  BY <1>3, OpenEffect DEF Goto, TypeOK, JobInv, StartInv
<1>4. ASSUME NEW t \in Threads, InitMode(t)
      PROVE  StartInv'
  <2>1. ~completed /\ t = First /\ job[t].op = "DllMain"
          /\ \A u \in Threads : u # First => pc[u] = "new"
    BY <1>4, ModeEffect DEF StartInv
  <2>2. CASE adapter' = "epp" /\ completed' = TRUE /\ Goto(t, "attach")
    BY <1>4, ModeEffect, <2>1, <2>2 DEF Goto, TypeOK, StartInv
  <2>3. CASE UNCHANGED <<adapter, completed, pc>>
    BY <1>4, ModeEffect, <2>3 DEF StartInv
  <2>. QED  BY <1>4, ModeEffect, <2>1, <2>2, <2>3 DEF After
<1>5. ASSUME NEW t \in Threads, Attach(t)
      PROVE  StartInv'
  BY <1>5 DEF Attach, Goto, TypeOK, JobInv, StartInv
<1>6. ASSUME NEW t \in Threads, NEW k \in Hooks, OpenSpecial(t, k)
      PROVE  StartInv'
  BY <1>6 DEF OpenSpecial, Goto, process, TypeOK, JobInv, StartInv, NoJob
<1>7. ASSUME NEW t \in Threads, NEW k \in Hooks,
             OpenOther(t, k) \/ CloseHandle(t, k) \/ Request(t, k)
      PROVE  StartInv'
  BY <1>7 DEF OpenOther, CloseHandle, Request, process, TypeOK, StartInv
<1>8. ASSUME NEW t \in Threads, Save(t) \/ Return(t)
      PROVE  StartInv'
  BY <1>8 DEF Save, Return, Goto, process, TypeOK, JobInv, StartInv
<1>9. ASSUME NEW t \in Threads, NEW p \in Ports, Port(t, p)
      PROVE  StartInv'
  BY <1>9 DEF Port, Goto, process, TypeOK, JobInv, StartInv, NoJob
<1>10. ASSUME NEW t \in Threads, Access(t)
       PROVE  StartInv'
  BY <1>10 DEF Access, Goto, TypeOK, JobInv, StartInv
<1>11. CASE UNCHANGED vars
  BY <1>11 DEF vars, process, StartInv
<1>. QED
  BY <1>1, <1>2, <1>3, <1>4, <1>5, <1>6, <1>7, <1>8, <1>9, <1>10, <1>11 DEF Next

LEMMA StartImplies ==
  ASSUME TypeOK, JobInv, StartInv
  PROVE  OneInit
BY HooksAssumption DEF TypeOK, JobInv, StartInv, OneInit, Jobs, NoJob

(* A distance from Base of at most 4, modulo Word, is no wrapped one. *)
LEMMA ModRegister ==
  ASSUME NEW p \in 0..(Word - 1), Register(p) <= 4
  PROVE  Register(p) \in 0..4 /\ p = Base + Register(p)
<1>1. CASE p >= Base
  <2>1. p - Base \in 0..(Word - 1)
    BY <1>1, HooksAssumption
  <2>2. (p - Base) % Word = p - Base
    BY <2>1, HooksAssumption
  <2>. QED  BY <1>1, <2>2, HooksAssumption DEF Register
<1>2. CASE p < Base
  <2>1. p - Base + Word \in 5..(Word - 1)
    BY <1>2, HooksAssumption
  <2>2. (p - Base) % Word = p - Base + Word
    BY <2>1, <1>2, HooksAssumption
  <2>. QED  BY <2>1, <2>2, HooksAssumption DEF Register
<1>. QED  BY <1>1, <1>2, HooksAssumption

LEMMA RegisterStep ==
  ASSUME TypeOK, JobInv, RightRegister, [Next]_vars
  PROVE  RightRegister'
<1>1. ASSUME NEW t \in Threads, Access(t)
      PROVE  RightRegister'
  <2>1. job[t].op = "port" /\ job[t].port \in Ports /\ "mempatch" \in settings
    BY <1>1 DEF Access, TypeOK, JobInv, Jobs, NoJob
  <2>2. Register(job[t].port) <= 4 =>
          Register(job[t].port) \in 0..4 /\ job[t].port = Base + Register(job[t].port)
    BY <2>1, ModRegister, HooksAssumption
  <2>3. UNCHANGED settings
    BY <1>1 DEF Access
  <2>. QED  BY <1>1, <2>1, <2>2, <2>3, AccessEffect DEF RightRegister
<1>2. ASSUME NEW t \in Threads, NEW k \in Hooks, Request(t, k)
      PROVE  RightRegister'
  BY <1>2 DEF Request, RightRegister
<1>3. ASSUME NEW t \in Threads, Return(t)
      PROVE  RightRegister'
  BY <1>3 DEF Return, RightRegister
<1>4. CASE UNCHANGED <<settings, seen>>
  BY <1>4 DEF RightRegister
<1>. QED
  BY <1>1, <1>2, <1>3, <1>4 DEF Next, vars, process, DllMain, InitCheck, InitOpen,
     InitMode, Attach, OpenSpecial, OpenOther, CloseHandle, Save, Port

-----------------------------------------------------------------------------
(* The hooks know their objects. *)

(* Values of the two hooks are different things. *)
LEMMA ValuesDisjoint ==
  ASSUME NEW k \in Hooks, NEW l \in Hooks, NEW v \in Values(k), v \in Values(l)
  PROVE  k = l
BY HooksAssumption DEF Hooks, Values

LEMMA SavedStep ==
  ASSUME TypeOK, JobInv, SavedInv, [Next]_vars
  PROVE  SavedInv'
<1>1. ASSUME NEW t \in Threads, NEW k \in Hooks, OpenSpecial(t, k)
      PROVE  SavedInv'
  <2>1. PICK o \in Handles \cup NoHandle :
          /\ job' = [job EXCEPT ![t] = [op |-> "open", hook |-> k, own |-> o]]
          /\ \/ /\ o \in Values(k) /\ kernel' = [kernel EXCEPT ![o] = "special"]
                /\ UNCHANGED lost
             \/ /\ k = "winio" => o = "invalid"
                /\ UNCHANGED kernel /\ lost' = [lost EXCEPT ![k] = TRUE]
    BY <1>1 DEF OpenSpecial, Handles, NoHandle, Values, Hooks
  <2>2. \A l \in Hooks : \A v : Excused(l, v) => Excused(l, v)'
    BY <1>1, <2>1 DEF OpenSpecial, Excused, TypeOK, Values, Handles, Hooks
  <2>3. Excused(k, o)'
    BY <1>1, <2>1, HooksAssumption DEF OpenSpecial, Excused, TypeOK, Values, Handles, Hooks
  <2>. QED  BY <1>1, <2>1, <2>2, <2>3 DEF OpenSpecial, SavedInv, TypeOK, Jobs, NoJob
<1>2. ASSUME NEW t \in Threads, NEW k \in Hooks, OpenOther(t, k)
      PROVE  SavedInv'
  <2>1. \A l \in Hooks : \A v : Excused(l, v) => Excused(l, v)'
    BY <1>2 DEF OpenOther, history, Excused, TypeOK, Values, Handles, Hooks
  <2>. QED  BY <1>2, <2>1 DEF OpenOther, SavedInv, TypeOK, Jobs, NoJob
<1>3. ASSUME NEW t \in Threads, NEW k \in Hooks, CloseHandle(t, k)
      PROVE  SavedInv'
  <2>2. PICK h \in Values(k) :
          /\ closed' = [closed EXCEPT ![k] = @ \/ kernel[h] = "special"]
          /\ kernel' = [kernel EXCEPT ![h] = "free"]
    BY <1>3 DEF CloseHandle, Held
  <2>3. closed'[k] <=> closed[k] \/ kernel[h] = "special"
    BY <2>2, Zenon DEF TypeOK
  <2>4. \A l \in Hooks : l # k => closed'[l] = closed[l]
    BY <2>2 DEF TypeOK
  <2>1. \A l \in Hooks : \A v : Excused(l, v) => Excused(l, v)'
    BY <1>3, <2>2, <2>3, <2>4, ValuesDisjoint
       DEF CloseHandle, Excused, TypeOK, Values, Handles, Hooks
  <2>. QED  BY <1>3, <2>1 DEF CloseHandle, SavedInv, TypeOK, Jobs, NoJob
<1>4. ASSUME NEW t \in Threads, Save(t)
      PROVE  SavedInv'
  <2>1. job[t].op = "open" /\ job[t].hook \in Hooks
    BY <1>4 DEF Save, TypeOK, JobInv, Jobs, NoJob
  <2>2. \A l, v : Excused(l, v) <=> Excused(l, v)'
    BY <1>4 DEF Save, history, Excused
  <2>. QED  BY <1>4, <2>1, <2>2 DEF Save, SavedInv, TypeOK
<1>5. ASSUME UNCHANGED <<table, history>>,
             \A t \in Threads : job'[t] = job[t] \/ job'[t].op # "open"
      PROVE  SavedInv'
  BY <1>5 DEF SavedInv, Excused, table, history
<1>6. ASSUME NEW t \in Threads, NEW k \in Hooks, Request(t, k)
      PROVE  SavedInv'
  BY <1>6, <1>5 DEF Request
<1>7. ASSUME NEW t \in Threads,
             \/ DllMain(t) \/ InitCheck(t) \/ Attach(t) \/ Return(t)
             \/ \E p \in Ports : Port(t, p)
      PROVE  SavedInv'
  BY <1>7, <1>5 DEF DllMain, InitCheck, Attach, Return, Port, TypeOK, NoJob
<1>8. ASSUME NEW t \in Threads, InitOpen(t) \/ InitMode(t) \/ Access(t)
      PROVE  SavedInv'
  BY <1>8, <1>5 DEF InitOpen, InitMode, Access, TypeOK, NoJob, table, history
<1>9. CASE UNCHANGED vars
  BY <1>9, <1>5 DEF vars
<1>. QED
  BY <1>1, <1>2, <1>3, <1>4, <1>6, <1>7, <1>8, <1>9 DEF Next

(* Only a request changes what the request seen last was. *)
LEMMA SeenRequest ==
  ASSUME [Next]_vars, seen'.kind = "request"
  PROVE  \/ \E t \in Threads, k \in Hooks : Request(t, k)
         \/ UNCHANGED seen
<1>1. ASSUME NEW t \in Threads, Access(t)
      PROVE  UNCHANGED seen
  BY <1>1, AccessEffect
<1>2. ASSUME NEW t \in Threads, Return(t)
      PROVE  UNCHANGED seen
  BY <1>2 DEF Return
<1>. QED
  BY <1>1, <1>2 DEF Next, vars, DllMain, InitCheck, InitOpen,
     InitMode, Attach, OpenSpecial, OpenOther, CloseHandle, Save, Port

(* The records of what was done are kept. *)
LEMMA HistoryKept ==
  ASSUME TypeOK, [Next]_vars
  PROVE  \A k \in Hooks : /\ closed[k] => closed'[k]
                          /\ reopened[k] => reopened'[k]
                          /\ lost[k] => lost'[k]
<1>1. ASSUME NEW t \in Threads, NEW k \in Hooks, OpenSpecial(t, k)
      PROVE  \A l \in Hooks : /\ closed[l] => closed'[l]
                              /\ reopened[l] => reopened'[l]
                              /\ lost[l] => lost'[l]
  BY <1>1 DEF OpenSpecial, TypeOK
<1>2. ASSUME NEW t \in Threads, NEW k \in Hooks, CloseHandle(t, k)
      PROVE  \A l \in Hooks : /\ closed[l] => closed'[l]
                              /\ reopened[l] => reopened'[l]
                              /\ lost[l] => lost'[l]
  BY <1>2 DEF CloseHandle, TypeOK
<1>3. CASE UNCHANGED history
  BY <1>3 DEF history
<1>. QED
  BY <1>1, <1>2, <1>3 DEF Next, vars, DllMain, InitCheck, InitOpen,
     InitMode, Attach, OpenOther, Request, Save, Return, Port, Access

LEMMA ForeignStep ==
  ASSUME TypeOK, SavedInv, ForeignOnlyIfStale, [Next]_vars
  PROVE  ForeignOnlyIfStale'
<1>1. ASSUME NEW t \in Threads, NEW k \in Hooks, Request(t, k)
      PROVE  ForeignOnlyIfStale'
  <2>1. PICK v \in Values(k), lpt0 \in BOOLEAN :
          seen' = [kind |-> "request", hook |-> k, object |-> kernel[v], lpt0 |-> lpt0,
                   by |-> IF k \in attached /\ saved[k] = v /\ lpt0 THEN "hook" ELSE "kernel"]
    BY <1>1 DEF Request, Held
  <2>2. saved[k] = v /\ kernel[v] = "plain" => closed[k] \/ (k = "ports" /\ lost[k])
    BY <2>1 DEF SavedInv, Excused
  <2>3. seen'.hook = k /\ seen'.object = kernel[v] /\ (seen'.by = "hook" => saved[k] = v)
    BY <2>1
  <2>. QED  BY <1>1, <2>2, <2>3 DEF Request, history, ForeignOnlyIfStale
<1>2. CASE UNCHANGED seen
  BY <1>2, HistoryKept DEF ForeignOnlyIfStale
<1>3. CASE seen'.kind # "request"
  BY <1>3 DEF ForeignOnlyIfStale
<1>. QED  BY <1>1, <1>2, <1>3, SeenRequest

(* A step that stores nothing, opens no hooked object and takes no thread  *)
(* out of an open before it has stored keeps what is known of a hook.      *)
LEMMA AnswerFrame ==
  ASSUME NEW k \in Hooks, AnswerFor(k),
         saved'[k] = saved[k], k \in attached => k \in attached',
         reopened[k] => reopened'[k], lost[k] => lost'[k],
         \A v \in Values(k) : kernel'[v] = "special" => kernel[v] = "special",
         \A t \in Opening(k)' : t \in Opening(k) /\ job'[t] = job[t] /\ pc'[t] = pc[t],
         \A t \in Opening(k) : pc[t] = "save" => t \in Opening(k)'
  PROVE  AnswerFor(k)'
<1>1. \A v : Storing(k, v) => Storing(k, v)'
  BY DEF Storing, Opening
<1>2. (\A t, u \in Opening(k) : t # u => reopened[k])'
  BY DEF AnswerFor
<1>3. (\A t \in Opening(k) : pc[t] = "return" => saved[k] = job[t].own \/ reopened[k])'
  BY DEF AnswerFor
<1>4. (\/ reopened[k] \/ lost[k]
       \/ \A v \in Values(k) : kernel[v] = "special" =>
            /\ k \in attached
            /\ saved[k] = v \/ Storing(k, v)
            /\ \A t \in Opening(k) : job[t].own = v)'
  BY <1>1 DEF AnswerFor, Values
<1>. QED  BY <1>2, <1>3, <1>4 DEF AnswerFor

(* Once an excuse is on record little remains to be known.                 *)
LEMMA AnswerExcused ==
  ASSUME NEW k \in Hooks,
         \/ reopened'[k]
         \/ lost'[k] /\ \E t : Opening(k)' = {t} /\ pc'[t] = "save"
  PROVE  AnswerFor(k)'
<1>1. (\A t, u \in Opening(k) : t # u => reopened[k])'
  OBVIOUS
<1>2. (\A t \in Opening(k) : pc[t] = "return" => saved[k] = job[t].own \/ reopened[k])'
  OBVIOUS
<1>. QED  BY <1>1, <1>2 DEF AnswerFor

LEMMA AnswerOpen ==
  ASSUME TypeOK, JobInv, AnswerInv,
         NEW t \in Threads, NEW k \in Hooks, OpenSpecial(t, k)
  PROVE  AnswerInv'
<1>1. pc[t] = "run" /\ job[t] = NoJob /\ pc' = [pc EXCEPT ![t] = "save"]
  BY DEF OpenSpecial, Goto, JobInv
<1>2. PICK o : job' = [job EXCEPT ![t] = [op |-> "open", hook |-> k, own |-> o]]
  BY DEF OpenSpecial
<1>3. ASSUME NEW l \in Hooks, l # k
      PROVE  AnswerFor(l)'
  <2>1. Opening(l)' = Opening(l) /\ \A u \in Opening(l) : u # t
    BY <1>1, <1>2, <1>3 DEF Opening, TypeOK, NoJob
  <2>2. \A v \in Values(l) : kernel'[v] = kernel[v]
    BY <1>3, ValuesDisjoint DEF OpenSpecial, TypeOK, Values, Handles, Hooks
  <2>3. lost'[l] = lost[l] /\ reopened'[l] = reopened[l]
    BY <1>3 DEF OpenSpecial, TypeOK
  <2>4. UNCHANGED <<saved, attached>>
    BY DEF OpenSpecial, process
  <2>5. \A u \in Opening(l) : job'[u] = job[u] /\ pc'[u] = pc[u]
    BY <1>1, <1>2, <2>1 DEF TypeOK, Opening
  <2>. QED  BY <1>3, <2>1, <2>2, <2>3, <2>4, <2>5, AnswerFrame DEF AnswerInv
<1>4. ASSUME reopened'[k]
      PROVE  AnswerFor(k)'
  BY <1>4, AnswerExcused
<1>5. ASSUME ~reopened'[k]
      PROVE  AnswerFor(k)'
  <2>1. reopened'[k] <=> reopened[k] \/ Special(k) \cup Opening(k) # {}
    BY Zenon DEF OpenSpecial, TypeOK
  <2>2. Special(k) = {} /\ Opening(k) = {}
    BY <1>5, <2>1
  <2>3. Opening(k)' = {t} /\ pc'[t] = "save"
    BY <1>1, <1>2, <2>2 DEF Opening, TypeOK
  <2>4. CASE lost'[k]
    BY <2>3, <2>4, AnswerExcused
  <2>5. CASE ~lost'[k]
    <3>1. PICK v \in Values(k) :
            /\ kernel' = [kernel EXCEPT ![v] = "special"]
            /\ job' = [job EXCEPT ![t] = [op |-> "open", hook |-> k, own |-> v]]
      BY <2>5 DEF OpenSpecial, TypeOK
    <3>2. \A w \in Values(k) : kernel'[w] = "special" => w = v
      BY <2>2, <3>1 DEF Special, TypeOK, Values, Handles, Hooks
    <3>3. job'[t] = [op |-> "open", hook |-> k, own |-> v]
      BY <3>1 DEF TypeOK
    <3>4. Storing(k, v)'
      BY <2>3, <3>3 DEF Storing
    <3>5. k \in attached'
      BY DEF OpenSpecial, process
    <3>6. (\A w, u \in Opening(k) : w # u => reopened[k])'
      BY <2>3
    <3>7. (\A w \in Opening(k) : pc[w] = "return" => saved[k] = job[w].own \/ reopened[k])'
      BY <2>3
    <3>8. (\A w \in Values(k) : kernel[w] = "special" =>
             /\ k \in attached /\ Storing(k, w)
             /\ \A u \in Opening(k) : job[u].own = w)'
      BY <2>3, <3>2, <3>3, <3>4, <3>5 DEF Values
    <3>. QED  BY <3>6, <3>7, <3>8 DEF AnswerFor
  <2>. QED  BY <2>4, <2>5
<1>. QED  BY <1>3, <1>4, <1>5, Zenon DEF AnswerInv

LEMMA AnswerSave ==
  ASSUME TypeOK, JobInv, AnswerInv, NEW t \in Threads, Save(t)
  PROVE  AnswerInv'
<1>1. job[t].op = "open" /\ job[t].hook \in Hooks /\ pc[t] = "save"
  BY DEF Save, TypeOK, JobInv, Jobs, NoJob
<1>2. /\ saved' = [saved EXCEPT ![job[t].hook] = job[t].own]
      /\ pc' = [pc EXCEPT ![t] = "return"]
      /\ UNCHANGED <<attached, job, kernel, reopened, lost>>
  BY DEF Save, Goto, process, history
<1>3. ASSUME NEW l \in Hooks, l # job[t].hook
      PROVE  AnswerFor(l)'
  <2>1. Opening(l)' = Opening(l) /\ t \notin Opening(l)
    BY <1>2, <1>3 DEF Opening
  <2>2. saved'[l] = saved[l] /\ \A u \in Opening(l) : pc'[u] = pc[u]
    BY <1>2, <1>3, <2>1 DEF TypeOK, Opening
  <2>. QED  BY <1>2, <1>3, <2>1, <2>2, AnswerFrame DEF AnswerInv
<1>4. ASSUME NEW k \in Hooks, k = job[t].hook
      PROVE  AnswerFor(k)'
  <2>1. Opening(k)' = Opening(k) /\ t \in Opening(k)
    BY <1>1, <1>2, <1>4 DEF Opening
  <2>2. saved'[k] = job[t].own
    BY <1>1, <1>2, <1>4 DEF TypeOK
  <2>3. AnswerFor(k)
    BY <1>1 DEF AnswerInv
  <2>4. \A u \in Opening(k) : u # t => reopened[k]
    BY <2>1, <2>3 DEF AnswerFor
  <2>5. (\A w, u \in Opening(k) : w # u => reopened[k])'
    BY <1>2, <2>1, <2>3 DEF AnswerFor
  <2>6. (\A w \in Opening(k) : pc[w] = "return" => saved[k] = job[w].own \/ reopened[k])'
    BY <1>2, <2>1, <2>2, <2>4
  <2>7. (\/ reopened[k] \/ lost[k]
         \/ \A v \in Values(k) : kernel[v] = "special" =>
              /\ k \in attached /\ saved[k] = v
              /\ \A u \in Opening(k) : job[u].own = v)'
    BY <1>2, <2>1, <2>2, <2>3 DEF AnswerFor, Values
  <2>. QED  BY <2>5, <2>6, <2>7 DEF AnswerFor
<1>. QED  BY <1>3, <1>4 DEF AnswerInv

LEMMA AnswerStep ==
  ASSUME TypeOK, JobInv, AnswerInv, [Next]_vars
  PROVE  AnswerInv'
<1>1. ASSUME NEW t \in Threads,
             UNCHANGED <<table, history>>, attached \subseteq attached',
             job' = job \/ \E j : job' = [job EXCEPT ![t] = j] /\ j.op # "open",
             pc' = pc \/ \E l : pc' = [pc EXCEPT ![t] = l],
             pc[t] # "save", job[t].op = "open" => pc[t] = "return" /\ job'[t] = NoJob
      PROVE  AnswerInv'
  <2>1. ASSUME NEW k \in Hooks, NEW u \in Opening(k)'
        PROVE  u # t /\ u \in Opening(k) /\ job'[u] = job[u] /\ pc'[u] = pc[u]
    BY <1>1, <2>1 DEF Opening, TypeOK, NoJob
  <2>2. ASSUME NEW k \in Hooks, NEW u \in Opening(k), pc[u] = "save"
        PROVE  u \in Opening(k)'
    BY <1>1, <2>2 DEF Opening, TypeOK
  <2>. QED  BY <1>1, <2>1, <2>2, AnswerFrame DEF AnswerInv, table, history
<1>2. ASSUME NEW t \in Threads,
             \/ DllMain(t) \/ InitCheck(t) \/ Return(t)
             \/ \E p \in Ports : Port(t, p)
      PROVE  AnswerInv'
  <2>1. pc[t] # "save" /\ (job[t].op = "open" => pc[t] = "return")
    BY <1>2 DEF DllMain, InitCheck, Return, Port, JobInv, NoJob
  <2>. QED
    BY <1>1, <1>2, <2>1 DEF DllMain, InitCheck, Return, Port, Goto, process, TypeOK, NoJob
<1>3. ASSUME NEW t \in Threads, Attach(t)
      PROVE  AnswerInv'
  <2>1. attached \subseteq attached' /\ job[t].op = "DllMain"
    BY <1>3 DEF Attach, TypeOK, JobInv
  <2>2. UNCHANGED <<table, history>> /\ pc[t] # "save"
          /\ job' = [job EXCEPT ![t] = NoJob] /\ pc' = [pc EXCEPT ![t] = "run"]
    BY <1>3 DEF Attach, Goto
  <2>3. NoJob.op # "open"
    BY DEF NoJob
  <2>. QED  BY <1>1, <2>1, <2>2, <2>3, Zenon
<1>4. ASSUME NEW t \in Threads, InitOpen(t) \/ InitMode(t) \/ Access(t)
      PROVE  AnswerInv'
  <2>1. pc[t] # "save" /\ job[t].op # "open"
    BY <1>4 DEF InitOpen, InitMode, Access, JobInv
  <2>2. UNCHANGED <<table, history>> /\ UNCHANGED attached
    BY <1>4 DEF InitOpen, InitMode, Access
  <2>3. job' = job \/ job' = [job EXCEPT ![t] = NoJob]
    BY <1>4 DEF InitOpen, InitMode, Access
  <2>4. pc' = pc \/ \E l : pc' = [pc EXCEPT ![t] = l]
    BY <1>4, Zenon DEF InitOpen, InitMode, Access, Goto
  <2>. QED  BY <1>1, <2>1, <2>2, <2>3, <2>4 DEF NoJob
<1>5. ASSUME NEW t \in Threads, NEW k \in Hooks, OpenOther(t, k) \/ CloseHandle(t, k)
      PROVE  AnswerInv'
  <2>1. \A l \in Hooks : \A v \in Values(l) : kernel'[v] = "special" => kernel[v] = "special"
    BY <1>5 DEF OpenOther, CloseHandle, Held, TypeOK, Values, Handles, Hooks
  <2>2. UNCHANGED <<saved, attached, reopened, lost, job, pc>>
    BY <1>5 DEF OpenOther, CloseHandle, process, history
  <2>3. \A l \in Hooks : Opening(l)' = Opening(l)
    BY <2>2 DEF Opening
  <2>. QED  BY <2>1, <2>2, <2>3, AnswerFrame DEF AnswerInv
<1>6. CASE UNCHANGED <<attached, job, pc, table, history>>
  BY <1>6 DEF AnswerInv, AnswerFor, Opening, Storing, Values, table, history
<1>7. ASSUME NEW t \in Threads, NEW k \in Hooks, Request(t, k)
      PROVE  AnswerInv'
  BY <1>6, <1>7 DEF Request, process
<1>8. CASE UNCHANGED vars
  BY <1>6, <1>8 DEF vars, process
<1>. QED
  BY <1>2, <1>3, <1>4, <1>5, <1>7, <1>8, AnswerOpen, AnswerSave DEF Next

LEMMA HookedStep ==
  ASSUME TypeOK, AnswerInv, HookedIsAnswered, [Next]_vars
  PROVE  HookedIsAnswered'
<1>1. ASSUME NEW t \in Threads, NEW k \in Hooks, Request(t, k)
      PROVE  HookedIsAnswered'
  <2>1. PICK v \in Held(k), lpt0 \in BOOLEAN :
          seen' = [kind |-> "request", hook |-> k, object |-> kernel[v], lpt0 |-> lpt0,
                   by |-> IF k \in attached /\ saved[k] = v /\ lpt0 THEN "hook" ELSE "kernel"]
    BY <1>1 DEF Request
  <2>2. v \in Values(k) /\ ~Storing(k, v)
    BY DEF Held, Storing, Opening
  <2>3. kernel[v] = "special" =>
          reopened[k] \/ lost[k] \/ (k \in attached /\ saved[k] = v)
    BY <2>2 DEF AnswerInv, AnswerFor
  <2>4. seen'.hook = k /\ seen'.object = kernel[v]
          /\ (seen'.by = "kernel" /\ seen'.lpt0 => ~(k \in attached /\ saved[k] = v))
    BY <2>1
  <2>. QED  BY <1>1, <2>3, <2>4 DEF Request, history, HookedIsAnswered
<1>2. CASE UNCHANGED seen
  BY <1>2, HistoryKept DEF HookedIsAnswered
<1>3. CASE seen'.kind # "request"
  BY <1>3 DEF HookedIsAnswered
<1>. QED  BY <1>1, <1>2, <1>3, SeenRequest

LEMMA OwnStep ==
  ASSUME TypeOK, JobInv, AnswerInv, OwnInv, [Next]_vars
  PROVE  OwnInv'
<1>1. ASSUME NEW t \in Threads, Return(t)
      PROVE  OwnInv'
  <2>1. job[t].op = "open" /\ job[t].hook \in Hooks /\ pc[t] = "return"
    BY <1>1 DEF Return, TypeOK, JobInv, Jobs, NoJob
  <2>2. saved[job[t].hook] = job[t].own \/ reopened[job[t].hook]
    BY <2>1 DEF AnswerInv, AnswerFor, Opening
  <2>. QED  BY <1>1, <2>1, <2>2 DEF Return, history, OwnInv, OwnHandle
<1>2. CASE UNCHANGED seen
  BY <1>2, HistoryKept DEF OwnInv, OwnHandle
<1>3. CASE seen'.kind # "opened"
  BY <1>3 DEF OwnInv, OwnHandle
<1>4. ASSUME NEW t \in Threads, Access(t)
      PROVE  UNCHANGED seen \/ seen'.kind # "opened"
  BY <1>4, AccessEffect
<1>5. ASSUME NEW t \in Threads, NEW k \in Hooks, Request(t, k)
      PROVE  seen'.kind # "opened"
  BY <1>5 DEF Request
<1>. QED
  BY <1>1, <1>2, <1>3, <1>4, <1>5 DEF Next, vars, DllMain, InitCheck, InitOpen,
     InitMode, Attach, OpenSpecial, OpenOther, CloseHandle, Save, Port

-----------------------------------------------------------------------------
(* The theorems. *)

LEMMA HooksInit == Init => HooksInv
<1>. SUFFICES ASSUME Init  PROVE HooksInv
  OBVIOUS
<1>1. TypeOK
  BY DEF Init, TypeOK, Handles, NoHandle, Jobs
<1>2. JobInv /\ StartInv
  BY HooksAssumption DEF Init, JobInv, StartInv, NoJob
<1>3. RightRegister /\ ForeignOnlyIfStale /\ HookedIsAnswered /\ OwnInv
  BY DEF Init, Nothing, RightRegister, ForeignOnlyIfStale, HookedIsAnswered, OwnInv, OwnHandle
<1>4. SavedInv
  BY HooksAssumption DEF Init, SavedInv, Excused, NoJob, Values, Hooks
<1>5. AnswerInv
  BY DEF Init, AnswerInv, AnswerFor, Opening, NoJob, Values, Hooks
<1>. QED  BY <1>1, <1>2, <1>3, <1>4, <1>5 DEF HooksInv

LEMMA HooksStep == HooksInv /\ [Next]_vars => HooksInv'
BY TypeStep, StartStep, RegisterStep, SavedStep, ForeignStep, AnswerStep, HookedStep,
   OwnStep, Zenon DEF HooksInv

LEMMA HooksAlways == Spec => []HooksInv
BY HooksInit, HooksStep, PTL DEF Spec

(* The state of the library and of the calls into it has its types.        *)
THEOREM HooksTypes == Spec => []TypeOK
<1>1. HooksInv => TypeOK
  BY DEF HooksInv
<1>. QED  BY HooksAlways, <1>1, PTL

(* Init runs once although it takes no lock: the adapter is opened at most *)
(* once, and every port access finds it open and in EPP mode.              *)
THEOREM InitOnce == Spec => []OneInit
<1>1. HooksInv => OneInit
  BY StartImplies DEF HooksInv
<1>. QED  BY HooksAlways, <1>1, PTL

(* WritePort8 and ReadPort8 reach the register the port number stands for, *)
(* whatever Base and the width of a port number are.                       *)
THEOREM RegisterReached == Spec => []RightRegister
<1>1. HooksInv => RightRegister
  BY DEF HooksInv
<1>. QED  BY HooksAlways, <1>1, PTL

(* A hook answers for a foreign object only when its value is stale.       *)
THEOREM ForeignStale == Spec => []ForeignOnlyIfStale
<1>1. HooksInv => ForeignOnlyIfStale
  BY DEF HooksInv
<1>. QED  BY HooksAlways, <1>1, PTL

(* Requests for a hooked object are answered by the hook as long as the    *)
(* object is opened by one thread at a time and the opens succeed.         *)
THEOREM HookedAnswered == Spec => []HookedIsAnswered
<1>1. HooksInv => HookedIsAnswered
  BY DEF HooksInv
<1>. QED  BY HooksAlways, <1>1, PTL

(* An open of the WinIO device returns its own handle unless two overlap.  *)
THEOREM HandleOwn == Spec => []OwnHandle
<1>1. HooksInv => OwnHandle
  BY DEF HooksInv, OwnInv
<1>. QED  BY HooksAlways, <1>1, PTL
=============================================================================
