--------------------------- MODULE SettingsProofs ---------------------------
(***************************************************************************)
(* Settings, for any number of processes, keys, edits and kills: what the  *)
(* user typed is lost in the five named ways only, and an injector and its *)
(* program agree.                                                          *)
(***************************************************************************)
EXTENDS Settings, TLAPS

Steps == {"off", "open", "read", "fill", "save", "dump", "values", "done", "dead"}

(* Types, and who has the file open: one process that writes it, in which  *)
(* case it is empty, or any number that read it.                           *)
FileInv ==
  /\ disk \in Texts \cup {Missing, Garbled}
  /\ pc \in [Processes -> Steps]
  /\ dict \in [Processes -> Texts] /\ settings \in [Processes -> Texts]
  /\ typed \subseteq Keys /\ stale \subseteq Processes
  /\ reading = {p \in Processes : pc[p] = "read"}
  /\ writing = {p \in Processes : pc[p] = "dump"}
  /\ \A p, q \in writing : p = q
  /\ writing # {} => reading = {} /\ disk = Empty

Keeps(text) == \A k \in typed : k \in DOMAIN text /\ text[k] = "user"

(* The texts of the user are on the disk, or in the dictionary of the      *)
(* process that writes it; and in that of any process that may still save  *)
(* it, unless the user has edited the file since that one loaded it; such  *)
(* a process does not write without an excuse.                             *)
KeptInv ==
  excuse = {} =>
    /\ writing = {} => /\ disk = Missing => typed = {}
                       /\ disk \in Texts => Keeps(disk)
    /\ \A p \in Processes \ stale :
         pc[p] \in {"fill", "save", "dump"} => Keeps(dict[p])
    /\ \A p \in stale : pc[p] # "dump"

(* A program is started by an injector, and completed its settings when it *)
(* leaves LoadSettings.                                                    *)
StartInv ==
  /\ \A p \in Processes \ Injectors :
       pc[p] # "off" => \E j \in Injectors : Child[j] = p /\ pc[j] # "off"
  /\ \A p \in Processes :
       pc[p] \in {"save", "dump", "values", "done"} => Entries \subseteq DOMAIN dict[p]

Alone(i) == \A j \in Injectors \ {i} : pc[j] = "off"

(* An injector that runs alone leaves its dictionary on the disk, where    *)
(* its program finds it complete.                                          *)
SessionOf(i, c) ==
  /\ pc[i] \notin {"done", "dead"} => pc[c] = "off"
  /\ i \notin stale /\ excuse = {} =>
       /\ pc[i] = "fill" => dict[i] = disk \/ dict[i] = Empty
       /\ pc[i] \in {"values", "done"} => disk = dict[i]
       /\ pc[i] = "done" =>
            /\ settings[i] = disk
            /\ pc[c] \notin {"save", "dump"}
            /\ pc[c] \in {"fill", "values"} => dict[c] = disk
            /\ pc[c] = "done" => settings[c] = disk

SessionInv == \A i \in Injectors : Alone(i) => SessionOf(i, Child[i])

SettingsInv == FileInv /\ KeptInv /\ StartInv /\ SessionInv

-----------------------------------------------------------------------------
(* Texts. *)

LEMMA TextsAre ==
  /\ Empty \in Texts /\ DOMAIN Empty = {} /\ Missing # Garbled
  /\ \A t \in Texts : /\ DOMAIN t \subseteq Entries /\ IsText(t)
                      /\ t \in [DOMAIN t -> {"default", "user"}]
<1>1. Empty \in [{} -> {"default", "user"}] /\ DOMAIN Empty = {}
  BY DEF Empty
<1>2. {} \in SUBSET Entries
  OBVIOUS
<1>3. Empty \in Texts
  BY <1>1, <1>2 DEF Texts
<1>4. ASSUME NEW t \in Texts
      PROVE  /\ DOMAIN t \subseteq Entries /\ IsText(t)
             /\ t \in [DOMAIN t -> {"default", "user"}]
  <2>1. PICK S \in SUBSET Entries : t \in [S -> {"default", "user"}]
    BY <1>4 DEF Texts
  <2>2. DOMAIN t = S
    BY <2>1
  <2>3. IsText(t)
    BY <1>4, SettingsAssumption DEF IsText
  <2> QED
    BY <2>1, <2>2, <2>3
<1> QED
  BY <1>1, <1>3, <1>4, SettingsAssumption

LEMMA FilledIs ==
  ASSUME NEW t \in Texts
  PROVE  /\ Filled(t) \in Texts
         /\ DOMAIN Filled(t) = Entries
         /\ \A k \in DOMAIN t : Filled(t)[k] = t[k]
         /\ Entries \subseteq DOMAIN t => Filled(t) = t
<1>1. DOMAIN t \subseteq Entries /\ t \in [DOMAIN t -> {"default", "user"}]
  BY TextsAre
<1>2. Entries \cup DOMAIN t = Entries
  BY <1>1
<1>3. Filled(t) = [k \in Entries |-> IF k \in DOMAIN t THEN t[k] ELSE "default"]
  BY <1>2 DEF Filled
<1>4. Filled(t) \in [Entries -> {"default", "user"}]
  BY <1>1, <1>3
<1>5. Entries \in SUBSET Entries
  OBVIOUS
<1>6. Filled(t) \in Texts
  BY <1>4, <1>5 DEF Texts
<1>7. \A k \in DOMAIN t : Filled(t)[k] = t[k]
  BY <1>1, <1>3
<1>8. ASSUME Entries \subseteq DOMAIN t
      PROVE  Filled(t) = t
  <2>1. DOMAIN t = Entries
    BY <1>1, <1>8
  <2>2. \A k \in Entries : Filled(t)[k] = t[k]
    BY <1>7, <2>1
  <2>3. t = [k \in Entries |-> t[k]]
    BY <1>1, <2>1
  <2>4. Filled(t) = [k \in Entries |-> t[k]]
    BY <1>3, <2>1
  <2> QED
    BY <2>3, <2>4
<1> QED
  BY <1>3, <1>6, <1>7, <1>8

-----------------------------------------------------------------------------
(* Steps. *)

LEMMA FileStart == Init => FileInv
<1> SUFFICES ASSUME Init
             PROVE  FileInv
  OBVIOUS
<1> QED
  BY TextsAre DEF Init, FileInv, Steps

LEMMA FileInductive == FileInv /\ [Next]_vars => FileInv'
<1> SUFFICES ASSUME FileInv, [Next]_vars
             PROVE  FileInv'
  OBVIOUS
<1> USE DEF FileInv, Steps
<1>1. ASSUME NEW p \in Processes, Start(p)
      PROVE  FileInv'
  BY <1>1 DEF Start, Goto, file, history
<1>2. ASSUME NEW p \in Processes, Open(p)
      PROVE  FileInv'
  <2>1. CASE disk # Missing /\ writing = {}
    BY <1>2, <2>1 DEF Open, Goto
  <2>2. CASE ~(disk # Missing /\ writing = {})
    BY <1>2, <2>2, TextsAre DEF Open, Goto
  <2> QED
    BY <2>1, <2>2
<1>3. ASSUME NEW p \in Processes, Read(p)
      PROVE  FileInv'
  <2>1. IsText(disk) => disk \in Texts
    BY DEF IsText
  <2>2. dict' \in [Processes -> Texts]
    BY <1>3, <2>1, TextsAre DEF Read
  <2> QED
    BY <1>3, <2>2 DEF Read, Goto
<1>4. ASSUME NEW p \in Processes, Fill(p)
      PROVE  FileInv'
  <2>1. Filled(dict[p]) \in Texts
    BY FilledIs
  <2>2. dict' \in [Processes -> Texts]
    BY <1>4, <2>1 DEF Fill
  <2>3. CASE Entries \subseteq DOMAIN dict[p]
    BY <1>4, <2>2, <2>3 DEF Fill, Goto, file
  <2>4. CASE ~(Entries \subseteq DOMAIN dict[p])
    BY <1>4, <2>2, <2>4 DEF Fill, Goto, file
  <2> QED
    BY <2>3, <2>4
<1>5. ASSUME NEW p \in Processes, Truncate(p)
      PROVE  FileInv'
  <2>1. CASE reading \cup writing = {}
    BY <1>5, <2>1, TextsAre DEF Truncate, Goto
  <2>2. CASE reading \cup writing # {}
    BY <1>5, <2>2 DEF Truncate, Goto, Die
  <2> QED
    BY <2>1, <2>2
<1>6. ASSUME NEW p \in Processes, Dump(p)
      PROVE  FileInv'
  BY <1>6 DEF Dump, Goto, history
<1>11. ASSUME NEW p \in Processes, DumpFails(p)
       PROVE  FileInv'
  <2>1. /\ pc' = [pc EXCEPT ![p] = "values"] /\ pc[p] = "dump" /\ writing' = {}
        /\ UNCHANGED <<reading, dict, settings, typed, stale>>
        /\ \/ \E S \in SUBSET DOMAIN dict[p] : disk' = [k \in S |-> dict[p][k]]
           \/ disk' = Garbled
    BY <1>11 DEF DumpFails, Goto
  <2>2. ASSUME NEW S \in SUBSET DOMAIN dict[p]
        PROVE  [k \in S |-> dict[p][k]] \in Texts
    <3>1. DOMAIN dict[p] \subseteq Entries /\ dict[p] \in [DOMAIN dict[p] -> {"default", "user"}]
      BY TextsAre
    <3>2. [k \in S |-> dict[p][k]] \in [S -> {"default", "user"}] /\ S \in SUBSET Entries
      BY <3>1
    <3> QED
      BY <3>2 DEF Texts
  <2>3. disk' \in Texts \cup {Missing, Garbled}
    BY <2>1, <2>2
  <2> QED
    BY <2>1, <2>3
<1>7. ASSUME NEW p \in Processes, GetValues(p)
      PROVE  FileInv'
  BY <1>7 DEF GetValues, Goto, file, history
<1>8. ASSUME NEW p \in Processes, Kill(p)
      PROVE  FileInv'
  <2> DEFINE gone == IF p \in Injectors THEN {p, Child[p]} ELSE {p}
  <2>1. /\ pc' = [q \in Processes |-> IF q \in gone THEN "dead" ELSE pc[q]]
        /\ reading' = reading \ gone /\ writing' = writing \ gone
        /\ UNCHANGED <<disk, dict, settings, typed, stale>>
    BY <1>8 DEF Kill
  <2> HIDE DEF gone
  <2> QED
    BY <2>1
<1>9. ASSUME Edit
      PROVE  FileInv'
  <2>1. typed' \subseteq Keys /\ stale' \subseteq Processes
    BY <1>9 DEF Edit
  <2>2. disk' \in Texts \cup {Missing, Garbled}
    <3>1. ASSUME NEW S \in SUBSET Entries, NEW U \in SUBSET Keys,
                 disk' = [k \in S |-> IF k \in U THEN "user" ELSE "default"]
          PROVE  disk' \in Texts
      <4>1. disk' \in [S -> {"default", "user"}]
        BY <3>1
      <4> QED
        BY <4>1 DEF Texts
    <3> QED
      BY <1>9, <3>1 DEF Edit
  <2> QED
    BY <1>9, <2>1, <2>2 DEF Edit
<1>10. CASE UNCHANGED vars
  BY <1>10 DEF vars, file, history
<1> QED
  BY <1>1, <1>2, <1>3, <1>4, <1>5, <1>6, <1>7, <1>8, <1>9, <1>10, <1>11 DEF Next, Load

LEMMA KeptInductive ==
  FileInv /\ KeptInv /\ [Next]_vars => KeptInv'
<1> SUFFICES ASSUME FileInv, KeptInv, [Next]_vars, excuse' = {}
             PROVE  KeptInv'
  BY DEF KeptInv
<1> USE DEF Keeps
<1>1. ASSUME NEW p \in Processes, Start(p)
      PROVE  KeptInv'
  BY <1>1 DEF KeptInv, FileInv, Start, Goto, file, history
<1>2. ASSUME NEW p \in Processes, Open(p)
      PROVE  KeptInv'
  <2>1. CASE disk # Missing /\ writing = {}
    BY <1>2, <2>1 DEF KeptInv, FileInv, Open, Goto
  <2>2. CASE ~(disk # Missing /\ writing = {})
    <3>1. writing = {} /\ excuse = {} /\ disk = Missing /\ typed = {}
      BY <1>2, <2>2 DEF KeptInv, Open
    <3>2. typed' = {} /\ stale' = stale
      BY <1>2, <3>1 DEF Open
    <3>3. \A q \in stale : pc'[q] # "dump"
      BY <1>2, <2>2, <3>1 DEF KeptInv, FileInv, Open, Goto
    <3> QED
      BY <3>2, <3>3 DEF KeptInv
  <2> QED
    BY <2>1, <2>2
<1>3. ASSUME NEW p \in Processes, Read(p)
      PROVE  KeptInv'
  <2>1. excuse = {} /\ IsText(disk) /\ dict' = [dict EXCEPT ![p] = disk]
    BY <1>3 DEF Read
  <2>2. p \in reading /\ writing = {} /\ disk \in Texts
    BY <1>3, <2>1 DEF FileInv, Read, IsText
  <2>3. Keeps(disk)
    BY <2>1, <2>2 DEF KeptInv
  <2> QED
    BY <1>3, <2>1, <2>2, <2>3 DEF KeptInv, FileInv, Read, Goto
<1>4. ASSUME NEW p \in Processes, Fill(p)
      PROVE  KeptInv'
  <2>1. dict[p] \in Texts
    BY DEF FileInv
  <2>2. Keeps(dict[p]) => Keeps(Filled(dict[p]))
    BY <2>1, FilledIs, TextsAre
  <2>3. excuse = {} /\ UNCHANGED <<disk, writing, typed, stale>>
    BY <1>4 DEF Fill, file
  <2>4. ASSUME NEW q \in Processes \ stale, pc'[q] \in {"fill", "save", "dump"}
        PROVE  Keeps(dict[q])'
    <3>1. CASE q = p
      BY <1>4, <2>2, <2>3, <2>4, <3>1 DEF KeptInv, FileInv, Fill
    <3>2. CASE q # p
      BY <1>4, <2>3, <2>4, <3>2 DEF KeptInv, FileInv, Fill, Goto
    <3> QED
      BY <3>1, <3>2
  <2>5. \A q \in stale : pc'[q] # "dump"
    BY <1>4, <2>3 DEF KeptInv, FileInv, Fill, Goto
  <2> QED
    BY <2>3, <2>4, <2>5 DEF KeptInv
<1>5. ASSUME NEW p \in Processes, Truncate(p)
      PROVE  KeptInv'
  <2>1. CASE reading \cup writing = {}
    <3>1. excuse = {} /\ p \notin stale
      BY <1>5, <2>1 DEF Truncate
    <3> QED
      BY <1>5, <2>1, <3>1 DEF KeptInv, FileInv, Truncate, Goto
  <2>2. CASE reading \cup writing # {}
    BY <1>5, <2>2 DEF KeptInv, FileInv, Truncate, Goto, Die
  <2> QED
    BY <2>1, <2>2
<1>6. ASSUME NEW p \in Processes, Dump(p)
      PROVE  KeptInv'
  <2>1. disk' = dict[p] /\ dict[p] \in Texts /\ excuse = {}
    BY <1>6 DEF Dump, FileInv, history
  <2>2. disk' # Missing
    BY <2>1, SettingsAssumption
  <2>3. p \notin stale => Keeps(dict[p])
    BY <1>6, <2>1 DEF Dump, KeptInv
  <2> QED
    BY <1>6, <2>1, <2>2, <2>3 DEF KeptInv, FileInv, Dump, Goto, history
<1>11. ASSUME NEW p \in Processes, DumpFails(p)
       PROVE  KeptInv'
  BY <1>11 DEF KeptInv, DumpFails
<1>7. ASSUME NEW p \in Processes, GetValues(p)
      PROVE  KeptInv'
  BY <1>7 DEF KeptInv, FileInv, GetValues, Goto, file, history
<1>8. ASSUME NEW p \in Processes, Kill(p)
      PROVE  KeptInv'
  <2> DEFINE gone == IF p \in Injectors THEN {p, Child[p]} ELSE {p}
  <2>1. /\ pc' = [q \in Processes |-> IF q \in gone THEN "dead" ELSE pc[q]]
        /\ excuse = {} /\ writing \cap gone = {} /\ writing' = writing \ gone
        /\ UNCHANGED <<disk, dict, settings, typed, stale>>
    BY <1>8 DEF Kill
  <2> HIDE DEF gone
  <2>2. writing' = writing /\ stale \subseteq Processes
    BY <2>1 DEF FileInv
  <2> QED
    BY <2>1, <2>2 DEF KeptInv
<1>9. ASSUME Edit
      PROVE  KeptInv'
  <2>1. /\ stale' = {p \in Processes : pc[p] \notin {"off", "open"}}
        /\ UNCHANGED <<pc, dict, writing>>
    BY <1>9 DEF Edit
  <2>2. ASSUME writing = {}
        PROVE  /\ disk' = Missing => typed' = {}
               /\ disk' \in Texts => Keeps(disk)'
    <3>1. CASE disk' = Garbled
      BY <3>1, SettingsAssumption
    <3>2. ASSUME NEW S \in SUBSET Entries, NEW U \in SUBSET Keys, U \subseteq S,
                 disk' = [k \in S |-> IF k \in U THEN "user" ELSE "default"],
                 typed' = U
          PROVE  Keeps(disk)' /\ disk' \in Texts
      <4>1. disk' \in [S -> {"default", "user"}]
        BY <3>2
      <4> QED
        BY <3>2, <4>1 DEF Texts
    <3>3. disk' \in Texts => disk' # Missing
      BY SettingsAssumption
    <3> QED
      BY <1>9, <3>1, <3>2, <3>3 DEF Edit
  <2>3. \A q \in Processes : pc[q] # "dump"
    BY <1>9 DEF Edit, FileInv
  <2> QED
    BY <2>1, <2>2, <2>3 DEF KeptInv
<1>10. CASE UNCHANGED vars
  BY <1>10 DEF KeptInv, vars, file, history
<1> QED
  BY <1>1, <1>2, <1>3, <1>4, <1>5, <1>6, <1>7, <1>8, <1>9, <1>10, <1>11 DEF Next, Load

(* A process that goes on was running before: no program comes to be       *)
(* without its injector.                                                   *)
LEMMA GoesOn ==
  ASSUME FileInv, StartInv, NEW p \in Processes, pc[p] # "off",
         NEW l \in Steps \ {"off"}, pc' = [pc EXCEPT ![p] = l]
  PROVE  \A q \in Processes \ Injectors :
           pc'[q] # "off" => \E j \in Injectors : Child[j] = q /\ pc'[j] # "off"
<1>1. \A q \in Processes : pc'[q] # "off" <=> pc[q] # "off"
  BY DEF FileInv, Steps
<1> QED
  BY <1>1, SettingsAssumption DEF StartInv

LEMMA StartInductive ==
  FileInv /\ StartInv /\ [Next]_vars => StartInv'
<1> SUFFICES ASSUME FileInv, StartInv, [Next]_vars
             PROVE  StartInv'
  OBVIOUS
<1> USE DEF StartInv
<1>1. ASSUME NEW p \in Processes, Start(p)
      PROVE  StartInv'
  BY <1>1 DEF FileInv, Start, Goto
<1>2. ASSUME NEW p \in Processes, Open(p)
      PROVE  StartInv'
  <2>1. \/ pc' = [pc EXCEPT ![p] = "read"] /\ dict' = dict
        \/ pc' = [pc EXCEPT ![p] = "fill"] /\ dict' = [dict EXCEPT ![p] = Empty]
    BY <1>2 DEF Open, Goto
  <2>2. pc[p] = "open"
    BY <1>2 DEF Open
  <2>3. \A q \in Processes : pc'[q] \in {"save", "dump", "values", "done"}
          => Entries \subseteq DOMAIN dict'[q]
    BY <2>1, <2>2 DEF FileInv
  <2> QED
    BY <2>1, <2>2, <2>3, GoesOn DEF Steps
<1>3. ASSUME NEW p \in Processes, Read(p)
      PROVE  StartInv'
  BY <1>3 DEF FileInv, Read, Goto
<1>4. ASSUME NEW p \in Processes, Fill(p)
      PROVE  StartInv'
  <2>1. DOMAIN Filled(dict[p]) = Entries
    BY FilledIs DEF FileInv
  <2>2. dict' = [dict EXCEPT ![p] = Filled(dict[p])] /\ pc[p] = "fill"
        /\ (pc' = [pc EXCEPT ![p] = "values"] \/ pc' = [pc EXCEPT ![p] = "save"])
    BY <1>4 DEF Fill, Goto
  <2>3. \A q \in Processes : pc'[q] \in {"save", "dump", "values", "done"}
          => Entries \subseteq DOMAIN dict'[q]
    BY <2>1, <2>2 DEF FileInv
  <2> QED
    BY <2>2, <2>3, GoesOn DEF Steps
<1>5. ASSUME NEW p \in Processes, Truncate(p)
      PROVE  StartInv'
  <2>1. pc[p] = "save" /\ dict' = dict
        /\ (pc' = [pc EXCEPT ![p] = "dump"] \/ pc' = [pc EXCEPT ![p] = "dead"])
    BY <1>5 DEF Truncate, Goto, Die
  <2>2. \A q \in Processes : pc'[q] \in {"save", "dump", "values", "done"}
          => Entries \subseteq DOMAIN dict'[q]
    BY <2>1 DEF FileInv
  <2> QED
    BY <2>1, <2>2, GoesOn DEF Steps
<1>6. ASSUME NEW p \in Processes, Dump(p)
      PROVE  StartInv'
  BY <1>6 DEF FileInv, Dump, Goto
<1>11. ASSUME NEW p \in Processes, DumpFails(p)
       PROVE  StartInv'
  BY <1>11 DEF FileInv, DumpFails, Goto
<1>7. ASSUME NEW p \in Processes, GetValues(p)
      PROVE  StartInv'
  BY <1>7 DEF FileInv, GetValues, Goto
<1>8. ASSUME NEW p \in Processes, Kill(p)
      PROVE  StartInv'
  <2> DEFINE gone == IF p \in Injectors THEN {p, Child[p]} ELSE {p}
  <2>1. /\ pc' = [q \in Processes |-> IF q \in gone THEN "dead" ELSE pc[q]]
        /\ pc[p] # "off" /\ dict' = dict
    BY <1>8 DEF Kill
  <2>2. \A q \in gone \ Injectors :
          \/ q = p
          \/ p \in Injectors /\ Child[p] = q /\ p \in Processes
    BY SettingsAssumption
  <2>3. \A q \in Processes : pc[q] # "off" => pc'[q] # "off"
    BY <2>1
  <2>4. pc'[p] # "off"
    BY <2>1, <2>3
  <2>5. ASSUME NEW q \in Processes \ Injectors, pc'[q] # "off"
        PROVE  \E j \in Injectors : Child[j] = q /\ pc'[j] # "off"
    <3>1. CASE q \in gone /\ q # p
      BY <3>1, <2>2, <2>4
    <3>2. CASE ~(q \in gone /\ q # p)
      <4>1. pc[q] # "off"
        BY <2>1, <2>5, <3>2
      <4>2. PICK j \in Injectors : Child[j] = q /\ pc[j] # "off"
        BY <4>1
      <4> QED
        BY <4>2, <2>3, SettingsAssumption
    <3> QED
      BY <3>1, <3>2
  <2>6. ASSUME NEW q \in Processes, pc'[q] \in {"save", "dump", "values", "done"}
        PROVE  Entries \subseteq DOMAIN dict'[q]
    BY <2>1, <2>6
  <2> QED
    BY <2>5, <2>6
<1>9. ASSUME Edit
      PROVE  StartInv'
  BY <1>9 DEF Edit
<1>10. CASE UNCHANGED vars
  BY <1>10 DEF vars, file, history
<1> QED
  BY <1>1, <1>2, <1>3, <1>4, <1>5, <1>6, <1>7, <1>8, <1>9, <1>10, <1>11 DEF Next, Load

LEMMA SessionInductive ==
  FileInv /\ StartInv /\ SessionInv /\ [Next]_vars => SessionInv'
<1> SUFFICES ASSUME FileInv, StartInv, SessionInv, [Next]_vars,
                    NEW i \in Injectors, Alone(i)'
             PROVE  SessionOf(i, Child[i])'
  BY DEF SessionInv
<1>0. PICK c \in Processes \ Injectors : c = Child[i]
  BY SettingsAssumption
<1>1. i \in Processes /\ c \in Processes \ Injectors /\ c # i
  BY SettingsAssumption
<1>2. \A q \in Processes : pc'[q] = "off" => pc[q] = "off"
  <2>1. ASSUME NEW p \in Processes, NEW l \in Steps \ {"off"}, Goto(p, l)
        PROVE  \A q \in Processes : pc'[q] = "off" => pc[q] = "off"
    BY <2>1 DEF FileInv, Goto
  <2>2. ASSUME NEW p \in Processes, Start(p) \/ Load(p)
        PROVE  \E l \in Steps \ {"off"} : Goto(p, l)
    BY <2>2 DEF Start, Load, Open, Read, Fill, Truncate, Die, Dump, DumpFails, GetValues,
                  Steps
  <2>3. ASSUME NEW p \in Processes, Kill(p)
        PROVE  \A q \in Processes : pc'[q] = "off" => pc[q] = "off"
    BY <2>3 DEF Kill
  <2>4. Edit \/ UNCHANGED vars => pc' = pc
    BY DEF Edit, vars
  <2> QED
    BY <2>1, <2>2, <2>3, <2>4 DEF Next
<1>3. Alone(i)
  BY <1>2, SettingsAssumption DEF Alone
<1>4. SessionOf(i, c)
  BY <1>0, <1>3 DEF SessionInv
<1>5. \A q \in Processes \ {i, c} : pc[q] = "off"
  BY <1>0, <1>3 DEF StartInv, Alone
<1> USE DEF SessionOf
<1>11. ASSUME NEW p \in Processes, Start(p)
       PROVE  SessionOf(i, c)'
  <2>1. pc[p] = "off" /\ pc' = [pc EXCEPT ![p] = "open"]
        /\ UNCHANGED <<disk, dict, settings, excuse, stale>>
    BY <1>11 DEF Start, Goto, file, history
  <2>2. p = c => pc[i] = "done"
    BY <1>11, <1>0, <1>1, <1>3 DEF Start, Alone
  <2>3. CASE p = i
    BY <2>1, <2>3, <1>1, <1>4 DEF FileInv
  <2>4. CASE p = c
    BY <2>1, <2>2, <2>4, <1>1, <1>4 DEF FileInv
  <2>5. CASE p \notin {i, c}
    BY <2>1, <2>5, <1>1, <1>4 DEF FileInv
  <2> QED
    BY <2>3, <2>4, <2>5
<1>12. ASSUME NEW p \in Processes, Open(p)
       PROVE  SessionOf(i, c)'
  <2>1. p \in {i, c} /\ pc[p] = "open" /\ UNCHANGED <<disk, settings, stale>>
    BY <1>12, <1>5 DEF Open
  <2>2. CASE disk # Missing /\ writing = {}
    <3>1. pc' = [pc EXCEPT ![p] = "read"] /\ UNCHANGED <<dict, excuse>>
      BY <1>12, <2>2 DEF Open, Goto
    <3> QED
      BY <2>1, <3>1, <1>1, <1>4 DEF FileInv
  <2>3. CASE ~(disk # Missing /\ writing = {})
    <3>1. /\ pc' = [pc EXCEPT ![p] = "fill"] /\ dict' = [dict EXCEPT ![p] = Empty]
          /\ excuse' = {} => disk = Missing /\ excuse = {}
      BY <1>12, <2>3 DEF Open, Goto
    <3>2. p = c /\ i \notin stale /\ excuse' = {} => pc[i] # "done"
      <4>1. disk = dict[i] => disk # Missing
        BY <1>1, SettingsAssumption DEF FileInv
      <4> QED
        BY <4>1, <3>1, <1>4
    <3> QED
      BY <2>1, <3>1, <3>2, <1>1, <1>4 DEF FileInv
  <2> QED
    BY <2>2, <2>3
<1>13. ASSUME NEW p \in Processes, Read(p)
       PROVE  SessionOf(i, c)'
  <2>1. /\ p \in {i, c} /\ pc[p] = "read" /\ pc' = [pc EXCEPT ![p] = "fill"]
        /\ UNCHANGED <<disk, settings, stale>>
        /\ excuse' = {} => excuse = {} /\ dict' = [dict EXCEPT ![p] = disk]
    BY <1>13, <1>5 DEF Read, Goto
  <2>2. \A q \in Processes \ {p} : dict'[q] = dict[q]
    BY <1>13 DEF Read, FileInv
  <2> QED
    BY <2>1, <2>2, <1>1, <1>4 DEF FileInv
<1>14. ASSUME NEW p \in Processes, Fill(p)
       PROVE  SessionOf(i, c)'
  <2>1. p \in {i, c} /\ pc[p] = "fill" /\ UNCHANGED <<disk, settings, excuse, stale>>
        /\ dict' = [dict EXCEPT ![p] = Filled(dict[p])]
    BY <1>14, <1>5 DEF Fill, file
  <2>2. CASE Entries \subseteq DOMAIN dict[p]
    <3>1. pc' = [pc EXCEPT ![p] = "values"]
      BY <1>14, <2>2 DEF Fill, Goto
    <3>2. dict[p] \in Texts /\ Filled(dict[p]) = dict[p]
      BY <2>2, FilledIs DEF FileInv
    <3>3. dict' = dict /\ dict[p] # Empty
      BY <2>1, <2>2, <3>2, TextsAre, SettingsAssumption DEF FileInv
    <3> QED
      BY <2>1, <3>1, <3>3, <1>1, <1>4 DEF FileInv
  <2>3. CASE ~(Entries \subseteq DOMAIN dict[p])
    <3>1. pc' = [pc EXCEPT ![p] = "save"]
      BY <1>14, <2>3 DEF Fill, Goto
    <3>2. p = c /\ i \notin stale /\ excuse = {} => pc[i] # "done"
      BY <2>1, <2>3, <1>1, <1>4 DEF StartInv
    <3> QED
      BY <2>1, <3>1, <3>2, <1>1, <1>4 DEF FileInv
  <2> QED
    BY <2>2, <2>3
<1>15. ASSUME NEW p \in Processes, Truncate(p)
       PROVE  SessionOf(i, c)'
  <2>1. /\ p \in {i, c} /\ pc[p] = "save" /\ UNCHANGED <<dict, settings, stale>>
        /\ (pc' = [pc EXCEPT ![p] = "dump"] \/ pc' = [pc EXCEPT ![p] = "dead"])
        /\ excuse' = {} => excuse = {}
    BY <1>15, <1>5 DEF Truncate, Goto, Die
  <2>2. p = c => pc[i] \in {"done", "dead"}
    BY <2>1, <1>4
  <2> QED
    BY <2>1, <2>2, <1>1, <1>4 DEF FileInv
<1>16. ASSUME NEW p \in Processes, Dump(p)
       PROVE  SessionOf(i, c)'
  <2>1. p \in {i, c} /\ pc[p] = "dump" /\ UNCHANGED <<dict, settings, excuse, stale>>
        /\ pc' = [pc EXCEPT ![p] = "values"] /\ disk' = dict[p]
    BY <1>16, <1>5 DEF Dump, Goto, history
  <2> QED
    BY <2>1, <1>1, <1>4 DEF FileInv
<1>22. ASSUME NEW p \in Processes, DumpFails(p)
       PROVE  SessionOf(i, c)'
  <2>1. p \in {i, c} /\ pc[p] = "dump" /\ pc' = [pc EXCEPT ![p] = "values"] /\ excuse' # {}
    BY <1>22, <1>5 DEF DumpFails, Goto
  <2> QED
    BY <2>1, <1>1, <1>4 DEF FileInv
<1>17. ASSUME NEW p \in Processes, GetValues(p)
       PROVE  SessionOf(i, c)'
  <2>1. p \in {i, c} /\ pc[p] = "values" /\ UNCHANGED <<disk, dict, excuse, stale>>
        /\ pc' = [pc EXCEPT ![p] = "done"]
        /\ settings' = [settings EXCEPT ![p] = dict[p]]
    BY <1>17, <1>5 DEF GetValues, Goto, file, history
  <2> QED
    BY <2>1, <1>1, <1>4 DEF FileInv
<1>18. ASSUME NEW p \in Processes, Kill(p)
       PROVE  SessionOf(i, c)'
  <2>1. /\ p \in {i, c} /\ UNCHANGED <<disk, dict, settings, stale>>
        /\ excuse' = {} => excuse = {}
    BY <1>18, <1>5 DEF Kill
  <2>2. p = i => pc'[i] = "dead" /\ pc'[c] = "dead"
    BY <1>18, <1>0, <1>1 DEF Kill
  <2>3. p = c => pc' = [pc EXCEPT ![c] = "dead"] /\ pc[c] # "off"
    BY <1>18, <1>1 DEF Kill, FileInv
  <2> QED
    BY <2>1, <2>2, <2>3, <1>1, <1>4 DEF FileInv
<1>19. ASSUME Edit
       PROVE  SessionOf(i, c)'
  <2>1. pc' = pc /\ stale' = {p \in Processes : pc[p] \notin {"off", "open"}}
    BY <1>19 DEF Edit
  <2> QED
    BY <2>1, <1>1, <1>4
<1>20. ASSUME UNCHANGED vars
       PROVE  SessionOf(i, c)'
  <2>1. UNCHANGED <<pc, disk, dict, settings, excuse, stale>>
    BY <1>20 DEF vars, file, history
  <2> QED
    BY <2>1, <1>4
<1> HIDE DEF SessionOf
<1>21. SessionOf(i, c)'
  <2>1. ASSUME NEW p \in Processes, Load(p)
        PROVE  SessionOf(i, c)'
    BY <2>1, <1>12, <1>13, <1>14, <1>15, <1>16, <1>17, <1>22 DEF Load
  <2> QED
    BY <2>1, <1>11, <1>18, <1>19, <1>20 DEF Next
<1> QED
  BY <1>0, <1>21

-----------------------------------------------------------------------------

LEMMA Invariance == Spec => []SettingsInv
<1>1. Init => SettingsInv
  <2>1. Init => FileInv
    BY FileStart
  <2>2. Init => KeptInv
    BY DEF Init, KeptInv, Keeps
  <2>3. Init => StartInv
    BY DEF Init, StartInv
  <2>4. Init => SessionInv
    BY SettingsAssumption DEF Init, SessionInv, SessionOf
  <2> QED
    BY <2>1, <2>2, <2>3, <2>4 DEF SettingsInv
<1>2. SettingsInv /\ [Next]_vars => SettingsInv'
  BY FileInductive, KeptInductive, StartInductive, SessionInductive DEF SettingsInv
<1> QED
  BY <1>1, <1>2, PTL DEF Spec

(* What the user has typed into LptPatch.ini survives LoadSettings of any  *)
(* number of injectors and programs, but for the five ways UserTextsKept   *)
(* names.                                                                  *)
THEOREM TextsKept == Spec => []UserTextsKept
<1>1. SettingsInv => UserTextsKept
  <2> SUFFICES ASSUME SettingsInv, excuse = {}, disk # Garbled
               PROVE  \/ typed \subseteq UserKeys
                      \/ \E p \in writing : \A k \in typed : dict[p][k] = "user"
    BY DEF UserTextsKept
  <2>1. CASE writing = {}
    <3>1. disk = Missing => typed = {}
      BY <2>1 DEF SettingsInv, KeptInv
    <3>2. disk # Missing => IsText(disk) /\ Keeps(disk)
      BY <2>1 DEF SettingsInv, KeptInv, FileInv, IsText
    <3> QED
      BY <3>1, <3>2 DEF UserKeys, Keeps
  <2>2. CASE writing # {}
    BY <2>2 DEF SettingsInv, KeptInv, FileInv, Keeps
  <2> QED
    BY <2>1, <2>2
<1> QED
  BY <1>1, Invariance, PTL

(* An injector and the program it patches work with the same settings,     *)
(* unless the user edited the file meanwhile, another injector ran, or the *)
(* file was lost in one of the five ways.                                  *)
THEOREM SessionsAgree == Spec => []SessionAgrees
<1>1. SettingsInv => SessionAgrees
  BY DEF SettingsInv, SessionInv, SessionOf, SessionAgrees, Alone
<1> QED
  BY <1>1, Invariance, PTL
=============================================================================
