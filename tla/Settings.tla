------------------------------ MODULE Settings ------------------------------
(***************************************************************************)
(* LoadSettings of CommonCode.c, and the processes that call it on the     *)
(* same LptPatch.ini: the injector when it is started, and the library it  *)
(* has injected when the patched program starts. Two injectors may be      *)
(* started at once, a process may be killed at any step, and the user      *)
(* edits the file in between.                                              *)
(*                                                                         *)
(* The file holds for each key "default" or "user", a text the user typed. *)
(* iniparser and the C library are external: a text with a syntax error    *)
(* does not load, and fopen_s lets nobody else open what it writes.        *)
(***************************************************************************)
EXTENDS Naturals, FiniteSets

CONSTANTS
  Processes, Injectors,  \* every process; those the user starts
  Child,        \* the patched program of each injector
  Sections, Keys,        \* of the table of defaults
  Missing, Garbled,      \* no file, and a file with a syntax error
  MaxEdits,
  MaxKills      \* bound on processes killed and files not written

Entries == Sections \cup Keys
Texts == UNION {[S -> {"default", "user"}] : S \in SUBSET Entries}

ASSUME SettingsAssumption ==
  /\ Injectors \subseteq Processes
  /\ Child \in [Injectors -> Processes \ Injectors]
  /\ Sections \cap Keys = {} /\ Entries # {}
  /\ Missing # Garbled /\ {Missing, Garbled} \cap Texts = {}
  /\ MaxEdits \in Nat /\ MaxKills \in Nat

VARIABLES
  disk,      \* contents of the file, or Missing or Garbled
  reading, writing,   \* processes that have it open
  pc,        \* per process
  dict,      \* lpt_patch_settings
  settings,  \* what LoadSettings returned
  edits, kills,
  typed,     \* history: keys the user has given a text and not removed
  excuse,    \* history: how these may have been lost since
  stale      \* history: processes that began to load before the last edit

file == <<disk, reading, writing>>
history == <<typed, excuse, stale>>
vars == <<file, pc, dict, settings, edits, kills, history>>

Empty == [k \in {} |-> "default"]
IsText(contents) == contents \notin {Missing, Garbled}

Init ==
  /\ disk = Missing /\ reading = {} /\ writing = {}
  /\ pc = [p \in Processes |-> "off"]
  /\ dict = [p \in Processes |-> Empty] /\ settings = dict
  /\ edits = 0 /\ kills = 0
  /\ typed = {} /\ excuse = {} /\ stale = {}

Goto(p, l) == pc' = [pc EXCEPT ![p] = l]

(* The user starts an injector; the injector has loaded its settings when  *)
(* it starts the program, whose first thread loads them again.             *)
Start(p) ==
  /\ pc[p] = "off"
  /\ p \in Injectors \/ \E i \in Injectors : Child[i] = p /\ pc[i] = "done"
  /\ Goto(p, "open")
  /\ UNCHANGED <<file, dict, settings, edits, kills, history>>

(* iniparser_load: a file that somebody writes cannot be opened. NULL, for *)
(* whatever reason, becomes an empty dictionary.                           *)
Open(p) ==
  /\ pc[p] = "open"
  /\ IF disk # Missing /\ writing = {}
     THEN /\ reading' = reading \cup {p} /\ Goto(p, "read")
          /\ UNCHANGED <<dict, excuse>>
     ELSE /\ dict' = [dict EXCEPT ![p] = Empty] /\ Goto(p, "fill")
          /\ excuse' = IF writing = {} THEN excuse ELSE excuse \cup {"busy"}
          /\ UNCHANGED reading
  /\ UNCHANGED <<disk, writing, settings, edits, kills, typed, stale>>

Read(p) ==
  /\ pc[p] = "read"
  /\ reading' = reading \ {p}
  /\ dict' = [dict EXCEPT ![p] = IF IsText(disk) THEN disk ELSE Empty]
  /\ excuse' = IF IsText(disk) THEN excuse ELSE excuse \cup {"garbled"}
  /\ Goto(p, "fill")
  /\ UNCHANGED <<disk, writing, settings, edits, kills, typed, stale>>

Filled(d) == [k \in Entries \cup DOMAIN d |->
                IF k \in DOMAIN d THEN d[k] ELSE "default"]

(* The defaults of what is missing; update_required.                       *)
Fill(p) ==
  /\ pc[p] = "fill"
  /\ dict' = [dict EXCEPT ![p] = Filled(@)]
  /\ Goto(p, IF Entries \subseteq DOMAIN dict[p] THEN "values" ELSE "save")
  /\ UNCHANGED <<file, settings, edits, kills, typed, excuse, stale>>

Die(p) == Goto(p, "dead")

(* fopen_s "wt" empties the file, or fails when anybody has it open. What  *)
(* the user has typed since it was read is gone.                           *)
Truncate(p) ==
  /\ pc[p] = "save"
  /\ IF reading \cup writing = {}
     THEN /\ disk' = Empty /\ writing' = {p} /\ Goto(p, "dump")
          /\ excuse' = IF p \in stale THEN excuse \cup {"overtaken"} ELSE excuse
     ELSE Die(p) /\ UNCHANGED <<disk, writing, excuse>>
  /\ UNCHANGED <<reading, dict, settings, edits, kills, typed, stale>>

\* Mutant: only what was missing is written.
DumpAdded(p) ==
  /\ pc[p] = "dump"
  /\ disk' = [k \in {l \in DOMAIN dict[p] : dict[p][l] = "default"} |-> "default"]
  /\ writing' = {} /\ Goto(p, "values")
  /\ UNCHANGED <<reading, dict, settings, edits, kills, history>>

(* iniparser_dump_ini and fclose, which writes the buffer out.             *)
Dump(p) ==
  /\ pc[p] = "dump"
  /\ disk' = dict[p] /\ writing' = {} /\ Goto(p, "values")
  /\ UNCHANGED <<reading, dict, settings, edits, kills, history>>

(* Nobody looks whether they fail: of a full disk the process hears        *)
(* nothing, and the file ends after some of the lines, or within one.      *)
DumpFails(p) ==
  /\ pc[p] = "dump" /\ kills < MaxKills
  /\ kills' = kills + 1
  /\ \/ \E S \in SUBSET DOMAIN dict[p] : disk' = [k \in S |-> dict[p][k]]
     \/ disk' = Garbled
  /\ writing' = {} /\ Goto(p, "values")
  /\ excuse' = excuse \cup {"failed"}
  /\ UNCHANGED <<reading, dict, settings, edits, typed, stale>>

(* The values are taken from the dictionary, not from the file.            *)
GetValues(p) ==
  /\ pc[p] = "values"
  /\ settings' = [settings EXCEPT ![p] = dict[p]]
  /\ Goto(p, "done")
  /\ UNCHANGED <<file, dict, edits, kills, history>>

(* A process is killed, or crashes; its program goes with an injector      *)
(* (DebugSetProcessKillOnExit). A file it was writing stays empty.         *)
Kill(p) ==
  /\ pc[p] \notin {"off", "dead"} /\ kills < MaxKills
  /\ kills' = kills + 1
  /\ LET gone == IF p \in Injectors THEN {p, Child[p]} ELSE {p} IN
       /\ pc' = [q \in Processes |-> IF q \in gone THEN "dead" ELSE pc[q]]
       /\ reading' = reading \ gone /\ writing' = writing \ gone
       /\ excuse' = IF writing \cap gone = {} THEN excuse
                    ELSE excuse \cup {"killed"}
  /\ UNCHANGED <<disk, dict, settings, edits, typed, stale>>

(* The user saves the file: some of the keys, with texts or defaults, or a *)
(* text with a syntax error.                                               *)
Edit ==
  /\ edits < MaxEdits /\ reading \cup writing = {}
  /\ edits' = edits + 1
  /\ stale' = {p \in Processes : pc[p] \notin {"off", "open"}}
  /\ \/ \E S \in SUBSET Entries, U \in SUBSET Keys :
          /\ U \subseteq S
          /\ disk' = [k \in S |-> IF k \in U THEN "user" ELSE "default"]
          /\ typed' = U /\ excuse' = {}
     \/ disk' = Garbled /\ UNCHANGED <<typed, excuse>>
  /\ UNCHANGED <<reading, writing, pc, dict, settings, kills>>

Load(p) == \/ Open(p) \/ Read(p) \/ Fill(p) \/ Truncate(p)
           \/ Dump(p) \/ DumpFails(p) \/ GetValues(p)

Next ==
  \/ \E p \in Processes : Start(p) \/ Load(p) \/ Kill(p)
  \/ Edit

Spec == Init /\ [][Next]_vars

-----------------------------------------------------------------------------
(* Properties. *)

UserKeys == IF IsText(disk) THEN {k \in DOMAIN disk : disk[k] = "user"} ELSE {}

(* What the user has typed is lost only in five ways: the file had a       *)
(* syntax error, another process was writing it when it was loaded, the    *)
(* user edited it between load and save, the save was killed, or it        *)
(* failed. While a save runs, the texts are in the dictionary of the       *)
(* process that saves.                                                     *)
UserTextsKept ==
  excuse = {} /\ disk # Garbled =>
    \/ typed \subseteq UserKeys
    \/ \E p \in writing : \A k \in typed : dict[p][k] = "user"

(* The injector and the program it has patched work with the same          *)
(* settings, unless the user edited the file, another injector ran, or one *)
(* of the five things happened that may lose what is in the file.          *)
SessionAgrees ==
  \A i \in Injectors :
    /\ pc[i] = "done" /\ pc[Child[i]] = "done"
    /\ i \notin stale
    /\ excuse = {} /\ \A j \in Injectors \ {i} : pc[j] = "off"
    => settings[Child[i]] = settings[i]
=============================================================================
