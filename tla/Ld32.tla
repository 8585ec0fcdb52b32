-------------------------------- MODULE Ld32 --------------------------------
(***************************************************************************)
(* The length disassembler (ld32.c) reading the bytes of an instruction    *)
(* one by one, and the loop of PatchIoInstruction that calls it until six  *)
(* bytes are covered. The bytes are chosen when they are read.             *)
(***************************************************************************)
EXTENDS Integers, Bitwise

CONSTANTS
  Byte,     \* 0..255
  Buffer,   \* sizeof(instr_ptr) in ProcessIoException
  JmpFar,   \* bytes the patch needs
  Window    \* what the loop subtracts len_total from: io_size_bits

ASSUME Ld32Assumption ==
  /\ Byte \subseteq 0..255 /\ {Buffer, JmpFar, Window} \subseteq Nat
  /\ JmpFar <= Window /\ Window <= Buffer

VARIABLES
  phase,       \* of length_disasm: "prefix", "two", "one", "modrm", "sib",
               \* "end"; of the loop: "done", "failed"
  total,       \* len_total
  rest, pos,   \* max_length, and opcode - opcode0
  op, crdr,    \* op while it is looked at, then mod; MOV with CR and DR
  ddef, mdef,  \* sizes of an immediate value and of an address
  dsize, msize,
  peek,        \* modrm, if looked at before it is read, else -1
  prefixes,    \* first instruction: number of prefixes, up to 2, and
               \* whether the last one was 66h
  io           \* first instruction: what DecodeIoInstruction says of it

call == <<rest, pos, crdr, ddef, mdef, dsize, msize, peek>>
vars == <<phase, total, op, call, prefixes, io>>

NotIo == [size |-> 0, bits |-> 0]

-----------------------------------------------------------------------------
(* Tables of 256 bits: a row for each high digit, the set of low digits.   *)

D == 0..15
Low(a) == a..(a + 3)
CheckTable(t, v) == v % 16 \in t[v \div 16 + 1]

modrm2_t == <<{0, 1, 2, 3, 13}, D, Low(0) \cup 8..15, {8, 10}, D, D, D,
              D \ {7}, {}, D, {3, 4, 5} \cup 11..15, D \ {9}, 0..7, D, D,
              D \ {15}>>

data12_t == <<{}, {}, {}, {10}, {}, {}, {}, Low(0), {}, {}, {4, 12}, {10},
              {2, 4, 5, 6}, {}, {}, {}>>

\* Mutant: two entries of the table are swapped.
modrm_tSwapped == LET A == Low(0) \cup Low(8) IN
  <<A, A, A, A, {}, {}, {2, 3, 9, 10}, {}, D, {}, {}, {},
    {0, 1} \cup 4..7, Low(0) \cup 8..15, {}, {6, 7, 14, 15}>>

modrm_t == LET A == Low(0) \cup Low(8) IN
  <<A, A, A, A, {}, {}, {2, 3, 9, 11}, {}, D, {}, {}, {},
    {0, 1} \cup 4..7, Low(0) \cup 8..15, {}, {6, 7, 14, 15}>>

data1_t == LET A == {4, 12} IN
  <<A, A, A, A, {}, {}, {10, 11}, D, {0, 2, 3}, {}, {8}, 0..7,
    {0, 1, 6, 8, 13}, {4, 5}, 0..7 \cup {11}, {}>>

data66_t == LET A == {5, 13} IN
  <<A, A, A, A, {}, {}, {8, 9}, {}, {1}, {10}, {9}, 8..15, {7}, {},
    {8, 9, 10}, {}>>

(* The tests the build uses in place of tables. *)
CheckPrefix(v) == v & 231 = 38 \/ v & 252 = 100 \/ v & 254 = 242 \/ v = 240
CheckData2(v) == v \in {154, 194, 200, 202, 234}
CheckOp3(v) == v \in {56, 58}
CheckCrdr2(v) == v & 252 = 32
CheckData662(v) == v & 240 = 128
CheckTest(v) == v \in {246, 247}
CheckMem67(v) == v & 252 = 160

(* What the build leaves out: the tables of two of these tests, and the    *)
(* tests that stand beside the tables above.                               *)
prefix_t == <<{}, {}, {6, 14}, {6, 14}, {}, {}, Low(4), {}, {}, {}, {}, {}, {}, {}, {},
              {0, 2, 3}>>

data2_t == <<{}, {}, {}, {}, {}, {}, {}, {}, {}, {10}, {}, {}, {2, 8, 10}, {}, {10}, {}>>

WithoutTables(v) ==
  [modrm |-> v & 196 = 0 \/ v & 240 = 128 \/ v & 248 = 216 \/ v & 246 = 246
               \/ v & 252 \in {196, 208} \/ v & 254 \in {98, 192}
               \/ v \in {105, 107},
   data1 |-> v & 240 = 112 \/ v & 199 = 4 \/ v & 248 \in {176, 224}
               \/ v & 254 \in {106, 130, 192, 212}
               \/ v \in {128, 168, 198, 200, 205, 235},
   data66 |-> v & 199 = 5 \/ v & 248 = 184 \/ v & 126 = 104
               \/ v \in {129, 154, 169, 199, 234},
   data12 |-> v & 252 = 112 \/ v \in {58, 164, 172, 186, 194, 196, 197, 198},
   modrm2 |-> v & 240 = 144 \/ v & 248 = 176 \/ v & 246 = 164
                \/ v & 252 \in {0, 188} \/ v & 254 \in {186, 192}
                \/ v \in {163, 171, 175}]

-----------------------------------------------------------------------------
(* length_disasm *)

Start(t, max) ==
  /\ total' = t /\ rest' = max /\ pos' = 0
  /\ ddef' = 4 /\ mdef' = 4 /\ dsize' = 0 /\ msize' = 0
  /\ crdr' = FALSE /\ peek' = -1 /\ op' = 0

Init ==
  /\ phase = "prefix" /\ total = 0 /\ rest = Window /\ pos = 0 /\ op = 0
  /\ ddef = 4 /\ mdef = 4 /\ dsize = 0 /\ msize = 0
  /\ crdr = FALSE /\ peek = -1
  /\ prefixes = [n |-> 0, size |-> FALSE] /\ io = NotIo

Read(n) == rest > 0 /\ rest' = rest - 1 /\ pos' = pos + n

OutOfBytes ==
  /\ phase \in {"prefix", "two", "modrm", "sib"} /\ rest = 0
  /\ phase' = "failed"
  /\ UNCHANGED <<total, op, call, prefixes, io>>

(* DecodeIoInstruction on the first bytes, of which at most one is 66h. *)
DecodeIoInstruction(size66, v) ==
  CASE size66 /\ v \in {229, 231} -> [size |-> 3, bits |-> 16]
    [] size66 /\ v \in {237, 239} -> [size |-> 2, bits |-> 16]
    [] ~size66 /\ v \in {228, 230} -> [size |-> 2, bits |-> 8]
    [] ~size66 /\ v \in {229, 231} -> [size |-> 2, bits |-> 32]
    [] ~size66 /\ v \in {236, 238} -> [size |-> 1, bits |-> 8]
    [] ~size66 /\ v \in {237, 239} -> [size |-> 1, bits |-> 32]
    [] OTHER -> NotIo

Prefix ==
  /\ phase = "prefix" /\ Read(1)
  /\ \E v \in Byte :
       /\ op' = v
       /\ ddef' = IF v = 102 THEN 2 ELSE ddef
       /\ mdef' = IF v = 103 THEN 2 ELSE mdef
       /\ phase' = IF CheckPrefix(v) THEN "prefix"
                   ELSE IF v = 15 THEN "two" ELSE "one"
       /\ IF total > 0 THEN UNCHANGED <<prefixes, io>>
          ELSE IF CheckPrefix(v)
          THEN /\ prefixes' = [n |-> IF prefixes.n = 0 THEN 1 ELSE 2,
                              size |-> v = 102]
               /\ UNCHANGED io
          ELSE /\ io' = IF prefixes.n = (IF prefixes.size THEN 1 ELSE 0)
                        THEN DecodeIoInstruction(prefixes.size, v) ELSE NotIo
               /\ UNCHANGED prefixes
  /\ UNCHANGED <<total, crdr, dsize, msize, peek>>

TwoByte ==
  /\ phase = "two"
  /\ \E v \in Byte :
       /\ Read(IF CheckOp3(v) THEN 2 ELSE 1)
       /\ op' = 0
       /\ dsize' = IF CheckTable(data12_t, v) THEN 1
                   ELSE IF CheckData662(v) THEN ddef ELSE 0
       /\ crdr' = CheckCrdr2(v)
       /\ phase' = IF CheckTable(modrm2_t, v) THEN "modrm" ELSE "end"
  /\ UNCHANGED <<total, ddef, mdef, msize, peek, prefixes, io>>

(* TEST has an immediate value if the register field of modrm, not read    *)
(* yet, is 0 or 1.                                                         *)
OneByte ==
  /\ phase = "one"
  /\ \E m \in IF CheckTest(op) THEN Byte ELSE {-1} :
       /\ peek' = m
       /\ dsize' = (IF CheckTable(data1_t, op) THEN 1
                    ELSE IF CheckTable(data66_t, op) THEN ddef ELSE 0)
                   + (IF CheckData2(op) THEN 2 ELSE 0)
                   + (IF CheckTest(op) /\ m & 48 = 0
                      THEN IF op % 2 = 1 THEN ddef ELSE 1 ELSE 0)
  /\ msize' = IF CheckMem67(op) THEN mdef ELSE 0
  /\ phase' = IF CheckTable(modrm_t, op) THEN "modrm" ELSE "end"
  /\ op' = 0
  /\ UNCHANGED <<total, rest, pos, crdr, ddef, mdef, prefixes, io>>

(* op now keeps mod for the scaled index byte that may follow. *)
ModRm ==
  /\ phase = "modrm" /\ Read(1)
  /\ \E m \in IF peek >= 0 THEN {peek} ELSE Byte :
       LET mod == IF crdr THEN 3 ELSE m \div 64
           rm == m % 8
       IN /\ op' = mod
          /\ phase' = IF mod # 3 /\ mdef = 4 /\ rm = 4 THEN "sib" ELSE "end"
          /\ msize' = msize + CASE mod = 1 -> 1
                                [] mod = 2 -> mdef
                                [] mod = 0 /\ mdef = 2 /\ rm = 6 -> 2
                                [] mod = 0 /\ mdef = 4 /\ rm = 5 -> 4
                                [] OTHER -> 0
  /\ UNCHANGED <<total, crdr, ddef, mdef, dsize, peek, prefixes, io>>

Sib ==
  /\ phase = "sib" /\ Read(1)
  /\ \E s \in Byte :
       msize' = msize + IF s % 8 = 5 /\ op = 0 THEN 4 ELSE 0
  /\ phase' = "end"
  /\ UNCHANGED <<total, op, crdr, ddef, mdef, dsize, peek, prefixes, io>>

Length == pos + msize + dsize

\* Mutant: the loop gives every call the whole window.
EndWholeWindow ==
  /\ phase = "end"
  /\ phase' = IF total + Length >= JmpFar THEN "done" ELSE "prefix"
  /\ Start(total + Length, Window)
  /\ UNCHANGED <<prefixes, io>>

(* The loop of PatchIoInstruction, entered for 8-bit port instructions of  *)
(* one byte only.                                                          *)
End ==
  /\ phase = "end"
  /\ phase' = IF \/ total + Length >= JmpFar
                 \/ total = 0 /\ io # [size |-> 1, bits |-> 8]
              THEN "done" ELSE "prefix"
  /\ IF phase' = "done"
     THEN total' = total + Length /\ UNCHANGED <<op, call>>
     ELSE Start(total + Length, Window - (total + Length))
  /\ UNCHANGED <<prefixes, io>>

Next == OutOfBytes \/ Prefix \/ TwoByte \/ OneByte \/ ModRm \/ Sib \/ End

Spec == Init /\ [][Next]_vars

-----------------------------------------------------------------------------
(* Properties *)

(* No byte beyond the buffer of sixteen is read or copied: max_length      *)
(* covers prefixes, opcode and address bytes, not the immediate value and  *)
(* the displacement, and the caller tests len_total only after it has      *)
(* copied len_total bytes (PatchIoInstruction).                            *)
InBuffer ==
  IF phase = "done" THEN total <= Buffer
  ELSE total + pos + (IF peek >= 0 /\ phase = "modrm" THEN 1 ELSE 0) <= Buffer

(* Table and test of each kind of byte say the same of every byte, the one *)
(* the build uses and the one it leaves out, but for modrm2_t: its test is *)
(* unfinished ("TODO: Fix this"). What has a modrm byte by that test has   *)
(* one by the table; that the other 149 entries are right is not shown.    *)
TablesAgree ==
  phase \in {"prefix", "two", "one"} =>
    LET test == WithoutTables(op) IN
    /\ CheckTable(prefix_t, op) = CheckPrefix(op)
    /\ CheckTable(modrm_t, op) = test.modrm
    /\ CheckTable(data1_t, op) = test.data1
    /\ CheckTable(data2_t, op) = CheckData2(op)
    /\ CheckTable(data66_t, op) = test.data66
    /\ CheckTable(data12_t, op) = test.data12
    /\ test.modrm2 => CheckTable(modrm2_t, op)
=============================================================================
