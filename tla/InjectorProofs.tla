--------------------------- MODULE InjectorProofs ---------------------------
(***************************************************************************)
(* Proofs about InjectorPatch, for any threads, programs, memory and       *)
(* failures: what holds of the memory while it is patched.                 *)
(***************************************************************************)
EXTENDS InjectorPatch, SequenceTheorems, TLAPS

Byte ==
  [op : {"code"}, x : DOMAIN code, k : 0..14]
    \cup [op : {"call"}, x : DOMAIN code, k : {0}]
    \cup [op : {"push"}, to : Addr, k : 0..4]
    \cup [op : {"zero", "ret", "nop"}, k : {0}]

Size(b) == CASE b.op = "code" -> code[b.x].len
             [] b.op = "push" -> 5
             [] b.op = "zero" -> 2
             [] OTHER -> 1

(* All the bytes of the instruction that begins at z are there. *)
Lies(m, z) ==
  \A k \in 0..(Size(m[z]) - 1) : z + k \in Addr /\ m[z + k] = [m[z] EXCEPT !.k = k]

(* Only the program, the first n regions and what the last jump of one of  *)
(* them may reach hold anything.                                           *)
Within(a, n, most) ==
  a <= SiteSize + most \/ \E j \in 1..n : a \in Region(j)..(Region(j) + 15 + most)
Laid(m, n) ==
  \A a \in Addr : /\ m[a].op # "zero" => Within(a, n, 16)
                  /\ m[a].op = "code" => Within(a, n, 0)

(* A RET or a NOP comes after another one or after the last part of a      *)
(* PUSH, and a part of a PUSH after the part before it or after one.       *)
Ends(b) == b.op \in {"ret", "nop"}
Chained(m) ==
  \A a \in Addr :
    /\ Ends(m[a]) => /\ a - 1 \in Addr
                     /\ Ends(m[a - 1]) \/ (m[a - 1].op = "push" /\ m[a - 1].k = 4)
    /\ m[a].op = "push" /\ m[a].k > 0 =>
         /\ a - 1 \in Addr
         /\ \/ Ends(m[a - 1])
            \/ m[a - 1].op = "push" /\ m[a - 1].k = m[a].k - 1

MemoryOK(m, n) ==
  /\ n \in 0..MaxRegions /\ m \in [Addr -> Byte]
  /\ Laid(m, n) /\ Chained(m)

-----------------------------------------------------------------------------
(* Numbers and regions. *)

LEMMA ConstantsAre ==
  /\ SiteSize \in Nat /\ RegionSize \in Nat /\ RegionSize >= 40 /\ MaxRegions \in Nat
  /\ \A p \in Programs : IsProgram(p)
BY InjectorAssumption

LEMMA RegionsApart ==
  ASSUME NEW j \in Nat, NEW n \in Nat, j < n
  PROVE  Region(j) + RegionSize <= Region(n)
<1>1. PICK i \in Nat : n = j + 1 + i
  BY n - j - 1 \in Nat
<1>2. n * RegionSize = j * RegionSize + RegionSize + i * RegionSize
  BY <1>1, ConstantsAre
<1>3. i * RegionSize \in Nat /\ j * RegionSize \in Nat
  BY ConstantsAre
<1> QED
  BY <1>2, <1>3, ConstantsAre DEF Region

LEMMA RegionIn ==
  ASSUME NEW j \in Nat, j <= MaxRegions
  PROVE  /\ Region(j) \in Nat /\ Region(j) > SiteSize
         /\ \A a \in Int : a >= 1 /\ a < Region(j) + RegionSize => a \in Addr
<1>1. j * RegionSize \in Nat /\ (MaxRegions + 1) * RegionSize \in Nat
  BY ConstantsAre
<1>2. Region(j) + RegionSize <= Region(MaxRegions + 1)
  BY ConstantsAre, RegionsApart
<1> QED
  BY <1>1, <1>2, ConstantsAre DEF Region, Addr

LEMMA WithinOne ==
  ASSUME NEW n \in Nat, n < MaxRegions, NEW most \in 0..16, NEW a \in Addr,
         Within(a, n, most)
  PROVE  /\ a + 16 - most < Region(n + 1)
         /\ \A j \in 1..n : ~(a < Region(j) /\ Region(j) <= a + 16 - most)
<1>0. a \in Nat
  BY ConstantsAre DEF Addr
<1>a. \A j \in 0..(n + 1) : Region(j) \in Nat
  BY ConstantsAre, RegionIn
<1>1. CASE a <= SiteSize + most
  <2>1. \A j \in 1..(n + 1) : SiteSize + 40 < Region(j)
    <3> SUFFICES ASSUME NEW j \in 1..(n + 1) PROVE SiteSize + 40 < Region(j)
      OBVIOUS
    <3>1. Region(0) + RegionSize <= Region(j) /\ Region(0) = SiteSize + 1
      BY RegionsApart, ConstantsAre DEF Region
    <3> QED
      BY <3>1, <1>a, ConstantsAre
  <2> QED
    BY <1>0, <1>1, <1>a, <2>1, ConstantsAre
<1>2. ASSUME NEW i \in 1..n, a \in Region(i)..(Region(i) + 15 + most)
      PROVE  /\ a + 16 - most < Region(n + 1)
             /\ \A j \in 1..n : ~(a < Region(j) /\ Region(j) <= a + 16 - most)
  <2>1. \A j \in 1..(n + 1) : i < j => Region(i) + RegionSize <= Region(j)
    BY RegionsApart
  <2>2. \A j \in 1..n : j < i => Region(j) + RegionSize <= Region(i)
    BY RegionsApart
  <2>3. \A j \in 1..n : ~(a < Region(j) /\ Region(j) <= a + 16 - most)
    <3> SUFFICES ASSUME NEW j \in 1..n
                 PROVE  ~(a < Region(j) /\ Region(j) <= a + 16 - most)
      OBVIOUS
    <3>1. j < i \/ j = i \/ i < j
      OBVIOUS
    <3>2. Region(j) \in Nat /\ Region(i) \in Nat
      BY <1>a
    <3> QED
      BY <1>0, <1>2, <2>1, <2>2, <3>1, <3>2, ConstantsAre
  <2>4. a + 16 - most < Region(n + 1)
    <3>1. Region(n + 1) \in Nat /\ Region(i) \in Nat
      BY <1>a
    <3> QED
      BY <1>0, <1>2, <2>1, <3>1, ConstantsAre
  <2> QED
    BY <2>3, <2>4
<1> QED
  BY <1>1, <1>2 DEF Within

(* The next region is free, and no region begins in the sixteen bytes      *)
(* after an instruction of the program.                                    *)
LEMMA RegionFree ==
  ASSUME NEW m, NEW n \in Nat, n < MaxRegions, Laid(m, n), NEW a \in Addr
  PROVE  /\ m[a].op # "zero" => a < Region(n + 1)
         /\ m[a].op = "code" =>
              /\ a + 16 < Region(n + 1)
              /\ \A j \in 1..n : ~(a < Region(j) /\ Region(j) <= a + 16)
<1>0. a \in Nat
  BY ConstantsAre DEF Addr
<1>1. ASSUME m[a].op # "zero" PROVE a < Region(n + 1)
  <2>1. Within(a, n, 16)
    BY <1>1 DEF Laid
  <2>2. a + 16 - 16 < Region(n + 1)
    BY <2>1, WithinOne
  <2> QED
    BY <1>0, <2>2
<1>2. ASSUME m[a].op = "code"
      PROVE  /\ a + 16 < Region(n + 1)
             /\ \A j \in 1..n : ~(a < Region(j) /\ Region(j) <= a + 16)
  <2>1. Within(a, n, 0)
    BY <1>2 DEF Laid
  <2>2. /\ a + 16 - 0 < Region(n + 1)
        /\ \A j \in 1..n : ~(a < Region(j) /\ Region(j) <= a + 16 - 0)
    BY <2>1, WithinOne
  <2>3. a + 16 - 0 = a + 16
    BY <1>0
  <2> QED
    BY <2>2, <2>3
<1> QED
  BY <1>1, <1>2

-----------------------------------------------------------------------------
(* Instructions. *)

LEMMA BytesAre ==
  ASSUME code \in Programs, NEW b \in Byte
  PROVE  /\ b.op \in {"code", "call", "push", "zero", "ret", "nop"}
         /\ b.k \in 0..14
         /\ b.op \in {"code", "call"} => b.x \in DOMAIN code
         /\ b.op = "push" => b.to \in Addr /\ b.k \in 0..4
         /\ b.op \notin {"code", "push"} => b.k = 0
         /\ Size(b) \in 1..15
         /\ \A k : [b EXCEPT !.k = k].op = b.op /\ [b EXCEPT !.k = k].k = k
<1>1. \A x \in DOMAIN code : code[x].len \in 1..15
  BY ConstantsAre DEF IsProgram, Instruction
<1>2. /\ b.op \in {"code", "call", "push", "zero", "ret", "nop"}
      /\ b.k \in 0..14
      /\ b.op \in {"code", "call"} => b.x \in DOMAIN code
      /\ b.op = "push" => b.to \in Addr /\ b.k \in 0..4
      /\ b.op \notin {"code", "push"} => b.k = 0
  BY DEF Byte
<1>3. \A k : [b EXCEPT !.k = k].op = b.op /\ [b EXCEPT !.k = k].k = k
  BY DEF Byte
<1>4. Size(b) \in 1..15
  BY <1>1, <1>2 DEF Size
<1> QED
  BY <1>2, <1>3, <1>4

(* An instruction is read where it lies.                                   *)
LEMMA LengthIs ==
  ASSUME code \in Programs, mem \in [Addr -> Byte], NEW y \in Addr
  PROVE  /\ Length(y) # 0 => /\ Length(y) = Size(mem[y])
                             /\ y + Size(mem[y]) - 1 \in Addr
                             /\ mem[y].op # "zero" => Lies(mem, y)
         /\ Lies(mem, y) => Length(y) = Size(mem[y])
<1>1. mem[y] \in Byte
  OBVIOUS
<1>2. Size(mem[y]) \in 1..15
  BY <1>1, BytesAre
<1>3. Length(y) = IF \A k \in 0..(Size(mem[y]) - 1) :
                        /\ y + k \in Addr
                        /\ mem[y].op = "zero" \/ mem[y + k] = [mem[y] EXCEPT !.k = k]
                  THEN Size(mem[y]) ELSE 0
  BY DEF Length, Size
<1>4. ASSUME Length(y) # 0
      PROVE  /\ Length(y) = Size(mem[y])
             /\ y + Size(mem[y]) - 1 \in Addr
             /\ mem[y].op # "zero" => Lies(mem, y)
  <2>1. \A k \in 0..(Size(mem[y]) - 1) :
          /\ y + k \in Addr
          /\ mem[y].op = "zero" \/ mem[y + k] = [mem[y] EXCEPT !.k = k]
    BY <1>3, <1>4
  <2>2. y + (Size(mem[y]) - 1) \in Addr
    <3>1. Size(mem[y]) - 1 \in 0..(Size(mem[y]) - 1)
      BY <1>2
    <3> QED
      BY <2>1, <3>1
  <2>3. y + (Size(mem[y]) - 1) = y + Size(mem[y]) - 1
    BY <1>2, ConstantsAre DEF Addr
  <2> QED
    BY <1>3, <1>4, <2>1, <2>2, <2>3 DEF Lies
<1>5. ASSUME Lies(mem, y)
      PROVE  Length(y) = Size(mem[y])
  BY <1>3, <1>5 DEF Lies
<1> QED
  BY <1>4, <1>5

-----------------------------------------------------------------------------
(* The bytes that a jump overwrites. *)

(* What the loop over length_disasm has gone over when it is at e.         *)
GoneOver(y, e) ==
  /\ e \in Nat /\ y <= e /\ e <= y + 16
  /\ \A a \in y..(e - 1) : a \in Addr /\ ~Ends(mem[a])
  /\ \A z \in y..(e - 1) :
       Lies(mem, z) /\ (z = y \/ mem[z - 1].op # "zero") /\ mem[z].op # "zero"
         => z + Size(mem[z]) <= e

(* A RET or a NOP that the loop comes to is at least six bytes away: the   *)
(* PUSH before it has been gone over.                                      *)
LEMMA PushBefore ==
  ASSUME Chained(mem), NEW y \in Addr, NEW e \in Nat, y < e,
         mem[y].op = "code", mem \in [Addr -> Byte], code \in Programs,
         \A a \in y..(e - 1) : a \in Addr /\ ~Ends(mem[a]),
         mem[e - 1].op = "push"
  PROVE  e - 1 - mem[e - 1].k > y
<1>0. y \in Nat
  BY ConstantsAre DEF Addr
<1>1. \A a \in (y + 1)..(e - 1) : mem[a].op = "push" /\ mem[a].k > 0 =>
         mem[a - 1].op = "push" /\ mem[a - 1].k = mem[a].k - 1 /\ a - 1 > y
  <2> SUFFICES ASSUME NEW a \in (y + 1)..(e - 1), mem[a].op = "push", mem[a].k > 0
               PROVE  mem[a - 1].op = "push" /\ mem[a - 1].k = mem[a].k - 1 /\ a - 1 > y
    OBVIOUS
  <2>1. a \in Addr /\ a \in y..(e - 1) /\ a - 1 \in y..(e - 1)
    BY <1>0
  <2>2. ~Ends(mem[a - 1])
    BY <2>1
  <2>3. mem[a - 1].op = "push" /\ mem[a - 1].k = mem[a].k - 1
    BY <2>1, <2>2 DEF Chained
  <2> QED
    BY <1>0, <2>3
<1>2. \A a \in y..(e - 1) : mem[a].op = "push" => mem[a].k \in 0..4 /\ a > y
  <2> SUFFICES ASSUME NEW a \in y..(e - 1), mem[a].op = "push"
               PROVE  mem[a].k \in 0..4 /\ a > y
    OBVIOUS
  <2>1. a \in Addr /\ mem[a] \in Byte
    OBVIOUS
  <2>2. mem[a].k \in 0..4
    BY <2>1, BytesAre
  <2> QED
    BY <1>0, <2>2
<1> DEFINE P(j) == e - 1 - j > y /\ mem[e - 1 - j].op = "push"
                   /\ mem[e - 1 - j].k = mem[e - 1].k - j
<1>3. mem[e - 1].k \in 0..4 /\ P(0)
  BY <1>0, <1>2
<1>4. ASSUME NEW j \in 0..3, P(j), mem[e - 1].k > j
      PROVE  P(j + 1)
  <2>1. e - 1 - j \in (y + 1)..(e - 1) /\ mem[e - 1 - j].k > 0
    BY <1>0, <1>3, <1>4
  <2>2. (e - 1 - j) - 1 = e - 1 - (j + 1)
    BY <1>0
  <2>3. /\ mem[(e - 1 - j) - 1].op = "push"
        /\ mem[(e - 1 - j) - 1].k = mem[e - 1 - j].k - 1 /\ (e - 1 - j) - 1 > y
    BY <1>1, <1>4, <2>1
  <2>4. mem[e - 1 - j].k - 1 = mem[e - 1].k - (j + 1)
    BY <1>3, <1>4
  <2> QED
    BY <2>2, <2>3, <2>4
<1> HIDE DEF P
<1>5. mem[e - 1].k >= 1 => P(1)
  BY <1>3, <1>4
<1>6. mem[e - 1].k >= 2 => P(2)
  BY <1>3, <1>4, <1>5
<1>7. mem[e - 1].k >= 3 => P(3)
  BY <1>3, <1>4, <1>6
<1>8. mem[e - 1].k >= 4 => P(4)
  BY <1>3, <1>4, <1>7
<1>9. \A j \in 0..4 : P(j) => e - 1 - j > y
  BY DEF P
<1> QED
  BY <1>3, <1>5, <1>6, <1>7, <1>8, <1>9

(* One more instruction.                                                   *)
LEMMA GoneFurther ==
  ASSUME code \in Programs, mem \in [Addr -> Byte], Chained(mem),
         NEW y \in Addr, mem[y].op = "code", NEW e \in Nat, GoneOver(y, e), e - y < 6,
         Length(e) # 0, HeadSize(e) <= 8 - (e - y)
  PROVE  /\ GoneOver(y, e + Length(e))
         /\ Length(e) \in 1..15
<1>0. /\ y \in Nat /\ y <= e
      /\ \A a \in y..(e - 1) : a \in Addr /\ ~Ends(mem[a])
  BY ConstantsAre DEF Addr, GoneOver
<1>1. e \in Addr
  BY DEF Length
<1>b. mem[e] \in Byte
  BY <1>1
<1>2. /\ Length(e) = Size(mem[e]) /\ Size(mem[e]) \in 1..15
      /\ e + Size(mem[e]) - 1 \in Addr
      /\ mem[e].op # "zero" => Lies(mem, e)
  BY <1>1, <1>b, LengthIs, BytesAre
<1> DEFINE n == Size(mem[e])
<1>n. n \in 1..15 /\ n = Size(mem[e]) /\ Length(e) = n
  BY <1>2
<1> HIDE DEF n
<1>3. e + n <= y + 16
  <2>1. CASE mem[e].op = "code"
    <3>1. mem[e].x \in DOMAIN code
      BY <1>b, <2>1, BytesAre
    <3>2. code[mem[e].x] \in Instruction
      BY <3>1, ConstantsAre DEF IsProgram
    <3>3. n = code[mem[e].x].len /\ HeadSize(e) = code[mem[e].x].head
      BY <1>n, <2>1 DEF Size, HeadSize
    <3> QED
      BY <1>0, <3>2, <3>3 DEF Instruction
  <2>2. CASE mem[e].op # "code"
    <3>1. n <= 5
      BY <1>n, <1>b, <2>2, BytesAre DEF Size
    <3> QED
      BY <1>0, <1>n, <3>1
  <2> QED
    BY <2>1, <2>2
<1>4. ~Ends(mem[e])
  <2> SUFFICES ASSUME Ends(mem[e]) PROVE FALSE
    OBVIOUS
  <2>1. y < e
    BY <1>0 DEF Ends
  <2>2. e - 1 \in y..(e - 1)
    BY <1>0, <2>1
  <2>3. mem[e - 1].op = "push" /\ mem[e - 1].k = 4
    BY <1>0, <1>1, <2>2 DEF Chained
  <2>4. e - 1 - 4 > y
    BY <1>0, <2>1, <2>3, PushBefore
  <2> QED
    BY <1>0, <2>4
<1>5. \A a \in e..(e + n - 1) : a \in Addr /\ ~Ends(mem[a])
  <2> SUFFICES ASSUME NEW a \in e..(e + n - 1) PROVE a \in Addr /\ ~Ends(mem[a])
    OBVIOUS
  <2>1. a \in Addr
    BY <1>1, <1>2, <1>n, ConstantsAre DEF Addr
  <2>2. CASE mem[e].op # "zero"
    <3>1. a - e \in 0..(Size(mem[e]) - 1) /\ e + (a - e) = a
      BY <1>n
    <3>2. mem[a] = [mem[e] EXCEPT !.k = a - e]
      BY <1>2, <2>2, <3>1 DEF Lies
    <3>3. mem[a].op = mem[e].op
      BY <1>b, <3>2, BytesAre
    <3> QED
      BY <1>4, <2>1, <3>3 DEF Ends
  <2>3. CASE mem[e].op = "zero"
    <3>1. n = 2
      BY <1>n, <2>3 DEF Size
    <3>2. a = e \/ a - 1 = e
      BY <3>1
    <3> QED
      BY <1>4, <2>1, <2>3, <3>2 DEF Chained, Ends
  <2> QED
    BY <2>2, <2>3
<1>6. ASSUME NEW z \in e..(e + n - 1), Lies(mem, z), z = y \/ mem[z - 1].op # "zero",
             mem[z].op # "zero"
      PROVE  z + Size(mem[z]) <= e + n
  <2>1. CASE z = e
    BY <1>n, <2>1
  <2>2. CASE z # e
    <3>1. z - e \in 1..(Size(mem[e]) - 1) /\ e + (z - e) = z /\ z # y
      BY <1>0, <1>n, <2>2
    <3>2. z \in Addr
      BY <1>5
    <3>3. CASE mem[e].op # "zero"
      <4>1. mem[z] = [mem[e] EXCEPT !.k = z - e]
        BY <1>2, <3>1, <3>3 DEF Lies
      <4>2. mem[z].k = z - e
        BY <1>b, <4>1, BytesAre
      <4>3. mem[z].k = 0
        <5>1. mem[z] \in Byte /\ Size(mem[z]) \in 1..15
          BY <3>2, BytesAre
        <5>2. 0 \in 0..(Size(mem[z]) - 1) /\ z + 0 = z
          BY <3>2, <5>1, ConstantsAre DEF Addr
        <5>3. mem[z] = [mem[z] EXCEPT !.k = 0]
          BY <1>6, <5>2 DEF Lies
        <5>4. [mem[z] EXCEPT !.k = 0].k = 0
          BY <5>1, BytesAre
        <5> QED
          BY <5>3, <5>4
      <4> QED
        BY <3>1, <4>2, <4>3
    <3>4. CASE mem[e].op = "zero"
      <4>1. n = 2
        BY <1>n, <3>4 DEF Size
      <4>2. z - 1 = e
        BY <2>2, <4>1
      <4> QED
        BY <1>6, <3>1, <3>4, <4>2
    <3> QED
      BY <3>3, <3>4
  <2> QED
    BY <2>1, <2>2
<1>7. \A a \in y..(e + n - 1) : a \in y..(e - 1) \/ a \in e..(e + n - 1)
  BY <1>0, <1>n
<1>8. ASSUME NEW z \in y..(e - 1), Lies(mem, z), z = y \/ mem[z - 1].op # "zero",
             mem[z].op # "zero"
      PROVE  z + Size(mem[z]) <= e + n
  <2>1. z + Size(mem[z]) <= e
    BY <1>8 DEF GoneOver
  <2>2. Size(mem[z]) \in 1..15
    BY <1>0, BytesAre
  <2> QED
    BY <1>n, <2>1, <2>2
<1>9. GoneOver(y, e + n)
  BY <1>0, <1>n, <1>3, <1>5, <1>6, <1>7, <1>8 DEF GoneOver
<1> QED
  BY <1>n, <1>9

(* The bytes a jump at y overwrites: whole instructions, sixteen bytes at  *)
(* most, so that the buffer of ProcessIoException has room for them        *)
(* (LptPatchInjector.c:248), and no RET and no NOP.                        *)
LEMMA CutIs ==
  ASSUME code \in Programs, mem \in [Addr -> Byte], Chained(mem),
         NEW y \in Addr, mem[y].op = "code", Cut(y) # 0
  PROVE  Cut(y) \in Nat /\ Cut(y) - y >= 6 /\ GoneOver(y, Cut(y))
<1>0. y \in Nat \ {0}
  BY ConstantsAre DEF Addr
<1> DEFINE Good(e, n) == e = 0 \/ (e \in Nat /\ GoneOver(y, e) /\ e - y >= n)
<1>1. Good(y, 0)
  BY <1>0 DEF GoneOver
<1>2. ASSUME NEW e, NEW n \in 0..5, Good(e, n)
      PROVE  Good(Over(y, e), n + 1)
  <2>1. CASE e = 0 \/ e - y >= 6
    <3>1. Over(y, e) = e
      BY <2>1 DEF Over
    <3> QED
      BY <1>0, <1>2, <2>1, <3>1
  <2>2. CASE e # 0 /\ ~(e - y >= 6) /\ Length(e) # 0 /\ HeadSize(e) <= 8 - (e - y)
    <3>1. e \in Nat /\ GoneOver(y, e) /\ e - y >= n /\ e - y < 6
      BY <1>0, <1>2, <2>2
    <3>2. GoneOver(y, e + Length(e)) /\ Length(e) \in 1..15
      BY <2>2, <3>1, GoneFurther
    <3>3. Over(y, e) = e + Length(e)
      BY <2>2 DEF Over
    <3> QED
      BY <1>0, <3>1, <3>2, <3>3
  <2>3. CASE e # 0 /\ ~(e - y >= 6) /\ ~(Length(e) # 0 /\ HeadSize(e) <= 8 - (e - y))
    BY <2>3 DEF Over
  <2> QED
    BY <2>1, <2>2, <2>3
<1> DEFINE e1 == Over(y, y)
           e2 == Over(y, e1)
           e3 == Over(y, e2)
           e4 == Over(y, e3)
           e5 == Over(y, e4)
           e6 == Over(y, e5)
<1>3. Cut(y) = e6
  BY DEF Cut
<1> HIDE DEF Good
<1>4. Good(e1, 1)
  BY <1>1, <1>2
<1> HIDE DEF e1
<1>5. Good(e2, 2)
  BY <1>4, <1>2
<1> HIDE DEF e2
<1>6. Good(e3, 3)
  BY <1>5, <1>2
<1> HIDE DEF e3
<1>7. Good(e4, 4)
  BY <1>6, <1>2
<1> HIDE DEF e4
<1>8. Good(e5, 5)
  BY <1>7, <1>2
<1> HIDE DEF e5
<1>9. Good(e6, 6)
  BY <1>8, <1>2
<1> HIDE DEF e6
<1> QED
  BY <1>3, <1>9 DEF Good

-----------------------------------------------------------------------------
(* What a patch writes. *)

(* The bytes of a jump and of the NOPs behind it. *)
JumpByte(to, k) == IF k < 5 THEN [op |-> "push", to |-> to, k |-> k]
                   ELSE IF k = 5 THEN [op |-> "ret", k |-> 0] ELSE Nop

LEMMA FarJump ==
  ASSUME NEW to, NEW S, \A k \in 0..5 : JumpByte(to, k) \in S
  PROVE  /\ JmpFar(to) \in Seq(S)
         /\ Len(JmpFar(to)) = 6
         /\ \A k \in 1..6 : JmpFar(to)[k] = JumpByte(to, k - 1)
<1>1. /\ \A k \in 1..5 : Push(to)[k] = JumpByte(to, k - 1)
      /\ Ret[1] = JumpByte(to, 5)
  BY DEF Push, Ret, JumpByte
<1>3. Push(to) \in Seq(S) /\ Len(Push(to)) = 5
  <2>1. DOMAIN Push(to) = 1..5 /\ Push(to) = [k \in 1..5 |-> Push(to)[k]]
    BY DEF Push
  <2>2. Push(to) \in [1..5 -> S]
    BY <1>1, <2>1
  <2> QED
    BY <2>1, <2>2, SeqDef
<1>4. Ret \in Seq(S) /\ Len(Ret) = 1
  BY <1>1 DEF Ret
<1>5. /\ Push(to) \o Ret \in Seq(S) /\ Len(Push(to) \o Ret) = 6
      /\ \A k \in 1..6 : (Push(to) \o Ret)[k] = IF k <= 5 THEN Push(to)[k] ELSE Ret[k - 5]
  <2> DEFINE p == Push(to)
  <2>1. p \in Seq(S) /\ Ret \in Seq(S) /\ Len(p) = 5 /\ Len(Ret) = 1
    BY <1>3, <1>4
  <2> HIDE DEF p
  <2>2. /\ p \o Ret \in Seq(S) /\ Len(p \o Ret) = Len(p) + Len(Ret)
        /\ \A k \in 1..(Len(p) + Len(Ret)) :
             (p \o Ret)[k] = IF k <= Len(p) THEN p[k] ELSE Ret[k - Len(p)]
    BY <2>1, ConcatProperties, Zenon
  <2>3. Len(p \o Ret) = 6
    BY <2>1, <2>2
  <2>4. \A k \in 1..6 : (p \o Ret)[k] = IF k <= 5 THEN p[k] ELSE Ret[k - 5]
    BY <2>1, <2>2
  <2> QED
    BY <2>2, <2>3, <2>4 DEF p
<1>6. \A k \in 1..6 : (Push(to) \o Ret)[k] = JumpByte(to, k - 1)
  BY SMTT(60), <1>1, <1>5
<1> QED
  BY <1>5, <1>6 DEF JmpFar

LEMMA JumpAndNops ==
  ASSUME NEW to, NEW n \in Nat
  PROVE  /\ Len(JmpFar(to) \o [k \in 1..n |-> Nop]) = 6 + n
         /\ \A k \in 1..(6 + n) :
              (JmpFar(to) \o [i \in 1..n |-> Nop])[k] = JumpByte(to, k - 1)
<1> DEFINE S == UNION {{JumpByte(to, k)} : k \in 0..6}
           nops == [i \in 1..n |-> Nop]
<1>1. \A k \in 0..5 : JumpByte(to, k) \in S
  OBVIOUS
<1>2. Nop \in S /\ \A k \in 7..(6 + n) : JumpByte(to, k - 1) = Nop
  BY DEF JumpByte
<1> HIDE DEF S
<1>3. nops \in Seq(S) /\ Len(nops) = n /\ \A k \in 1..n : nops[k] = Nop
  BY <1>2, SeqDef
<1> HIDE DEF nops
<1>4. /\ Len(JmpFar(to) \o nops) = 6 + n
      /\ \A k \in 1..(6 + n) :
           (JmpFar(to) \o nops)[k] = IF k <= 6 THEN JmpFar(to)[k] ELSE nops[k - 6]
  <2> DEFINE j == JmpFar(to)
  <2>1. j \in Seq(S) /\ nops \in Seq(S) /\ Len(j) = 6 /\ Len(nops) = n
    BY <1>1, <1>3, FarJump
  <2> HIDE DEF j
  <2>2. /\ Len(j \o nops) = Len(j) + Len(nops)
        /\ \A k \in 1..(Len(j) + Len(nops)) :
             (j \o nops)[k] = IF k <= Len(j) THEN j[k] ELSE nops[k - Len(j)]
    BY <2>1, ConcatProperties, Zenon
  <2> QED
    BY <2>1, <2>2 DEF j
<1>5. \A k \in 1..(6 + n) : (JmpFar(to) \o nops)[k] = JumpByte(to, k - 1)
  <2>1. \A k \in 1..6 : JmpFar(to)[k] = JumpByte(to, k - 1)
    BY <1>1, FarJump
  <2> SUFFICES ASSUME NEW k \in 1..(6 + n)
               PROVE  (JmpFar(to) \o nops)[k] = JumpByte(to, k - 1)
    OBVIOUS
  <2>2. CASE k <= 6
    BY SMTT(60), <1>4, <2>1, <2>2
  <2>3. CASE k > 6
    <3>1. k - 6 \in 1..n
      BY <2>3
    <3> QED
      BY <1>2, <1>3, <1>4, <2>3, <3>1
  <2>4. k <= 6 \/ k > 6
    OBVIOUS
  <2> QED
    BY <2>2, <2>3, <2>4, Zenon
<1> QED
  BY <1>4, <1>5 DEF nops

Worker(y) == [op |-> "call", x |-> mem[y].x, k |-> 0]

(* Memory after the first part, after two, and after all of them. *)
Started(y, r) == [a \in Addr |-> IF a = r THEN Worker(y) ELSE mem[a]]
Copied(y, e, r) ==
  [a \in Addr |-> IF a = r THEN Worker(y)
                  ELSE IF a \in (r + 1)..(r + (e - y) - 1) THEN mem[y + (a - r)]
                  ELSE mem[a]]
Complete(y, e, r) ==
  [a \in Addr |-> IF a = r THEN Worker(y)
                  ELSE IF a \in (r + 1)..(r + (e - y) - 1) THEN mem[y + (a - r)]
                  ELSE IF a \in y..(e - 1) THEN JumpByte(r, a - y)
                  ELSE IF a \in (r + (e - y))..(r + (e - y) + 5)
                  THEN JumpByte(e, a - (r + (e - y)))
                  ELSE mem[a]]

LEMMA WrittenIs ==
  ASSUME mem \in [Addr -> Byte], NEW y \in Nat, NEW e \in Nat, NEW r \in Nat,
         e - y >= 6, e <= r
  PROVE  /\ Written(Parts(y, e, r), 0) = mem
         /\ Written(Parts(y, e, r), 1) = Started(y, r)
         /\ Written(Parts(y, e, r), 2) = Copied(y, e, r)
         /\ Written(Parts(y, e, r), 4) = Complete(y, e, r)
<1> DEFINE parts == Parts(y, e, r)
           Covers(j, a) == a - parts[j][1] \in 0..(Len(parts[j][2]) - 1)
           Byte1(j, a) == parts[j][2][a - parts[j][1] + 1]
           copies == [k \in 1..(e - y - 1) |-> mem[y + k]]
           jump == JmpFar(r) \o [k \in 1..(e - y - 6) |-> Nop]
<1>1. /\ parts[1] = <<r, <<Worker(y)>> >> /\ parts[2] = <<r + 1, copies>>
      /\ parts[3] = <<y, jump>> /\ parts[4] = <<r + e - y, JmpFar(e)>>
  BY DEF Parts, Worker
<1>2. /\ Len(copies) = e - y - 1 /\ \A k \in 1..(e - y - 1) : copies[k] = mem[y + k]
  OBVIOUS
<1>3. /\ Len(jump) = e - y /\ \A k \in 1..(e - y) : jump[k] = JumpByte(r, k - 1)
  <2>1. e - y - 6 \in Nat /\ 6 + (e - y - 6) = e - y
    OBVIOUS
  <2>2. /\ Len(jump) = 6 + (e - y - 6)
        /\ \A k \in 1..(6 + (e - y - 6)) : jump[k] = JumpByte(r, k - 1)
    BY <2>1, JumpAndNops, Zenon
  <2> QED
    BY <2>1, <2>2
<1>4. Len(JmpFar(e)) = 6 /\ \A k \in 1..6 : JmpFar(e)[k] = JumpByte(e, k - 1)
  <2>1. \A k \in 0..5 : JumpByte(e, k) \in {JumpByte(e, j) : j \in 0..5}
    OBVIOUS
  <2> QED
    BY <2>1, FarJump
<1> HIDE DEF copies, jump, parts
<1>5. ASSUME NEW a \in Int
      PROVE  /\ Covers(1, a) <=> a = r
             /\ Covers(2, a) <=> a \in (r + 1)..(r + (e - y) - 1)
             /\ Covers(3, a) <=> a \in y..(e - 1)
             /\ Covers(4, a) <=> a \in (r + (e - y))..(r + (e - y) + 5)
  <2>1. /\ parts[1][1] = r /\ Len(parts[1][2]) = 1
        /\ parts[2][1] = r + 1 /\ Len(parts[2][2]) = e - y - 1
        /\ parts[3][1] = y /\ Len(parts[3][2]) = e - y
        /\ parts[4][1] = r + e - y /\ Len(parts[4][2]) = 6
    BY <1>1, <1>2, <1>3, <1>4
  <2>2. Covers(1, a) <=> a = r
    BY <2>1
  <2>3. Covers(2, a) <=> a \in (r + 1)..(r + (e - y) - 1)
    BY <2>1
  <2>4. Covers(3, a) <=> a \in y..(e - 1)
    BY <2>1
  <2>5. Covers(4, a) <=> a \in (r + (e - y))..(r + (e - y) + 5)
    BY <2>1
  <2> QED
    BY <2>2, <2>3, <2>4, <2>5
<1>6. ASSUME NEW a \in Int
      PROVE  /\ Covers(1, a) => Byte1(1, a) = Worker(y)
             /\ Covers(2, a) => Byte1(2, a) = mem[y + (a - r)]
             /\ Covers(3, a) => Byte1(3, a) = JumpByte(r, a - y)
             /\ Covers(4, a) => Byte1(4, a) = JumpByte(e, a - (r + (e - y)))
  <2>1. Covers(1, a) => Byte1(1, a) = Worker(y)
    BY <1>1, <1>5
  <2>2. ASSUME Covers(2, a) PROVE Byte1(2, a) = mem[y + (a - r)]
    <3>1. a - (r + 1) + 1 \in 1..(e - y - 1) /\ a - (r + 1) + 1 = a - r
      BY <1>5, <2>2
    <3> QED
      BY <1>1, <1>2, <3>1
  <2>3. ASSUME Covers(3, a) PROVE Byte1(3, a) = JumpByte(r, a - y)
    <3>1. a - y + 1 \in 1..(e - y) /\ (a - y + 1) - 1 = a - y
      BY <1>5, <2>3
    <3> QED
      BY <1>1, <1>3, <3>1
  <2>4. ASSUME Covers(4, a) PROVE Byte1(4, a) = JumpByte(e, a - (r + (e - y)))
    <3>1. /\ a - (r + e - y) + 1 \in 1..6
          /\ (a - (r + e - y) + 1) - 1 = a - (r + (e - y))
      BY <1>5, <2>4
    <3> QED
      BY <1>1, <1>4, <3>1
  <2> QED
    BY <2>1, <2>2, <2>3, <2>4
<1>7. \A a \in Int : \A j, k \in 1..4 : Covers(j, a) /\ Covers(k, a) => j = k
  <2> SUFFICES ASSUME NEW a \in Int, NEW j \in 1..4, NEW k \in 1..4, Covers(j, a), Covers(k, a)
               PROVE  j = k
    OBVIOUS
  <2>1. j \in {1, 2, 3, 4} /\ k \in {1, 2, 3, 4}
    OBVIOUS
  <2> HIDE DEF Covers
  <2> QED
    BY <1>5, <2>1
<1>8. ASSUME NEW i \in 0..4
      PROVE  Written(parts, i) =
               [a \in Addr |-> IF \E j \in 1..i : Covers(j, a)
                               THEN Byte1(CHOOSE j \in 1..i : Covers(j, a), a)
                               ELSE mem[a]]
  BY DEF Written
<1>9. ASSUME NEW i \in 0..4, NEW a \in Int, NEW k \in 1..i, Covers(k, a)
      PROVE  (CHOOSE j \in 1..i : Covers(j, a)) = k
  <2> HIDE DEF Covers
  <2> DEFINE c == CHOOSE j \in 1..i : Covers(j, a)
  <2>1. c \in 1..i /\ Covers(c, a)
    BY <1>9
  <2> HIDE DEF c
  <2>2. c \in 1..4 /\ k \in 1..4
    BY <2>1
  <2>3. c = k
    BY <1>7, <1>9, <2>1, <2>2
  <2> QED
    BY <2>3 DEF c
<1>10. \A a \in Addr : a \in Int
  BY ConstantsAre DEF Addr
<1> HIDE DEF Covers, Byte1
<1>11. ASSUME NEW i \in 0..4, NEW a \in Addr
       PROVE  /\ \A k \in 1..i : Covers(k, a) => Written(parts, i)[a] = Byte1(k, a)
              /\ (\A k \in 1..i : ~Covers(k, a)) => Written(parts, i)[a] = mem[a]
  <2>1. ASSUME NEW k \in 1..i, Covers(k, a)
        PROVE  Written(parts, i)[a] = Byte1(k, a)
    <3>1. (CHOOSE j \in 1..i : Covers(j, a)) = k
      BY <1>9, <1>10, <2>1
    <3> QED
      BY <1>8, <2>1, <3>1
  <2> QED
    BY <1>8, <2>1
<1>12. \A i \in 0..4 : Written(parts, i) = [a \in Addr |-> Written(parts, i)[a]]
  BY <1>8
<1>13. Written(parts, 0) = mem
  <2>1. \A a \in Addr : Written(parts, 0)[a] = mem[a]
    BY <1>11
  <2> QED
    BY <1>12, <2>1
<1>14. Written(parts, 1) = Started(y, r)
  <2>1. \A a \in Addr : Written(parts, 1)[a] = Started(y, r)[a]
    <3> SUFFICES ASSUME NEW a \in Addr PROVE Written(parts, 1)[a] = Started(y, r)[a]
      OBVIOUS
    <3>1. \A k \in 1..1 : k = 1
      OBVIOUS
    <3> QED
      BY <1>5, <1>6, <1>10, <1>11, <3>1 DEF Started
  <2> QED
    BY <1>12, <2>1 DEF Started
<1>15. Written(parts, 2) = Copied(y, e, r)
  <2>1. \A a \in Addr : Written(parts, 2)[a] = Copied(y, e, r)[a]
    <3> SUFFICES ASSUME NEW a \in Addr PROVE Written(parts, 2)[a] = Copied(y, e, r)[a]
      OBVIOUS
    <3>1. \A k \in 1..2 : k = 1 \/ k = 2
      OBVIOUS
    <3> QED
      BY <1>5, <1>6, <1>10, <1>11, <3>1 DEF Copied
  <2> QED
    BY <1>12, <2>1 DEF Copied
<1>16. Written(parts, 4) = Complete(y, e, r)
  <2>1. \A a \in Addr : Written(parts, 4)[a] = Complete(y, e, r)[a]
    <3> SUFFICES ASSUME NEW a \in Addr PROVE Written(parts, 4)[a] = Complete(y, e, r)[a]
      OBVIOUS
    <3>1. \A k \in 1..4 : k = 1 \/ k = 2 \/ k = 3 \/ k = 4
      OBVIOUS
    <3> QED
      BY <1>5, <1>6, <1>10, <1>11, <3>1 DEF Complete
  <2> QED
    BY <1>12, <2>1 DEF Complete
<1> QED
  BY <1>13, <1>14, <1>15, <1>16 DEF parts

(* Where a patch is made: y the port instruction, e the end of what the    *)
(* jump overwrites, r the region of the worker.                            *)
Place(y, e, r) ==
  /\ y \in Addr /\ y \in Nat /\ mem[y].op = "code" /\ Lies(mem, y) /\ Size(mem[y]) = 1
  /\ mem[y].x \in DOMAIN code /\ code[mem[y].x].kind = "io" /\ code[mem[y].x].len = 1
  /\ e \in Nat /\ e - y >= 6 /\ e <= y + 16 /\ GoneOver(y, e)
  /\ regions + 1 \in 1..MaxRegions /\ r = Region(regions + 1) /\ r \in Nat /\ y + 16 < r
  /\ \A a \in r..(r + 31) : a \in Addr
  /\ \A a \in Addr : a >= r => mem[a].op = "zero"
  /\ \A j \in 1..regions : Region(j) \notin (y + 1)..(e - 1)

LEMMA PlaceIs ==
  ASSUME code \in Programs, MemoryOK(mem, regions), regions < MaxRegions,
         NEW y, Patchable(y)
  PROVE  Place(y, Cut(y), Region(regions + 1))
<1>1. /\ y \in Addr /\ IsIo(y) /\ code[mem[y].x].bits = 8 /\ code[mem[y].x].len = 1
      /\ Cut(y) # 0
  BY DEF Patchable
<1>2. /\ mem \in [Addr -> Byte] /\ Laid(mem, regions) /\ Chained(mem)
      /\ regions \in 0..MaxRegions /\ regions \in Nat /\ regions + 1 \in 1..MaxRegions
  BY ConstantsAre DEF MemoryOK
<1>3. Length(y) # 0 /\ mem[y].op = "code" /\ code[mem[y].x].kind = "io"
  <2>1. mem[y].op \in {"code", "call", "push", "zero", "ret", "nop"}
    BY <1>1, <1>2, BytesAre
  <2> QED
    BY <1>1, <2>1 DEF IsIo, Op
<1>4. Lies(mem, y) /\ Size(mem[y]) = 1 /\ mem[y].x \in DOMAIN code
  BY <1>1, <1>2, <1>3, LengthIs, BytesAre DEF Size
<1>5. /\ Cut(y) \in Nat /\ Cut(y) - y >= 6 /\ GoneOver(y, Cut(y)) /\ Cut(y) <= y + 16
  BY <1>1, <1>2, <1>3, CutIs DEF GoneOver
<1>6. y \in Nat
  BY <1>1, ConstantsAre DEF Addr
<1>7. /\ y + 16 < Region(regions + 1)
      /\ \A j \in 1..regions : ~(y < Region(j) /\ Region(j) <= y + 16)
      /\ \A a \in Addr : mem[a].op # "zero" => a < Region(regions + 1)
  BY <1>1, <1>2, <1>3, RegionFree
<1>8. /\ Region(regions + 1) \in Nat
      /\ \A a \in Int : a >= 1 /\ a < Region(regions + 1) + RegionSize => a \in Addr
      /\ Region(regions + 1) > SiteSize
  BY <1>2, RegionIn
<1>9. \A a \in Region(regions + 1)..(Region(regions + 1) + 31) : a \in Addr
  BY <1>8, ConstantsAre
<1>10. \A a \in Addr : a >= Region(regions + 1) => mem[a].op = "zero"
  <2> SUFFICES ASSUME NEW a \in Addr, a >= Region(regions + 1) PROVE mem[a].op = "zero"
    OBVIOUS
  <2>1. a \in Nat
    BY ConstantsAre DEF Addr
  <2> QED
    BY <1>7, <1>8, <2>1
<1>11. \A j \in 1..regions : Region(j) \notin (y + 1)..(Cut(y) - 1)
  <2> SUFFICES ASSUME NEW j \in 1..regions, Region(j) \in (y + 1)..(Cut(y) - 1) PROVE FALSE
    OBVIOUS
  <2> QED
    BY <1>5, <1>6, <1>7
<1> QED
  BY <1>1, <1>2, <1>3, <1>4, <1>5, <1>6, <1>7, <1>8, <1>9, <1>10, <1>11 DEF Place

(* Memory is laid out as it should be after any number of parts.           *)
LEMMA LaidMore ==
  ASSUME NEW m, NEW n \in Nat, Laid(m, n)
  PROVE  Laid(m, n + 1)
<1>1. \A a \in Addr : \A most : Within(a, n, most) => Within(a, n + 1, most)
  BY DEF Within
<1> QED
  BY <1>1 DEF Laid

LEMMA CopyBytes ==
  ASSUME code \in Programs, MemoryOK(mem, regions), NEW y, NEW e, NEW r, Place(y, e, r),
         NEW a \in (r + 1)..(r + (e - y) - 1)
  PROVE  /\ y + (a - r) \in (y + 1)..(e - 1)
         /\ y + (a - r) \in Addr /\ mem[y + (a - r)] \in Byte /\ ~Ends(mem[y + (a - r)])
         /\ mem[y + (a - r)].op = "push" /\ mem[y + (a - r)].k > 0 =>
              /\ a - 1 \in (r + 1)..(r + (e - y) - 1)
              /\ mem[y + (a - 1 - r)].op = "push"
              /\ mem[y + (a - 1 - r)].k = mem[y + (a - r)].k - 1
<1>1. /\ y \in Nat /\ e \in Nat /\ r \in Nat /\ e - y >= 6 /\ mem[y].op = "code"
      /\ \A q \in y..(e - 1) : q \in Addr /\ ~Ends(mem[q])
  BY DEF Place, GoneOver
<1>2. y + (a - r) \in (y + 1)..(e - 1)
  BY <1>1
<1> DEFINE q == y + (a - r)
<1>3. q \in (y + 1)..(e - 1) /\ y + (a - 1 - r) = q - 1
  BY <1>1
<1> HIDE DEF q
<1>4. q \in Addr /\ ~Ends(mem[q]) /\ q - 1 \in Addr /\ ~Ends(mem[q - 1])
  <2>1. q \in y..(e - 1) /\ q - 1 \in y..(e - 1)
    BY <1>1, <1>3
  <2> QED
    BY <1>1, <2>1
<1>5. mem[q] \in Byte
  BY <1>4 DEF MemoryOK
<1>6. ASSUME mem[q].op = "push", mem[q].k > 0
      PROVE  /\ mem[q - 1].op = "push" /\ mem[q - 1].k = mem[q].k - 1
             /\ a - 1 \in (r + 1)..(r + (e - y) - 1)
  <2>1. mem[q - 1].op = "push" /\ mem[q - 1].k = mem[q].k - 1
    BY <1>4, <1>6 DEF MemoryOK, Chained
  <2>2. q - 1 # y
    BY <1>1, <2>1
  <2>3. a - r # 1
    BY <1>1, <2>2 DEF q
  <2> QED
    BY <1>1, <2>1, <2>3
<1> QED
  BY <1>2, <1>3, <1>4, <1>5, <1>6 DEF q

LEMMA JumpBytes ==
  ASSUME NEW to \in Addr, NEW k \in Nat, code \in Programs
  PROVE  /\ JumpByte(to, k) \in Byte
         /\ JumpByte(to, k).op \in {"push", "ret", "nop"}
         /\ Ends(JumpByte(to, k)) <=> k >= 5
         /\ k < 5 => JumpByte(to, k) = [op |-> "push", to |-> to, k |-> k]
<1>1. CASE k < 5
  BY <1>1 DEF JumpByte, Byte, Ends
<1>2. CASE k = 5
  BY <1>2 DEF JumpByte, Byte, Ends
<1>3. CASE k > 5
  BY <1>3 DEF JumpByte, Byte, Ends, Nop
<1> QED
  BY <1>1, <1>2, <1>3

LEMMA JumpChained ==
  ASSUME NEW to \in Addr, NEW k \in Nat, NEW h \in Nat, h = k - 1
  PROVE  /\ Ends(JumpByte(to, k)) =>
              \/ Ends(JumpByte(to, h))
              \/ JumpByte(to, h).op = "push" /\ JumpByte(to, h).k = 4
         /\ JumpByte(to, k).op = "push" =>
              JumpByte(to, h).op = "push" /\ JumpByte(to, h).k = JumpByte(to, k).k - 1
<1>1. CASE k < 5
  BY <1>1 DEF JumpByte, Ends
<1>2. CASE k = 5
  BY <1>2 DEF JumpByte, Ends
<1>3. CASE k > 5
  BY <1>3 DEF JumpByte, Ends, Nop
<1> QED
  BY <1>1, <1>2, <1>3

LEMMA WithinRegion ==
  ASSUME NEW n \in Nat, NEW a \in Int, a >= Region(n + 1), a <= Region(n + 1) + 31
  PROVE  /\ Within(a, n + 1, 16)
         /\ a <= Region(n + 1) + 15 => Within(a, n + 1, 0)
<1>1. Region(n + 1) \in Int
  BY ConstantsAre DEF Region
<1>2. n + 1 \in 1..(n + 1) /\ a \in Region(n + 1)..(Region(n + 1) + 15 + 16)
  BY <1>1
<1>3. Within(a, n + 1, 16)
  BY <1>2 DEF Within
<1>4. a <= Region(n + 1) + 15 => a \in Region(n + 1)..(Region(n + 1) + 15 + 0)
  BY <1>1
<1> QED
  BY <1>2, <1>3, <1>4 DEF Within

(* The jump at y reaches sixteen bytes beyond where code may be.           *)
LEMMA WithinJump ==
  ASSUME NEW n \in Nat, n <= MaxRegions, NEW y \in Int, NEW a \in Int, a >= y, a <= y + 16, Within(y, n, 0)
  PROVE  Within(a, n, 16)
<1>0. \A j \in 1..n : Region(j) \in Nat
  BY RegionIn, ConstantsAre
<1>1. CASE y <= SiteSize + 0
  BY <1>1, ConstantsAre DEF Within
<1>2. ASSUME NEW j \in 1..n, y \in Region(j)..(Region(j) + 15 + 0)
      PROVE  Within(a, n, 16)
  <2>1. a \in Region(j)..(Region(j) + 15 + 16)
    BY <1>0, <1>2
  <2> QED
    BY <2>1 DEF Within
<1> QED
  BY <1>1, <1>2 DEF Within

LEMMA PatchedMemory ==
  ASSUME code \in Programs, MemoryOK(mem, regions), NEW y, NEW e, NEW r, Place(y, e, r),
         NEW m \in {mem, Started(y, r), Copied(y, e, r), Complete(y, e, r)}
  PROVE  MemoryOK(m, regions + 1)
<1>1. /\ y \in Addr /\ y \in Nat /\ e \in Nat /\ r \in Nat /\ e - y >= 6 /\ e <= y + 16
      /\ y + 16 < r
      /\ \A q \in y..(e - 1) : q \in Addr /\ ~Ends(mem[q])
      /\ \A a \in r..(r + 31) : a \in Addr
      /\ \A a \in Addr : a >= r => mem[a].op = "zero"
      /\ \A a \in Addr : a \in Nat
      /\ mem[y].op = "code"
  BY ConstantsAre DEF Place, GoneOver, Addr
<1>2. /\ mem \in [Addr -> Byte] /\ Laid(mem, regions) /\ Chained(mem)
      /\ regions \in Nat /\ regions + 1 \in 0..MaxRegions /\ r = Region(regions + 1)
  BY ConstantsAre DEF MemoryOK, Place
<1>3. e \in Addr /\ r \in Addr
  BY <1>1, ConstantsAre, e >= 1 DEF Addr
<1>4. Worker(y) \in Byte /\ Worker(y).op = "call"
  BY DEF Place, Worker, Byte
<1>5. Laid(mem, regions + 1)
  BY <1>2, LaidMore
<1>w. Within(y, regions + 1, 0)
  BY <1>1, <1>5 DEF Laid
<1>6. \A a \in y..(e - 1) : Within(a, regions + 1, 16)
  BY <1>1, <1>2, <1>w, WithinJump
<1>7. \A a \in r..(r + 31) : /\ Within(a, regions + 1, 16)
                             /\ a <= r + 15 => Within(a, regions + 1, 0)
  BY <1>1, <1>2, WithinRegion
<1> DEFINE C1 == (r + 1)..(r + (e - y) - 1)
           C2 == y..(e - 1)
           C3 == (r + (e - y))..(r + (e - y) + 5)
<1>8. /\ C1 \subseteq r..(r + 15) /\ C3 \subseteq r..(r + 31) /\ r \notin C1 /\ r \notin C3
      /\ \A a \in C2 : a < r
      /\ \A a \in C3 : a - (r + (e - y)) \in 0..5 /\ a \notin C1 /\ a \notin C2
      /\ \A a \in C2 : a - y \in Nat /\ a \notin C1
  BY <1>1
<1>b. \A a \in Addr : a < r =>
        /\ a \notin C1 /\ a \notin C3 /\ a # r
        /\ a - 1 \notin C1 /\ a - 1 \notin C3 /\ a - 1 # r
  BY <1>1
<1>9. CASE m = mem
  BY <1>2, <1>5, <1>9 DEF MemoryOK
<1>10. CASE m = Started(y, r)
  <2>1. m \in [Addr -> Byte]
    BY <1>2, <1>4, <1>10 DEF Started
  <2>2. m[r] = Worker(y) /\ \A a \in Addr : a # r => m[a] = mem[a]
    BY <1>3, <1>10 DEF Started
  <2>3. Laid(m, regions + 1)
    BY <1>1, <1>4, <1>5, <1>7, <2>2 DEF Laid
  <2>4. Chained(m)
    <3> SUFFICES ASSUME NEW a \in Addr, Ends(m[a]) \/ m[a].op = "push"
                 PROVE  m[a] = mem[a] /\ (a - 1 \in Addr => m[a - 1] = mem[a - 1])
      BY <1>2 DEF Chained
    <3>1. a # r /\ m[a] = mem[a]
      BY <1>4, <2>2 DEF Ends
    <3>2. a < r
      BY <1>1, <3>1 DEF Ends
    <3> QED
      BY <1>b, <2>2, <3>1, <3>2
  <2> QED
    BY <1>2, <2>1, <2>3, <2>4 DEF MemoryOK
<1>11. CASE m = Copied(y, e, r)
  <2>1. m \in [Addr -> Byte]
    <3>1. \A a \in C1 : mem[y + (a - r)] \in Byte
      BY CopyBytes
    <3> QED
      BY <1>2, <1>4, <1>11, <3>1 DEF Copied
  <2>2. /\ m[r] = Worker(y)
        /\ \A a \in C1 : m[a] = mem[y + (a - r)]
        /\ \A a \in Addr : a # r /\ a \notin C1 => m[a] = mem[a]
    BY <1>1, <1>3, <1>8, <1>11 DEF Copied
  <2> HIDE DEF C1, C2, C3
  <2>3. Laid(m, regions + 1)
    <3> SUFFICES ASSUME NEW a \in Addr
                 PROVE  /\ m[a].op # "zero" => Within(a, regions + 1, 16)
                        /\ m[a].op = "code" => Within(a, regions + 1, 0)
      BY DEF Laid
    <3>1. CASE a \in r..(r + 15)
      BY <1>1, <1>7, <3>1
    <3>2. CASE a \notin r..(r + 15)
      BY <1>1, <1>5, <1>8, <2>2, <3>2 DEF Laid
    <3> QED
      BY <3>1, <3>2
  <2>4. Chained(m)
    <3> SUFFICES ASSUME NEW a \in Addr
                 PROVE  /\ Ends(m[a]) => /\ a - 1 \in Addr
                                         /\ \/ Ends(m[a - 1])
                                            \/ m[a - 1].op = "push" /\ m[a - 1].k = 4
                        /\ m[a].op = "push" /\ m[a].k > 0 =>
                             /\ a - 1 \in Addr
                             /\ \/ Ends(m[a - 1])
                                \/ m[a - 1].op = "push" /\ m[a - 1].k = m[a].k - 1
      BY DEF Chained
    <3>1. CASE a = r
      BY <1>4, <2>2, <3>1 DEF Ends
    <3>2. CASE a \in C1
      <4>1. m[a] = mem[y + (a - r)] /\ ~Ends(m[a])
        BY <2>2, <3>2, CopyBytes DEF C1
      <4>2. ASSUME m[a].op = "push", m[a].k > 0
            PROVE  /\ a - 1 \in Addr /\ m[a - 1].op = "push"
                   /\ m[a - 1].k = m[a].k - 1
        <5>1. /\ a - 1 \in C1 /\ mem[y + (a - 1 - r)].op = "push"
              /\ mem[y + (a - 1 - r)].k = mem[y + (a - r)].k - 1
          BY <3>2, <4>1, <4>2, CopyBytes DEF C1
        <5>2. a - 1 \in Addr
          BY <1>1, <1>8, <5>1
        <5> QED
          BY <2>2, <4>1, <5>1, <5>2
      <4> QED
        BY <4>1, <4>2
    <3>3. CASE a < r
      <4>1. m[a] = mem[a] /\ (a - 1 \in Addr => m[a - 1] = mem[a - 1])
        BY <1>b, <2>2, <3>3
      <4> QED
        BY <1>2, <4>1 DEF Chained
    <3>4. CASE a > r /\ a \notin C1
      <4>1. m[a].op = "zero"
        BY <1>1, <2>2, <3>4
      <4> QED
        BY <4>1 DEF Ends
    <3> QED
      BY <1>1, <3>1, <3>2, <3>3, <3>4
  <2> QED
    BY <1>2, <2>1, <2>3, <2>4 DEF MemoryOK
<1>12. CASE m = Complete(y, e, r)
  <2>0. /\ \A a \in C2 : JumpByte(r, a - y) \in Byte
        /\ \A a \in C3 : JumpByte(e, a - (r + (e - y))) \in Byte
        /\ \A a \in C1 : mem[y + (a - r)] \in Byte
    BY <1>3, <1>8, JumpBytes, CopyBytes
  <2>1. m \in [Addr -> Byte]
    BY <1>2, <1>4, <1>12, <2>0 DEF Complete
  <2>2. /\ m[r] = Worker(y)
        /\ \A a \in C1 : m[a] = mem[y + (a - r)]
        /\ \A a \in C2 : m[a] = JumpByte(r, a - y)
        /\ \A a \in C3 : m[a] = JumpByte(e, a - (r + (e - y)))
        /\ \A a \in Addr : a # r /\ a \notin C1 /\ a \notin C2 /\ a \notin C3 => m[a] = mem[a]
    <3>1. \A a \in C1 \cup C2 \cup C3 : a \in Addr
      BY <1>1
    <3> QED
      BY <1>3, <1>8, <1>12, <3>1 DEF Complete
  <2>3. /\ \A a \in C2 : a - 1 \in C2 \/ a = y
        /\ \A a \in C3 : a - 1 \in C3 \/ a = r + (e - y)
        /\ \A a \in C2 : (a - 1) - y = (a - y) - 1
        /\ \A a \in C3 : (a - 1) - (r + (e - y)) = (a - (r + (e - y))) - 1
        /\ \A a \in Addr : a < r /\ a \notin C2 => a - 1 \notin C2 \/ a = e
        /\ e - 1 \in C2 /\ e - 1 - y >= 5 /\ y \in C2
        /\ \A a \in C2 \cup C3 : a \in Addr /\ a \in Nat
    <3>1. \A a \in C2 : a - 1 \in C2 \/ a = y
      BY <1>1
    <3>2. \A a \in C3 : a - 1 \in C3 \/ a = r + (e - y)
      BY <1>1
    <3>3. /\ \A a \in C2 : (a - 1) - y = (a - y) - 1
          /\ \A a \in C3 : (a - 1) - (r + (e - y)) = (a - (r + (e - y))) - 1
      BY <1>1
    <3>4. \A a \in Addr : a < r /\ a \notin C2 => a - 1 \notin C2 \/ a = e
      BY <1>1
    <3>5. e - 1 \in C2 /\ e - 1 - y >= 5 /\ y \in C2
      BY <1>1
    <3>6. \A a \in C2 \cup C3 : a \in Addr /\ a \in Nat
      BY <1>1
    <3> QED
      BY <3>1, <3>2, <3>3, <3>4, <3>5, <3>6
  <2> HIDE DEF C1, C2, C3
  <2>4. Laid(m, regions + 1)
    <3> SUFFICES ASSUME NEW a \in Addr
                 PROVE  /\ m[a].op # "zero" => Within(a, regions + 1, 16)
                        /\ m[a].op = "code" => Within(a, regions + 1, 0)
      BY DEF Laid
    <3>1. CASE a \in C2
      <4>1. m[a].op \in {"push", "ret", "nop"}
        BY <1>3, <1>8, <2>2, <3>1, JumpBytes
      <4> QED
        BY <1>6, <3>1, <4>1 DEF C2
    <3>2. CASE a \in C3
      <4>1. m[a].op \in {"push", "ret", "nop"}
        BY <1>3, <1>8, <2>2, <3>2, JumpBytes
      <4> QED
        BY <1>7, <1>8, <3>2, <4>1
    <3>3. CASE a \in r..(r + 15) /\ a \notin C3
      BY <1>1, <1>7, <3>3
    <3>4. CASE a \notin r..(r + 15) /\ a \notin C2 /\ a \notin C3
      BY <1>1, <1>5, <1>8, <2>2, <3>4 DEF Laid
    <3> QED
      BY <3>1, <3>2, <3>3, <3>4
  <2>5. Chained(m)
    <3> SUFFICES ASSUME NEW a \in Addr
                 PROVE  /\ Ends(m[a]) => /\ a - 1 \in Addr
                                         /\ \/ Ends(m[a - 1])
                                            \/ m[a - 1].op = "push" /\ m[a - 1].k = 4
                        /\ m[a].op = "push" /\ m[a].k > 0 =>
                             /\ a - 1 \in Addr
                             /\ \/ Ends(m[a - 1])
                                \/ m[a - 1].op = "push" /\ m[a - 1].k = m[a].k - 1
      BY DEF Chained
    <3>1. CASE a = r
      BY <1>4, <2>2, <3>1 DEF Ends
    <3>2. CASE a \in C1
      <4>1. m[a] = mem[y + (a - r)] /\ ~Ends(m[a])
        BY <2>2, <3>2, CopyBytes DEF C1
      <4>2. ASSUME m[a].op = "push", m[a].k > 0
            PROVE  /\ a - 1 \in Addr /\ m[a - 1].op = "push"
                   /\ m[a - 1].k = m[a].k - 1
        <5>1. /\ a - 1 \in C1 /\ mem[y + (a - 1 - r)].op = "push"
              /\ mem[y + (a - 1 - r)].k = mem[y + (a - r)].k - 1
          BY <3>2, <4>1, <4>2, CopyBytes DEF C1
        <5>2. a - 1 \in Addr
          BY <1>1, <1>8, <5>1
        <5> QED
          BY <2>2, <4>1, <5>1, <5>2
      <4> QED
        BY <4>1, <4>2
    <3>3. CASE a \in C2
      <4>1. CASE a = y
        BY <1>1, <1>3, <2>2, <3>3, <4>1, JumpBytes, y - y = 0
      <4>2. CASE a - 1 \in C2
        <5> DEFINE k == a - y
                   h == (a - 1) - y
        <5>1. k \in Nat /\ h \in Nat /\ h = k - 1
          BY <1>8, <2>3, <3>3, <4>2
        <5>2. m[a] = JumpByte(r, k) /\ m[a - 1] = JumpByte(r, h) /\ a - 1 \in Addr
          BY <2>2, <2>3, <3>3, <4>2
        <5> HIDE DEF k, h
        <5> QED
          BY <1>3, <5>1, <5>2, JumpChained
      <4> QED
        BY <2>3, <3>3, <4>1, <4>2
    <3>4. CASE a \in C3
      <4>1. CASE a = r + (e - y)
        BY <1>1, <1>3, <1>8, <2>2, <3>4, <4>1, JumpBytes
      <4>2. CASE a - 1 \in C3
        <5> DEFINE k == a - (r + (e - y))
                   h == (a - 1) - (r + (e - y))
        <5>1. k \in Nat /\ h \in Nat /\ h = k - 1
          BY <1>8, <2>3, <3>4, <4>2
        <5>2. m[a] = JumpByte(e, k) /\ m[a - 1] = JumpByte(e, h) /\ a - 1 \in Addr
          BY <2>2, <2>3, <3>4, <4>2
        <5> HIDE DEF k, h
        <5> QED
          BY <1>3, <5>1, <5>2, JumpChained
      <4> QED
        BY <2>3, <3>4, <4>1, <4>2
    <3>5. CASE a < r /\ a \notin C2
      <4>1. m[a] = mem[a]
        BY <1>8, <2>2, <3>5, <1>1
      <4>2. CASE a = e
        <5>1. m[a - 1] = JumpByte(r, e - 1 - y) /\ a - 1 \in Addr
          BY <2>2, <2>3, <4>2
        <5>2. Ends(m[a - 1])
          BY <1>1, <1>3, <2>3, <5>1, JumpBytes
        <5> QED
          BY <5>1, <5>2
      <4>3. CASE a # e
        <5>1. a - 1 \in Addr => m[a - 1] = mem[a - 1]
          BY <1>b, <2>2, <2>3, <3>5, <4>3
        <5> QED
          BY <1>2, <4>1, <5>1 DEF Chained
      <4> QED
        BY <4>2, <4>3
    <3>6. CASE a > r /\ a \notin C1 /\ a \notin C3
      <4>1. m[a].op = "zero"
        BY <1>1, <1>8, <2>2, <3>6
      <4> QED
        BY <4>1 DEF Ends
    <3> QED
      BY <1>1, <3>1, <3>2, <3>3, <3>4, <3>5, <3>6
  <2> QED
    BY <1>2, <2>1, <2>4, <2>5 DEF MemoryOK
<1> QED
  BY <1>9, <1>10, <1>11, <1>12

-----------------------------------------------------------------------------
(* Where the threads may go. L is a set of addresses that is closed under  *)
(* execution; d says how many addresses are on the stack of a thread that  *)
(* is there, and o for which address of the program it is, if none are.    *)

Leads(L, d, o, z, x) == z \in L /\ d[z] = 0 /\ o[z] = x

(* What a RET may return to: a worker, or what comes after a jump that has *)
(* been written.                                                           *)
Target(m, n, s) ==
  s \in {Region(j) : j \in 1..n} \/ (s - 1 \in Addr /\ Ends(m[s - 1]))

Station(m, n, L, d, o, z) ==
  /\ m[z].op \in {"code", "call", "push", "ret"} /\ Lies(m, z)
  /\ m[z].op = "code" =>
       /\ d[z] = 0 /\ o[z] = m[z].x
       /\ code[m[z].x].kind # "exit" =>
            Leads(L, d, o, z + Size(m[z]), m[z].x + code[m[z].x].len)
       /\ code[m[z].x].kind = "branch" =>
            m[z].x = z /\ Leads(L, d, o, z + code[z].disp, z + code[z].disp)
  /\ m[z].op = "call" =>
       /\ d[z] = 0 /\ o[z] = m[z].x
       /\ code[m[z].x].kind = "io" /\ code[m[z].x].len = 1
       /\ Leads(L, d, o, z + Size(m[z]), m[z].x + 1)
  /\ m[z].op = "push" =>
       /\ z + Size(m[z]) \in L /\ d[z + Size(m[z])] = d[z] + 1
       /\ m[z].to \in L /\ d[m[z].to] = d[z] /\ (d[z] = 0 => o[z] = o[m[z].to])
       /\ Target(m, n, m[z].to)
  /\ m[z].op = "ret" => d[z] >= 1

Live(m, n, L, d, o) ==
  /\ L \subseteq Addr /\ d \in [L -> Nat] /\ o \in [L -> Int]
  /\ \A z \in L : Station(m, n, L, d, o, z)

(* Where memory and program are, the way through them is.                  *)
LEMMA LiveStays ==
  ASSUME NEW L, NEW d, NEW o, NEW m, NEW n, Live(m, n, L, d, o),
         code' = code, mem' = m, regions' = n
  PROVE  Live(mem, regions, L, d, o)'
<1>1. SUFFICES ASSUME NEW z \in L, Station(m, n, L, d, o, z)
               PROVE  Station(mem, regions, L, d, o, z)'
  BY DEF Live
<1>2. (mem[z].op \in {"code", "call", "push", "ret"} /\ Lies(mem, z))'
  BY <1>1 DEF Station, Lies, Size
<1>3. (mem[z].op = "code" =>
        /\ d[z] = 0 /\ o[z] = mem[z].x
        /\ code[mem[z].x].kind # "exit" =>
             Leads(L, d, o, z + Size(mem[z]), mem[z].x + code[mem[z].x].len)
        /\ code[mem[z].x].kind = "branch" =>
             mem[z].x = z /\ Leads(L, d, o, z + code[z].disp, z + code[z].disp))'
  BY <1>1 DEF Station, Leads, Size
<1>4. (mem[z].op = "call" =>
        /\ d[z] = 0 /\ o[z] = mem[z].x
        /\ code[mem[z].x].kind = "io" /\ code[mem[z].x].len = 1
        /\ Leads(L, d, o, z + Size(mem[z]), mem[z].x + 1))'
  BY <1>1 DEF Station, Leads, Size
<1>5. (mem[z].op = "push" =>
        /\ z + Size(mem[z]) \in L /\ d[z + Size(mem[z])] = d[z] + 1
        /\ mem[z].to \in L /\ d[mem[z].to] = d[z] /\ (d[z] = 0 => o[z] = o[mem[z].to])
        /\ Target(mem, regions, mem[z].to))'
  BY <1>1 DEF Station, Size, Target, Ends, Region
<1>6. (mem[z].op = "ret" => d[z] >= 1)'
  BY <1>1 DEF Station
<1> QED
  BY <1>2, <1>3, <1>4, <1>5, <1>6, Zenon DEF Station

(* A thread, and what it is to do next. *)
OnItsWay(t, m, n, L, d, o) ==
  /\ pc[t] \in L /\ Len(stack[t]) = d[pc[t]]
  /\ \A j \in 1..Len(stack[t]) :
       /\ stack[t][j] \in L /\ d[stack[t][j]] = j - 1
       /\ Target(m, n, stack[t][j])
  /\ at[t] = IF stack[t] = <<>> THEN o[pc[t]] ELSE o[stack[t][1]]
  /\ t \in trapped => m[pc[t]].op = "code" /\ code[m[pc[t]].x].kind = "io"

Orderly ==
  /\ MemoryOK(mem, regions)
  /\ pc \in [Threads -> Addr] /\ stack \in [Threads -> Seq(Addr)] /\ at \in [Threads -> Int]
  /\ \E L \in SUBSET Addr : \E d \in [L -> Nat], o \in [L -> Int] :
       /\ Live(mem, regions, L, d, o)
       /\ \A t \in Threads : OnItsWay(t, mem, regions, L, d, o)

InjectorInv == code \in Programs /\ (sound => Orderly)

-----------------------------------------------------------------------------
(* In the beginning. *)

LEMMA InjectorInit == Init => InjectorInv
<1> SUFFICES ASSUME Init PROVE Orderly
  BY DEF InjectorInv, Init
<1>1. /\ code \in Programs /\ mem = Compiled(code) /\ regions = 0
      /\ pc = [t \in Threads |-> 1] /\ stack = [t \in Threads |-> <<>>]
      /\ at = [t \in Threads |-> 1] /\ trapped = {}
  BY DEF Init
<1>2. IsProgram(code)
  BY <1>1, ConstantsAre
<1>3. /\ DOMAIN code \subseteq 1..SiteSize /\ 1 \in DOMAIN code
      /\ \A x \in DOMAIN code :
           /\ code[x].len \in 1..15 /\ code[x].disp \in Int
           /\ x + code[x].len <= SiteSize + 1
           /\ \A w \in DOMAIN code : x < w => x + code[x].len <= w
           /\ code[x].kind # "exit" => x + code[x].len \in DOMAIN code
           /\ code[x].kind = "branch" => x + code[x].disp \in DOMAIN code
  BY <1>2 DEF IsProgram, Instruction
<1>4. /\ SiteSize \in Nat /\ \A a \in 1..SiteSize : a \in Addr
      /\ \A a \in Addr : a \in Nat
  <2>1. (MaxRegions + 1) * RegionSize \in Nat
    BY ConstantsAre
  <2> QED
    BY <2>1, ConstantsAre DEF Addr
<1> DEFINE Covers(x, a) == a \in x..(x + code[x].len - 1)
           C(a) == CHOOSE x \in DOMAIN code : Covers(x, a)
<1>5. ASSUME NEW a \in Addr, NEW x \in DOMAIN code, Covers(x, a)
      PROVE  C(a) = x
  <2>1. C(a) \in DOMAIN code /\ Covers(C(a), a)
    BY <1>5
  <2> DEFINE w == C(a)
  <2>2. w \in DOMAIN code /\ Covers(w, a)
    BY <2>1
  <2> HIDE DEF w
  <2>3. w \in Nat /\ x \in Nat
    BY <1>3, <2>2
  <2>4. w = x
    BY <1>3, <1>4, <1>5, <2>2, <2>3
  <2> QED
    BY <2>4 DEF w
<1>6. mem = [a \in Addr |-> IF \E x \in DOMAIN code : Covers(x, a)
                            THEN [op |-> "code", x |-> C(a), k |-> a - C(a)]
                            ELSE Zero]
  BY <1>1 DEF Compiled
<1> HIDE DEF C
<1>7. ASSUME NEW a \in Addr, NEW x \in DOMAIN code, Covers(x, a)
      PROVE  mem[a] = [op |-> "code", x |-> x, k |-> a - x]
  BY <1>5, <1>6, <1>7
<1>8. ASSUME NEW a \in Addr, \A x \in DOMAIN code : ~Covers(x, a)
      PROVE  mem[a] = [op |-> "zero", k |-> 0]
  BY <1>6, <1>8 DEF Zero
<1>9. MemoryOK(mem, regions)
  <2>1. mem \in [Addr -> Byte]
    <3>1. ASSUME NEW a \in Addr PROVE mem[a] \in Byte
      <4>1. ASSUME NEW x \in DOMAIN code, Covers(x, a) PROVE mem[a] \in Byte
        <5>1. a - x \in 0..14
          BY <1>3, <1>4, <4>1
        <5>2. mem[a] = [op |-> "code", x |-> x, k |-> a - x]
          BY <1>7, <4>1
        <5>3. [op |-> "code", x |-> x, k |-> a - x] \in Byte
          BY <5>1 DEF Byte
        <5> QED
          BY <5>2, <5>3
      <4>2. CASE \A x \in DOMAIN code : ~Covers(x, a)
        BY <1>8, <4>2 DEF Byte
      <4> QED
        BY <4>1, <4>2
    <3>2. mem = [a \in Addr |-> mem[a]]
      BY <1>6
    <3> QED
      BY <3>1, <3>2
  <2>2. ASSUME NEW a \in Addr
        PROVE  mem[a].op = "zero" \/ (mem[a].op = "code" /\ a <= SiteSize)
    <3>1. ASSUME NEW x \in DOMAIN code, Covers(x, a)
          PROVE  mem[a].op = "code" /\ a <= SiteSize
      <4>1. mem[a] = [op |-> "code", x |-> x, k |-> a - x]
        BY <1>7, <3>1
      <4>2. a <= SiteSize
        BY <1>3, <1>4, <3>1
      <4> QED
        BY <4>1, <4>2
    <3>2. CASE \A x \in DOMAIN code : ~Covers(x, a)
      BY <1>8, <3>2
    <3> QED
      BY <3>1, <3>2
  <2>3. Laid(mem, regions)
    BY <1>4, <2>2 DEF Laid, Within
  <2>4. Chained(mem)
    BY <2>2 DEF Chained, Ends
  <2> QED
    BY <1>1, <2>1, <2>3, <2>4, ConstantsAre DEF MemoryOK
<1> DEFINE L == DOMAIN code
           d == [z \in L |-> 0]
           o == [z \in L |-> z]
<1>10. L \in SUBSET Addr /\ d \in [L -> Nat] /\ o \in [L -> Int]
  BY <1>3, <1>4
<1>11. ASSUME NEW z \in L
       PROVE  Station(mem, regions, L, d, o, z)
  <2>1. z \in Addr /\ z \in Nat /\ code[z].len \in 1..15
    BY <1>3, <1>4
  <2>2. mem[z] = [op |-> "code", x |-> z, k |-> 0]
    <3>1. Covers(z, z) /\ z - z = 0
      BY <2>1
    <3> QED
      BY <1>7, <2>1, <3>1
  <2>3. Size(mem[z]) = code[z].len /\ mem[z].x = z /\ mem[z].op = "code"
    BY <2>2 DEF Size
  <2>4. Lies(mem, z)
    <3> SUFFICES ASSUME NEW k \in 0..(Size(mem[z]) - 1)
                 PROVE  z + k \in Addr /\ mem[z + k] = [mem[z] EXCEPT !.k = k]
      BY DEF Lies
    <3>1. z + k \in Addr /\ Covers(z, z + k) /\ (z + k) - z = k
      BY <1>3, <1>4, <2>1, <2>3
    <3>2. mem[z + k] = [op |-> "code", x |-> z, k |-> k]
      BY <1>7, <3>1
    <3> QED
      BY <2>2, <3>1, <3>2
  <2>5. code[z].kind # "exit" => Leads(L, d, o, z + code[z].len, z + code[z].len)
    BY <1>3 DEF Leads
  <2>6. code[z].kind = "branch" => Leads(L, d, o, z + code[z].disp, z + code[z].disp)
    BY <1>3 DEF Leads
  <2> QED
    BY <2>3, <2>4, <2>5, <2>6 DEF Station
<1>12. Live(mem, regions, L, d, o)
  BY <1>10, <1>11 DEF Live
<1>13. \A t \in Threads : OnItsWay(t, mem, regions, L, d, o)
  BY <1>1, <1>3 DEF OnItsWay
<1>14. pc \in [Threads -> Addr] /\ stack \in [Threads -> Seq(Addr)] /\ at \in [Threads -> Int]
  <2>1. 1 \in Addr /\ <<>> \in Seq(Addr)
    BY <1>3, <1>4
  <2> QED
    BY <1>1, <2>1
<1> QED
  BY <1>9, <1>10, <1>12, <1>13, <1>14 DEF Orderly

-----------------------------------------------------------------------------
(* The steps of the program. *)

(* Where the threads are, for the proofs below: all that is in Orderly.    *)
Ways(L, d, o) ==
  /\ code \in Programs /\ MemoryOK(mem, regions)
  /\ pc \in [Threads -> Addr] /\ stack \in [Threads -> Seq(Addr)] /\ at \in [Threads -> Int]
  /\ Live(mem, regions, L, d, o)
  /\ \A t \in Threads : OnItsWay(t, mem, regions, L, d, o)

LEMMA OrderlyWays ==
  ASSUME InjectorInv, sound
  PROVE  \E L \in SUBSET Addr : \E d \in [L -> Nat], o \in [L -> Int] : Ways(L, d, o)
BY DEF InjectorInv, Orderly, Ways

LEMMA StationsRead ==
  ASSUME NEW L, NEW d, NEW o, Ways(L, d, o), NEW z \in L
  PROVE  /\ z \in Addr /\ z \in Nat /\ mem[z] \in Byte /\ Size(mem[z]) \in 1..15
         /\ Length(z) = Size(mem[z])
         /\ mem[z].op \in {"code", "call", "push", "ret"}
         /\ mem[z].op \in {"code", "call"} => mem[z].x \in DOMAIN code
         /\ mem[z].op = "code" => code[mem[z].x].kind \in {"plain", "io", "branch", "exit"}
         /\ Op(z) = IF mem[z].op = "code" THEN code[mem[z].x].kind ELSE mem[z].op
         /\ Op(z) \in {"plain", "io", "branch", "exit", "call", "push", "ret"}
         /\ Station(mem, regions, L, d, o, z)
<1>1. z \in Addr /\ z \in Nat
  BY ConstantsAre DEF Ways, Live, Addr
<1>2. code \in Programs /\ mem \in [Addr -> Byte] /\ mem[z] \in Byte
  BY <1>1 DEF Ways, MemoryOK
<1>3. Station(mem, regions, L, d, o, z)
  BY DEF Ways, Live
<1>4. mem[z].op \in {"code", "call", "push", "ret"} /\ Lies(mem, z)
  BY <1>3 DEF Station
<1>5. Size(mem[z]) \in 1..15 /\ (mem[z].op \in {"code", "call"} => mem[z].x \in DOMAIN code)
  BY <1>2, BytesAre
<1>6. Length(z) = Size(mem[z])
  BY <1>1, <1>2, <1>4, LengthIs
<1>7. Op(z) = IF mem[z].op = "code" THEN code[mem[z].x].kind ELSE mem[z].op
  BY <1>5, <1>6 DEF Op
<1>8. mem[z].op = "code" => code[mem[z].x].kind \in {"plain", "io", "branch", "exit"}
  BY <1>2, <1>5, ConstantsAre DEF IsProgram, Instruction
<1> QED
  BY <1>1, <1>2, <1>3, <1>4, <1>5, <1>6, <1>7, <1>8

(* A thread that is at an instruction of the program or at a worker has    *)
(* nothing on its stack and is to do just that.                            *)
LEMMA Whereabouts ==
  ASSUME NEW L, NEW d, NEW o, Ways(L, d, o), NEW t \in Threads
  PROVE  /\ pc[t] \in L
         /\ mem[pc[t]].op \in {"code", "call"} =>
              stack[t] = <<>> /\ at[t] = mem[pc[t]].x /\ d[pc[t]] = 0
         /\ t \in trapped => IsIo(pc[t])
<1>1. OnItsWay(t, mem, regions, L, d, o) /\ stack[t] \in Seq(Addr)
  BY DEF Ways
<1>2. pc[t] \in L /\ Len(stack[t]) = d[pc[t]]
  BY <1>1 DEF OnItsWay
<1>3. Station(mem, regions, L, d, o, pc[t])
  BY <1>2, StationsRead
<1>4. ASSUME mem[pc[t]].op \in {"code", "call"}
      PROVE  stack[t] = <<>> /\ at[t] = mem[pc[t]].x /\ d[pc[t]] = 0
  <2>1. d[pc[t]] = 0 /\ o[pc[t]] = mem[pc[t]].x
    BY <1>3, <1>4 DEF Station
  <2>2. stack[t] = <<>>
    BY <1>1, <1>2, <2>1, EmptySeq
  <2> QED
    BY <1>1, <2>1, <2>2 DEF OnItsWay
<1>5. t \in trapped => IsIo(pc[t])
  BY <1>1, <1>2, StationsRead DEF OnItsWay, IsIo
<1> QED
  BY <1>2, <1>4, <1>5

(* One thread goes on and memory stays as it is.                           *)
Moved(t, L, d, o, p, s, a) ==
  /\ p \in L /\ s \in Seq(Addr) /\ a \in Int
  /\ pc' = [pc EXCEPT ![t] = p] /\ stack' = [stack EXCEPT ![t] = s]
  /\ at' = [at EXCEPT ![t] = a] /\ UNCHANGED <<code, mem, regions>>
  /\ trapped' \subseteq trapped /\ t \notin trapped'
  /\ Len(s) = d[p] /\ a = IF s = <<>> THEN o[p] ELSE o[s[1]]
  /\ \A j \in 1..Len(s) : s[j] \in L /\ d[s[j]] = j - 1 /\ Target(mem, regions, s[j])

LEMMA MoveOn ==
  ASSUME NEW L, NEW d, NEW o, Ways(L, d, o), NEW t \in Threads,
         NEW p, NEW s, NEW a, Moved(t, L, d, o, p, s, a)
  PROVE  InjectorInv'
<1>0. /\ p \in L /\ s \in Seq(Addr) /\ a \in Int
      /\ pc' = [pc EXCEPT ![t] = p] /\ stack' = [stack EXCEPT ![t] = s]
      /\ at' = [at EXCEPT ![t] = a] /\ code' = code /\ mem' = mem /\ regions' = regions
      /\ trapped' \subseteq trapped /\ t \notin trapped'
      /\ Len(s) = d[p] /\ a = IF s = <<>> THEN o[p] ELSE o[s[1]]
      /\ \A j \in 1..Len(s) : s[j] \in L /\ d[s[j]] = j - 1 /\ Target(mem, regions, s[j])
  BY DEF Moved
<1>1. /\ code \in Programs /\ MemoryOK(mem, regions)
      /\ pc \in [Threads -> Addr] /\ stack \in [Threads -> Seq(Addr)] /\ at \in [Threads -> Int]
      /\ Live(mem, regions, L, d, o) /\ L \subseteq Addr
  BY DEF Ways, Live
<1>2. MemoryOK(mem, regions)'
  BY <1>0, <1>1 DEF MemoryOK, Laid, Chained, Within, Ends, Byte, Region
<1>3. Live(mem, regions, L, d, o)'
  BY <1>0, <1>1, LiveStays
<1>4. /\ pc' \in [Threads -> Addr] /\ stack' \in [Threads -> Seq(Addr)]
      /\ at' \in [Threads -> Int]
  BY <1>0, <1>1
<1>5. ASSUME NEW u \in Threads
      PROVE  OnItsWay(u, mem, regions, L, d, o)'
  <2>1. CASE u = t
    <3>1. pc'[u] = p /\ stack'[u] = s /\ at'[u] = a
      BY <1>0, <1>1, <2>1
    <3>2. \A j \in 1..Len(s) : Target(mem, regions, s[j])'
      BY <1>0 DEF Target, Ends, Region
    <3> QED
      BY <1>0, <2>1, <3>1, <3>2 DEF OnItsWay
  <2>2. CASE u # t
    <3>1. pc'[u] = pc[u] /\ stack'[u] = stack[u] /\ at'[u] = at[u]
      BY <1>0, <1>1, <2>2
    <3>2. OnItsWay(u, mem, regions, L, d, o)
      BY DEF Ways
    <3>3. \A j \in 1..Len(stack[u]) : Target(mem, regions, stack[u][j]) =>
                                      Target(mem', regions', stack[u][j])
      BY <1>0 DEF Target, Ends, Region
    <3> QED
      BY <1>0, <3>1, <3>2, <3>3 DEF OnItsWay, Target, Ends, Region
  <2> QED
    BY <2>1, <2>2
<1>6. Ways(L, d, o)'
  BY <1>0, <1>1, <1>2, <1>3, <1>4, <1>5 DEF Ways
<1>7. L \in SUBSET Addr /\ d \in [L -> Nat] /\ o \in [L -> Int]
  BY <1>3 DEF Live
<1> QED
  BY <1>6, <1>7 DEF Ways, InjectorInv, Orderly

LEMMA ExecuteKeeps ==
  ASSUME NEW L, NEW d, NEW o, Ways(L, d, o), NEW t \in Threads, Execute(t)
  PROVE  InjectorInv'
<1> DEFINE z == pc[t]
           x == mem[z].x
<1>1. /\ z \in L /\ z \in Nat /\ mem[z].op = "code" /\ Size(mem[z]) = code[x].len
      /\ code[x].kind \in {"plain", "branch"}
      /\ x \in DOMAIN code /\ code[x].len \in 1..15 /\ code[x].disp \in Int /\ x \in Nat
  <2>1. z \in L
    BY Whereabouts
  <2>2. Op(z) \in {"plain", "branch"}
    BY DEF Execute
  <2>3. mem[z].op = "code" /\ code[x].kind \in {"plain", "branch"} /\ z \in Nat /\ x \in DOMAIN code
    BY <2>1, <2>2, StationsRead
  <2>4. code[x].len \in 1..15 /\ code[x].disp \in Int /\ x \in Nat
    BY <2>3, ConstantsAre DEF Ways, IsProgram, Instruction
  <2> QED
    BY <2>1, <2>3, <2>4 DEF Size
<1>2. stack[t] = <<>> /\ at[t] = x
  BY <1>1, Whereabouts
<1>3. /\ Leads(L, d, o, z + code[x].len, x + code[x].len)
      /\ code[x].kind = "branch" => x = z /\ Leads(L, d, o, z + code[x].disp, z + code[x].disp)
  BY <1>1, StationsRead DEF Station
<1>4. /\ UNCHANGED <<code, mem, regions, stack, trapped>> /\ t \notin trapped
      /\ \/ /\ pc' = [pc EXCEPT ![t] = z + code[x].len]
            /\ at' = [at EXCEPT ![t] = x + code[x].len]
         \/ /\ code[x].kind = "branch"
            /\ pc' = [pc EXCEPT ![t] = z + code[x].disp]
            /\ at' = [at EXCEPT ![t] = x + code[x].disp]
  BY DEF Execute, Done, program
<1> HIDE DEF z, x
<1>5. /\ stack \in [Threads -> Seq(Addr)] /\ <<>> \in Seq(Addr) /\ Len(<<>>) = 0
      /\ stack' = [stack EXCEPT ![t] = <<>>]
  BY <1>2, <1>4 DEF Ways
<1>6. ASSUME NEW p, NEW a \in Int, Leads(L, d, o, p, a),
             pc' = [pc EXCEPT ![t] = p], at' = [at EXCEPT ![t] = a]
      PROVE  InjectorInv'
  <2> DEFINE s == <<>>
  <2>1. /\ s \in Seq(Addr) /\ Len(s) = 0 /\ stack' = [stack EXCEPT ![t] = s]
        /\ \A j \in 1..Len(s) : FALSE
    BY <1>5
  <2>2. a = IF s = <<>> THEN o[p] ELSE o[s[1]]
    BY <1>6 DEF Leads
  <2> HIDE DEF s
  <2>3. Moved(t, L, d, o, p, s, a)
    BY <1>4, <1>5, <1>6, <2>1, <2>2 DEF Leads, Moved
  <2> QED
    BY <2>3, MoveOn
<1>7. x + code[x].len \in Int /\ x + code[x].disp \in Int
  BY <1>1
<1> QED
  BY <1>3, <1>4, <1>6, <1>7

LEMMA JumpKeeps ==
  ASSUME NEW L, NEW d, NEW o, Ways(L, d, o), NEW t \in Threads, Jump(t)
  PROVE  InjectorInv'
<1> DEFINE z == pc[t]
           s == stack[t]
<1>1. /\ z \in L /\ z \in Nat /\ Op(z) \in {"push", "ret"} /\ mem[z].op = Op(z)
      /\ Station(mem, regions, L, d, o, z)
  <2>1. z \in L
    BY Whereabouts
  <2>2. Op(z) \in {"push", "ret", "nop"}
    BY DEF Jump
  <2> QED
    BY <2>1, <2>2, StationsRead
<1>2. /\ s \in Seq(Addr) /\ Len(s) = d[z]
      /\ \A j \in 1..Len(s) : s[j] \in L /\ d[s[j]] = j - 1 /\ Target(mem, regions, s[j])
      /\ at[t] \in Int /\ at[t] = IF s = <<>> THEN o[z] ELSE o[s[1]]
      /\ s = <<>> <=> d[z] = 0
  <2>1. OnItsWay(t, mem, regions, L, d, o) /\ s \in Seq(Addr) /\ at[t] \in Int
    BY DEF Ways
  <2>2. s = <<>> <=> d[z] = 0
    BY <2>1, EmptySeq DEF OnItsWay
  <2> QED
    BY <2>1, <2>2 DEF OnItsWay
<1>3. /\ UNCHANGED <<code, mem, regions, at, trapped>> /\ t \notin trapped
      /\ at' = [at EXCEPT ![t] = at[t]]
  BY DEF Jump, program, Ways
<1>4. CASE Op(z) = "push"
  <2> DEFINE to == mem[z].to
             q == Append(s, to)
  <2>1. pc' = [pc EXCEPT ![t] = z + 5] /\ stack' = [stack EXCEPT ![t] = q]
    BY <1>4 DEF Jump
  <2>2. /\ z + 5 \in L /\ d[z + 5] = d[z] + 1
        /\ to \in L /\ d[to] = d[z] /\ (d[z] = 0 => o[z] = o[to])
        /\ Target(mem, regions, to) /\ d[z] \in Nat /\ to \in Addr
    BY <1>1, <1>2, <1>4 DEF Station, Size, Ways, Live
  <2> HIDE DEF s, to
  <2>3. /\ q \in Seq(Addr) /\ Len(q) = Len(s) + 1 /\ q # <<>>
        /\ q[Len(s) + 1] = to /\ \A j \in 1..Len(s) : q[j] = s[j]
    BY <1>2, <2>2, AppendProperties
  <2>4. Len(q) = d[z + 5]
    BY <1>2, <2>2, <2>3
  <2>5. \A j \in 1..Len(q) : q[j] \in L /\ d[q[j]] = j - 1 /\ Target(mem, regions, q[j])
    BY <1>2, <2>2, <2>3
  <2>6. at[t] = IF q = <<>> THEN o[z + 5] ELSE o[q[1]]
    <3>1. CASE s = <<>>
      BY <1>2, <2>2, <2>3, <3>1
    <3>2. CASE s # <<>>
      <4>1. 1 \in 1..Len(s)
        BY <1>2, <2>2, <3>2
      <4> QED
        BY <1>2, <2>3, <3>2, <4>1
    <3> QED
      BY <3>1, <3>2
  <2> HIDE DEF q, z
  <2>7. Moved(t, L, d, o, z + 5, q, at[t])
    BY <1>2, <1>3, <2>1, <2>2, <2>3, <2>4, <2>5, <2>6 DEF Moved
  <2> QED
    BY <2>7, MoveOn
<1>5. CASE Op(z) = "ret"
  <2> DEFINE n == Len(s)
             p == s[n]
             q == SubSeq(s, 1, n - 1)
  <2>1. n \in Nat /\ n >= 1 /\ n \in 1..Len(s) /\ s # <<>>
    BY <1>1, <1>2, <1>5, LenProperties DEF Station
  <2>2. pc' = [pc EXCEPT ![t] = p] /\ stack' = [stack EXCEPT ![t] = q]
    BY <1>5, <2>1 DEF Jump
  <2>3. p \in L /\ d[p] = n - 1
    BY <1>2, <2>1
  <2> HIDE DEF s, p
  <2>4. /\ q \in Seq(Addr) /\ Len(q) = n - 1 /\ \A j \in 1..(n - 1) : q[j] = s[j]
    <3>1. 1 \in 1..(Len(s) + 1) /\ n - 1 \in 0..Len(s)
      BY <2>1
    <3> QED
      BY <1>2, <2>1, <3>1, SubSeqProperties
  <2>5. \A j \in 1..Len(q) : q[j] \in L /\ d[q[j]] = j - 1 /\ Target(mem, regions, q[j])
    BY SMTT(60), <1>2, <2>1, <2>4
  <2>6. at[t] = IF q = <<>> THEN o[p] ELSE o[q[1]]
    <3>1. at[t] = o[s[1]]
      BY <1>2, <2>1
    <3>2. CASE n = 1
      BY <2>4, <3>1, <3>2, EmptySeq DEF p
    <3>3. CASE n # 1
      <4>0. Len(q) # 0 /\ 1 \in 1..(n - 1)
        BY <2>1, <2>4, <3>3
      <4>1. q # <<>> /\ 1 \in 1..(n - 1)
        BY <2>4, <4>0, EmptySeq
      <4> QED
        BY <2>4, <3>1, <4>1
    <3> QED
      BY <3>2, <3>3
  <2>7. Len(q) = d[p]
    BY <2>3, <2>4
  <2> HIDE DEF q, z, n
  <2>8. Moved(t, L, d, o, p, q, at[t])
    BY <1>2, <1>3, <2>2, <2>3, <2>4, <2>5, <2>6, <2>7 DEF Moved
  <2> QED
    BY <2>8, MoveOn
<1> QED
  BY <1>1, <1>4, <1>5

LEMMA CallKeeps ==
  ASSUME NEW L, NEW d, NEW o, Ways(L, d, o), NEW t \in Threads, Call(t)
  PROVE  InjectorInv'
<1> DEFINE z == pc[t]
<1>1. z \in L /\ mem[z].op = "call" /\ z \in Nat /\ mem[z].x \in Int
  <2>1. z \in L /\ Op(z) = "call"
    BY Whereabouts DEF Call
  <2>2. mem[z].op = "call" /\ z \in Nat /\ mem[z].x \in DOMAIN code
    BY <2>1, StationsRead
  <2> QED
    BY <2>1, <2>2, ConstantsAre DEF Ways, IsProgram
<1>2. stack[t] = <<>> /\ at[t] = mem[z].x
  BY <1>1, Whereabouts
<1>3. Leads(L, d, o, z + 1, mem[z].x + 1)
  BY <1>1, StationsRead DEF Station, Size
<1>4. /\ UNCHANGED <<code, mem, regions, stack, trapped>> /\ t \notin trapped
      /\ \/ pc' = [pc EXCEPT ![t] = z + 1] /\ at' = [at EXCEPT ![t] = mem[z].x + 1]
         \/ sound' = FALSE
  BY DEF Call, Done, program, Crash
<1> HIDE DEF z
<1>5. CASE sound' = FALSE
  BY <1>4, <1>5 DEF InjectorInv, Ways
<1>6. /\ stack \in [Threads -> Seq(Addr)] /\ <<>> \in Seq(Addr) /\ Len(<<>>) = 0
      /\ stack' = [stack EXCEPT ![t] = <<>>]
  BY <1>2, <1>4 DEF Ways
<1>7. mem[z].x + 1 \in Int
  BY <1>1
<1>8. ASSUME pc' = [pc EXCEPT ![t] = z + 1], at' = [at EXCEPT ![t] = mem[z].x + 1]
      PROVE  InjectorInv'
  <2> DEFINE s == <<>>
  <2>1. /\ s \in Seq(Addr) /\ Len(s) = 0 /\ stack' = [stack EXCEPT ![t] = s]
        /\ \A j \in 1..Len(s) : FALSE
    BY <1>6
  <2>2. mem[z].x + 1 = IF s = <<>> THEN o[z + 1] ELSE o[s[1]]
    BY <1>3 DEF Leads
  <2> HIDE DEF s
  <2>3. Moved(t, L, d, o, z + 1, s, mem[z].x + 1)
    BY <1>3, <1>4, <1>6, <1>7, <1>8, <2>1, <2>2 DEF Leads, Moved
  <2> QED
    BY <2>3, MoveOn
<1> QED
  BY <1>4, <1>5, <1>8

-----------------------------------------------------------------------------
(* A patch that is not complete: nothing that is executed changes.         *)

LEMMA PartialLive ==
  ASSUME NEW L, NEW d, NEW o, Ways(L, d, o), NEW y, NEW e, NEW r, Place(y, e, r),
         NEW m \in {mem, Started(y, r), Copied(y, e, r)}
  PROVE  /\ Live(m, regions + 1, L, d, o)
         /\ \A s : Target(mem, regions, s) => Target(m, regions + 1, s)
         /\ \A z \in L : m[z] = mem[z]
<1>1. /\ r \in Nat /\ regions \in Nat /\ \A a \in Addr : a \in Nat
      /\ \A a \in Addr : a >= r => mem[a].op = "zero"
  <2>1. r \in Nat /\ \A a \in Addr : a >= r => mem[a].op = "zero"
    BY DEF Place
  <2>2. regions \in Nat
    BY DEF Ways, MemoryOK
  <2>3. \A a \in Addr : a \in Nat
    BY ConstantsAre DEF Addr
  <2> QED
    BY <2>1, <2>2, <2>3
<1>2. ASSUME NEW a \in Addr, mem[a].op # "zero" PROVE m[a] = mem[a]
  <2>1. a < r
    BY <1>1, <1>2
  <2>2. a # r /\ a \notin (r + 1)..(r + (e - y) - 1)
    BY <1>1, <2>1 DEF Place
  <2> QED
    BY <2>2 DEF Started, Copied
<1>3. ASSUME NEW s, Target(mem, regions, s) PROVE Target(m, regions + 1, s)
  <2>1. 1..regions \subseteq 1..(regions + 1)
    BY <1>1
  <2>2. s - 1 \in Addr /\ Ends(mem[s - 1]) => Ends(m[s - 1])
    BY <1>2 DEF Ends
  <2> QED
    BY <1>3, <2>1, <2>2 DEF Target
<1>4. ASSUME NEW z \in L PROVE m[z] = mem[z] /\ Lies(m, z)
  <2>1. /\ z \in Addr /\ mem[z].op # "zero" /\ mem[z] \in Byte /\ Lies(mem, z)
    BY StationsRead DEF Station
  <2>2. m[z] = mem[z]
    BY <1>2, <2>1
  <2>3. \A k : [mem[z] EXCEPT !.k = k].op = mem[z].op
    BY <2>1, BytesAre DEF Ways
  <2>4. ASSUME NEW k \in 0..(Size(mem[z]) - 1)
        PROVE  z + k \in Addr /\ m[z + k] = [mem[z] EXCEPT !.k = k]
    <3>1. z + k \in Addr /\ mem[z + k] = [mem[z] EXCEPT !.k = k]
      BY <2>1, <2>4 DEF Lies
    <3>2. mem[z + k].op # "zero"
      BY <2>1, <2>3, <3>1
    <3> QED
      BY <1>2, <3>1, <3>2
  <2> QED
    BY <2>2, <2>4 DEF Lies
<1>5. ASSUME NEW z \in L PROVE Station(m, regions + 1, L, d, o, z)
  <2>1. Station(mem, regions, L, d, o, z)
    BY StationsRead
  <2> QED
    BY <1>3, <1>4, <2>1 DEF Station
<1> QED
  BY <1>3, <1>4, <1>5 DEF Ways, Live

-----------------------------------------------------------------------------
(* A patch that is complete. The instructions that the jump overwrites are *)
(* executed at the worker's, where they have been moved to.                *)

Patching(L, d, o, y, e, r) ==
  /\ Ways(L, d, o) /\ Place(y, e, r) /\ y \in L
  /\ \A a \in (y + 1)..(e - 1) : Op(a) # "branch"
  /\ \A x \in DOMAIN code : code[x].kind = "branch" => x + code[x].disp \notin (y + 1)..(e - 1)

Kept(L, y, e) == {z \in L : z \notin (y + 1)..(e - 1)}
Shifted(L, y, e) == {z \in L : y < z /\ (z = e \/ z + Size(mem[z]) <= e)}

LEMMA PatchNumbers ==
  ASSUME NEW L, NEW d, NEW o, NEW y, NEW e, NEW r, Patching(L, d, o, y, e, r)
  PROVE  /\ y \in Nat /\ e \in Nat /\ r \in Nat /\ e - y >= 6 /\ e <= y + 16 /\ y + 16 < r
         /\ y \in Addr /\ e \in Addr
         /\ \A a \in r..(r + 31) : a \in Addr
         /\ \A a \in Addr : a \in Nat
         /\ \A a \in Addr : a >= r => mem[a].op = "zero"
         /\ L \subseteq Addr /\ regions \in Nat
<1>1. /\ y \in Nat /\ e \in Nat /\ r \in Nat /\ e - y >= 6 /\ e <= y + 16 /\ y + 16 < r
      /\ y \in Addr /\ \A a \in r..(r + 31) : a \in Addr
      /\ \A a \in Addr : a >= r => mem[a].op = "zero"
  BY DEF Patching, Place
<1>2. \A a \in Addr : a \in Nat
  BY ConstantsAre DEF Addr
<1>3. e \in Addr
  BY <1>1, ConstantsAre, r \in Addr DEF Addr
<1>4. L \subseteq Addr /\ regions \in Nat
  BY DEF Patching, Ways, Live, MemoryOK
<1> QED
  BY <1>1, <1>2, <1>3, <1>4

(* Execution goes from one moved instruction to the next.                  *)
LEMMA NextShifted ==
  ASSUME NEW L, NEW d, NEW o, NEW y, NEW e, NEW r, Patching(L, d, o, y, e, r),
         NEW z \in L, z = y \/ (z \in Shifted(L, y, e) /\ z # e),
         z + Size(mem[z]) \in L
  PROVE  z + Size(mem[z]) \in Shifted(L, y, e) /\ z < e
<1> DEFINE w == z + Size(mem[z])
<1>1. y \in Nat /\ e \in Nat /\ e - y >= 6 /\ z \in Nat
  BY PatchNumbers
<1>2. Ways(L, d, o) /\ GoneOver(y, e) /\ Size(mem[y]) = 1
  BY DEF Patching, Place
<1>3. Station(mem, regions, L, d, o, w) /\ Station(mem, regions, L, d, o, z)
  BY <1>2, StationsRead
<1>4. w \in Nat /\ Size(mem[z]) \in 1..15 /\ mem[z] \in Byte
  BY <1>2, StationsRead
<1>5. w > y /\ w <= e /\ z < e /\ z >= y
  BY <1>1, <1>2, <1>4 DEF Shifted
<1>6. mem[w - 1].op # "zero"
  <2>1. Lies(mem, z) /\ mem[z].op # "zero"
    BY <1>3 DEF Station
  <2>2. Size(mem[z]) - 1 \in 0..(Size(mem[z]) - 1)
    BY <1>4
  <2>3. mem[z + (Size(mem[z]) - 1)] = [mem[z] EXCEPT !.k = Size(mem[z]) - 1]
    BY <2>1, <2>2 DEF Lies
  <2>4. w - 1 = z + (Size(mem[z]) - 1)
    BY <1>1, <1>4
  <2>5. [mem[z] EXCEPT !.k = Size(mem[z]) - 1].op = mem[z].op
    BY <1>2, <1>4, BytesAre DEF Ways
  <2> QED
    BY <2>1, <2>3, <2>4, <2>5
<1>7. Lies(mem, w) /\ mem[w].op # "zero"
  BY <1>3 DEF Station
<1> HIDE DEF w
<1>8. w = e \/ w + Size(mem[w]) <= e
  <2>1. CASE w # e
    <3>1. w \in y..(e - 1)
      BY <1>1, <1>4, <1>5, <2>1
    <3> QED
      BY <1>2, <1>6, <1>7, <3>1 DEF GoneOver
  <2> QED
    BY <2>1
<1>9. w \in L /\ z < e
  BY <1>5 DEF w
<1> QED
  BY <1>5, <1>8, <1>9 DEF w, Shifted

(* An instruction that is kept is not touched, and leads to one.           *)
LEMMA KeptWhole ==
  ASSUME NEW L, NEW d, NEW o, NEW y, NEW e, NEW r, Patching(L, d, o, y, e, r),
         NEW z \in Kept(L, y, e), z # y
  PROVE  /\ \A k \in 0..(Size(mem[z]) - 1) : z + k \notin y..(e - 1) /\ z + k < r
         /\ z + Size(mem[z]) \in L => z + Size(mem[z]) \in Kept(L, y, e)
<1>1. /\ y \in Nat /\ e \in Nat /\ e - y >= 6 /\ z \in Nat /\ z \in L /\ r \in Nat
      /\ z \notin y..(e - 1) /\ \A a \in Addr : a \in Nat
      /\ \A a \in Addr : a >= r => mem[a].op = "zero"
  BY PatchNumbers DEF Kept
<1>2. Ways(L, d, o) /\ mem[y].op = "code" /\ mem[y].k = 0 /\ y \in Addr
  <2>1. Ways(L, d, o) /\ Lies(mem, y) /\ Size(mem[y]) = 1 /\ mem[y].op = "code" /\ y \in Addr
    BY DEF Patching, Place
  <2>2. mem[y] \in Byte
    BY <2>1 DEF Ways, MemoryOK
  <2>3. mem[y + 0] = [mem[y] EXCEPT !.k = 0]
    BY <2>1 DEF Lies
  <2>4. [mem[y] EXCEPT !.k = 0].k = 0
    BY <2>1, <2>2, BytesAre DEF Ways
  <2>5. y + 0 = y
    BY <1>1
  <2> QED
    BY <2>1, <2>3, <2>4, <2>5
<1>3. mem[z] \in Byte /\ Lies(mem, z) /\ mem[z].op # "zero" /\ Size(mem[z]) \in 1..15
  BY <1>1, <1>2, StationsRead DEF Station
<1>4. \A k \in 0..(Size(mem[z]) - 1) :
        /\ z + k \in Addr /\ mem[z + k].op = mem[z].op /\ mem[z + k].k = k
  <2> SUFFICES ASSUME NEW k \in 0..(Size(mem[z]) - 1)
               PROVE  z + k \in Addr /\ mem[z + k].op = mem[z].op /\ mem[z + k].k = k
    OBVIOUS
  <2>1. z + k \in Addr /\ mem[z + k] = [mem[z] EXCEPT !.k = k]
    BY <1>3 DEF Lies
  <2>2. [mem[z] EXCEPT !.k = k].op = mem[z].op /\ [mem[z] EXCEPT !.k = k].k = k
    BY <1>2, <1>3, BytesAre DEF Ways
  <2> QED
    BY <2>1, <2>2
<1>5. ASSUME z < y PROVE z + Size(mem[z]) <= y
  <2> SUFFICES ASSUME z + Size(mem[z]) > y PROVE FALSE
    BY <1>1, <1>3
  <2>1. y - z \in 0..(Size(mem[z]) - 1) /\ z + (y - z) = y /\ y - z # 0
    BY <1>1, <1>3, <1>5
  <2>2. mem[z + (y - z)].k = y - z
    BY <1>4, <2>1
  <2> QED
    BY <1>2, <2>1, <2>2
<1>6. ASSUME NEW k \in 0..(Size(mem[z]) - 1)
      PROVE  z + k \notin y..(e - 1) /\ z + k < r
  <2>1. z + k \in Addr /\ mem[z + k].op # "zero"
    BY <1>3, <1>4, <1>6
  <2>2. z + k < r
    BY <1>1, <2>1
  <2> QED
    BY <1>1, <1>3, <1>5, <1>6, <2>2
<1>7. z + Size(mem[z]) \notin (y + 1)..(e - 1)
  BY <1>1, <1>3, <1>5
<1> QED
  BY <1>6, <1>7 DEF Kept

(* What a RET may return to is kept and stays so.                          *)
LEMMA TargetsKept ==
  ASSUME NEW L, NEW d, NEW o, NEW y, NEW e, NEW r, Patching(L, d, o, y, e, r),
         NEW s \in L, Target(mem, regions, s)
  PROVE  s \in Kept(L, y, e) /\ Target(Complete(y, e, r), regions + 1, s)
<1>1. /\ y \in Nat /\ e \in Nat /\ e - y >= 6 /\ e <= y + 16 /\ y + 16 < r /\ r \in Nat /\ regions \in Nat
      /\ s \in Nat /\ \A a \in Addr : a \in Nat
      /\ \A a \in Addr : a >= r => mem[a].op = "zero"
  BY PatchNumbers
<1>2. /\ \A j \in 1..regions : Region(j) \notin (y + 1)..(e - 1)
      /\ \A a \in y..(e - 1) : ~Ends(mem[a])
  BY DEF Patching, Place, GoneOver
<1>3. CASE s \in {Region(j) : j \in 1..regions}
  <2>1. s \in {Region(j) : j \in 1..(regions + 1)}
    BY <1>1, <1>3
  <2> QED
    BY <1>2, <1>3, <2>1 DEF Kept, Target
<1>4. CASE s - 1 \in Addr /\ Ends(mem[s - 1])
  <2>1. s - 1 \notin y..(e - 1)
    BY <1>2, <1>4
  <2>2. s - 1 < r
    BY <1>1, <1>4 DEF Ends
  <2>3. s \notin (y + 1)..(e - 1)
    BY <1>1, <2>1
  <2>4. Complete(y, e, r)[s - 1] = mem[s - 1]
    <3>1. /\ s - 1 # r /\ s - 1 \notin (r + 1)..(r + (e - y) - 1)
          /\ s - 1 \notin (r + (e - y))..(r + (e - y) + 5)
      BY <1>1, <2>2
    <3> QED
      BY <1>4, <2>1, <3>1 DEF Complete
  <2> QED
    BY <1>4, <2>3, <2>4 DEF Kept, Target
<1> QED
  BY <1>3, <1>4 DEF Target

(* Where threads may go when the patch is complete: as before, but for the *)
(* jump with its RET, the worker, the moved instructions, and the jump     *)
(* back with its RET.                                                      *)
Back(y, e, r) == r + (e - y) + 5
NewL(L, y, e, r) ==
  {a \in Addr : \/ a \in Kept(L, y, e) \/ a \in {y + 5, r}
                \/ y + (a - r) \in Shifted(L, y, e)
                \/ e \in L /\ a = Back(y, e, r)}
NewD(L, d, y, e, r) ==
  [a \in NewL(L, y, e, r) |->
     IF a = y + 5 THEN 1 ELSE IF a = r THEN 0
     ELSE IF y + (a - r) \in Shifted(L, y, e) THEN d[y + (a - r)]
     ELSE IF a = Back(y, e, r) THEN d[e] + 1 ELSE d[a]]
NewO(L, o, y, e, r) ==
  [a \in NewL(L, y, e, r) |->
     IF a = y + 5 THEN 0 ELSE IF a = r THEN mem[y].x
     ELSE IF y + (a - r) \in Shifted(L, y, e) THEN o[y + (a - r)]
     ELSE IF a = Back(y, e, r) THEN 0 ELSE o[a]]

LEMMA NewIs ==
  ASSUME NEW L, NEW d, NEW o, NEW y, NEW e, NEW r, Patching(L, d, o, y, e, r),
         NEW L1, L1 = NewL(L, y, e, r), NEW d1, d1 = NewD(L, d, y, e, r),
         NEW o1, o1 = NewO(L, o, y, e, r)
  PROVE  /\ \A a \in Kept(L, y, e) : a \in L1 /\ d1[a] = d[a] /\ o1[a] = o[a]
         /\ y + 5 \in L1 /\ d1[y + 5] = 1
         /\ r \in L1 /\ d1[r] = 0 /\ o1[r] = mem[y].x
         /\ \A z \in Shifted(L, y, e) :
              /\ z \in Nat /\ z \in L /\ r + (z - y) \in (r + 1)..(r + (e - y))
              /\ r + (z - y) \in L1
              /\ d1[r + (z - y)] = d[z] /\ o1[r + (z - y)] = o[z]
         /\ e \in L => Back(y, e, r) \in L1 /\ d1[Back(y, e, r)] = d[e] + 1
         /\ L1 \subseteq Addr /\ d1 \in [L1 -> Nat] /\ o1 \in [L1 -> Int]
         /\ \A a \in L1 : \/ a \in Kept(L, y, e) \/ a = y + 5 \/ a = r
                          \/ \E z \in Shifted(L, y, e) : a = r + (z - y)
                          \/ e \in L /\ a = Back(y, e, r)
<1>1. /\ y \in Nat /\ e \in Nat /\ r \in Nat /\ e - y >= 6 /\ e <= y + 16 /\ y + 16 < r
      /\ y \in Addr /\ e \in Addr /\ \A a \in r..(r + 31) : a \in Addr
      /\ \A a \in Addr : a \in Nat
      /\ L \subseteq Addr
  BY PatchNumbers
<1>2. d \in [L -> Nat] /\ o \in [L -> Int] /\ mem[y].x \in Int
  <2>1. Ways(L, d, o) /\ mem[y].x \in DOMAIN code
    BY DEF Patching, Place
  <2> QED
    BY <2>1, ConstantsAre DEF Ways, Live, IsProgram
<1>3. ASSUME NEW z \in Shifted(L, y, e)
      PROVE  z \in Nat /\ z \in L /\ z > y /\ z <= e
  <2>1. z \in L /\ z \in Nat
    BY <1>1 DEF Shifted
  <2>2. Size(mem[z]) \in 1..15
    BY <2>1, StationsRead DEF Patching
  <2> QED
    BY <1>1, <2>1, <2>2 DEF Shifted
<1>4. ASSUME NEW z \in L PROVE z < r
  <2>1. z \in Addr /\ mem[z].op # "zero"
    BY StationsRead DEF Patching
  <2> QED
    BY <1>1, <2>1, PatchNumbers
<1>5. ASSUME NEW a \in Kept(L, y, e)
      PROVE  /\ a \in Addr /\ a \in L /\ a # y + 5 /\ a # r /\ a # Back(y, e, r)
             /\ y + (a - r) \notin Shifted(L, y, e)
  <2>1. a \in L /\ a \in Addr /\ a \in Nat /\ a < r /\ a \notin (y + 1)..(e - 1)
    BY <1>1, <1>4 DEF Kept
  <2> QED
    BY <1>1, <1>3, <2>1 DEF Back
<1>6. /\ y + 5 \in Addr /\ r \in Addr /\ Back(y, e, r) \in Addr
      /\ y + 5 # r /\ y + 5 # Back(y, e, r) /\ r # Back(y, e, r)
      /\ y + (Back(y, e, r) - r) \notin Shifted(L, y, e)
  <2>1. Back(y, e, r) \in r..(r + 31) /\ y + (Back(y, e, r) - r) = e + 5
    BY <1>1 DEF Back
  <2>2. y + 5 \in Addr
    BY <1>1, ConstantsAre DEF Addr
  <2> QED
    BY <1>1, <1>3, <2>1, <2>2 DEF Back
<1>7. ASSUME NEW z \in Shifted(L, y, e)
      PROVE  /\ r + (z - y) \in (r + 1)..(r + (e - y)) /\ r + (z - y) \in Addr
             /\ r + (z - y) # y + 5 /\ r + (z - y) # r /\ y + ((r + (z - y)) - r) = z
  <2>1. r + (z - y) \in (r + 1)..(r + (e - y))
    BY <1>1, <1>3
  <2>2. r + (z - y) \in r..(r + 31)
    BY <1>1, <2>1
  <2> QED
    BY <1>1, <1>3, <2>1, <2>2
<1>8. \A a \in Kept(L, y, e) : a \in L1 /\ d1[a] = d[a] /\ o1[a] = o[a]
  BY <1>5 DEF NewL, NewD, NewO
<1>9. y + 5 \in L1 /\ d1[y + 5] = 1
  BY <1>6 DEF NewL, NewD
<1>10. r \in L1 /\ d1[r] = 0 /\ o1[r] = mem[y].x
  BY <1>6 DEF NewL, NewD, NewO
<1>11. ASSUME NEW z \in Shifted(L, y, e)
       PROVE  /\ r + (z - y) \in L1
              /\ d1[r + (z - y)] = d[z] /\ o1[r + (z - y)] = o[z]
  <2> DEFINE a == r + (z - y)
  <2>1. a \in Addr /\ a # y + 5 /\ a # r /\ y + (a - r) = z
    BY <1>7
  <2> HIDE DEF a
  <2>2. a \in L1
    BY <2>1 DEF NewL
  <2>3. d1[a] = d[z] /\ o1[a] = o[z]
    BY <2>1, <2>2 DEF NewD, NewO
  <2> QED
    BY <2>2, <2>3 DEF a
<1>12. e \in L => Back(y, e, r) \in L1 /\ d1[Back(y, e, r)] = d[e] + 1
  BY <1>6 DEF NewL, NewD
<1>13. L1 \subseteq Addr
  BY DEF NewL
<1>14. ASSUME NEW a \in L1
       PROVE  \/ a \in Kept(L, y, e) \/ a = y + 5 \/ a = r
              \/ \E z \in Shifted(L, y, e) : a = r + (z - y)
              \/ e \in L /\ a = Back(y, e, r)
  <2>1. a = r + ((y + (a - r)) - y)
    BY <1>1, <1>13
  <2> QED
    BY <2>1 DEF NewL
<1>15. d1 \in [L1 -> Nat] /\ o1 \in [L1 -> Int]
  <2>1. ASSUME NEW a \in L1 PROVE d1[a] \in Nat /\ o1[a] \in Int
    <3>1. CASE a \in Kept(L, y, e)
      BY <1>2, <1>5, <1>8, <3>1
    <3>2. CASE a = y + 5
      BY <1>9, <3>2, <1>6 DEF NewO
    <3>3. CASE a = r
      BY <1>2, <1>10, <3>3
    <3>4. ASSUME NEW z \in Shifted(L, y, e), a = r + (z - y) PROVE d1[a] \in Nat /\ o1[a] \in Int
      BY <1>2, <1>3, <1>11, <3>4
    <3>5. CASE e \in L /\ a = Back(y, e, r)
      <4>1. o1[a] = 0
        BY <1>6, <3>5 DEF NewO
      <4> QED
        BY <1>2, <1>12, <3>5, <4>1
    <3> QED
      BY <1>14, <3>1, <3>2, <3>3, <3>4, <3>5
  <2>2. d1 = [a \in L1 |-> d1[a]] /\ o1 = [a \in L1 |-> o1[a]]
    BY DEF NewD, NewO
  <2> QED
    BY <2>1, <2>2
<1> QED
  BY <1>3, <1>7, <1>8, <1>9, <1>10, <1>11, <1>12, <1>13, <1>14, <1>15

LEMMA CompleteIs ==
  ASSUME NEW L, NEW d, NEW o, NEW y, NEW e, NEW r, Patching(L, d, o, y, e, r),
         NEW m, m = Complete(y, e, r)
  PROVE  /\ m[r] = Worker(y)
         /\ \A a \in (r + 1)..(r + (e - y) - 1) : a \in Addr /\ m[a] = mem[y + (a - r)]
         /\ \A k \in 0..(e - y - 1) : y + k \in Addr /\ m[y + k] = JumpByte(r, k)
         /\ \A k \in 0..5 : /\ r + (e - y) + k \in Addr
                            /\ m[r + (e - y) + k] = JumpByte(e, k)
         /\ \A a \in Addr : a < r /\ a \notin y..(e - 1) => m[a] = mem[a]
<1>1. /\ y \in Nat /\ e \in Nat /\ r \in Nat /\ e - y >= 6 /\ e <= y + 16 /\ y + 16 < r
      /\ y \in Addr /\ e \in Addr /\ \A a \in r..(r + 31) : a \in Addr
      /\ \A a \in Addr : a \in Nat
  BY PatchNumbers
<1>2. m[r] = Worker(y)
  BY <1>1, r \in r..(r + 31) DEF Complete
<1>3. ASSUME NEW a \in (r + 1)..(r + (e - y) - 1)
      PROVE  a \in Addr /\ m[a] = mem[y + (a - r)]
  <2>1. a \in r..(r + 31) /\ a # r
    BY <1>1
  <2> QED
    BY <1>1, <1>3, <2>1 DEF Complete
<1>4. ASSUME NEW k \in 0..(e - y - 1)
      PROVE  y + k \in Addr /\ m[y + k] = JumpByte(r, k)
  <2>1. y + k \in Addr
    BY <1>1, ConstantsAre DEF Addr
  <2>2. /\ y + k # r /\ y + k \notin (r + 1)..(r + (e - y) - 1) /\ y + k \in y..(e - 1)
        /\ (y + k) - y = k
    BY <1>1
  <2> QED
    BY <2>1, <2>2 DEF Complete
<1>5. ASSUME NEW k \in 0..5
      PROVE  r + (e - y) + k \in Addr /\ m[r + (e - y) + k] = JumpByte(e, k)
  <2> DEFINE a == r + (e - y) + k
  <2>1. /\ a \in r..(r + 31) /\ a # r /\ a \notin (r + 1)..(r + (e - y) - 1) /\ a \notin y..(e - 1)
        /\ a \in (r + (e - y))..(r + (e - y) + 5) /\ a - (r + (e - y)) = k
    BY <1>1
  <2>2. a \in Addr
    BY <1>1, <2>1
  <2> HIDE DEF a
  <2>3. m[a] = JumpByte(e, k)
    BY <2>1, <2>2 DEF Complete
  <2> QED
    BY <2>2, <2>3 DEF a
<1>6. ASSUME NEW a \in Addr, a < r, a \notin y..(e - 1)
      PROVE  m[a] = mem[a]
  <2>1. /\ a # r /\ a \notin (r + 1)..(r + (e - y) - 1)
        /\ a \notin (r + (e - y))..(r + (e - y) + 5)
    BY <1>1, <1>6
  <2> QED
    BY <1>6, <2>1 DEF Complete
<1> QED
  BY <1>2, <1>3, <1>4, <1>5, <1>6

LEMMA PushLies ==
  ASSUME NEW m, NEW z \in Nat, NEW to,
         \A k \in 0..4 : z + k \in Addr /\ m[z + k] = JumpByte(to, k)
  PROVE  m[z] = [op |-> "push", to |-> to, k |-> 0] /\ Size(m[z]) = 5 /\ Lies(m, z)
<1>1. m[z] = [op |-> "push", to |-> to, k |-> 0]
  <2>1. m[z + 0] = JumpByte(to, 0) /\ z + 0 = z
    OBVIOUS
  <2> QED
    BY <2>1 DEF JumpByte
<1>2. Size(m[z]) = 5
  BY <1>1 DEF Size
<1>3. ASSUME NEW k \in 0..4
      PROVE  z + k \in Addr /\ m[z + k] = [m[z] EXCEPT !.k = k]
  <2>1. JumpByte(to, k) = [op |-> "push", to |-> to, k |-> k]
    BY DEF JumpByte
  <2> QED
    BY <1>1, <2>1
<1> QED
  BY <1>1, <1>2, <1>3 DEF Lies

LEMMA PatchLive ==
  ASSUME NEW L, NEW d, NEW o, NEW y, NEW e, NEW r, Patching(L, d, o, y, e, r)
  PROVE  Live(Complete(y, e, r), regions + 1,
              NewL(L, y, e, r), NewD(L, d, y, e, r), NewO(L, o, y, e, r))
<1> DEFINE m == Complete(y, e, r)
           n == regions + 1
           L1 == NewL(L, y, e, r)
           d1 == NewD(L, d, y, e, r)
           o1 == NewO(L, o, y, e, r)
           K == Kept(L, y, e)
           N == Shifted(L, y, e)
           b == Back(y, e, r)
<1>1. /\ y \in Nat /\ e \in Nat /\ r \in Nat /\ e - y >= 6 /\ e <= y + 16 /\ y + 16 < r
      /\ y \in Addr /\ e \in Addr /\ \A a \in r..(r + 31) : a \in Addr
      /\ \A a \in Addr : a \in Nat
  BY PatchNumbers
<1>2. /\ \A a \in K : a \in L1 /\ d1[a] = d[a] /\ o1[a] = o[a]
      /\ y + 5 \in L1 /\ d1[y + 5] = 1
      /\ r \in L1 /\ d1[r] = 0 /\ o1[r] = mem[y].x
      /\ \A z \in N : /\ z \in Nat /\ z \in L /\ r + (z - y) \in (r + 1)..(r + (e - y))
                      /\ r + (z - y) \in L1
                      /\ d1[r + (z - y)] = d[z] /\ o1[r + (z - y)] = o[z]
      /\ e \in L => b \in L1 /\ d1[b] = d[e] + 1
      /\ L1 \subseteq Addr /\ d1 \in [L1 -> Nat] /\ o1 \in [L1 -> Int]
      /\ \A a \in L1 : \/ a \in K \/ a = y + 5 \/ a = r
                       \/ \E z \in N : a = r + (z - y)
                       \/ e \in L /\ a = b
  BY NewIs
<1>3. /\ m[r] = Worker(y)
      /\ \A a \in (r + 1)..(r + (e - y) - 1) : a \in Addr /\ m[a] = mem[y + (a - r)]
      /\ \A k \in 0..(e - y - 1) : y + k \in Addr /\ m[y + k] = JumpByte(r, k)
      /\ \A k \in 0..5 : /\ r + (e - y) + k \in Addr
                         /\ m[r + (e - y) + k] = JumpByte(e, k)
      /\ \A a \in Addr : a < r /\ a \notin y..(e - 1) => m[a] = mem[a]
  BY CompleteIs
<1>4. /\ Ways(L, d, o) /\ y \in L /\ r = Region(n) /\ n \in 1..n
      /\ mem[y].op = "code" /\ Size(mem[y]) = 1
      /\ mem[y].x \in DOMAIN code /\ code[mem[y].x].kind = "io" /\ code[mem[y].x].len = 1
      /\ \A a \in (y + 1)..(e - 1) : Op(a) # "branch"
      /\ \A x \in DOMAIN code : code[x].kind = "branch" => x + code[x].disp \notin (y + 1)..(e - 1)
  BY PatchNumbers DEF Patching, Place
<1>5. \A s \in L : Target(mem, regions, s) => s \in K /\ Target(m, n, s)
  BY TargetsKept
<1> HIDE DEF m, L1, d1, o1, n
<1>6. ASSUME NEW z \in L
      PROVE  Station(mem, regions, L, d, o, z) /\ z \in Nat /\ Size(mem[z]) \in 1..15
             /\ Lies(mem, z)
  BY <1>4, StationsRead DEF Station
<1>7. d[y] = 0 /\ o[y] = mem[y].x /\ Leads(L, d, o, y + 1, mem[y].x + 1)
  BY <1>4, <1>6 DEF Station
(* An instruction that is kept. *)
<1>8. ASSUME NEW z \in K, z # y
      PROVE  Station(m, n, L1, d1, o1, z)
  <2>1. z \in L /\ Station(mem, regions, L, d, o, z) /\ Size(mem[z]) \in 1..15 /\ Lies(mem, z) /\ z \in Nat
    BY <1>6 DEF Kept
  <2>2. /\ \A k \in 0..(Size(mem[z]) - 1) : z + k \notin y..(e - 1) /\ z + k < r
        /\ z + Size(mem[z]) \in L => z + Size(mem[z]) \in K
    BY <1>8, KeptWhole
  <2>3. \A k \in 0..(Size(mem[z]) - 1) : z + k \in Addr /\ m[z + k] = mem[z + k]
    BY <1>3, <2>1, <2>2 DEF Lies
  <2>4. m[z] = mem[z]
    <3>1. 0 \in 0..(Size(mem[z]) - 1) /\ z + 0 = z
      BY <2>1
    <3> QED
      BY <2>3, <3>1
  <2>5. Lies(m, z)
    BY <2>1, <2>3, <2>4 DEF Lies
  <2>6. d1[z] = d[z] /\ o1[z] = o[z]
    BY <1>2, <1>8
  <2>7. \A x : Leads(L, d, o, z + Size(mem[z]), x) => Leads(L1, d1, o1, z + Size(mem[z]), x)
    BY <1>2, <2>2 DEF Leads
  <2>8. mem[z].op = "code" =>
       /\ d1[z] = 0 /\ o1[z] = mem[z].x
       /\ code[mem[z].x].kind # "exit" =>
            Leads(L1, d1, o1, z + Size(mem[z]), mem[z].x + code[mem[z].x].len)
    BY <2>1, <2>6, <2>7 DEF Station
  <2>9. ASSUME mem[z].op = "code", code[mem[z].x].kind = "branch"
        PROVE  mem[z].x = z /\ Leads(L1, d1, o1, z + code[z].disp, z + code[z].disp)
    <3>1. mem[z].x = z /\ Leads(L, d, o, z + code[z].disp, z + code[z].disp)
      BY <2>1, <2>9 DEF Station
    <3>2. z \in DOMAIN code /\ code[z].kind = "branch"
      BY <1>4, <2>1, <2>9, <3>1, StationsRead
    <3>3. z + code[z].disp \in K
      BY <1>4, <3>1, <3>2 DEF Leads, Kept
    <3> QED
      BY <1>2, <3>1, <3>3 DEF Leads
  <2>10. mem[z].op = "call" =>
       /\ d1[z] = 0 /\ o1[z] = mem[z].x
       /\ code[mem[z].x].kind = "io" /\ code[mem[z].x].len = 1
       /\ Leads(L1, d1, o1, z + Size(mem[z]), mem[z].x + 1)
    BY <2>1, <2>6, <2>7 DEF Station
  <2>11. mem[z].op = "push" =>
       /\ z + Size(mem[z]) \in L1 /\ d1[z + Size(mem[z])] = d1[z] + 1
       /\ mem[z].to \in L1 /\ d1[mem[z].to] = d1[z] /\ (d1[z] = 0 => o1[z] = o1[mem[z].to])
       /\ Target(m, n, mem[z].to)
    <3> SUFFICES ASSUME mem[z].op = "push"
                 PROVE  /\ z + Size(mem[z]) \in L1 /\ d1[z + Size(mem[z])] = d1[z] + 1
                        /\ mem[z].to \in L1 /\ d1[mem[z].to] = d1[z]
                        /\ d1[z] = 0 => o1[z] = o1[mem[z].to]
                        /\ Target(m, n, mem[z].to)
      OBVIOUS
    <3>1. /\ z + Size(mem[z]) \in L /\ d[z + Size(mem[z])] = d[z] + 1
          /\ mem[z].to \in L /\ d[mem[z].to] = d[z] /\ (d[z] = 0 => o[z] = o[mem[z].to])
          /\ Target(mem, regions, mem[z].to)
      BY <2>1 DEF Station
    <3>2. mem[z].to \in K /\ Target(m, n, mem[z].to)
      BY <1>5, <3>1
    <3> QED
      BY <1>2, <2>2, <2>6, <3>1, <3>2
  <2>12. mem[z].op \in {"code", "call", "push", "ret"} /\ (mem[z].op = "ret" => d1[z] >= 1)
    BY <2>1, <2>6 DEF Station
  <2> QED
    BY <2>4, <2>5, <2>8, <2>9, <2>10, <2>11, <2>12 DEF Station
(* The jump to the worker. *)
<1>9. Station(m, n, L1, d1, o1, y)
  <2>1. \A k \in 0..4 : y + k \in Addr /\ m[y + k] = JumpByte(r, k)
    BY <1>1, <1>3
  <2>2. m[y] = [op |-> "push", to |-> r, k |-> 0] /\ Size(m[y]) = 5 /\ Lies(m, y)
    BY <1>1, <2>1, PushLies
  <2>3. y \in K
    BY <1>1, <1>4 DEF Kept
  <2>4. d1[y] = 0 /\ o1[y] = mem[y].x
    BY <1>2, <1>7, <2>3
  <2>5. Target(m, n, r)
    BY <1>4 DEF Target
  <2> QED
    BY <1>2, <2>2, <2>4, <2>5 DEF Station
<1>10. Station(m, n, L1, d1, o1, y + 5)
  <2>1. y + 5 \in Addr /\ m[y + 5] = [op |-> "ret", k |-> 0]
    <3>1. 5 \in 0..(e - y - 1)
      BY <1>1
    <3>2. y + 5 \in Addr /\ m[y + 5] = JumpByte(r, 5)
      BY <1>3, <3>1
    <3> QED
      BY <3>2 DEF JumpByte
  <2>2. Size(m[y + 5]) = 1
    BY <2>1 DEF Size
  <2>3. Lies(m, y + 5)
    BY <1>1, <2>1, <2>2 DEF Lies
  <2> QED
    BY <1>2, <2>1, <2>3 DEF Station
(* The worker. *)
<1>11. Station(m, n, L1, d1, o1, r)
  <2>1. m[r] = [op |-> "call", x |-> mem[y].x, k |-> 0] /\ r \in Addr
    BY <1>1, <1>3, r \in r..(r + 31) DEF Worker
  <2>2. Size(m[r]) = 1
    BY <2>1 DEF Size
  <2>3. Lies(m, r)
    BY <1>1, <2>1, <2>2 DEF Lies
  <2>4. y + Size(mem[y]) \in N
    BY <1>4, <1>7, NextShifted DEF Leads
  <2>5. y + 1 \in N /\ r + ((y + 1) - y) = r + 1
    BY <1>1, <1>4, <2>4
  <2>6. Leads(L1, d1, o1, r + 1, mem[y].x + 1)
    BY <1>2, <1>7, <2>5 DEF Leads
  <2> QED
    BY <1>2, <1>4, <2>1, <2>2, <2>3, <2>6 DEF Station
(* A moved instruction. *)
<1>12. ASSUME NEW z \in N, z # e
       PROVE  Station(m, n, L1, d1, o1, r + (z - y))
  <2> DEFINE a == r + (z - y)
             size == Size(mem[z])
  <2>1. /\ z \in L /\ z \in Nat /\ y < z /\ z + size <= e /\ size \in 1..15
        /\ Station(mem, regions, L, d, o, z) /\ Lies(mem, z)
    BY <1>2, <1>6, <1>12 DEF Shifted
  <2>2. a \in Nat /\ d1[a] = d[z] /\ o1[a] = o[z]
    BY <1>1, <1>2, <2>1
  <2>3. ASSUME NEW k \in 0..(size - 1)
        PROVE  a + k \in Addr /\ m[a + k] = mem[z + k]
    <3>1. a + k \in (r + 1)..(r + (e - y) - 1) /\ y + ((a + k) - r) = z + k
      BY <1>1, <2>1
    <3> HIDE DEF a
    <3> QED
      BY <1>3, <3>1
  <2>4. a + size = r + ((z + size) - y)
    BY <1>1, <2>1
  <2> HIDE DEF a, size
  <2>5. m[a] = mem[z]
    <3>1. 0 \in 0..(size - 1) /\ z + 0 = z /\ a + 0 = a
      BY <2>1, <2>2
    <3> QED
      BY <2>3, <3>1
  <2>6. Size(m[a]) = size
    BY <2>5 DEF size
  <2>7. Lies(m, a)
    <3>1. \A k \in 0..(size - 1) : mem[z + k] = [mem[z] EXCEPT !.k = k]
      BY <2>1 DEF Lies, size
    <3> QED
      BY <2>3, <2>5, <2>6, <3>1 DEF Lies
  <2>8. z + size \in L => a + size \in L1 /\ d1[a + size] = d[z + size] /\ o1[a + size] = o[z + size]
    <3> SUFFICES ASSUME z + size \in L
                 PROVE  a + size \in L1 /\ d1[a + size] = d[z + size] /\ o1[a + size] = o[z + size]
      OBVIOUS
    <3>1. z + size \in N
      BY <1>12, <2>1, NextShifted DEF size
    <3> QED
      BY <1>2, <2>4, <3>1
  <2>9. \A x : Leads(L, d, o, z + size, x) => Leads(L1, d1, o1, a + size, x)
    BY <2>8 DEF Leads
  <2>10. mem[z].op = "code" =>
       /\ d1[a] = 0 /\ o1[a] = mem[z].x
       /\ code[mem[z].x].kind # "exit" =>
            Leads(L1, d1, o1, a + size, mem[z].x + code[mem[z].x].len)
    BY <2>1, <2>2, <2>9 DEF Station, size
  <2>11. ~(mem[z].op = "code" /\ code[mem[z].x].kind = "branch")
    <3>1. z \in (y + 1)..(e - 1)
      BY <1>1, <2>1
    <3>2. Op(z) # "branch"
      BY <1>4, <3>1
    <3> QED
      BY <1>4, <2>1, <3>2, StationsRead
  <2>12. mem[z].op = "call" =>
       /\ d1[a] = 0 /\ o1[a] = mem[z].x
       /\ code[mem[z].x].kind = "io" /\ code[mem[z].x].len = 1
       /\ Leads(L1, d1, o1, a + size, mem[z].x + 1)
    BY <2>1, <2>2, <2>9 DEF Station, size
  <2>13. mem[z].op = "push" =>
       /\ a + size \in L1 /\ d1[a + size] = d1[a] + 1
       /\ mem[z].to \in L1 /\ d1[mem[z].to] = d1[a] /\ (d1[a] = 0 => o1[a] = o1[mem[z].to])
       /\ Target(m, n, mem[z].to)
    <3> SUFFICES ASSUME mem[z].op = "push"
                 PROVE  /\ a + size \in L1 /\ d1[a + size] = d1[a] + 1
                        /\ mem[z].to \in L1 /\ d1[mem[z].to] = d1[a]
                        /\ d1[a] = 0 => o1[a] = o1[mem[z].to]
                        /\ Target(m, n, mem[z].to)
      OBVIOUS
    <3>1. /\ z + size \in L /\ d[z + size] = d[z] + 1
          /\ mem[z].to \in L /\ d[mem[z].to] = d[z] /\ (d[z] = 0 => o[z] = o[mem[z].to])
          /\ Target(mem, regions, mem[z].to)
      BY <2>1 DEF Station, size
    <3>2. mem[z].to \in K /\ Target(m, n, mem[z].to)
      BY <1>5, <3>1
    <3> QED
      BY <1>2, <2>2, <2>8, <3>1, <3>2
  <2>14. mem[z].op \in {"code", "call", "push", "ret"} /\ (mem[z].op = "ret" => d1[a] >= 1)
    BY <2>1, <2>2 DEF Station
  <2>15. Station(m, n, L1, d1, o1, a)
    BY <2>5, <2>6, <2>7, <2>10, <2>11, <2>12, <2>13, <2>14 DEF Station
  <2> QED
    BY <2>15 DEF a
(* The jump back. *)
<1>13. ASSUME e \in N
       PROVE  Station(m, n, L1, d1, o1, r + (e - y)) /\ Station(m, n, L1, d1, o1, b)
  <2> DEFINE a == r + (e - y)
  <2>1. a \in Nat /\ a + 5 = b /\ b \in Nat /\ e - 1 = y + (e - 1 - y) /\ e - 1 - y \in 5..(e - y - 1)
    BY <1>1 DEF Back
  <2>2. e \in L /\ d1[a] = d[e] /\ o1[a] = o[e] /\ b \in L1 /\ d1[b] = d[e] + 1
    BY <1>2, <1>13
  <2>3. e \in K /\ e \in L1 /\ d1[e] = d[e] /\ o1[e] = o[e] /\ d[e] \in Nat
    <3>1. e \in K
      BY <1>1, <2>2 DEF Kept
    <3> QED
      BY <1>2, <1>4, <2>2, <3>1 DEF Ways, Live
  <2>4. \A k \in 0..5 : a + k \in Addr /\ m[a + k] = JumpByte(e, k)
    BY <1>3
  <2>5. Target(m, n, e)
    <3>1. e - 1 \in Addr /\ m[e - 1] = JumpByte(r, e - 1 - y)
      <4>1. e - 1 - y \in 0..(e - y - 1)
        BY <1>1
      <4>2. y + (e - 1 - y) \in Addr /\ m[y + (e - 1 - y)] = JumpByte(r, e - 1 - y)
        BY <1>3, <4>1
      <4> QED
        BY <2>1, <4>2
    <3>2. r \in Addr /\ code \in Programs /\ e - 1 - y \in Nat
      BY <1>1, <1>4, r \in r..(r + 31) DEF Ways
    <3>3. Ends(JumpByte(r, e - 1 - y))
      BY <2>1, <3>2, JumpBytes
    <3> QED
      BY <3>1, <3>3 DEF Target
  <2> HIDE DEF a, b
  <2>6. m[a] = [op |-> "push", to |-> e, k |-> 0] /\ Size(m[a]) = 5 /\ Lies(m, a)
    BY <2>1, <2>4, PushLies
  <2>7. Station(m, n, L1, d1, o1, a)
    BY <2>1, <2>2, <2>3, <2>5, <2>6 DEF Station
  <2>8. m[b] = [op |-> "ret", k |-> 0] /\ b \in Addr
    <3>1. m[a + 5] = JumpByte(e, 5) /\ a + 5 \in Addr
      BY <2>4
    <3> QED
      BY <2>1, <3>1 DEF JumpByte
  <2>9. Size(m[b]) = 1
    BY <2>8 DEF Size
  <2>10. Lies(m, b)
    BY <2>1, <2>8, <2>9 DEF Lies
  <2>11. Station(m, n, L1, d1, o1, b)
    BY <2>2, <2>3, <2>8, <2>10 DEF Station
  <2> QED
    BY <2>7, <2>11 DEF a
<1>14. ASSUME NEW a \in L1 PROVE Station(m, n, L1, d1, o1, a)
  <2>1. e \in L => e \in N
    BY <1>1 DEF Shifted
  <2>2. CASE a \in K
    BY <1>8, <1>9, <2>2
  <2>3. ASSUME NEW z \in N, a = r + (z - y) PROVE Station(m, n, L1, d1, o1, a)
    BY <1>12, <1>13, <2>3
  <2>4. CASE e \in L /\ a = b
    BY <1>13, <2>1, <2>4
  <2> QED
    BY <1>2, <1>10, <1>11, <2>2, <2>3, <2>4
<1>15. Live(m, n, L1, d1, o1)
  BY <1>2, <1>14 DEF Live
<1> QED
  BY <1>15 DEF m, n, L1, d1, o1

-----------------------------------------------------------------------------
(* The injector's steps. *)

(* Memory is changed and the threads stay where they are.                  *)
Redone(L, d, o, L1, d1, o1, m, n) ==
  /\ MemoryOK(m, n) /\ Live(m, n, L1, d1, o1)
  /\ mem' = m /\ regions' = n /\ UNCHANGED <<code, pc, stack, at>>
  /\ trapped' \subseteq trapped
  /\ \A u \in Threads : /\ pc[u] \in L1 /\ d1[pc[u]] = d[pc[u]] /\ o1[pc[u]] = o[pc[u]]
                        /\ u \in trapped' => m[pc[u]] = mem[pc[u]]
  /\ \A s \in L : Target(mem, regions, s) =>
                    s \in L1 /\ d1[s] = d[s] /\ o1[s] = o[s] /\ Target(m, n, s)

LEMMA StayOn ==
  ASSUME NEW L, NEW d, NEW o, Ways(L, d, o),
         NEW L1, NEW d1, NEW o1, NEW m, NEW n, Redone(L, d, o, L1, d1, o1, m, n)
  PROVE  InjectorInv'
<1>0. /\ MemoryOK(m, n) /\ Live(m, n, L1, d1, o1)
      /\ mem' = m /\ regions' = n /\ code' = code /\ pc' = pc /\ stack' = stack /\ at' = at
      /\ trapped' \subseteq trapped
      /\ \A u \in Threads : /\ pc[u] \in L1 /\ d1[pc[u]] = d[pc[u]] /\ o1[pc[u]] = o[pc[u]]
                            /\ u \in trapped' => m[pc[u]] = mem[pc[u]]
      /\ \A s \in L : Target(mem, regions, s) =>
                        s \in L1 /\ d1[s] = d[s] /\ o1[s] = o[s] /\ Target(m, n, s)
  BY DEF Redone
<1>1. /\ code \in Programs /\ pc \in [Threads -> Addr] /\ stack \in [Threads -> Seq(Addr)]
      /\ at \in [Threads -> Int]
  BY DEF Ways
<1>2. MemoryOK(mem, regions)'
  BY <1>0 DEF MemoryOK, Laid, Chained, Within, Ends, Byte, Region
<1>3. Live(mem, regions, L1, d1, o1)'
  BY <1>0, LiveStays
<1>4. ASSUME NEW u \in Threads
      PROVE  OnItsWay(u, mem, regions, L1, d1, o1)'
  <2>1. OnItsWay(u, mem, regions, L, d, o) /\ stack[u] \in Seq(Addr)
    BY DEF Ways
  <2>2. \A j \in 1..Len(stack[u]) :
          /\ stack[u][j] \in L1 /\ d1[stack[u][j]] = j - 1 /\ o1[stack[u][j]] = o[stack[u][j]]
          /\ Target(m, n, stack[u][j])
    BY <1>0, <2>1 DEF OnItsWay
  <2>3. at[u] = IF stack[u] = <<>> THEN o1[pc[u]] ELSE o1[stack[u][1]]
    <3>1. at[u] = IF stack[u] = <<>> THEN o[pc[u]] ELSE o[stack[u][1]]
      BY <2>1 DEF OnItsWay
    <3>2. stack[u] # <<>> => 1 \in 1..Len(stack[u])
      <4>1. stack[u] # <<>> => Len(stack[u]) # 0
        BY <2>1, EmptySeq
      <4>2. Len(stack[u]) \in Nat
        BY <2>1, LenProperties
      <4> QED
        BY <4>1, <4>2
    <3> QED
      BY <1>0, <2>2, <3>1, <3>2
  <2>4. pc[u] \in L1 /\ Len(stack[u]) = d1[pc[u]]
    BY <1>0, <2>1 DEF OnItsWay
  <2>5. u \in trapped' => m[pc[u]].op = "code" /\ code[m[pc[u]].x].kind = "io"
    BY <1>0, <2>1 DEF OnItsWay
  <2>6. \A j \in 1..Len(stack[u]) : Target(mem, regions, stack[u][j])'
    BY <1>0, <2>2 DEF Target, Ends, Region
  <2> QED
    BY <1>0, <2>2, <2>3, <2>4, <2>5, <2>6 DEF OnItsWay
<1>5. Ways(L1, d1, o1)'
  BY <1>0, <1>1, <1>2, <1>3, <1>4 DEF Ways
<1>6. L1 \in SUBSET Addr /\ d1 \in [L1 -> Nat] /\ o1 \in [L1 -> Int]
  BY <1>0 DEF Live
<1> QED
  BY <1>5, <1>6 DEF Ways, InjectorInv, Orderly

LEMMA Unchanged ==
  ASSUME NEW L, NEW d, NEW o, Ways(L, d, o),
         UNCHANGED <<mem, regions, code, pc, stack, at>>, trapped' \subseteq trapped
  PROVE  InjectorInv'
<1>1. Redone(L, d, o, L, d, o, mem, regions)
  <2>1. \A u \in Threads : pc[u] \in L
    BY Whereabouts
  <2> QED
    BY <2>1 DEF Redone, Ways
<1> QED
  BY <1>1, StayOn

(* An incomplete patch.                                                    *)
LEMMA PartialKeeps ==
  ASSUME NEW L, NEW d, NEW o, Ways(L, d, o), NEW y, NEW e, NEW r, Place(y, e, r),
         NEW m \in {mem, Started(y, r), Copied(y, e, r)},
         mem' = m, regions' = regions + 1, UNCHANGED <<code, pc, stack, at>>,
         trapped' \subseteq trapped
  PROVE  InjectorInv'
<1>1. /\ Live(m, regions + 1, L, d, o)
      /\ \A s : Target(mem, regions, s) => Target(m, regions + 1, s)
      /\ \A z \in L : m[z] = mem[z]
  BY PartialLive
<1>2. MemoryOK(m, regions + 1)
  BY PatchedMemory DEF Ways
<1>3. \A u \in Threads : pc[u] \in L
  BY Whereabouts
<1>4. Redone(L, d, o, L, d, o, m, regions + 1)
  BY <1>1, <1>2, <1>3 DEF Redone
<1> QED
  BY <1>4, StayOn

(* A complete one that overtakes no thread.                                *)
LEMMA CompleteKeeps ==
  ASSUME NEW L, NEW d, NEW o, NEW y, NEW e, NEW r, Patching(L, d, o, y, e, r),
         NEW t \in Threads, pc[t] = y, t \notin trapped', trapped' \subseteq trapped,
         \A u \in Threads \ {t} : pc[u] \notin (y + 1)..(e - 1),
         \A u \in trapped \ {t} : pc[u] # y,
         mem' = Complete(y, e, r), regions' = regions + 1, UNCHANGED <<code, pc, stack, at>>
  PROVE  InjectorInv'
<1> DEFINE m == Complete(y, e, r)
           L1 == NewL(L, y, e, r)
           d1 == NewD(L, d, y, e, r)
           o1 == NewO(L, o, y, e, r)
<1>1. /\ y \in Nat /\ e \in Nat /\ r \in Nat /\ L \subseteq Addr
      /\ \A a \in Addr : a \in Nat
      /\ \A a \in Addr : a >= r => mem[a].op = "zero"
  BY PatchNumbers
<1>2. Ways(L, d, o) /\ Place(y, e, r)
  BY DEF Patching
<1>3. Live(m, regions + 1, L1, d1, o1)
  BY PatchLive
<1>4. MemoryOK(m, regions + 1)
  BY <1>2, PatchedMemory DEF Ways
<1>5. \A a \in Kept(L, y, e) : a \in L1 /\ d1[a] = d[a] /\ o1[a] = o[a]
  BY NewIs
<1>6. ASSUME NEW s \in L, Target(mem, regions, s)
      PROVE  s \in Kept(L, y, e) /\ Target(m, regions + 1, s)
  BY <1>6, TargetsKept
<1>7. ASSUME NEW u \in Threads
      PROVE  pc[u] \in Kept(L, y, e) /\ (u \in trapped' => m[pc[u]] = mem[pc[u]])
  <2>1. pc[u] \in L
    BY <1>2, Whereabouts
  <2>2. pc[u] \notin (y + 1)..(e - 1)
    BY <1>1
  <2>3. ASSUME u \in trapped' PROVE m[pc[u]] = mem[pc[u]]
    <3>1. pc[u] # y
      BY <2>3
    <3>2. pc[u] \in Addr /\ mem[pc[u]].op # "zero"
      BY <1>2, <2>1, StationsRead
    <3>3. pc[u] < r /\ pc[u] \notin y..(e - 1)
      BY <1>1, <2>2, <3>1, <3>2
    <3> QED
      BY <3>2, <3>3, CompleteIs
  <2> QED
    BY <2>1, <2>2, <2>3 DEF Kept
<1> HIDE DEF m, L1, d1, o1
<1>8. mem' = m
  BY DEF m
<1>9. Redone(L, d, o, L1, d1, o1, m, regions + 1)
  BY <1>3, <1>4, <1>5, <1>6, <1>7, <1>8 DEF Redone
<1> QED
  BY <1>2, <1>9, StayOn

LEMMA PatchKeeps ==
  ASSUME NEW L, NEW d, NEW o, Ways(L, d, o), NEW t \in Threads, Patch(t),
         UNCHANGED <<code, stack>>, trapped' = trapped \ {t}
  PROVE  sound' => InjectorInv'
<1> SUFFICES ASSUME sound' PROVE InjectorInv'
  OBVIOUS
<1> DEFINE y == pc[t]
           e == Cut(y)
           r == Region(regions + 1)
<1>1. UNCHANGED <<code, pc, stack, at>> /\ trapped' \subseteq trapped /\ t \notin trapped'
  BY DEF Patch
<1>2. \/ UNCHANGED <<mem, regions>>
      \/ /\ Patchable(y) /\ regions < MaxRegions /\ regions' = regions + 1
         /\ \/ mem' = Written(Parts(y, e, r), 4) /\ ~Overtaken(t, y, e)
            \/ \E i \in 0..2 : mem' = Written(Parts(y, e, r), i)
  <2>1. \/ Refuse(y)
        \/ /\ Patchable(y) /\ regions < MaxRegions
           /\ regions' = regions + 1
           /\ \/ /\ mem' = Written(Parts(y, e, r), 4)
                 /\ sound' = (sound /\ ~Overtaken(t, y, e))
              \/ \E i \in 0..3 : /\ mem' = Written(Parts(y, e, r), i)
                                 /\ sound' = (sound /\ i < 3)
        \/ UNCHANGED <<mem, regions>>
    BY DEF Patch
  <2>2. ASSUME NEW i \in 0..3, mem' = Written(Parts(y, e, r), i), sound' = (sound /\ i < 3)
        PROVE  \E j \in 0..2 : mem' = Written(Parts(y, e, r), j)
    <3>1. i < 3
      BY <2>2, Zenon
    <3>2. i \in 0..2
      BY <3>1
    <3> QED
      BY <2>2, <3>2
  <2>3. Refuse(y) => UNCHANGED <<mem, regions>>
    BY DEF Refuse
  <2> HIDE DEF y, e, r
  <2> QED
    BY <2>1, <2>2, <2>3
<1>3. CASE UNCHANGED <<mem, regions>>
  BY <1>1, <1>3, Unchanged
<1>4. ASSUME Patchable(y), regions < MaxRegions PROVE Place(y, e, r)
  BY <1>4, PlaceIs DEF Ways
<1>5. ASSUME Patchable(y), regions < MaxRegions
      PROVE  /\ Written(Parts(y, e, r), 0) = mem
             /\ Written(Parts(y, e, r), 1) = Started(y, r)
             /\ Written(Parts(y, e, r), 2) = Copied(y, e, r)
             /\ Written(Parts(y, e, r), 4) = Complete(y, e, r)
  <2>1. Place(y, e, r)
    BY <1>4, <1>5
  <2> HIDE DEF y, e, r
  <2>2. y \in Nat /\ e \in Nat /\ r \in Nat /\ e - y >= 6 /\ e <= r /\ mem \in [Addr -> Byte]
    BY <2>1 DEF Place, Ways, MemoryOK
  <2> QED
    BY <2>2, WrittenIs
<1>6. y \in L
  BY Whereabouts
<1> HIDE DEF y, e, r
<1>7. ASSUME Patchable(y), regions < MaxRegions, regions' = regions + 1,
             NEW i \in 0..2, mem' = Written(Parts(y, e, r), i)
      PROVE  InjectorInv'
  <2>1. mem' \in {mem, Started(y, r), Copied(y, e, r)}
    BY <1>5, <1>7
  <2>2. PICK m \in {mem, Started(y, r), Copied(y, e, r)} : mem' = m
    BY <2>1
  <2> QED
    BY <1>1, <1>4, <1>7, <2>2, PartialKeeps
<1>8. ASSUME Patchable(y), regions < MaxRegions, regions' = regions + 1,
             mem' = Written(Parts(y, e, r), 4), ~Overtaken(t, y, e)
      PROVE  InjectorInv'
  <2>1. /\ \A u \in Threads \ {t} : pc[u] \notin (y + 1)..(e - 1)
        /\ \A u \in trapped \ {t} : pc[u] # y
        /\ \A a \in (y + 1)..(e - 1) : Op(a) # "branch"
        /\ \A x \in DOMAIN code : code[x].kind = "branch" =>
             x + code[x].disp \notin (y + 1)..(e - 1)
    BY <1>8 DEF Overtaken
  <2>2. Place(y, e, r) /\ mem' = Complete(y, e, r)
    BY <1>4, <1>5, <1>8
  <2>3. Patching(L, d, o, y, e, r)
    BY <1>6, <2>1, <2>2 DEF Patching
  <2>4. pc[t] = y
    BY DEF y
  <2> QED
    BY <1>1, <1>8, <2>1, <2>2, <2>3, <2>4, CompleteKeeps
<1> QED
  BY <1>2, <1>3, <1>7, <1>8

LEMMA EmulateKeeps ==
  ASSUME NEW L, NEW d, NEW o, Ways(L, d, o), NEW t \in Threads, Emulate(t),
         UNCHANGED <<code, stack>>, trapped' = trapped \ {t}
  PROVE  sound' => InjectorInv'
<1> SUFFICES ASSUME sound' PROVE InjectorInv'
  OBVIOUS
<1> DEFINE z == pc[t]
           x == mem[z].x
<1>1. z \in L /\ IsIo(z)
  BY Whereabouts DEF Emulate
<1>2. /\ z \in Nat /\ mem[z].op = "code" /\ code[x].kind = "io" /\ Size(mem[z]) = code[x].len
      /\ Station(mem, regions, L, d, o, z)
  BY <1>1, StationsRead DEF IsIo, Size
<1>3. x \in Int /\ code[x].len \in 1..15
  <2>1. x \in DOMAIN code
    BY <1>1, <1>2, StationsRead
  <2> QED
    BY <2>1, ConstantsAre DEF Ways, IsProgram, Instruction
<1>4. stack[t] = <<>> /\ Leads(L, d, o, z + code[x].len, x + code[x].len)
  BY <1>2, Whereabouts DEF Station
<1>5. /\ UNCHANGED <<mem, regions>>
      /\ pc' = [pc EXCEPT ![t] = z + code[x].len]
      /\ at' = [at EXCEPT ![t] = x + code[x].len]
  BY DEF Emulate, Done, Crash
<1> HIDE DEF z, x
<1> DEFINE s == <<>>
<1>6. /\ s \in Seq(Addr) /\ Len(s) = 0 /\ stack' = [stack EXCEPT ![t] = s]
      /\ \A j \in 1..Len(s) : FALSE
  BY <1>4 DEF Ways
<1>7. x + code[x].len = IF s = <<>> THEN o[z + code[x].len] ELSE o[s[1]]
  BY <1>4 DEF Leads
<1> HIDE DEF s
<1> DEFINE p == z + code[x].len
           a == x + code[x].len
<1>a. /\ p \in L /\ a \in Int /\ d[p] = 0
      /\ a = IF s = <<>> THEN o[p] ELSE o[s[1]]
      /\ pc' = [pc EXCEPT ![t] = p] /\ at' = [at EXCEPT ![t] = a]
  BY <1>3, <1>4, <1>5, <1>7 DEF Leads
<1> HIDE DEF p, a
<1>b. trapped' \subseteq trapped /\ t \notin trapped' /\ UNCHANGED <<code, mem, regions>>
  BY <1>5
<1>8. Moved(t, L, d, o, p, s, a)
  BY <1>6, <1>a, <1>b DEF Moved
<1> QED
  BY <1>8, MoveOn

LEMMA TrapKeeps ==
  ASSUME NEW L, NEW d, NEW o, Ways(L, d, o), NEW t \in Threads, Trap(t)
  PROVE  InjectorInv'
<1>1. /\ trapped' = trapped \cup {t} /\ IsIo(pc[t])
      /\ mem' = mem /\ regions' = regions /\ code' = code /\ pc' = pc /\ stack' = stack /\ at' = at
  BY DEF Trap, program
<1>2. pc[t] \in L
  BY Whereabouts
<1>3. mem[pc[t]].op = "code" /\ code[mem[pc[t]].x].kind = "io"
  BY <1>1, <1>2, StationsRead DEF IsIo
<1>4. MemoryOK(mem, regions)'
  BY <1>1 DEF Ways, MemoryOK, Laid, Chained, Within, Ends, Byte, Region
<1>5. Live(mem, regions, L, d, o)'
  BY <1>1, LiveStays DEF Ways
<1>6. ASSUME NEW u \in Threads PROVE OnItsWay(u, mem, regions, L, d, o)'
  <2>1. OnItsWay(u, mem, regions, L, d, o)
    BY DEF Ways
  <2> QED
    BY <1>1, <1>3, <2>1 DEF OnItsWay, Target, Ends, Region
<1>7. L \in SUBSET Addr /\ d \in [L -> Nat] /\ o \in [L -> Int]
  BY DEF Ways, Live
<1>8. Ways(L, d, o)'
  BY <1>1, <1>4, <1>5, <1>6 DEF Ways
<1> QED
  BY <1>7, <1>8 DEF Ways, InjectorInv, Orderly

-----------------------------------------------------------------------------
(* What holds of every state. *)

LEMMA NotMoreSound ==
  ASSUME sound \in BOOLEAN,
         \/ sound' = sound \/ sound' = FALSE
         \/ \E t, y, e : sound' = (sound /\ ~Overtaken(t, y, e))
         \/ \E i : sound' = (sound /\ i < 3)
  PROVE  (sound' => sound) /\ sound' \in BOOLEAN
<1>1. CASE sound' = sound
  BY <1>1
<1>2. CASE sound' = FALSE
  BY <1>2
<1>3. ASSUME NEW t, NEW y, NEW e, sound' = (sound /\ ~Overtaken(t, y, e))
      PROVE  (sound' => sound) /\ sound' \in BOOLEAN
  BY <1>3
<1>4. ASSUME NEW i, sound' = (sound /\ i < 3)
      PROVE  (sound' => sound) /\ sound' \in BOOLEAN
  BY <1>4
<1> QED
  BY <1>1, <1>2, <1>3, <1>4

LEMMA SoundFalls ==
  ASSUME [Next]_vars, sound \in BOOLEAN
  PROVE  (sound' => sound) /\ sound' \in BOOLEAN /\ code' = code
<1>1. CASE UNCHANGED vars
  BY <1>1, Zenon DEF vars, program
<1>2. ASSUME NEW t \in Threads, Execute(t) \/ Jump(t) \/ Undefined(t) \/ Trap(t) \/ Call(t)
      PROVE  (sound' => sound) /\ sound' \in BOOLEAN /\ code' = code
  <2>1. code' = code /\ (sound' = sound \/ sound' = FALSE)
    BY <1>2, Zenon DEF Execute, Jump, Undefined, Trap, Call, Crash, program
  <2> QED
    BY <2>1, NotMoreSound
<1>3. ASSUME NEW t \in Threads, HandleEvent(t)
      PROVE  (sound' => sound) /\ sound' \in BOOLEAN /\ code' = code
  <2>1. code' = code /\ (Patch(t) \/ Emulate(t) \/ PassOn(t))
    BY <1>3, Zenon DEF HandleEvent, program
  <2>2. CASE Patch(t)
    <3>1. \/ sound' = sound
          \/ sound' = (sound /\ ~Overtaken(t, pc[t], Cut(pc[t])))
          \/ \E i \in 0..3 : sound' = (sound /\ i < 3)
      BY <2>2, Zenon DEF Patch, Refuse
    <3> QED
      BY <2>1, <3>1, NotMoreSound
  <2>3. CASE Emulate(t)
    <3>1. sound' = sound \/ sound' = FALSE
      BY <2>3, Zenon DEF Emulate, Crash
    <3> QED
      BY <2>1, <3>1, NotMoreSound
  <2>4. CASE PassOn(t)
    <3>1. sound' = sound \/ sound' = FALSE
      BY <2>4, Zenon DEF PassOn
    <3> QED
      BY <2>1, <3>1, NotMoreSound
  <2> QED
    BY <2>1, <2>2, <2>3, <2>4
<1> QED
  BY <1>1, <1>2, <1>3 DEF Next

LEMMA InjectorNext == InjectorInv /\ sound \in BOOLEAN /\ [Next]_vars => InjectorInv'
<1> SUFFICES ASSUME InjectorInv, sound \in BOOLEAN, [Next]_vars PROVE InjectorInv'
  OBVIOUS
<1>1. (sound' => sound) /\ code' = code
  BY SoundFalls
<1>2. CASE ~sound'
  BY <1>1, <1>2 DEF InjectorInv
<1>3. CASE sound'
  <2>1. PICK L, d, o : Ways(L, d, o)
    BY <1>1, <1>3, OrderlyWays
  <2>2. CASE UNCHANGED vars
    BY <2>1, <2>2, Unchanged DEF vars, program
  <2>3. ASSUME NEW t \in Threads, Execute(t) PROVE InjectorInv'
    BY <2>1, <2>3, ExecuteKeeps
  <2>4. ASSUME NEW t \in Threads, Jump(t) PROVE InjectorInv'
    BY <2>1, <2>4, JumpKeeps
  <2>5. ASSUME NEW t \in Threads, Undefined(t) PROVE InjectorInv'
    BY <2>1, <2>5, Whereabouts, StationsRead DEF Undefined
  <2>6. ASSUME NEW t \in Threads, Trap(t) PROVE InjectorInv'
    BY <2>1, <2>6, TrapKeeps
  <2>7. ASSUME NEW t \in Threads, Call(t) PROVE InjectorInv'
    BY <2>1, <2>7, CallKeeps
  <2>8. ASSUME NEW t \in Threads, HandleEvent(t) PROVE InjectorInv'
    <3>1. /\ UNCHANGED <<code, stack>> /\ trapped' = trapped \ {t} /\ t \in trapped
          /\ Patch(t) \/ Emulate(t) \/ PassOn(t)
      BY <2>8 DEF HandleEvent, program
    <3>2. CASE Patch(t)
      BY <1>3, <2>1, <3>1, <3>2, PatchKeeps
    <3>3. CASE Emulate(t)
      BY <1>3, <2>1, <3>1, <3>3, EmulateKeeps
    <3>4. CASE PassOn(t)
      <4>1. IsIo(pc[t])
        BY <2>1, <3>1, Whereabouts
      <4> QED
        BY <1>3, <3>4, <4>1 DEF PassOn
    <3> QED
      BY <3>1, <3>2, <3>3, <3>4
  <2> QED
    BY <2>2, <2>3, <2>4, <2>5, <2>6, <2>7, <2>8 DEF Next
<1> QED
  BY <1>2, <1>3

LEMMA InjectorInvariant == Spec => [](InjectorInv /\ sound \in BOOLEAN)
<1>1. Init => InjectorInv /\ sound \in BOOLEAN
  BY InjectorInit DEF Init
<1>2. InjectorInv /\ sound \in BOOLEAN /\ [Next]_vars => (InjectorInv /\ sound \in BOOLEAN)'
  BY InjectorNext, SoundFalls
<1> QED
  BY <1>1, <1>2, PTL DEF Spec

(* NeverLost: whatever the program, and whichever threads trap in whatever *)
(* order while it is patched and calls fail, as long as no patch has gone  *)
(* wrong every thread is at a whole instruction, and a trap that is        *)
(* handled is one of a port instruction (PatchIoInstruction).              *)
THEOREM NothingLost == Spec => []NeverLost
<1>1. InjectorInv => NeverLost
  <2> SUFFICES ASSUME InjectorInv, sound, NEW t \in Threads
               PROVE  Op(pc[t]) # "zero" /\ (t \in trapped => IsIo(pc[t]))
    BY DEF NeverLost
  <2>1. PICK L, d, o : Ways(L, d, o)
    BY OrderlyWays
  <2> QED
    BY <2>1, Whereabouts, StationsRead
<1> QED
  BY <1>1, InjectorInvariant, PTL

-----------------------------------------------------------------------------
(* The patched program executes its instructions. *)

AbstractVars == <<code, at, served, sound>>

LEMMA AbstractStep ==
  ASSUME NEW t \in Threads, sound, sound' = sound, code' = code,
         code[at[t]].kind # "exit",
         NEW a \in Abstract!After(code[at[t]], at[t]), at' = [at EXCEPT ![t] = a],
         \/ code[at[t]].kind # "io" /\ served' = served
         \/ code[at[t]].kind = "io" /\ \E p \in {"register", "bypass"} : Serve(t, p)
  PROVE  Abstract!Next
<1>1. Abstract!Execute(t)
  BY Zenon DEF Abstract!Execute, Serve
<1> QED
  BY <1>1 DEF Abstract!Next

LEMMA ExecuteIs ==
  ASSUME NEW L, NEW d, NEW o, Ways(L, d, o), NEW t \in Threads, Execute(t), sound
  PROVE  Abstract!Next
<1> DEFINE x == mem[pc[t]].x
<1>1. Op(pc[t]) \in {"plain", "branch"} /\ pc[t] \in L
  BY Whereabouts DEF Execute
<1>2. mem[pc[t]].op = "code" /\ code[x].kind \in {"plain", "branch"}
  BY <1>1, StationsRead
<1>3. at[t] = x
  BY <1>2, Whereabouts
<1>4. /\ sound' = sound /\ code' = code /\ served' = served
      /\ \/ at' = [at EXCEPT ![t] = x + code[x].len]
         \/ code[x].kind = "branch" /\ at' = [at EXCEPT ![t] = x + code[x].disp]
  BY DEF Execute, Done, program
<1> HIDE DEF x
<1>5. /\ x + code[x].len \in Abstract!After(code[x], x)
      /\ code[x].kind = "branch" => x + code[x].disp \in Abstract!After(code[x], x)
  BY DEF Abstract!After
<1>6. code[x].kind # "exit" /\ code[x].kind # "io"
  BY <1>2
<1> QED
  BY <1>3, <1>4, <1>5, <1>6, AbstractStep

LEMMA CallIs ==
  ASSUME NEW L, NEW d, NEW o, Ways(L, d, o), NEW t \in Threads, Call(t), sound, sound'
  PROVE  Abstract!Next
<1> DEFINE x == mem[pc[t]].x
<1>1. Op(pc[t]) = "call" /\ pc[t] \in L
  BY Whereabouts DEF Call
<1>2. mem[pc[t]].op = "call"
  BY <1>1, StationsRead
<1>3. code[x].kind = "io" /\ code[x].len = 1
  BY <1>1, <1>2, StationsRead DEF Station
<1>4. at[t] = x
  BY <1>2, Whereabouts
<1>5. /\ sound' = sound /\ code' = code /\ \E p \in {"register", "bypass"} : Serve(t, p)
      /\ at' = [at EXCEPT ![t] = x + 1]
  BY DEF Call, Done, program, Crash
<1> HIDE DEF x
<1>6. x + 1 \in Abstract!After(code[x], x)
  BY <1>3 DEF Abstract!After
<1> QED
  BY <1>3, <1>4, <1>5, <1>6, AbstractStep

LEMMA EmulateIs ==
  ASSUME NEW L, NEW d, NEW o, Ways(L, d, o), NEW t \in Threads, Emulate(t), code' = code,
         sound, sound'
  PROVE  Abstract!Next
<1> DEFINE x == mem[pc[t]].x
<1>1. IsIo(pc[t]) /\ pc[t] \in L
  BY Whereabouts DEF Emulate
<1>2. mem[pc[t]].op = "code" /\ code[x].kind = "io"
  BY <1>1, StationsRead DEF IsIo
<1>3. at[t] = x
  BY <1>2, Whereabouts
<1>4. /\ sound' = sound /\ \E p \in {"register", "bypass"} : Serve(t, p)
      /\ at' = [at EXCEPT ![t] = x + code[x].len]
  BY DEF Emulate, Done, Crash
<1> HIDE DEF x
<1>5. x + code[x].len \in Abstract!After(code[x], x)
  BY DEF Abstract!After
<1> QED
  BY <1>2, <1>3, <1>4, <1>5, AbstractStep

LEMMA StepIs ==
  ASSUME InjectorInv, sound \in BOOLEAN, [Next]_vars
  PROVE  [Abstract!Next]_AbstractVars
<1>1. (sound' => sound) /\ sound' \in BOOLEAN /\ code' = code
  BY SoundFalls
<1>2. CASE ~sound
  <2>1. ~sound'
    BY <1>1, <1>2
  <2> QED
    BY <1>2, <2>1 DEF Abstract!Next
<1>3. CASE sound /\ ~sound'
  <2>1. sound' = FALSE
    BY <1>1, <1>3
  <2> QED
    BY <1>1, <1>3, <2>1 DEF Abstract!Next, Abstract!GoWrong
<1>4. CASE sound /\ sound'
  <2>0. sound' = sound
    BY <1>1, <1>4
  <2>1. PICK L, d, o : Ways(L, d, o)
    BY <1>4, OrderlyWays
  <2>2. CASE UNCHANGED vars
    BY <2>2 DEF vars, program, AbstractVars
  <2>3. ASSUME NEW t \in Threads, Execute(t) PROVE Abstract!Next
    BY <1>4, <2>1, <2>3, ExecuteIs
  <2>4. ASSUME NEW t \in Threads, Jump(t) \/ Undefined(t) \/ Trap(t) PROVE UNCHANGED AbstractVars
    BY <1>1, <2>0, <2>4 DEF Jump, Undefined, Trap, program, AbstractVars
  <2>5. ASSUME NEW t \in Threads, Call(t) PROVE Abstract!Next
    BY <1>4, <2>1, <2>5, CallIs
  <2>6. ASSUME NEW t \in Threads, HandleEvent(t) PROVE [Abstract!Next]_AbstractVars
    <3>1. Patch(t) \/ Emulate(t) \/ PassOn(t)
      BY <2>6 DEF HandleEvent
    <3>2. CASE Patch(t) \/ PassOn(t)
      BY <1>1, <2>0, <3>2 DEF Patch, PassOn, AbstractVars
    <3>3. CASE Emulate(t)
      BY <1>1, <1>4, <2>1, <3>3, EmulateIs
    <3> QED
      BY <3>1, <3>2, <3>3
  <2> QED
    BY <2>2, <2>3, <2>4, <2>5, <2>6 DEF Next
<1> QED
  BY <1>2, <1>3, <1>4

(* ImplementsProgram: until it goes wrong, the program that is patched or  *)
(* emulated executes the instructions it was compiled to, in their order,  *)
(* and each port instruction once; at is the address of the program that   *)
(* the bytes at pc come from (PatchIoInstruction, ProcessIoException).     *)
THEOREM ProgramImplemented == Spec => ImplementsProgram
<1>1. Init => Abstract!Init
  BY DEF Init, Abstract!Init
<1>2. InjectorInv /\ sound \in BOOLEAN /\ [Next]_vars => [Abstract!Next]_AbstractVars
  BY StepIs
<1> QED
  BY <1>1, <1>2, InjectorInvariant, PTL DEF Spec, ImplementsProgram, Abstract!Spec, AbstractVars
=============================================================================
