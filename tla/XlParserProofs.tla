--------------------------- MODULE XlParserProofs ---------------------------
(***************************************************************************)
(* Proofs about XlParser.  The decoder undoes QUIK's encoding: at every    *)
(* place in parse, the bytes that are left are what `Written' has from the *)
(* next cell on, less what is missing at the end.                          *)
(***************************************************************************)
EXTENDS XlParser, SequenceTheorems, WellFoundedInduction, TLAPS

----------------------------------------------------------------------------
(* The inductive invariant.  p is what was poked. *)

Count(p) == Len(p.cells)
Rest(p) == Written(p.cells, p.division, p.other)

\* Cell i is the first of a block, or the one behind the last.
Boundary(p, i) == i = Count(p) + 1 \/ First(p.division, i)

Legal(p) ==
  /\ p.size \in Sizes
  /\ p.other \in Endings
  /\ p.surplus \in Nat
  /\ p.cells \in [1 .. CellsSent(p.size, p.other, p.surplus) -> Cells]
  /\ p.division \in Divisions(p.cells)
  /\ p.missing \in Nat
  /\ Fits(p.cells, p.division, p.other)

\* XlPosition::linearize.
At == row * width + column

\* The decoder is beside cell c of block b: what it still has to read.
AtBoundary(p) ==
  Boundary(p, At + 1) /\ data = Cut(Rest(p)[At + 1].bytes, p.missing)
BeforeBody(p, kind) ==
  /\ At < Count(p) /\ p.cells[At + 1].kind = kind
  /\ data = Cut(Body(p.cells[At + 1], p.division[At + 1])
                  \o Rest(p)[Following(p.cells, p.division, At + 1)].bytes, p.missing)
BehindUnknown(p) == At = Count(p) /\ p.other # <<>> /\ Len(data) < 4

\* The bytes left are those of the cells left.
Remaining ==
  /\ pc = "table" => data = Cut(Header(poked.size) \o Rest(poked)[1].bytes, poked.missing)
  /\ pc = "block" => AtBoundary(poked) \/ BehindUnknown(poked)
  /\ pc \in {"String", "Float"} =>
       \/ blocksize = 0 /\ AtBoundary(poked)
       \/ /\ BeforeBody(poked, pc)
          /\ blocksize = Rest(poked)[At + 1].left
  /\ pc = "Blank" => First(poked.division, At + 1) /\ BeforeBody(poked, "Blank")

\* The cells before the place are those that were sent, and the others are empty.
Filled ==
  /\ width = poked.size[1] /\ height = poked.size[2]
  /\ column < width
  /\ At <= Count(poked)
  /\ \A i \in 0 .. width * height - 1 :
       table[i] = IF i < At THEN Stored(poked.cells[i + 1]) ELSE Empty

Delivered ==
  /\ pc \notin {"deliver", "done"} => got = {} /\ next = 1
  /\ pc = "deliver" =>
       \A i \in DOMAIN Parsers : i < next /\ AcceptsTopic(i) => i \in got
  /\ pc = "done" /\ Whole =>
       \A i \in DOMAIN Parsers :
         AcceptsTopic(i) =>
           \/ i \in got
           \/ \E j \in 1 .. i - 1 : AcceptsTopic(j) /\ MayThrow(j)

\* Between pokes.
Resting == pc = "idle" => row <= height

IInv ==
  /\ TypeOK
  /\ Resting
  /\ pc # "idle" => Legal(poked)
  /\ Remaining
  /\ pc \in {"block", "String", "Float", "Blank", "deliver"} \/ got # {} => Filled
  /\ pc = "deliver" \/ got # {} => (Whole => At = Count(poked))
  /\ Delivered

----------------------------------------------------------------------------
(* Lemmas about numbers, sequences and least elements. *)

\* Induction up to n, over a set.
LEMMA UpTo ==
  ASSUME NEW n \in Nat, NEW S, 0 \in S, \A k \in Nat : k < n /\ k \in S => k + 1 \in S
  PROVE  \A k \in 0 .. n : k \in S
<1> DEFINE T == (0 .. n) \ S
<1> SUFFICES ASSUME T # {} PROVE FALSE
  OBVIOUS
<1>1. T \subseteq Nat
  OBVIOUS
<1> HIDE DEF T
<1>2. PICK x \in T : \A y \in T : ~ (<<y, x>> \in OpToRel(<, Nat))
  BY <1>1, NatLessThanWellFounded, WFMin
<1>3. \A y \in T : ~ (y < x)
  BY <1>1, <1>2 DEF OpToRel
<1>4. x \in 0 .. n /\ x \notin S /\ x # 0
  BY DEF T
<1>5. x - 1 \in Nat /\ x - 1 < n /\ x - 1 < x /\ (x - 1) + 1 = x /\ x - 1 \in 0 .. n
  BY <1>4
<1>6. x - 1 \notin T
  BY <1>3, <1>5
<1>7. x - 1 \in S
  BY <1>5, <1>6 DEF T
<1>. QED
  BY <1>4, <1>5, <1>7

LEMMA Division ==
  ASSUME NEW a \in Nat, NEW w \in Nat, w > 0
  PROVE  /\ a \div w \in Nat /\ a % w \in 0 .. w - 1
         /\ a = w * (a \div w) + (a % w)
  OBVIOUS

LEMMA Quotient ==
  ASSUME NEW n \in Nat, n < 65536, NEW q \in Int, NEW r \in Int, 0 <= r, r <= 255,
         n = 256 * q + r
  PROVE  0 <= q /\ q <= 255
<1>1. q < 256
  OBVIOUS
<1>2. q >= 0
  OBVIOUS
<1>. QED
  BY <1>1, <1>2

\* A word of two bytes is read as it was written.
LEMMA WordIsRead ==
  ASSUME NEW n \in Nat, n < 65536
  PROVE  /\ Word(n) \in Seq(Byte) /\ Len(Word(n)) = 2
         /\ Word(n)[1] + 256 * Word(n)[2] = n
<1>1. PICK q \in Int, r \in 0 .. 255 : q = n \div 256 /\ r = n % 256 /\ n = 256 * q + r
  <2>1. n % 256 \in 0 .. 255
    OBVIOUS
  <2>2. n \div 256 \in Int
    OBVIOUS
  <2>3. n = 256 * (n \div 256) + (n % 256)
    OBVIOUS
  <2>. QED
    BY <2>1, <2>2, <2>3
<1>2. q \in 0 .. 255
  BY <1>1, Quotient
<1>3. q % 256 = q
  <2>1. q % 256 \in 0 .. 255 /\ q = 256 * (q \div 256) + (q % 256) /\ q \div 256 \in Int
    BY <1>2
  <2>2. \A x \in Int, y \in 0 .. 255 : q = 256 * x + y => y = q
    BY <1>2
  <2>. QED
    BY <2>1, <2>2
<1>4. Word(n) = <<r, q>>
  BY <1>1, <1>3 DEF Word
<1>5. r \in Byte /\ q \in Byte
  BY <1>2 DEF Byte
<1>6. <<r, q>> \in Seq(Byte) /\ Len(<<r, q>>) = 2 /\ <<r, q>>[1] = r /\ <<r, q>>[2] = q
  BY <1>5
<1>7. r + 256 * q = n
  BY <1>1
<1>. QED
  BY <1>4, <1>6, <1>7

\* What is left of bytes that are cut short, once the first of them are read.
LEMMA CutRead ==
  ASSUME NEW a \in Seq(Byte), NEW b \in Seq(Byte), NEW missing \in Nat,
         NEW s, s = Cut(a \o b, missing), Len(a) <= Len(s)
  PROVE  /\ \A i \in 1 .. Len(a) : s[i] = a[i]
         /\ SubSeq(s, Len(a) + 1, Len(s)) = Cut(b, missing)
<1> DEFINE c == a \o b
<1>1. /\ Len(a) \in Nat /\ Len(b) \in Nat
      /\ c \in Seq(Byte) /\ Len(c) = Len(a) + Len(b)
      /\ \A i \in 1 .. Len(a) + Len(b) : c[i] = IF i <= Len(a) THEN a[i] ELSE b[i - Len(a)]
  BY ConcatProperties, LenProperties
<1> HIDE DEF c
<1> DEFINE k == Len(c) - missing
<1>2. /\ s \in Seq(Byte) /\ Len(s) = (IF 1 <= k THEN k ELSE 0)
      /\ \A i \in 1 .. k : s[i] = c[i]
  <2>1. \A i \in 1 .. k : c[i] \in Byte
    BY <1>1
  <2>2. s = SubSeq(c, 1, k)
    BY DEF Cut, c
  <2>. QED
    BY <1>1, <2>1, <2>2, SubSeqProperties
<1>3. \A i \in 1 .. Len(a) : s[i] = a[i]
  <2>1. Len(a) <= k \/ Len(a) = 0
    BY <1>1, <1>2
  <2>2. \A i \in 1 .. Len(a) : i \in 1 .. k /\ i \in 1 .. Len(a) + Len(b) /\ i <= Len(a)
    BY <1>1, <2>1
  <2>. QED
    BY <1>1, <1>2, <2>2
<1>4. SubSeq(s, Len(a) + 1, Len(s)) = Cut(b, missing)
  <2> DEFINE l == SubSeq(s, Len(a) + 1, Len(s))
             m == Len(b) - missing
             r == SubSeq(b, 1, m)
  <2>1. \A i \in Len(a) + 1 .. Len(s) : s[i] \in Byte
    BY <1>1, <1>2
  <2>2. /\ l \in Seq(Byte)
        /\ Len(l) = IF Len(a) + 1 <= Len(s) THEN Len(s) - Len(a) ELSE 0
        /\ \A i \in 1 .. Len(s) - Len(a) : l[i] = s[Len(a) + i]
    <3>1. Len(a) + 1 \in Int /\ Len(s) \in Int
      BY <1>1, <1>2
    <3>. QED
      BY <1>1, <1>2, <2>1, <3>1, SubSeqProperties
  <2>3. \A i \in 1 .. m : b[i] \in Byte
    BY <1>1
  <2>4. /\ r \in Seq(Byte) /\ Len(r) = (IF 1 <= m THEN m ELSE 0)
        /\ \A i \in 1 .. m : r[i] = b[i]
    <3>1. m \in Int
      BY <1>1
    <3>. QED
      BY <1>1, <2>3, <3>1, SubSeqProperties
  <2> HIDE DEF l, r
  <2>5. Len(l) = Len(r)
    <3>1. Len(s) = IF 1 <= k THEN k ELSE 0
      BY <1>2
    <3>2. k = m + Len(a)
      BY <1>1
    <3>. QED
      BY <1>1, <2>2, <2>4, <3>1, <3>2
  <2>6. \A i \in 1 .. Len(l) : l[i] = r[i]
    <3> SUFFICES ASSUME NEW i \in 1 .. Len(l) PROVE l[i] = r[i]
      OBVIOUS
    <3>1. /\ i \in 1 .. Len(s) - Len(a) /\ i \in 1 .. m
          /\ Len(a) + i \in 1 .. k /\ Len(a) + i \in 1 .. Len(a) + Len(b)
      <4>1. i \in 1 .. Len(s) - Len(a)
        BY <1>1, <1>2, <2>2
      <4>2. i \in 1 .. m
        BY <1>1, <2>4, <2>5
      <4>3. k = m + Len(a) /\ m <= Len(b)
        BY <1>1
      <4>. QED
        BY <1>1, <4>1, <4>2, <4>3
    <3>2. l[i] = s[Len(a) + i] /\ s[Len(a) + i] = c[Len(a) + i] /\ r[i] = b[i]
      BY <1>2, <2>2, <2>4, <3>1
    <3>3. ~ (Len(a) + i <= Len(a)) /\ (Len(a) + i) - Len(a) = i
      BY <1>1, <3>1
    <3>. QED
      BY <1>1, <3>1, <3>2, <3>3
  <2>7. l = r
    BY <2>2, <2>4, <2>5, <2>6, SeqEqual
  <2>. QED
    BY <2>7 DEF l, r, Cut
<1>. QED
  BY <1>3, <1>4

LEMMA DataRead ==
  ASSUME NEW a \in Seq(Byte), NEW b \in Seq(Byte), NEW missing \in Nat,
         data = Cut(a \o b, missing), Len(a) <= Len(data)
  PROVE  /\ \A i \in 1 .. Len(a) : data[i] = a[i]
         /\ Drop(Len(a)) = Cut(b, missing)
<1>1. PICK s : s = data
  OBVIOUS
<1>2. s = Cut(a \o b, missing) /\ Len(a) <= Len(s)
  BY <1>1
<1>3. /\ \A i \in 1 .. Len(a) : s[i] = a[i]
      /\ SubSeq(s, Len(a) + 1, Len(s)) = Cut(b, missing)
  BY <1>2, CutRead
<1>. QED
  BY <1>1, <1>3 DEF Drop

\* Bytes that are whole are not cut.
LEMMA CutNothing ==
  ASSUME NEW s \in Seq(Byte)
  PROVE  Cut(s, 0) = s
  BY SubSeqFull, LenProperties DEF Cut

LEMMA CutOfNothing ==
  ASSUME NEW missing \in Nat
  PROVE  Cut(<<>>, missing) = <<>>
<1>1. Len(<<>>) - missing \in Int /\ Len(<<>>) - missing < 1
  OBVIOUS
<1>. QED
  BY <1>1, SubSeqEmpty DEF Cut

LEMMA CutType ==
  ASSUME NEW s \in Seq(Byte), NEW missing \in Nat
  PROVE  Cut(s, missing) \in Seq(Byte) /\ Len(Cut(s, missing)) <= Len(s)
<1>1. Len(s) \in Nat
  BY LenProperties
<1>2. \A i \in 1 .. Len(s) - missing : s[i] \in Byte
  BY <1>1, ElementOfSeq
<1>. QED
  BY <1>1, <1>2, SubSeqProperties DEF Cut

----------------------------------------------------------------------------
(* Lemmas about the bytes QUIK writes. *)

LEMMA ByteType ==
  /\ Byte \subseteq Nat
  /\ \A b \in Byte : b <= 255
  BY DEF Byte

LEMMA CellType ==
  ASSUME NEW c \in Cells
  PROVE  \/ c.kind = "String" /\ c.value \in Seq(Byte) /\ Len(c.value) \in Byte
         \/ c.kind = "Float" /\ c.value \in Seq(Byte) /\ Len(c.value) = 8
         \/ c.kind = "Blank"
  BY XlParserAssumption DEF Cells

LEMMA WordType ==
  ASSUME NEW n \in Nat
  PROVE  Word(n) \in Seq(Byte) /\ Len(Word(n)) = 2
<1>1. \A x \in Int : x % 256 \in Byte
  BY DEF Byte
<1>2. n \div 256 \in Int
  OBVIOUS
<1>. QED
  BY <1>1, <1>2 DEF Word

LEMMA BodyType ==
  ASSUME NEW c \in Cells, NEW k \in Nat
  PROVE  /\ Body(c, k) \in Seq(Byte) /\ Len(Body(c, k)) \in Nat \ {0}
         /\ c.kind = "String" => Len(Body(c, k)) = Len(c.value) + 1
         /\ c.kind = "Float" => Len(Body(c, k)) = 8
         /\ c.kind = "Blank" => Len(Body(c, k)) = 2
<1>1. CASE c.kind = "String"
  <2>1. c.value \in Seq(Byte) /\ Len(c.value) \in Byte
    BY <1>1, CellType
  <2>2. Len(c.value) \in Nat
    BY <2>1, LenProperties
  <2>3. <<Len(c.value)>> \in Seq(Byte) /\ Len(<<Len(c.value)>>) = 1
    BY <2>1
  <2>4. Body(c, k) = <<Len(c.value)>> \o c.value
    BY <1>1 DEF Body
  <2>. QED
    BY <1>1, <2>1, <2>2, <2>3, <2>4, ConcatProperties
<1>2. CASE c.kind = "Float"
  <2>1. c.value \in Seq(Byte) /\ Len(c.value) = 8
    BY <1>2, CellType
  <2>2. Body(c, k) = c.value
    BY <1>2 DEF Body
  <2>3. Body(c, k) \in Seq(Byte) /\ Len(Body(c, k)) = 8 /\ 8 \in Nat \ {0}
    BY <2>1, <2>2
  <2>. QED
    BY <1>2, <2>3, Zenon
<1>3. CASE c.kind = "Blank"
  <2>1. Body(c, k) = Word(k)
    BY <1>3 DEF Body
  <2>. QED
    BY <1>3, <2>1, WordType
<1>. QED
  BY <1>1, <1>2, <1>3, CellType

\* Every cell has a block, which goes on to its end; behind the end starts another.
LEMMA DivisionGoesOn ==
  ASSUME NEW n \in Nat, NEW cells \in [1 .. n -> Cells], NEW d \in Divisions(cells),
         NEW i \in 1 .. n
  PROVE  /\ Len(cells) = n /\ d[i] \in 1 .. n /\ i + d[i] \in i + 1 .. n + 1
         /\ Following(cells, d, i) \in i + 1 .. n + 1
         /\ i + d[i] = n + 1 \/ First(d, i + d[i])
         /\ d[i] > 1 => /\ i + 1 <= n /\ ~ First(d, i + 1)
                        /\ d[i + 1] = d[i] - 1
                        /\ cells[i + 1].kind = cells[i].kind
<1>1. Len(cells) = n /\ DOMAIN cells = 1 .. n
  OBVIOUS
<1>2. d \in [1 .. n -> 1 .. n]
  BY <1>1 DEF Divisions
<1>3. \A j \in i .. i + d[i] - 1 :
        j \in 1 .. n /\ d[j] = d[i] - (j - i) /\ cells[j].kind = cells[i].kind
  BY <1>1 DEF Divisions
<1>4. d[i] \in 1 .. n
  BY <1>2
<1>5. i + d[i] \in i + 1 .. n + 1
  <2>1. i + d[i] - 1 \in i .. i + d[i] - 1
    BY <1>4
  <2>. QED
    BY <1>3, <1>4, <2>1
<1>6. Following(cells, d, i) \in i + 1 .. n + 1
  BY <1>4, <1>5 DEF Following
<1>7. i + d[i] = n + 1 \/ First(d, i + d[i])
  <2>1. i + d[i] - 1 \in i .. i + d[i] - 1
    BY <1>4
  <2>2. d[i + d[i] - 1] = d[i] - ((i + d[i] - 1) - i)
    BY <1>3, <2>1
  <2>3. d[i + d[i] - 1] = 1
    BY <1>4, <2>2
  <2>4. d[(i + d[i]) - 1] = 1
    BY <1>4, <2>3
  <2>. QED
    BY <2>4 DEF First
<1>8. d[i] > 1 => /\ i + 1 <= n /\ ~ First(d, i + 1)
                  /\ d[i + 1] = d[i] - 1
                  /\ cells[i + 1].kind = cells[i].kind
  <2> SUFFICES ASSUME d[i] > 1
               PROVE  /\ i + 1 <= n /\ ~ First(d, i + 1)
                      /\ d[i + 1] = d[i] - 1
                      /\ cells[i + 1].kind = cells[i].kind
    OBVIOUS
  <2>1. i + 1 \in i .. i + d[i] - 1
    BY <1>4
  <2>2. /\ i + 1 \in 1 .. n /\ d[i + 1] = d[i] - ((i + 1) - i)
        /\ cells[i + 1].kind = cells[i].kind
    BY <1>3, <2>1
  <2>3. (i + 1) - 1 = i /\ i + 1 # 1
    OBVIOUS
  <2>4. ~ First(d, i + 1)
    BY <2>3 DEF First
  <2>. QED
    BY <1>4, <2>2, <2>4
<1>. QED
  BY <1>1, <1>4, <1>5, <1>6, <1>7, <1>8

Rests == [left : Nat, bytes : Seq(Byte)]

LEMMA TypeOfBlock ==
  ASSUME NEW c \in Cells
  PROVE  BlockType[c.kind] \in {1, 2, 5}
  BY CellType DEF BlockType

LEMMA PieceType ==
  ASSUME NEW n \in Nat, NEW cells \in [1 .. n -> Cells],
         NEW d \in Divisions(cells), NEW i \in 1 .. n, NEW behind \in Rests
  PROVE  Piece(cells, d, i, behind) \in Rests
<1> DEFINE body == Body(cells[i], d[i])
           left == Len(body) + (IF Following(cells, d, i) = i + d[i] THEN 0 ELSE behind.left)
           header == IF First(d, i) THEN Word(BlockType[cells[i].kind]) \o Word(left) ELSE <<>>
<1>1. body \in Seq(Byte) /\ Len(body) \in Nat
  <2>1. d[i] \in 1 .. n
    BY DivisionGoesOn
  <2>2. d[i] \in Nat /\ cells[i] \in Cells
    BY <2>1
  <2>. QED
    BY <2>2, BodyType
<1>2. behind.left \in Nat /\ behind.bytes \in Seq(Byte)
  BY DEF Rests
<1> HIDE DEF body
<1>3. left \in Nat
  BY <1>1, <1>2
<1> HIDE DEF left
<1>4. header \in Seq(Byte)
  <2>1. BlockType[cells[i].kind] \in Nat
    BY TypeOfBlock
  <2>2. Word(BlockType[cells[i].kind]) \in Seq(Byte)
    BY <2>1, WordType
  <2>3. Word(left) \in Seq(Byte)
    BY <1>3, WordType
  <2>4. Word(BlockType[cells[i].kind]) \o Word(left) \in Seq(Byte)
    BY <2>2, <2>3, ConcatProperties
  <2>. QED
    BY <2>4, EmptySeq
<1> HIDE DEF header
<1>5. header \o body \o behind.bytes \in Seq(Byte)
  BY <1>1, <1>2, <1>4, ConcatProperties
<1>6. Piece(cells, d, i, behind) = [left |-> left, bytes |-> header \o body \o behind.bytes]
  BY DEF Piece, header, left, body
<1>. QED
  BY <1>3, <1>5, <1>6 DEF Rests

\* The equation that defines Written has a solution for every table ...
LEMMA WrittenExists ==
  ASSUME NEW n \in Nat, NEW cells \in [1 .. n -> Cells], NEW d \in Divisions(cells),
         NEW other
  PROVE  /\ DOMAIN Written(cells, d, other) = 1 .. n + 1
         /\ \A i \in 1 .. n + 1 :
              Written(cells, d, other)[i] =
                IF i = n + 1 THEN [left |-> 0, bytes |-> other]
                ELSE Piece(cells, d, i, Written(cells, d, other)[Following(cells, d, i)])
<1> DEFINE Is(f, k) ==
             f = [i \in k .. n + 1 |->
                    IF i = n + 1 THEN [left |-> 0, bytes |-> other]
                    ELSE Piece(cells, d, i, f[Following(cells, d, i)])]
           S == {k \in 0 .. n : \E f : Is(f, n + 1 - k)}
<1>1. 0 \in S
  <2> DEFINE f == [i \in n + 1 .. n + 1 |-> [left |-> 0, bytes |-> other]]
  <2>1. Is(f, n + 1)
    OBVIOUS
  <2>2. n + 1 - 0 = n + 1 /\ 0 \in 0 .. n
    OBVIOUS
  <2> HIDE DEF Is, f
  <2>3. Is(f, n + 1 - 0)
    BY <2>1, <2>2
  <2>. QED
    BY <2>2, <2>3
<1>2. ASSUME NEW x \in Nat, x < n, x \in S
      PROVE  x + 1 \in S
  <2>1. PICK k \in 1 .. n : k = n + 1 - (x + 1) /\ k + 1 = n + 1 - x
    BY <1>2
  <2>2. PICK f : Is(f, k + 1)
    BY <1>2, <2>1
  <2> DEFINE g == [i \in k .. n + 1 |->
                     IF i = k THEN Piece(cells, d, k, f[Following(cells, d, k)]) ELSE f[i]]
  <2>3. \A i \in k .. n : Following(cells, d, i) \in i + 1 .. n + 1
    BY <2>1, DivisionGoesOn
  <2>4. \A i \in k .. n : g[Following(cells, d, i)] = f[Following(cells, d, i)]
    BY <2>1, <2>3
  <2>5. g[n + 1] = [left |-> 0, bytes |-> other]
    BY <2>1, <2>2
  <2>6. \A i \in k .. n : g[i] = Piece(cells, d, i, f[Following(cells, d, i)])
    <3> SUFFICES ASSUME NEW i \in k .. n
                 PROVE  g[i] = Piece(cells, d, i, f[Following(cells, d, i)])
      OBVIOUS
    <3>1. CASE i = k
      BY <2>1, <3>1
    <3>2. CASE i # k
      <4>1. i \in k + 1 .. n + 1 /\ i \in k .. n + 1 /\ i # n + 1
        BY <2>1, <3>2
      <4>2. f[i] = Piece(cells, d, i, f[Following(cells, d, i)])
        BY <2>2, <4>1
      <4>3. g[i] = f[i]
        BY <3>2, <4>1
      <4>. QED
        BY <4>2, <4>3
    <3>. QED
      BY <3>1, <3>2
  <2> DEFINE e(i) == IF i = n + 1 THEN [left |-> 0, bytes |-> other]
                     ELSE Piece(cells, d, i, g[Following(cells, d, i)])
  <2>7. \A i \in k .. n + 1 : g[i] = e(i)
    <3> SUFFICES ASSUME NEW i \in k .. n + 1 PROVE g[i] = e(i)
      OBVIOUS
    <3> HIDE DEF g
    <3>1. CASE i = n + 1
      BY <2>5, <3>1
    <3>2. CASE i # n + 1
      <4>1. i \in k .. n
        BY <2>1, <3>2
      <4>2. g[i] = Piece(cells, d, i, g[Following(cells, d, i)])
        BY <2>4, <2>6, <4>1
      <4>. QED
        BY <3>2, <4>2
    <3>. QED
      BY <3>1, <3>2
  <2>8. DOMAIN g = k .. n + 1 /\ g = [i \in DOMAIN g |-> g[i]]
    OBVIOUS
  <2> HIDE DEF g, e
  <2>9. g = [i \in k .. n + 1 |-> e(i)]
    BY <2>7, <2>8
  <2>10. Is(g, k)
    BY <2>9 DEF e
  <2> HIDE DEF Is
  <2>11. x + 1 \in 0 .. n /\ Is(g, n + 1 - (x + 1))
    BY <1>2, <2>1, <2>10
  <2>. QED
    BY <2>11
<1> HIDE DEF S
<1>3. \A k \in 0 .. n : k \in S
  BY <1>1, <1>2, UpTo
<1>4. \E f : Is(f, 1)
  <2>1. n \in S /\ n + 1 - n = 1
    BY <1>3
  <2> HIDE DEF Is
  <2>2. \E f : Is(f, n + 1 - n)
    BY <2>1 DEF S
  <2>. QED
    BY <2>1, <2>2
<1>5. Len(cells) = n
  OBVIOUS
<1>6. Is(Written(cells, d, other), 1)
  BY <1>4, <1>5 DEF Written
<1>. QED
  BY <1>6

LEMMA PieceExists ==
  ASSUME NEW n \in Nat, NEW cells \in [1 .. n -> Cells], NEW d \in Divisions(cells),
         NEW other
  PROVE  \A i \in 1 .. n :
           Written(cells, d, other)[i] =
             Piece(cells, d, i, Written(cells, d, other)[Following(cells, d, i)])
<1> DEFINE from == Written(cells, d, other)
<1>1. \A i \in 1 .. n : i \in 1 .. n + 1 /\ i # n + 1
  OBVIOUS
<1>2. \A i \in 1 .. n + 1 :
        from[i] = IF i = n + 1 THEN [left |-> 0, bytes |-> other]
                  ELSE Piece(cells, d, i, from[Following(cells, d, i)])
  BY WrittenExists
<1> HIDE DEF from
<1>3. \A i \in 1 .. n : from[i] = Piece(cells, d, i, from[Following(cells, d, i)])
  BY <1>1, <1>2
<1>. QED
  BY <1>3 DEF from

LEMMA WordsAre == \A x \in Words : x \in Nat /\ x < 65536
  BY DEF Words

LEMMA FitsIs ==
  ASSUME NEW n \in Nat, NEW cells \in [1 .. n -> Cells], NEW d \in Divisions(cells),
         NEW other, Fits(cells, d, other)
  PROVE  /\ \A i \in 1 .. n + 1 : Written(cells, d, other)[i].left < 65536
         /\ \A i \in 1 .. n : d[i] < 65536
<1>1. DOMAIN Written(cells, d, other) = 1 .. n + 1
  BY WrittenExists
<1>2. DOMAIN d = 1 .. n
  <2>1. DOMAIN cells = 1 .. n
    OBVIOUS
  <2>. QED
    BY <2>1 DEF Divisions
<1>3. /\ \A i \in 1 .. n + 1 : Written(cells, d, other)[i].left \in Words
      /\ \A i \in 1 .. n : d[i] \in Words
  BY <1>1, <1>2 DEF Fits
<1>. QED
  BY <1>3, WordsAre

\* ... and what it defines is bytes.
LEMMA WrittenType ==
  ASSUME NEW n \in Nat, NEW cells \in [1 .. n -> Cells],
         NEW d \in Divisions(cells), NEW other \in Seq(Byte)
  PROVE  \A i \in 1 .. n + 1 : Written(cells, d, other)[i] \in Rests
<1> DEFINE from == Written(cells, d, other)
           S == {k \in 0 .. n : \A i \in n + 1 - k .. n + 1 : from[i] \in Rests}
<1>1. from[n + 1] = [left |-> 0, bytes |-> other]
  BY WrittenExists
<1>2. \A i \in 1 .. n : from[i] = Piece(cells, d, i, from[Following(cells, d, i)])
  BY PieceExists
<1> HIDE DEF from
<1>3. 0 \in S
  BY <1>1 DEF Rests
<1>4. ASSUME NEW x \in Nat, x < n, x \in S
      PROVE  x + 1 \in S
  <2>1. PICK k \in 1 .. n : k = n + 1 - (x + 1) /\ k + 1 = n + 1 - x
    BY <1>4
  <2>2. \A i \in k + 1 .. n + 1 : from[i] \in Rests
    BY <1>4, <2>1
  <2>3. Following(cells, d, k) \in k + 1 .. n + 1
    BY DivisionGoesOn
  <2>4. from[k] \in Rests
    BY <1>2, <2>2, <2>3, PieceType
  <2>5. \A i \in k .. n + 1 : from[i] \in Rests
    BY <2>1, <2>2, <2>4
  <2>. QED
    BY <1>4, <2>1, <2>5
<1>5. \A i \in 1 .. n + 1 : from[i] \in Rests
  <2> HIDE DEF S
  <2>1. n \in S
    BY <1>3, <1>4, UpTo
  <2>. QED
    BY <2>1 DEF S
<1>. QED
  BY <1>5 DEF from

----------------------------------------------------------------------------
(* Lemmas about what was poked. *)

LEMMA SizesAre ==
  ASSUME NEW size \in Sizes
  PROVE  /\ size[1] \in Nat /\ 1 <= size[1] /\ size[1] < 65536
         /\ size[2] \in Nat /\ 1 <= size[2] /\ size[2] < 65536
<1>1. size[1] \in Words \ {0} /\ size[2] \in Words \ {0}
  BY XlParserAssumption
<1>. QED
  BY <1>1, WordsAre

LEMMA Area ==
  ASSUME NEW a \in Nat, 1 <= a, NEW b \in Nat, 1 <= b
  PROVE  a * b \in Nat /\ 1 <= a * b
<1>1. \A x, y \in Nat : x * y \in Nat
  OBVIOUS
<1>2. 1 * b <= a * b
  OBVIOUS
<1>. QED
  BY <1>1, <1>2

\* As many cells as the table has, fewer by the one that is unknown, and the surplus.
LEMMA CellsSentType ==
  ASSUME NEW size \in Sizes, NEW other, NEW surplus \in Nat
  PROVE  /\ CellsSent(size, other, surplus) \in Nat
         /\ surplus = 0 => CellsSent(size, other, surplus) <= size[1] * size[2]
         /\ other = <<>> => CellsSent(size, other, surplus) >= size[1] * size[2]
<1> DEFINE a == size[1] * size[2]
           c == CellsSent(size, other, surplus)
<1>1. a \in Nat /\ 1 <= a
  BY SizesAre, Area
<1>2. c = a + surplus - (IF other = <<>> THEN 0 ELSE 1)
  BY DEF CellsSent
<1> HIDE DEF a, c
<1>3. c \in Nat /\ (surplus = 0 => c <= a) /\ (other = <<>> => c >= a)
  BY <1>1, <1>2
<1>. QED
  BY <1>3 DEF a, c

LEMMA SizeType ==
  ASSUME NEW p, Legal(p)
  PROVE  /\ p.size[1] \in Nat /\ 1 <= p.size[1] /\ p.size[1] < 65536
         /\ p.size[2] \in Nat /\ 1 <= p.size[2] /\ p.size[2] < 65536
<1>1. p.size \in Sizes
  BY DEF Legal
<1>. QED
  BY <1>1, SizesAre

LEMMA LegalType ==
  ASSUME NEW p, Legal(p)
  PROVE  /\ Count(p) \in Nat
         /\ p.surplus = 0 => Count(p) <= p.size[1] * p.size[2]
         /\ p.other = <<>> => Count(p) >= p.size[1] * p.size[2]
         /\ \A i \in 1 .. Count(p) : p.division[i] < 65536
         /\ p.cells \in [1 .. Count(p) -> Cells]
         /\ p.division \in Divisions(p.cells)
         /\ p.other \in Seq(Byte) /\ (p.other # <<>> => p.other \in Others)
         /\ p.missing \in Nat
         /\ \A i \in 1 .. Count(p) + 1 :
              /\ Rest(p)[i].left \in Nat /\ Rest(p)[i].left < 65536
              /\ Rest(p)[i].bytes \in Seq(Byte)
         /\ Rest(p)[Count(p) + 1].bytes = p.other
<1> DEFINE n == CellsSent(p.size, p.other, p.surplus)
<1>2. /\ n \in Nat
      /\ p.surplus = 0 => n <= p.size[1] * p.size[2]
      /\ p.other = <<>> => n >= p.size[1] * p.size[2]
  BY CellsSentType DEF Legal
<1>3. p.cells \in [1 .. n -> Cells]
  BY DEF Legal
<1> HIDE DEF n
<1>4. Count(p) = n
  BY <1>2, <1>3 DEF Count
<1>5. p.other \in Seq(Byte) /\ (p.other # <<>> => p.other \in Others)
  <2>1. \A o \in Others : o \in Seq(Byte)
    BY XlParserAssumption
  <2>2. p.other \in Others \/ p.other = <<>>
    BY DEF Legal, Endings
  <2>3. <<>> \in Seq(Byte)
    BY EmptySeq
  <2>. QED
    BY <2>1, <2>2, <2>3
<1>6. p.division \in Divisions(p.cells) /\ p.missing \in Nat
  BY DEF Legal
<1>7. \A i \in 1 .. n + 1 : Rest(p)[i] \in Rests
  BY <1>2, <1>3, <1>5, <1>6, WrittenType DEF Rest
<1>8. Rest(p)[n + 1] = [left |-> 0, bytes |-> p.other]
  BY <1>2, <1>3, <1>6, WrittenExists DEF Rest
<1>9. /\ \A i \in 1 .. n + 1 : Rest(p)[i].left < 65536
      /\ \A i \in 1 .. n : p.division[i] < 65536
  BY <1>2, <1>3, <1>6, FitsIs DEF Legal, Rest
<1>. QED
  BY <1>2, <1>3, <1>4, <1>5, <1>6, <1>7, <1>8, <1>9 DEF Rests, n

LEMMA CountType ==
  ASSUME NEW p, Legal(p)
  PROVE  /\ Count(p) \in Nat
         /\ p.cells \in [1 .. Count(p) -> Cells]
         /\ p.division \in Divisions(p.cells)
         /\ p.missing \in Nat
  BY LegalType

LEMMA RestType ==
  ASSUME NEW p, Legal(p), NEW i \in 1 .. Count(p) + 1
  PROVE  /\ Rest(p)[i].left \in Nat /\ Rest(p)[i].left < 65536
         /\ Rest(p)[i].bytes \in Seq(Byte)
  BY LegalType

\* The bytes from cell i on, once the header of its block is read.
Beyond(p, i) ==
  Body(p.cells[i], p.division[i]) \o Rest(p)[Following(p.cells, p.division, i)].bytes

LEMMA PieceIs ==
  ASSUME NEW p, Legal(p), NEW i \in 1 .. Count(p)
  PROVE  LET kind == p.cells[i].kind
             body == Body(p.cells[i], p.division[i])
             left == Rest(p)[i].left
         IN /\ body \in Seq(Byte) /\ Len(body) \in Nat \ {0}
            /\ Beyond(p, i) \in Seq(Byte)
            /\ First(p.division, i) =>
                 Rest(p)[i].bytes = (Word(BlockType[kind]) \o Word(left)) \o Beyond(p, i)
            /\ ~ First(p.division, i) => Rest(p)[i].bytes = Beyond(p, i)
            /\ left = Len(body) + (IF Following(p.cells, p.division, i) = i + p.division[i] THEN 0
                                   ELSE Rest(p)[Following(p.cells, p.division, i)].left)
<1> DEFINE kind == p.cells[i].kind
           body == Body(p.cells[i], p.division[i])
           f == Following(p.cells, p.division, i)
           left == Len(body) + (IF f = i + p.division[i] THEN 0 ELSE Rest(p)[f].left)
           w == Word(BlockType[kind]) \o Word(left)
<1>1. /\ f \in 1 .. Count(p) + 1 /\ p.division[i] \in Nat
      /\ p.cells[i] \in Cells
  <2>1. /\ Count(p) \in Nat /\ p.cells \in [1 .. Count(p) -> Cells]
        /\ p.division \in Divisions(p.cells)
    BY CountType
  <2>2. p.division[i] \in 1 .. Count(p) /\ f \in i + 1 .. Count(p) + 1
    BY <2>1, DivisionGoesOn
  <2> HIDE DEF f
  <2>. QED
    BY <2>1, <2>2
<1>2. body \in Seq(Byte) /\ Len(body) \in Nat \ {0}
  BY <1>1, BodyType
<1>3. Rest(p)[f].bytes \in Seq(Byte) /\ Rest(p)[f].left \in Nat
  BY <1>1, RestType
<1>4. Rest(p)[i] = Piece(p.cells, p.division, i, Rest(p)[f])
  <2>2. /\ Count(p) \in Nat /\ p.cells \in [1 .. Count(p) -> Cells]
        /\ p.division \in Divisions(p.cells)
    BY CountType
  <2>. QED
    BY <2>2, PieceExists, Zenon DEF Rest
<1> DEFINE h == IF First(p.division, i) THEN w ELSE <<>>
<1>5. Rest(p)[i].left = left /\ Rest(p)[i].bytes = h \o body \o Rest(p)[f].bytes
  <2> DEFINE bytes == h \o body \o Rest(p)[f].bytes
  <2>1. Piece(p.cells, p.division, i, Rest(p)[f]) = [left |-> left, bytes |-> bytes]
    BY DEF Piece
  <2> HIDE DEF left, bytes
  <2>2. Rest(p)[i].left = left /\ Rest(p)[i].bytes = bytes
    BY <1>4, <2>1
  <2>. QED
    BY <2>2 DEF bytes
<1>6. left \in Nat
  <2> HIDE DEF body
  <2>. QED
    BY <1>2, <1>3
<1>7. w \in Seq(Byte)
  <2>1. BlockType[kind] \in Nat
    BY <1>1, TypeOfBlock
  <2> HIDE DEF left, kind
  <2>. QED
    BY <1>6, <2>1, WordType, ConcatProperties
<1>8. Beyond(p, i) = body \o Rest(p)[f].bytes /\ Beyond(p, i) \in Seq(Byte)
  BY <1>2, <1>3, ConcatProperties DEF Beyond
<1> HIDE DEF body, f, left, w, h
<1>9. First(p.division, i) => Rest(p)[i].bytes = w \o Beyond(p, i)
  <2>1. First(p.division, i) => h = w
    BY DEF h
  <2>2. (w \o body) \o Rest(p)[f].bytes = w \o (body \o Rest(p)[f].bytes)
    <3>1. \A x, y, z \in Seq(Byte) : (x \o y) \o z = x \o (y \o z)
      BY ConcatAssociative
    <3>. QED
      BY <1>2, <1>3, <1>7, <3>1, Zenon
  <2>. QED
    BY <1>5, <1>8, <2>1, <2>2
<1>10. ~ First(p.division, i) => Rest(p)[i].bytes = Beyond(p, i)
  <2>1. ~ First(p.division, i) => h = <<>>
    BY DEF h
  <2>2. <<>> \o body = body
    BY <1>2, ConcatEmptySeq
  <2>. QED
    BY <1>5, <1>8, <2>1, <2>2
<1>. QED
  BY <1>2, <1>5, <1>8, <1>9, <1>10 DEF body, f, left, w

LEMMA FollowingType ==
  ASSUME NEW p, Legal(p), NEW i \in 1 .. Count(p)
  PROVE  Following(p.cells, p.division, i) \in 1 .. Count(p) + 1
<1>1. /\ Count(p) \in Nat /\ p.cells \in [1 .. Count(p) -> Cells]
      /\ p.division \in Divisions(p.cells)
  BY CountType
<1>2. Following(p.cells, p.division, i) \in i + 1 .. Count(p) + 1
  BY <1>1, DivisionGoesOn
<1>. QED
  BY <1>1, <1>2

\* A block starts with its two words.
Heading(p, i) == Word(BlockType[p.cells[i].kind]) \o Word(Rest(p)[i].left)

LEMMA BlockStarts ==
  ASSUME NEW p, Legal(p), NEW i \in 1 .. Count(p), First(p.division, i)
  PROVE  /\ Heading(p, i) \in Seq(Byte) /\ Len(Heading(p, i)) = 4
         /\ Heading(p, i)[1] + 256 * Heading(p, i)[2] = BlockType[p.cells[i].kind]
         /\ Heading(p, i)[3] + 256 * Heading(p, i)[4] = Rest(p)[i].left
         /\ Rest(p)[i].bytes = Heading(p, i) \o Beyond(p, i)
         /\ Beyond(p, i) \in Seq(Byte)
         /\ Rest(p)[i].bytes # <<>>
<1> SUFFICES ASSUME NEW w, w = Heading(p, i)
             PROVE  /\ w \in Seq(Byte) /\ Len(w) = 4
                    /\ w[1] + 256 * w[2] = BlockType[p.cells[i].kind]
                    /\ w[3] + 256 * w[4] = Rest(p)[i].left
                    /\ Rest(p)[i].bytes = w \o Beyond(p, i)
                    /\ Beyond(p, i) \in Seq(Byte)
                    /\ Rest(p)[i].bytes # <<>>
  OBVIOUS
<1> DEFINE t == BlockType[p.cells[i].kind]
           l == Rest(p)[i].left
<1>1. i \in 1 .. Count(p) + 1 /\ p.cells[i] \in Cells
  BY CountType
<1>2. t \in {1, 2, 5}
  BY <1>1, TypeOfBlock
<1>3. t \in Nat /\ t < 65536
  BY <1>2
<1>4. l \in Nat /\ l < 65536
  BY <1>1, RestType
<1>5. Rest(p)[i].bytes = w \o Beyond(p, i) /\ Beyond(p, i) \in Seq(Byte)
  BY PieceIs DEF Heading
<1> DEFINE a == Word(t)
           b == Word(l)
<1>6. /\ a \in Seq(Byte) /\ Len(a) = 2 /\ a[1] + 256 * a[2] = t
      /\ b \in Seq(Byte) /\ Len(b) = 2 /\ b[1] + 256 * b[2] = l
  BY <1>3, <1>4, WordIsRead
<1> HIDE DEF a, b
<1>7. /\ a \o b \in Seq(Byte) /\ Len(a \o b) = Len(a) + Len(b)
      /\ \A j \in 1 .. Len(a) + Len(b) :
           (a \o b)[j] = IF j <= Len(a) THEN a[j] ELSE b[j - Len(a)]
  <2>1. a \in Seq(Byte) /\ b \in Seq(Byte)
    BY <1>6
  <2>. QED
    BY <2>1, ConcatProperties
<1>8. w = a \o b
  BY DEF a, b, Heading
<1> HIDE DEF t, l
<1>9. /\ Len(a \o b) = 4
      /\ (a \o b)[1] = a[1] /\ (a \o b)[2] = a[2]
      /\ (a \o b)[3] = b[1] /\ (a \o b)[4] = b[2]
  BY <1>6, <1>7
<1>10. w \o Beyond(p, i) # <<>>
  <2>1. Len(w \o Beyond(p, i)) = 4 + Len(Beyond(p, i)) /\ Len(Beyond(p, i)) \in Nat
    BY <1>5, <1>7, <1>8, <1>9, ConcatProperties, LenProperties
  <2>2. Len(w \o Beyond(p, i)) # 0
    BY <2>1
  <2>. QED
    BY <2>2, EmptySeq
<1>. QED
  BY <1>5, <1>6, <1>7, <1>8, <1>9, <1>10 DEF t, l

\* The four words before the first cell.
LEMMA HeaderIs ==
  ASSUME NEW p, Legal(p)
  PROVE  /\ Header(p.size) \in Seq(Byte) /\ Len(Header(p.size)) = 8
         /\ Header(p.size)[1] + 256 * Header(p.size)[2] = BlockType.Table
         /\ Header(p.size)[3] + 256 * Header(p.size)[4] = 4
         /\ Header(p.size)[5] + 256 * Header(p.size)[6] = p.size[2]
         /\ Header(p.size)[7] + 256 * Header(p.size)[8] = p.size[1]
<1>1. \A n \in {BlockType.Table, 4, p.size[2], p.size[1]} :
        /\ Word(n) \in Seq(Byte) /\ Len(Word(n)) = 2
        /\ Word(n)[1] + 256 * Word(n)[2] = n
  <2>1. BlockType.Table = 16
    BY DEF BlockType
  <2>3. /\ p.size[1] \in Nat /\ p.size[1] < 65536
        /\ p.size[2] \in Nat /\ p.size[2] < 65536
    BY SizeType
  <2>4. /\ BlockType.Table \in Nat /\ BlockType.Table < 65536
        /\ 4 \in Nat /\ 4 < 65536
    BY <2>1
  <2>. QED
    BY <2>3, <2>4, WordIsRead
<1> DEFINE a == Word(BlockType.Table)
           b == Word(4)
           c == Word(p.size[2])
           d == Word(p.size[1])
<1>2. /\ a \in Seq(Byte) /\ b \in Seq(Byte) /\ c \in Seq(Byte) /\ d \in Seq(Byte)
      /\ Len(a) = 2 /\ Len(b) = 2 /\ Len(c) = 2 /\ Len(d) = 2
  BY <1>1
<1>3. Header(p.size) = ((a \o b) \o c) \o d
  BY DEF Header
<1> HIDE DEF a, b, c, d
<1>4. /\ a \o b \in Seq(Byte) /\ Len(a \o b) = 4
      /\ (a \o b)[1] = a[1] /\ (a \o b)[2] = a[2]
      /\ (a \o b)[3] = b[1] /\ (a \o b)[4] = b[2]
  <2>1. /\ a \o b \in Seq(Byte) /\ Len(a \o b) = Len(a) + Len(b)
        /\ \A i \in 1 .. Len(a) + Len(b) :
             (a \o b)[i] = IF i <= Len(a) THEN a[i] ELSE b[i - Len(a)]
    BY <1>2, ConcatProperties
  <2>. QED
    BY <1>2, <2>1
<1>5. /\ (a \o b) \o c \in Seq(Byte) /\ Len((a \o b) \o c) = 6
      /\ \A i \in 1 .. 4 : ((a \o b) \o c)[i] = (a \o b)[i]
      /\ ((a \o b) \o c)[5] = c[1] /\ ((a \o b) \o c)[6] = c[2]
  BY <1>2, <1>4, ConcatProperties
<1>6. /\ Header(p.size) \in Seq(Byte) /\ Len(Header(p.size)) = 8
      /\ \A i \in 1 .. 6 : Header(p.size)[i] = ((a \o b) \o c)[i]
      /\ Header(p.size)[7] = d[1] /\ Header(p.size)[8] = d[2]
  BY <1>2, <1>3, <1>5, ConcatProperties
<1>7. /\ Header(p.size)[1] = a[1] /\ Header(p.size)[2] = a[2]
      /\ Header(p.size)[3] = b[1] /\ Header(p.size)[4] = b[2]
      /\ Header(p.size)[5] = c[1] /\ Header(p.size)[6] = c[2]
  <2>1. \A i \in {1, 2, 3, 4} : i \in 1 .. 4 /\ i \in 1 .. 6
    OBVIOUS
  <2>2. \A i \in {1, 2, 3, 4} : Header(p.size)[i] = (a \o b)[i]
    BY <1>5, <1>6, <2>1
  <2>3. 5 \in 1 .. 6 /\ 6 \in 1 .. 6
    OBVIOUS
  <2>4. Header(p.size)[5] = ((a \o b) \o c)[5] /\ Header(p.size)[6] = ((a \o b) \o c)[6]
    BY <1>6, <2>3
  <2>. QED
    BY <1>4, <1>5, <2>2, <2>4
<1>8. /\ a[1] + 256 * a[2] = BlockType.Table /\ b[1] + 256 * b[2] = 4
      /\ c[1] + 256 * c[2] = p.size[2] /\ d[1] + 256 * d[2] = p.size[1]
  BY <1>1 DEF a, b, c, d
<1>. QED
  BY <1>6, <1>7, <1>8

\* Behind a cell that is not blank the block ends, or goes on with the next cell.
LEMMA NextCell ==
  ASSUME NEW p, Legal(p), NEW i \in 1 .. Count(p), p.cells[i].kind # "Blank",
         NEW length, length = Len(Body(p.cells[i], p.division[i]))
  PROVE  /\ Following(p.cells, p.division, i) = i + 1
         /\ \/ /\ Rest(p)[i].left - length = 0
               /\ Boundary(p, i + 1)
            \/ /\ Rest(p)[i].left - length = Rest(p)[i + 1].left
               /\ i + 1 \in 1 .. Count(p)
               /\ p.cells[i + 1].kind = p.cells[i].kind
               /\ Rest(p)[i + 1].bytes = Beyond(p, i + 1)
<1>1. Following(p.cells, p.division, i) = i + 1
  BY DEF Following
<1>2. /\ Count(p) \in Nat /\ p.cells \in [1 .. Count(p) -> Cells]
      /\ p.division \in Divisions(p.cells)
  BY CountType
<1>3. /\ p.division[i] \in 1 .. Count(p)
      /\ i + p.division[i] = Count(p) + 1 \/ First(p.division, i + p.division[i])
      /\ p.division[i] > 1 => /\ i + 1 <= Count(p) /\ ~ First(p.division, i + 1)
                              /\ p.cells[i + 1].kind = p.cells[i].kind
  BY <1>2, DivisionGoesOn
<1>4. /\ length \in Nat
      /\ Rest(p)[i].left = length + (IF i + 1 = i + p.division[i] THEN 0
                                     ELSE Rest(p)[i + 1].left)
  BY <1>1, PieceIs
<1>5. CASE p.division[i] = 1
  BY <1>1, <1>3, <1>4, <1>5 DEF Boundary
<1>6. CASE p.division[i] # 1
  <2>1. /\ i + 1 \in 1 .. Count(p) /\ ~ First(p.division, i + 1)
        /\ p.cells[i + 1].kind = p.cells[i].kind /\ i + 1 # i + p.division[i]
    BY <1>2, <1>3, <1>6
  <2>2. Rest(p)[i + 1].bytes = Beyond(p, i + 1)
    BY <2>1, PieceIs
  <2>3. i + 1 \in 1 .. Count(p) + 1
    BY <1>2, <2>1
  <2>4. Rest(p)[i + 1].left \in Nat
    BY <2>3, RestType
  <2>. QED
    BY <1>1, <1>4, <2>1, <2>2, <2>4
<1>. QED
  BY <1>5, <1>6

\* Behind a blank block another starts.
LEMMA NextBlock ==
  ASSUME NEW p, Legal(p), NEW i \in 1 .. Count(p), p.cells[i].kind = "Blank"
  PROVE  /\ p.division[i] \in Nat /\ p.division[i] < 65536
         /\ Following(p.cells, p.division, i) = i + p.division[i]
         /\ i + p.division[i] \in 1 .. Count(p) + 1
         /\ Boundary(p, i + p.division[i])
         /\ \A j \in i .. i + p.division[i] - 1 : p.cells[j].kind = "Blank"
<1>1. /\ Count(p) \in Nat /\ p.cells \in [1 .. Count(p) -> Cells]
      /\ p.division \in Divisions(p.cells) /\ p.division[i] < 65536
  BY LegalType
<1>2. /\ p.division[i] \in 1 .. Count(p) /\ i + p.division[i] \in i + 1 .. Count(p) + 1
      /\ i + p.division[i] = Count(p) + 1 \/ First(p.division, i + p.division[i])
  <2> DEFINE n == Count(p)
  <2>1. n \in Nat /\ p.cells \in [1 .. n -> Cells] /\ i \in 1 .. n
    BY <1>1
  <2> HIDE DEF n
  <2>2. /\ p.division[i] \in 1 .. n /\ i + p.division[i] \in i + 1 .. n + 1
        /\ i + p.division[i] = n + 1 \/ First(p.division, i + p.division[i])
    <3>1. p.division \in Divisions(p.cells)
      BY <1>1
    <3>. QED
      BY <2>1, <3>1, DivisionGoesOn, Zenon
  <2>. QED
    BY <2>2 DEF n
<1>3. \A j \in i .. i + p.division[i] - 1 : p.cells[j].kind = p.cells[i].kind
  <2>1. i \in DOMAIN p.cells /\ p.division \in Divisions(p.cells)
    BY <1>1
  <2>. QED
    BY <2>1, Zenon DEF Divisions
<1>. QED
  BY <1>1, <1>2, <1>3 DEF Following, Boundary

\* A place in the table has one number, and it grows by what the position is moved.
LEMMA AdvanceIs ==
  ASSUME NEW w \in Nat, width = w, w > 0, row \in Nat, column \in Nat, NEW k \in Nat,
         Advance(k), width' = w
  PROVE  /\ row' \in Nat /\ column' \in Nat /\ column' < w
         /\ At' = At + k
<1> DEFINE a == column + k
           q == a \div w
           r == a % w
<1>1. a \in Nat
  OBVIOUS
<1>2. q \in Nat /\ r \in 0 .. w - 1 /\ a = w * q + r
  <2> HIDE DEF a
  <2>. QED
    BY <1>1, Division
<1>3. column' = r /\ row' = row + q
  BY DEF Advance
<1> HIDE DEF q, r
<1>4. (row + q) * w + r = row * w + (w * q + r)
  <2>1. (row + q) * w = row * w + w * q
    BY <1>2
  <2>2. row * w \in Int /\ w * q \in Int
    BY <1>2
  <2>. QED
    BY <1>2, <2>1, <2>2
<1>5. row * w \in Int
  OBVIOUS
<1>6. At' = (row + q) * w + r
  BY <1>3 DEF At
<1>7. At = row * w + column
  BY DEF At
<1>. QED
  BY <1>2, <1>3, <1>4, <1>5, <1>6, <1>7

LEMMA RowsType == \A x, y \in Nat : x * y \in Nat
  OBVIOUS

LEMMA RowBound ==
  ASSUME NEW w \in Nat, NEW h \in Nat, NEW r \in Nat, NEW c \in Nat, w > 0,
         r * w + c <= w * h
  PROVE  r <= h
<1> SUFFICES ASSUME h + 1 <= r PROVE FALSE
  OBVIOUS
<1>1. (h + 1) * w <= r * w
  OBVIOUS
<1>2. (h + 1) * w = w * h + w
  OBVIOUS
<1>3. w * h \in Int /\ r * w \in Int
  OBVIOUS
<1>. QED
  BY <1>1, <1>2, <1>3

LEMMA CutPrefix ==
  ASSUME NEW s \in Seq(Byte), NEW missing \in Nat,
         NEW i \in 1 .. Len(Cut(s, missing))
  PROVE  Cut(s, missing)[i] = s[i]
<1>1. Len(s) \in Nat
  BY LenProperties
<1>2. \A j \in 1 .. Len(s) - missing : s[j] \in Byte
  BY <1>1, ElementOfSeq
<1>. QED
  BY <1>1, <1>2, SubSeqProperties DEF Cut

----------------------------------------------------------------------------
(* The invariant holds. *)

LEMMA ParsersType == Len(Parsers) \in Nat
  BY XlParserAssumption

LEMMA InitHolds == Init => IInv
<1> SUFFICES ASSUME Init PROVE IInv
  OBVIOUS
<1>1. TypeOK
  <2>1. /\ pc = "idle" /\ data = <<>> /\ width = 0 /\ height = 0 /\ table = NoTable
        /\ row = 0 /\ column = 0 /\ blocksize = 0 /\ next = 1 /\ got = {}
    BY DEF Init
  <2>2. /\ width \in Words /\ height \in Words /\ row \in Nat /\ row <= height
        /\ column \in 0 .. width
    BY <2>1 DEF Words
  <2>3. table \in [0 .. width * height - 1 -> XlCell]
    BY <2>1 DEF NoTable
  <2>4. data \in Seq(Byte)
    BY <2>1, EmptySeq
  <2>5. next \in 1 .. Len(Parsers) + 1 /\ got \subseteq 1 .. Len(Parsers)
    BY <2>1, ParsersType
  <2>. QED
    BY <2>1, <2>2, <2>3, <2>4, <2>5 DEF TypeOK
<1>. QED
  BY <1>1 DEF Init, IInv, Resting, Remaining, Delivered

LEMMA PokeHolds ==
  ASSUME IInv, NEW topic \in Topics, NEW size \in Sizes, NEW other \in Endings,
         NEW surplus \in Surplus, NEW missing \in Missing,
         Poke(topic, size, other, surplus, missing)
  PROVE  IInv'
<1>1. PICK cells \in [1 .. CellsSent(size, other, surplus) -> Cells] :
        \E d \in Divisions(cells) :
          /\ Fits(cells, d, other)
          /\ data' = Cut(Header(size) \o Written(cells, d, other)[1].bytes, missing)
          /\ poked' = [size |-> size, cells |-> cells, division |-> d, other |-> other,
                       surplus |-> surplus, missing |-> missing, topic |-> topic]
  BY DEF Poke
<1>2. PICK d \in Divisions(cells) :
        /\ Fits(cells, d, other)
        /\ data' = Cut(Header(size) \o Written(cells, d, other)[1].bytes, missing)
        /\ poked' = [size |-> size, cells |-> cells, division |-> d, other |-> other,
                     surplus |-> surplus, missing |-> missing, topic |-> topic]
  BY <1>1
<1> DEFINE p == [size |-> size, cells |-> cells, division |-> d, other |-> other,
                 surplus |-> surplus, missing |-> missing, topic |-> topic]
<1>3. /\ p.size = size /\ p.cells = cells /\ p.division = d /\ p.other = other
      /\ p.surplus = surplus /\ p.missing = missing
  OBVIOUS
<1> HIDE DEF p
<1>4. /\ poked' = p /\ pc = "idle" /\ pc' = "table"
      /\ UNCHANGED <<width, height, table, row, column, blocksize, next, got>>
  BY <1>2 DEF Poke, p, position
<1>5. Legal(p)
  BY <1>2, <1>3, XlParserAssumption DEF Legal
<1>6. data' = Cut(Header(p.size) \o Rest(p)[1].bytes, p.missing)
  BY <1>2, <1>3 DEF Rest
<1>7. data' \in Seq(Byte)
  <2>1. Header(p.size) \in Seq(Byte) /\ Rest(p)[1].bytes \in Seq(Byte) /\ p.missing \in Nat
    BY <1>5, HeaderIs, CountType, RestType
  <2>2. Header(p.size) \o Rest(p)[1].bytes \in Seq(Byte)
    BY <2>1, ConcatProperties
  <2>. QED
    BY <1>6, <2>1, <2>2, CutType
<1>8. TypeOK'
  <2>1. row <= height
    BY <1>4 DEF IInv, Resting
  <2>. QED
    BY <1>4, <1>7, <2>1 DEF IInv, TypeOK
<1>9. Remaining'
  BY <1>4, <1>6 DEF Remaining
<1>. QED
  BY <1>4, <1>5, <1>8, <1>9 DEF IInv, Resting, Delivered

LEMMA ThrowHolds ==
  ASSUME IInv, pc \notin {"idle", "deliver", "done"}, ~ Whole, Throw
  PROVE  IInv'
<1>1. TypeOK'
  BY DEF IInv, TypeOK, Throw, position
<1>2. /\ pc' = "done" /\ got' = got /\ got = {} /\ poked' = poked
  BY DEF IInv, Delivered, Throw
<1>3. ~ Whole'
  BY <1>2 DEF Whole
<1>. QED
  BY <1>1, <1>2, <1>3 DEF IInv, Resting, Remaining, Delivered

LEMMA PlaceType == TypeOK => At \in Nat
<1>1. \A x, y, z \in Nat : x * y + z \in Nat
  OBVIOUS
<1>2. TypeOK => row \in Nat /\ width \in Nat /\ column \in Nat
  BY WordsAre DEF TypeOK
<1>. QED
  BY <1>1, <1>2 DEF At

LEMMA EndBlockHolds ==
  ASSUME IInv, EndBlock
  PROVE  IInv'
<1>1. /\ pc \in {"String", "Float"} /\ blocksize <= 0 /\ pc' = "block"
      /\ UNCHANGED <<data, width, height, table, row, column, blocksize, next, poked, got>>
  BY DEF EndBlock, position
<1>2. Legal(poked) /\ At \in Nat
  BY <1>1, PlaceType DEF IInv
<1>3. AtBoundary(poked)
  <2>1. CASE blocksize = 0 /\ AtBoundary(poked)
    BY <2>1
  <2>2. CASE BeforeBody(poked, pc) /\ blocksize = Rest(poked)[At + 1].left
    <3>1. Count(poked) \in Nat /\ At < Count(poked)
      BY <1>2, <2>2, CountType DEF BeforeBody
    <3> DEFINE i == At + 1
    <3>2. i \in 1 .. Count(poked)
      BY <1>2, <3>1
    <3> HIDE DEF i
    <3> DEFINE n == Len(Body(poked.cells[i], poked.division[i]))
               f == Following(poked.cells, poked.division, i)
    <3>3. /\ n \in Nat \ {0}
          /\ Rest(poked)[i].left = n + (IF f = i + poked.division[i] THEN 0
                                        ELSE Rest(poked)[f].left)
      BY <1>2, <3>2, PieceIs
    <3>4. f \in 1 .. Count(poked) + 1
      BY <1>2, <3>2, FollowingType
    <3>5. Rest(poked)[f].left \in Nat
      BY <1>2, <3>4, RestType
    <3> HIDE DEF n, f
    <3>6. Rest(poked)[i].left > 0
      BY <3>3, <3>5
    <3>. QED
      BY <1>1, <2>2, <3>6, LegalType DEF i, TypeOK, IInv
  <2>. QED
    BY <1>1, <2>1, <2>2 DEF IInv, Remaining
<1>4. AtBoundary(poked)'
  BY <1>1, <1>3 DEF AtBoundary, At
<1>5. TypeOK'
  BY <1>1 DEF IInv, TypeOK
<1>6. Filled /\ got = {} /\ next = 1
  BY <1>1 DEF IInv, Delivered
<1>7. Filled'
  BY <1>1, <1>6 DEF Filled, At
<1>. QED
  BY <1>1, <1>2, <1>4, <1>5, <1>6, <1>7 DEF IInv, Resting, Remaining, Delivered

LEMMA EndTableHolds ==
  ASSUME IInv, EndTable
  PROVE  IInv'
<1>1. /\ pc = "block" /\ data = <<>> /\ pc' = "deliver"
      /\ UNCHANGED <<data, width, height, table, row, column, blocksize, next, poked, got>>
  BY DEF EndTable, position
<1>2. Legal(poked) /\ At \in Nat /\ Filled /\ got = {} /\ next = 1
  BY <1>1, PlaceType DEF IInv, Delivered
<1>3. Whole => At = Count(poked)
  <2> SUFFICES ASSUME Whole, At # Count(poked)
               PROVE  FALSE
    OBVIOUS
  <2>1. AtBoundary(poked)
    BY <1>1 DEF IInv, Remaining, BehindUnknown, Whole
  <2>2. Count(poked) \in Nat /\ At < Count(poked)
    BY <1>2, CountType DEF Filled
  <2> DEFINE i == At + 1
             kind == poked.cells[i].kind
             left == Rest(poked)[i].left
             w == Word(BlockType[kind]) \o Word(left)
  <2>3. i \in 1 .. Count(poked) /\ i # Count(poked) + 1
    BY <1>2, <2>2
  <2>4. First(poked.division, i)
    BY <2>1, <2>3 DEF AtBoundary, Boundary
  <2>5. data = Rest(poked)[i].bytes
    <3>1. poked.missing = 0 /\ Rest(poked)[i].bytes \in Seq(Byte)
      <4>1. Count(poked) \in Nat /\ i \in 1 .. Count(poked) + 1
        BY <2>2, <2>3
      <4>2. Rest(poked)[i].bytes \in Seq(Byte)
        BY <1>2, <4>1, RestType
      <4>. QED
        BY <4>2 DEF Whole
    <3>2. data = Cut(Rest(poked)[i].bytes, poked.missing)
      BY <2>1 DEF AtBoundary
    <3>. QED
      BY <3>1, <3>2, CutNothing
  <2>6. Rest(poked)[i].bytes # <<>>
    BY <1>2, <2>3, <2>4, BlockStarts
  <2>. QED
    BY <1>1, <2>5, <2>6
<1>4. TypeOK'
  BY <1>1 DEF IInv, TypeOK
<1>5. Filled' /\ (Whole => At = Count(poked))'
  BY <1>1, <1>2, <1>3 DEF Filled, At, Whole
<1>6. Delivered'
  <2>1. \A i \in DOMAIN Parsers : ~ (i < 1)
    BY XlParserAssumption, LenProperties
  <2>. QED
    BY <1>1, <1>2, <2>1 DEF Delivered
<1>. QED
  BY <1>1, <1>2, <1>4, <1>5, <1>6 DEF IInv, Resting, Remaining

LEMMA DeliverHolds ==
  ASSUME IInv, Deliver
  PROVE  IInv'
<1>1. /\ pc = "deliver" /\ next <= Len(Parsers) /\ next' = next + 1
      /\ got' = IF AcceptsTopic(next) THEN got \cup {next} ELSE got
      /\ \/ pc' = "deliver"
         \/ AcceptsTopic(next) /\ MayThrow(next) /\ pc' = "done"
      /\ UNCHANGED <<data, width, height, table, row, column, blocksize, poked>>
  BY DEF Deliver, position
<1>2. Len(Parsers) \in Nat /\ DOMAIN Parsers = 1 .. Len(Parsers)
  BY XlParserAssumption, LenProperties
<1>3. /\ next \in 1 .. Len(Parsers) /\ next \in Nat
      /\ Legal(poked) /\ Filled /\ (Whole => At = Count(poked))
      /\ \A i \in DOMAIN Parsers : i < next /\ AcceptsTopic(i) => i \in got
  BY <1>1, <1>2 DEF IInv, TypeOK, Delivered
<1>4. TypeOK'
  BY <1>1, <1>2, <1>3 DEF IInv, TypeOK
<1>5. Filled' /\ (Whole => At = Count(poked))'
  BY <1>1, <1>3 DEF Filled, At, Whole
<1>6. \A i : AcceptsTopic(i)' = AcceptsTopic(i)
  BY <1>1 DEF AcceptsTopic
<1>7. \A i \in DOMAIN Parsers : i < next + 1 /\ AcceptsTopic(i) => i \in got'
  BY <1>1, <1>2, <1>3
<1>8. Delivered'
  <2>1. pc' = "deliver" =>
          \A i \in DOMAIN Parsers : i < next' /\ AcceptsTopic(i)' => i \in got'
    BY <1>1, <1>6, <1>7
  <2>2. ASSUME pc' = "done", NEW i \in DOMAIN Parsers, AcceptsTopic(i)
        PROVE  i \in got' \/ \E j \in 1 .. i - 1 : AcceptsTopic(j) /\ MayThrow(j)
    <3>1. AcceptsTopic(next) /\ MayThrow(next)
      BY <1>1, <2>2
    <3>2. CASE i < next + 1
      BY <1>7, <2>2, <3>2
    <3>3. CASE ~ (i < next + 1)
      BY <1>2, <1>3, <3>1, <3>3
    <3>. QED
      BY <3>2, <3>3
  <2>3. pc' = "done" =>
          \A i \in DOMAIN Parsers :
            AcceptsTopic(i)' =>
              \/ i \in got'
              \/ \E j \in 1 .. i - 1 : AcceptsTopic(j)' /\ MayThrow(j)
    BY <1>6, <2>2
  <2>. QED
    BY <1>1, <2>1, <2>3 DEF Delivered, MayThrow
<1>. QED
  BY <1>1, <1>3, <1>4, <1>5, <1>8 DEF IInv, Resting, Remaining

LEMMA EndDeliverHolds ==
  ASSUME IInv, EndDeliver
  PROVE  IInv'
<1>1. /\ pc = "deliver" /\ next > Len(Parsers) /\ pc' = "done"
      /\ UNCHANGED <<data, width, height, table, row, column, blocksize, next, poked, got>>
  BY DEF EndDeliver, position
<1>2. Len(Parsers) \in Nat /\ DOMAIN Parsers = 1 .. Len(Parsers)
  BY XlParserAssumption, LenProperties
<1>3. /\ next \in Nat
      /\ Legal(poked) /\ Filled /\ (Whole => At = Count(poked))
      /\ \A i \in DOMAIN Parsers : i < next /\ AcceptsTopic(i) => i \in got
  BY <1>1, <1>2 DEF IInv, TypeOK, Delivered
<1>4. TypeOK'
  BY <1>1 DEF IInv, TypeOK
<1>5. Filled' /\ (Whole => At = Count(poked))'
  BY <1>1, <1>3 DEF Filled, At, Whole
<1>6. \A i \in DOMAIN Parsers : AcceptsTopic(i) => i \in got
  BY <1>1, <1>2, <1>3
<1>7. \A i \in DOMAIN Parsers : AcceptsTopic(i)' => i \in got'
  BY <1>1, <1>6 DEF AcceptsTopic
<1>8. Delivered'
  BY <1>1, <1>7 DEF Delivered
<1>. QED
  BY <1>1, <1>3, <1>4, <1>5, <1>8 DEF IInv, Resting, Remaining

LEMMA ReturnHolds ==
  ASSUME Return
  PROVE  IInv'
<1>1. TypeOK'
  <2>1. /\ pc' = "idle" /\ data' = <<>> /\ width' = 0 /\ height' = 0 /\ table' = NoTable
        /\ row' = 0 /\ column' = 0 /\ blocksize' = 0 /\ next' = 1 /\ got' = {}
    BY DEF Return
  <2>2. /\ width' \in Words /\ height' \in Words /\ row' \in Nat /\ row' <= height'
        /\ column' \in 0 .. width'
    BY <2>1 DEF Words
  <2>3. table' \in [0 .. width' * height' - 1 -> XlCell]
    BY <2>1 DEF NoTable
  <2>4. data' \in Seq(Byte)
    BY <2>1, EmptySeq
  <2>5. next' \in 1 .. Len(Parsers) + 1 /\ got' \subseteq 1 .. Len(Parsers)
    BY <2>1, ParsersType
  <2>. QED
    BY <2>1, <2>2, <2>3, <2>4, <2>5 DEF TypeOK
<1>. QED
  BY <1>1 DEF Return, IInv, Resting, Remaining, Delivered

LEMMA EmptyIsStored == Empty \in XlCell
<1>1. [kind |-> "Blank"] \in Cells /\ Stored([kind |-> "Blank"]) = Empty
  BY DEF Cells, Stored
<1>. QED
  BY <1>1 DEF XlCell

\* A poke that is whole is not cut short.
LEMMA NotWhole ==
  ASSUME NEW a \in Seq(Byte), NEW b \in Seq(Byte), NEW missing \in Nat,
         Len(Cut(a \o b, missing)) < Len(a)
  PROVE  missing # 0
<1>1. a \o b \in Seq(Byte) /\ Len(a \o b) = Len(a) + Len(b) /\ Len(a) \in Nat /\ Len(b) \in Nat
  BY ConcatProperties, LenProperties
<1>2. missing = 0 => Cut(a \o b, missing) = a \o b
  BY <1>1, CutNothing
<1>. QED
  BY <1>1, <1>2

LEMMA NotWholeData ==
  ASSUME NEW a \in Seq(Byte), NEW b \in Seq(Byte), NEW missing \in Nat,
         data = Cut(a \o b, missing), Len(data) < Len(a)
  PROVE  missing # 0
  BY NotWhole

LEMMA ReadTableHolds ==
  ASSUME IInv, ReadTable
  PROVE  IInv'
<1> SUFFICES ASSUME NEW p, p = poked PROVE IInv'
  OBVIOUS
<1> DEFINE h == Header(p.size)
           b == Rest(p)[1].bytes
<1>1. /\ pc = "table" /\ Legal(p) /\ TypeOK /\ got = {} /\ next = 1
      /\ data = Cut(h \o b, p.missing)
  BY DEF ReadTable, IInv, Remaining, Delivered
<1>2. /\ h \in Seq(Byte) /\ Len(h) = 8
      /\ h[1] + 256 * h[2] = BlockType.Table /\ h[3] + 256 * h[4] = 4
      /\ h[5] + 256 * h[6] = p.size[2] /\ h[7] + 256 * h[8] = p.size[1]
  BY <1>1, HeaderIs
<1>3. b \in Seq(Byte) /\ p.missing \in Nat /\ Count(p) \in Nat
  <2>1. p.missing \in Nat /\ Count(p) \in Nat
    BY <1>1, CountType
  <2>2. 1 \in 1 .. Count(p) + 1
    BY <2>1
  <2>3. b \in Seq(Byte)
    BY <1>1, <2>2, RestType
  <2>. QED
    BY <2>1, <2>3
<1> HIDE DEF h, b
<1>0. PICK w \in Nat, l \in Nat : /\ w = p.size[1] /\ 1 <= w /\ w < 65536
                                 /\ l = p.size[2] /\ 1 <= l /\ l < 65536
  BY <1>1, SizeType
<1>4. Len(data) \in Nat /\ data \in Seq(Byte)
  BY <1>1, LenProperties DEF TypeOK
<1>5. Len(data) >= 8 =>
        /\ WordAt(1) = BlockType.Table /\ WordAt(3) = 4
        /\ WordAt(5) = p.size[2] /\ WordAt(7) = p.size[1]
        /\ Drop(8) = Cut(b, p.missing)
  <2> SUFFICES ASSUME Len(data) >= 8
               PROVE  /\ WordAt(1) = BlockType.Table /\ WordAt(3) = 4
                      /\ WordAt(5) = p.size[2] /\ WordAt(7) = p.size[1]
                      /\ Drop(8) = Cut(b, p.missing)
    OBVIOUS
  <2>0. Len(h) <= Len(data)
    BY <1>2
  <2>1. /\ \A i \in 1 .. Len(h) : data[i] = h[i]
        /\ Drop(Len(h)) = Cut(b, p.missing)
    BY <1>1, <1>2, <1>3, <2>0, DataRead
  <2>2. \A i \in {1, 2, 3, 4, 5, 6, 7, 8} : i \in 1 .. Len(h)
    BY <1>2
  <2>3. \A i \in {1, 2, 3, 4, 5, 6, 7, 8} : data[i] = h[i]
    BY <2>1, <2>2
  <2>4. /\ WordAt(1) = h[1] + 256 * h[2] /\ WordAt(3) = h[3] + 256 * h[4]
        /\ WordAt(5) = h[5] + 256 * h[6] /\ WordAt(7) = h[7] + 256 * h[8]
    BY <2>3 DEF WordAt
  <2>5. Drop(8) = Cut(b, p.missing)
    BY <1>2, <2>1
  <2>. QED
    BY <1>2, <2>4, <2>5
<1>6. CASE Len(data) < 8 \/ WordAt(1) # BlockType.Table \/ WordAt(3) # 4
  <2>1. Len(data) < 8
    BY <1>4, <1>5, <1>6
  <2>2. p.missing # 0
    <3>1. Len(data) < Len(h)
      BY <1>2, <2>1
    <3>. QED
      BY <1>1, <1>2, <1>3, <3>1, NotWholeData
  <2>3. ~ Whole
    BY <2>2 DEF Whole
  <2>4. Throw
    BY <1>6 DEF ReadTable
  <2>. QED
    BY <1>1, <2>3, <2>4, ThrowHolds
<1>7. CASE ~ (Len(data) < 8 \/ WordAt(1) # BlockType.Table \/ WordAt(3) # 4)
  <2>1. Len(data) >= 8
    BY <1>4, <1>7
  <2>2. /\ height' = WordAt(5) /\ width' = WordAt(7)
        /\ table' = [i \in 0 .. width' * height' - 1 |-> Empty]
        /\ row' = 0 /\ column' = 0 /\ data' = Drop(8) /\ pc' = "block"
        /\ UNCHANGED <<blocksize, next, poked, got>>
    BY <1>7 DEF ReadTable
  <2>3. /\ height' = p.size[2] /\ width' = p.size[1] /\ data' = Cut(b, p.missing)
        /\ height' = l /\ width' = w
    BY <1>0, <1>5, <2>1, <2>2
  <2>4. At' = 0
    <3>1. \A x \in Int : 0 * x + 0 = 0
      OBVIOUS
    <3>2. width' \in Int
      BY <2>3
    <3>. QED
      BY <2>2, <3>1, <3>2 DEF At
  <2>5. TypeOK'
    <3>1. data' \in Seq(Byte)
      BY <1>3, <2>3, CutType
    <3>2. /\ width' \in Words /\ height' \in Words /\ column' \in 0 .. width'
          /\ row' \in Nat /\ row' <= height'
      <4>1. w \in Words /\ l \in Words
        BY <1>0 DEF Words
      <4>2. 0 \in 0 .. w /\ 0 <= l
        OBVIOUS
      <4>. QED
        BY <2>2, <2>3, <4>1, <4>2
    <3>3. table' \in [0 .. width' * height' - 1 -> XlCell]
      <4>1. Empty \in XlCell
        BY EmptyIsStored
      <4>. QED
        BY <2>2, <4>1
    <3>. QED
      BY <1>1, <2>2, <3>1, <3>2, <3>3 DEF TypeOK
  <2>6. Filled'
    <3>1. column' < width'
      BY <1>0, <2>2, <2>3
    <3>2. \A i \in 0 .. width' * height' - 1 : ~ (i < 0) /\ table'[i] = Empty
      BY <2>2
    <3>3. Count(p) >= 0
      BY <1>3
    <3>. QED
      BY <2>2, <2>3, <2>4, <3>1, <3>2, <3>3 DEF Filled
  <2>7. AtBoundary(p)'
    <3>1. 0 + 1 = 1 /\ Boundary(p, 1)
      BY DEF Boundary, First
    <3>. QED
      BY <2>3, <2>4, <3>1 DEF AtBoundary, b
  <2>8. Remaining' /\ Delivered'
    BY <1>1, <2>2, <2>7 DEF Remaining, Delivered
  <2>. QED
    BY <1>1, <2>2, <2>5, <2>6, <2>8 DEF IInv, Resting
<1>. QED
  BY <1>6, <1>7

\* The header of the block of the next cell.
LEMMA ReadKnownBlock ==
  ASSUME IInv, ReadBlock, AtBoundary(poked), At < Count(poked)
  PROVE  IInv'
<1> SUFFICES ASSUME NEW p, p = poked, NEW i, i = At + 1 PROVE IInv'
  OBVIOUS
<1>1. /\ pc = "block" /\ data # <<>> /\ Legal(p) /\ TypeOK /\ got = {} /\ next = 1 /\ Filled
      /\ At \in Nat
  BY PlaceType DEF ReadBlock, IInv, Delivered
<1>2. Count(p) \in Nat /\ i \in 1 .. Count(p) /\ i # Count(p) + 1 /\ p.missing \in Nat
  BY <1>1, CountType
<1>3. First(p.division, i) /\ data = Cut(Rest(p)[i].bytes, p.missing)
  BY <1>2 DEF AtBoundary, Boundary
<1> DEFINE kind == p.cells[i].kind
           left == Rest(p)[i].left
           w == Heading(p, i)
           b == Beyond(p, i)
<1>4. /\ w \in Seq(Byte) /\ Len(w) = 4
      /\ w[1] + 256 * w[2] = BlockType[kind] /\ w[3] + 256 * w[4] = left
      /\ Rest(p)[i].bytes = w \o b /\ b \in Seq(Byte)
  <2> HIDE DEF kind, left, w, b
  <2>1. Legal(p) /\ i \in 1 .. Count(p) /\ First(p.division, i)
    BY <1>1, <1>2, <1>3
  <2>2. Heading(p, i) \in Seq(Byte) /\ Len(Heading(p, i)) = 4
    BY <2>1, BlockStarts
  <2>3. Heading(p, i)[1] + 256 * Heading(p, i)[2] = BlockType[p.cells[i].kind]
    BY <2>1, BlockStarts
  <2>4. Heading(p, i)[3] + 256 * Heading(p, i)[4] = Rest(p)[i].left
    BY <2>1, BlockStarts
  <2>5. Rest(p)[i].bytes = Heading(p, i) \o Beyond(p, i) /\ Beyond(p, i) \in Seq(Byte)
    BY <2>1, BlockStarts
  <2>. QED
    BY <2>2, <2>3, <2>4, <2>5, Zenon DEF w, b, left, kind
<1>5. left \in Nat /\ left < 65536 /\ p.cells[i] \in Cells
  <2>1. i \in 1 .. Count(p) + 1
    BY <1>2
  <2>2. left \in Nat /\ left < 65536
    BY <1>1, <2>1, RestType
  <2>3. p.cells \in [1 .. Count(p) -> Cells]
    BY <1>1, CountType
  <2>. QED
    BY <1>2, <2>2, <2>3
<1>6. /\ kind \in {"String", "Float", "Blank"}
      /\ BlockType.String = 2 /\ BlockType.Float = 1 /\ BlockType.Blank = 5
      /\ kind = "String" => BlockType[kind] = 2
      /\ kind = "Float" => BlockType[kind] = 1
      /\ kind = "Blank" => BlockType[kind] = 5
  BY <1>5, CellType DEF BlockType
<1> HIDE DEF kind, left, w, b
<1>7. data = Cut(w \o b, p.missing)
  BY <1>3, <1>4
<1>8. Len(data) \in Nat
  BY <1>1, LenProperties DEF TypeOK
<1>9. CASE Len(data) < 4
  <2>1. p.missing # 0
    <3>1. Len(data) < Len(w)
      BY <1>4, <1>9
    <3>. QED
      BY <1>2, <1>4, <1>7, <3>1, NotWholeData
  <2>2. ~ Whole
    BY <2>1 DEF Whole
  <2>3. Throw
    BY <1>9 DEF ReadBlock
  <2>. QED
    BY <1>1, <2>2, <2>3, ThrowHolds
<1>10. CASE ~ (Len(data) < 4)
  <2>1. Len(w) <= Len(data)
    BY <1>4, <1>8, <1>10
  <2>2. (\A j \in 1 .. Len(w) : data[j] = w[j]) /\ Drop(Len(w)) = Cut(b, p.missing)
    BY <1>2, <1>4, <1>7, <2>1, DataRead
  <2>3. \A j \in {1, 2, 3, 4} : j \in 1 .. Len(w)
    BY <1>4
  <2>4. \A j \in {1, 2, 3, 4} : data[j] = w[j]
    BY <2>2, <2>3
  <2>5. WordAt(1) = BlockType[kind] /\ WordAt(3) = left
    BY <1>4, <2>4 DEF WordAt
  <2>6. /\ blocksize' = WordAt(3) /\ data' = Drop(4)
        /\ pc' = CASE WordAt(1) = BlockType.String -> "String"
                   [] WordAt(1) = BlockType.Float -> "Float"
                   [] WordAt(1) = BlockType.Blank -> "Blank"
                   [] OTHER -> "block"
        /\ UNCHANGED <<width, height, table, row, column, next, poked, got>>
    BY <1>10 DEF ReadBlock, position
  <2>7. pc' = kind
    BY <1>6, <2>5, <2>6
  <2>8. data' = Cut(b, p.missing) /\ blocksize' = left
    BY <1>4, <2>2, <2>5, <2>6
  <2>9. TypeOK'
    <3>1. data' \in Seq(Byte)
      BY <1>2, <1>4, <2>8, CutType
    <3>2. column < width
      BY <1>1 DEF Filled
    <3>. QED
      BY <1>1, <1>5, <1>6, <2>6, <2>7, <2>8, <3>1, <3>2 DEF TypeOK
  <2>10. At' = At
    BY <2>6 DEF At
  <2>11. BeforeBody(p, kind)'
    BY <1>1, <2>6, <2>8, <2>10 DEF BeforeBody, kind, b, Beyond
  <2>12. Filled'
    BY <1>1, <2>6, <2>10 DEF Filled
  <2>13. Remaining'
    <3>1. First(p.division, At' + 1) /\ blocksize' = Rest(p)[At' + 1].left
      BY <1>3, <2>8, <2>10 DEF left
    <3>. QED
      BY <1>6, <2>6, <2>7, <2>11, <3>1 DEF Remaining
  <2>14. Delivered'
    BY <1>1, <1>6, <2>6, <2>7 DEF Delivered
  <2>. QED
    BY <1>1, <1>6, <2>6, <2>7, <2>9, <2>12, <2>13, <2>14 DEF IInv, Resting
<1>. QED
  BY <1>9, <1>10

\* The header of a block that the decoder does not know.
LEMMA ReadUnknownBlock ==
  ASSUME IInv, ReadBlock, At = Count(poked), poked.other # <<>>
  PROVE  IInv'
<1> SUFFICES ASSUME NEW p, p = poked PROVE IInv'
  OBVIOUS
<1>1. /\ pc = "block" /\ data # <<>> /\ Legal(p) /\ TypeOK /\ got = {} /\ next = 1 /\ Filled
      /\ AtBoundary(p) \/ BehindUnknown(p)
  BY DEF ReadBlock, IInv, Delivered, Remaining
<1>2. Len(data) \in Nat /\ data \in Seq(Byte)
  BY <1>1, LenProperties DEF TypeOK
<1>3. CASE Len(data) < 4
  <2>1. ~ Whole
    BY DEF Whole
  <2>2. Throw
    BY <1>3 DEF ReadBlock
  <2>. QED
    BY <1>1, <2>1, <2>2, ThrowHolds
<1>4. CASE ~ (Len(data) < 4)
  <2>1. /\ p.other \in Others /\ p.other \in Seq(Byte) /\ p.missing \in Nat
        /\ Rest(p)[Count(p) + 1].bytes = p.other
    BY <1>1, LegalType
  <2>2. data = Cut(p.other, p.missing)
    BY <1>1, <1>4, <2>1 DEF AtBoundary, BehindUnknown
  <2>3. /\ Len(p.other) \in 4 .. 7
        /\ p.other[1] + 256 * p.other[2] \notin {1, 2, 5}
    BY <2>1, XlParserAssumption
  <2>4. Len(data) <= 7
    <3>1. Len(data) <= Len(p.other)
      BY <2>1, <2>2, CutType
    <3>2. Len(p.other) <= 7 /\ Len(p.other) \in Nat
      <4>1. \A o \in Others : Len(o) \in 4 .. 7
        BY XlParserAssumption
      <4>2. \A k \in 4 .. 7 : k <= 7 /\ k \in Nat
        OBVIOUS
      <4>. QED
        BY <2>1, <4>1, <4>2
    <3>. QED
      BY <1>2, <3>1, <3>2
  <2>5. WordAt(1) \notin {1, 2, 5}
    <3>1. 1 \in 1 .. Len(data) /\ 2 \in 1 .. Len(data)
      BY <1>2, <1>4
    <3>2. data[1] = p.other[1] /\ data[2] = p.other[2]
      BY <2>1, <2>2, <3>1, CutPrefix
    <3>. QED
      BY <2>3, <3>2 DEF WordAt
  <2>6. /\ blocksize' = WordAt(3) /\ data' = Drop(4) /\ pc' = "block"
        /\ UNCHANGED <<width, height, table, row, column, next, poked, got>>
    <3>1. BlockType.String = 2 /\ BlockType.Float = 1 /\ BlockType.Blank = 5
      BY DEF BlockType
    <3>. QED
      BY <1>4, <2>5, <3>1 DEF ReadBlock, position
  <2>7. data' \in Seq(Byte) /\ Len(data') < 4
    <3>1. \A j \in 5 .. Len(data) : data[j] \in Byte
      BY <1>2
    <3>2. /\ SubSeq(data, 5, Len(data)) \in Seq(Byte)
          /\ Len(SubSeq(data, 5, Len(data))) = IF 5 <= Len(data) THEN Len(data) - 5 + 1 ELSE 0
      BY <1>2, <3>1, SubSeqProperties
    <3>3. data' = SubSeq(data, 5, Len(data))
      BY <2>6 DEF Drop
    <3>. QED
      BY <1>2, <2>4, <3>2, <3>3
  <2>8. /\ blocksize' \in Int /\ -255 <= blocksize' /\ blocksize' < 65536
    <3>1. data[3] \in Nat /\ data[3] <= 255 /\ data[4] \in Nat /\ data[4] <= 255
      <4>1. 3 \in 1 .. Len(data) /\ 4 \in 1 .. Len(data)
        BY <1>2, <1>4
      <4>2. data[3] \in Byte /\ data[4] \in Byte
        BY <1>2, <4>1, ElementOfSeq
      <4>. QED
        BY <4>2, ByteType
    <3>. QED
      BY <2>6, <3>1 DEF WordAt
  <2>9. TypeOK'
    BY <1>1, <2>6, <2>7, <2>8 DEF TypeOK
  <2>10. At' = At
    BY <2>6 DEF At
  <2>11. Filled' /\ BehindUnknown(p)'
    BY <1>1, <2>6, <2>7, <2>10 DEF Filled, BehindUnknown
  <2>. QED
    BY <1>1, <2>6, <2>9, <2>11 DEF IInv, Resting, Remaining, Delivered
<1>. QED
  BY <1>3, <1>4

LEMMA ReadBlockHolds ==
  ASSUME IInv, ReadBlock
  PROVE  IInv'
<1>1. /\ pc = "block" /\ data # <<>> /\ Legal(poked) /\ Filled
      /\ (AtBoundary(poked) \/ BehindUnknown(poked)) /\ At \in Nat
  BY PlaceType DEF ReadBlock, IInv, Remaining
<1>2. /\ Count(poked) \in Nat /\ At <= Count(poked)
      /\ poked.missing \in Nat
      /\ Rest(poked)[Count(poked) + 1].bytes = poked.other
  BY <1>1, LegalType DEF Filled
<1>3. CASE AtBoundary(poked) /\ At < Count(poked)
  BY <1>3, ReadKnownBlock
<1>4. CASE At = Count(poked)
  <2>1. poked.other # <<>>
    <3>1. Cut(<<>>, poked.missing) = <<>>
      BY <1>2, CutOfNothing
    <3>. QED
      BY <1>1, <1>2, <1>4, <3>1 DEF AtBoundary, BehindUnknown
  <2>. QED
    BY <1>4, <2>1, ReadUnknownBlock
<1>. QED
  BY <1>1, <1>2, <1>3, <1>4, PlaceType DEF BehindUnknown, IInv

\* Moved on within the cells that were sent, the place stays in the table, unless more
\* were sent than it has.
LEMMA Moves ==
  ASSUME TypeOK, Legal(poked), Filled, NEW k \in Nat, At + k <= Count(poked),
         Advance(k), UNCHANGED <<width, height>>
  PROVE  /\ At' = At + k /\ column' < width'
         /\ row' \in Nat /\ column' \in 0 .. width'
         /\ poked.surplus = 0 => row' <= height'
<1>1. PICK w \in Nat, h \in Nat : /\ w = width /\ 1 <= w /\ h = height
                                 /\ w = poked.size[1] /\ h = poked.size[2]
  BY SizeType DEF Filled
<1>2. row \in Nat /\ column \in Nat /\ w > 0 /\ width' = w
  BY <1>1 DEF TypeOK
<1>3. /\ row' \in Nat /\ column' \in Nat /\ column' < w
      /\ At' = At + k
  BY <1>1, <1>2, AdvanceIs
<1>4. ASSUME poked.surplus = 0
      PROVE  row' <= h
  <2>1. Count(poked) <= w * h
    BY <1>1, <1>4, LegalType
  <2>2. At' = row' * w + column'
    BY <1>2 DEF At
  <2>3. At' \in Int /\ Count(poked) \in Int /\ w * h \in Int
    BY <1>3, <2>2, CountType
  <2>4. At' <= Count(poked)
    BY <1>3
  <2>5. row' * w + column' <= w * h
    BY <2>1, <2>2, <2>3, <2>4
  <2>. QED
    BY <1>1, <1>3, <2>5, RowBound
<1>. QED
  BY <1>1, <1>3, <1>4

\* A place that is not beneath the table is in it.
LEMMA AtInTable ==
  ASSUME TypeOK, Filled, ~ Beneath
  PROVE  At \in 0 .. width * height - 1
<1>1. PICK w \in Nat, h \in Nat, r \in Nat, c \in Nat :
        w = width /\ h = height /\ r = row /\ c = column
  BY WordsAre DEF TypeOK
<1>2. r + 1 <= h /\ c < w
  BY <1>1 DEF Beneath, Filled
<1>3. (r + 1) * w <= h * w
  BY <1>2
<1>4. (r + 1) * w = r * w + w /\ h * w = w * h
  OBVIOUS
<1>5. r * w \in Nat /\ w * h \in Nat
  BY RowsType
<1> DEFINE a == r * w
           b == w * h
<1>6. a + c \in 0 .. b - 1
  <2>1. a \in Nat /\ b \in Nat /\ a + w <= b
    BY <1>3, <1>4, <1>5
  <2> HIDE DEF a, b
  <2>. QED
    BY <1>2, <2>1
<1>. QED
  BY <1>1, <1>6 DEF At

\* Only cells that are sent beyond the size of the table are beneath it.
LEMMA UndefineHolds ==
  ASSUME IInv, pc \in {"String", "Float"}, Beneath, At < Count(poked), Undefine
  PROVE  IInv'
<1>1. Legal(poked) /\ TypeOK /\ Filled /\ got = {} /\ next = 1
  BY DEF IInv, Delivered
<1>2. poked.surplus # 0
  <2> SUFFICES ASSUME poked.surplus = 0 PROVE FALSE
    OBVIOUS
  <2>1. PICK w \in Nat, h \in Nat, r \in Nat, c \in Nat :
          /\ w = width /\ h = height /\ r = row /\ c = column
          /\ w = poked.size[1] /\ h = poked.size[2]
    BY <1>1, WordsAre DEF TypeOK, Filled
  <2>2. r >= h
    BY <2>1 DEF Beneath
  <2>3. h * w <= r * w /\ h * w = w * h
    BY <2>2
  <2> DEFINE a == r * w
             b == w * h
  <2>4. Count(poked) <= b /\ Count(poked) \in Nat
    BY <1>1, <2>1, LegalType
  <2>5. a \in Nat /\ b \in Nat /\ b <= a /\ At = a + c
    BY <2>1, <2>3, RowsType DEF At
  <2> HIDE DEF a, b
  <2>. QED
    BY <2>4, <2>5
<1>3. /\ pc' = "undefined"
      /\ UNCHANGED <<data, width, height, table, row, column, blocksize, next, poked, got>>
  BY DEF Undefine, position
<1>4. TypeOK'
  BY <1>1, <1>2, <1>3 DEF TypeOK
<1>. QED
  BY <1>1, <1>3, <1>4 DEF IInv, Resting, Remaining, Delivered

\* A cell that is not blank has been read.
LEMMA CellHolds ==
  ASSUME IInv, pc \in {"String", "Float"}, NEW i, i = At + 1, BeforeBody(poked, pc),
         blocksize = Rest(poked)[i].left,
         NEW n, n = Len(Body(poked.cells[i], poked.division[i])), n <= Len(data),
         data' = Drop(n), blocksize' = blocksize - n, Advance(1),
         table' \in [0 .. width * height - 1 -> XlCell],
         \A j \in 0 .. width * height - 1 :
           table'[j] = IF j = At THEN Stored(poked.cells[i]) ELSE table[j],
         UNCHANGED <<pc, width, height, next, poked, got>>
  PROVE  IInv'
<1> SUFFICES ASSUME NEW p, p = poked PROVE IInv'
  OBVIOUS
<1>1. Legal(p) /\ TypeOK /\ Filled /\ got = {} /\ next = 1 /\ At \in Nat
  BY PlaceType DEF IInv, Delivered
<1>2. /\ Count(p) \in Nat /\ p.missing \in Nat /\ At < Count(p) /\ p.cells[i].kind = pc
      /\ i \in 1 .. Count(p)
  BY <1>1, CountType DEF BeforeBody
<1> DEFINE body == Body(p.cells[i], p.division[i])
           b == Rest(p)[Following(p.cells, p.division, i)].bytes
<1>3. data = Cut(body \o b, p.missing)
  BY DEF BeforeBody
<1>4. body \in Seq(Byte) /\ n \in Nat
  BY <1>1, <1>2, PieceIs
<1>5. b \in Seq(Byte)
  BY <1>1, <1>2, FollowingType, RestType
<1>6. data' = Cut(b, p.missing)
  <2>1. n = Len(body)
    OBVIOUS
  <2> HIDE DEF body, b
  <2>. QED
    BY <1>2, <1>3, <1>4, <1>5, <2>1, DataRead
<1>7. /\ Following(p.cells, p.division, i) = i + 1
      /\ \/ /\ Rest(p)[i].left - n = 0
            /\ Boundary(p, i + 1)
         \/ /\ Rest(p)[i].left - n = Rest(p)[i + 1].left
            /\ i + 1 \in 1 .. Count(p)
            /\ p.cells[i + 1].kind = p.cells[i].kind
            /\ Rest(p)[i + 1].bytes = Beyond(p, i + 1)
  BY <1>1, <1>2, NextCell
<1>8. data' = Cut(Rest(p)[i + 1].bytes, p.missing)
  BY <1>6, <1>7
<1> HIDE DEF body, b
<1>9. At + 1 <= Count(p)
  BY <1>1, <1>2
<1>10. /\ At' = At + 1 /\ column' < width'
       /\ row' \in Nat /\ column' \in 0 .. width'
       /\ p.surplus = 0 => row' <= height'
  BY <1>1, <1>9, Moves
<1>11. At' + 1 = i + 1 /\ i + 1 \in Nat
  BY <1>1, <1>10
<1>12. \/ blocksize' = 0 /\ AtBoundary(p)'
       \/ BeforeBody(p, pc)' /\ blocksize' = Rest(p)[At' + 1].left
  <2>1. CASE Rest(p)[i].left - n = 0 /\ Boundary(p, i + 1)
    BY <1>8, <1>11, <2>1 DEF AtBoundary
  <2>2. CASE /\ Rest(p)[i].left - n = Rest(p)[i + 1].left
             /\ i + 1 \in 1 .. Count(p)
             /\ p.cells[i + 1].kind = p.cells[i].kind
             /\ Rest(p)[i + 1].bytes = Beyond(p, i + 1)
    <3>1. At' < Count(p)
      BY <1>1, <1>2, <1>10, <2>2
    <3>2. BeforeBody(p, pc)'
      BY <1>2, <1>8, <1>11, <2>2, <3>1 DEF BeforeBody, Beyond
    <3>. QED
      BY <1>11, <2>2, <3>2
  <2>. QED
    BY <1>7, <2>1, <2>2
<1>13. TypeOK'
  <2>1. data' \in Seq(Byte)
    BY <1>2, <1>5, <1>6, CutType
  <2>2. /\ blocksize' \in Int /\ -255 <= blocksize' /\ blocksize' < 65536
    <3>1. /\ Rest(p)[i].left \in Nat /\ Rest(p)[i].left < 65536
      BY <1>1, <1>2, RestType
    <3>2. CASE Rest(p)[i].left - n = 0
      BY <3>2
    <3>3. CASE Rest(p)[i].left - n # 0
      <4>1. Rest(p)[i].left - n = Rest(p)[i + 1].left /\ i + 1 \in 1 .. Count(p) + 1
        BY <1>2, <1>7, <3>3
      <4>2. Rest(p)[i + 1].left \in Nat /\ Rest(p)[i + 1].left < 65536
        BY <1>1, <4>1, RestType
      <4>. QED
        BY <4>1, <4>2
    <3>. QED
      BY <3>2, <3>3
  <2>. QED
    <3>1. /\ column' < width' /\ row' \in Nat /\ column' \in 0 .. width'
          /\ poked'.surplus = 0 => row' <= height' /\ pc' # "undefined"
      BY <1>10
    <3>. QED
      BY <1>1, <2>1, <2>2, <3>1 DEF TypeOK
<1>14. Filled'
  <2>1. \A j \in 0 .. width * height - 1 :
          table'[j] = IF j < At + 1 THEN Stored(p.cells[j + 1]) ELSE Empty
    <3> SUFFICES ASSUME NEW j \in 0 .. width * height - 1
                 PROVE  table'[j] = IF j < At + 1 THEN Stored(p.cells[j + 1]) ELSE Empty
      OBVIOUS
    <3>1. CASE j = At
      BY <1>1, <3>1
    <3>2. CASE j # At
      <4>1. table'[j] = table[j]
        BY <3>2
      <4>2. table[j] = IF j < At THEN Stored(p.cells[j + 1]) ELSE Empty
        BY <1>1 DEF Filled
      <4>3. width * height - 1 \in Int
        BY <1>1, WordsAre DEF TypeOK
      <4>4. j < At <=> j < At + 1
        BY <1>1, <3>2, <4>3
      <4>. QED
        BY <4>1, <4>2, <4>4
    <3>. QED
      BY <3>1, <3>2
  <2>. QED
    BY <1>1, <1>9, <1>10, <2>1 DEF Filled
<1>15. Remaining'
  BY <1>12 DEF Remaining
<1>. QED
  BY <1>1, <1>13, <1>14, <1>15 DEF IInv, Resting, Delivered

\* What is left at a cell that is not blank.
LEMMA CellIsNext ==
  ASSUME IInv, pc \in {"String", "Float"}, blocksize > 0,
         NEW i, i = At + 1, NEW body, body = Body(poked.cells[i], poked.division[i])
  PROVE  /\ Legal(poked) /\ TypeOK /\ Filled /\ At < Count(poked)
         /\ BeforeBody(poked, pc) /\ blocksize = Rest(poked)[i].left
         /\ i \in 1 .. Count(poked) /\ poked.cells[i] \in Cells /\ poked.cells[i].kind = pc
         /\ body \in Seq(Byte) /\ Len(body) \in Nat
         /\ Len(data) < Len(body) => ~ Whole
         /\ Len(body) <= Len(data) => \A j \in 1 .. Len(body) : data[j] = body[j]
         /\ data # <<>> => data[1] = body[1]
<1>1. /\ Legal(poked) /\ TypeOK /\ Filled /\ At \in Nat
      /\ BeforeBody(poked, pc) /\ blocksize = Rest(poked)[i].left
  BY PlaceType DEF IInv, Remaining
<1>2. /\ At < Count(poked) /\ poked.cells[i].kind = pc
      /\ i \in 1 .. Count(poked) /\ poked.missing \in Nat
      /\ poked.cells \in [1 .. Count(poked) -> Cells]
  BY <1>1, CountType DEF BeforeBody
<1> DEFINE b == Rest(poked)[Following(poked.cells, poked.division, i)].bytes
<1>3. data = Cut(body \o b, poked.missing)
  BY <1>1 DEF BeforeBody
<1>4. body \in Seq(Byte) /\ Len(body) \in Nat \ {0}
  BY <1>1, <1>2, PieceIs
<1>5. b \in Seq(Byte)
  BY <1>1, <1>2, FollowingType, RestType
<1> HIDE DEF b
<1>6. Len(data) < Len(body) => ~ Whole
  BY <1>2, <1>3, <1>4, <1>5, NotWhole DEF Whole
<1>7. Len(body) <= Len(data) => \A j \in 1 .. Len(body) : data[j] = body[j]
  BY <1>2, <1>3, <1>4, <1>5, DataRead
<1>8. data # <<>> => data[1] = body[1]
  <2> SUFFICES ASSUME data # <<>> PROVE data[1] = body[1]
    OBVIOUS
  <2>1. Len(data) \in Nat \ {0}
    BY <1>1, EmptySeq DEF TypeOK
  <2>2. /\ body \o b \in Seq(Byte)
        /\ \A j \in 1 .. Len(body) + Len(b) :
             (body \o b)[j] = IF j <= Len(body) THEN body[j] ELSE b[j - Len(body)]
    BY <1>4, <1>5, ConcatProperties
  <2>3. Len(b) \in Nat
    BY <1>5, LenProperties
  <2>4. (body \o b)[1] = body[1]
    BY <1>4, <2>2, <2>3
  <2>5. 1 \in 1 .. Len(Cut(body \o b, poked.missing))
    BY <1>3, <2>1
  <2>6. Cut(body \o b, poked.missing)[1] = (body \o b)[1]
    BY <1>2, <2>2, <2>5, CutPrefix
  <2>. QED
    BY <1>3, <2>4, <2>6
<1>. QED
  BY <1>1, <1>2, <1>4, <1>6, <1>7, <1>8

LEMMA ReadStringHolds ==
  ASSUME IInv, ReadString
  PROVE  IInv'
<1> SUFFICES ASSUME NEW p, p = poked, NEW i, i = At + 1,
                    NEW c, c = p.cells[i], NEW body, body = Body(c, p.division[i])
             PROVE  IInv'
  OBVIOUS
<1>1. pc = "String" /\ blocksize > 0
  BY DEF ReadString
<1>2. /\ Legal(p) /\ TypeOK /\ Filled /\ At < Count(p) /\ At \in Nat
      /\ BeforeBody(p, pc) /\ blocksize = Rest(p)[i].left
      /\ c \in Cells /\ c.kind = "String"
      /\ body \in Seq(Byte) /\ Len(body) \in Nat
      /\ Len(data) < Len(body) => ~ Whole
      /\ Len(body) <= Len(data) => \A j \in 1 .. Len(body) : data[j] = body[j]
      /\ data # <<>> => data[1] = body[1]
  BY <1>1, CellIsNext, PlaceType
<1>3. /\ c.value \in Seq(Byte) /\ Len(c.value) \in Byte
      /\ c = [kind |-> "String", value |-> c.value]
  BY <1>2, CellType DEF Cells
<1> DEFINE v == c.value
           l == Len(v)
<1>4. l \in Nat
  BY <1>3, LenProperties
<1>5. /\ Len(body) = l + 1 /\ body[1] = l
      /\ \A j \in 1 .. l : body[j + 1] = v[j]
  <2>1. body = <<l>> \o v
    BY <1>2 DEF Body
  <2>2. <<l>> \in Seq(Byte) /\ Len(<<l>>) = 1 /\ <<l>>[1] = l
    BY <1>3
  <2> DEFINE a == <<l>>
  <2> HIDE DEF a
  <2>3. a \in Seq(Byte) /\ Len(a) = 1 /\ a[1] = l /\ body = a \o v
    BY <2>1, <2>2 DEF a
  <2> HIDE DEF v, l
  <2>4. /\ Len(body) = Len(a) + Len(v)
        /\ \A j \in 1 .. Len(a) + Len(v) :
             body[j] = IF j <= Len(a) THEN a[j] ELSE v[j - Len(a)]
    <3>1. v \in Seq(Byte)
      BY <1>3 DEF v
    <3>. QED
      BY <2>3, <3>1, ConcatProperties
  <2>. QED
    BY <1>4, <2>3, <2>4 DEF l
<1>6. Len(data) \in Nat /\ (data = <<>> => Len(data) = 0)
  BY <1>2, LenProperties, EmptySeq DEF TypeOK
<1> HIDE DEF v, l
<1>7. CASE data = <<>> \/ Len(data) < data[1] + 1
  <2>1. Len(data) < Len(body)
    BY <1>2, <1>4, <1>5, <1>6, <1>7
  <2>2. Throw
    BY <1>7 DEF ReadString
  <2>. QED
    BY <1>1, <1>2, <2>1, <2>2, ThrowHolds
<1>9. CASE /\ ~ (data = <<>> \/ Len(data) < data[1] + 1)
           /\ data[1] # 0 /\ Beneath
  <2>1. Undefine
    BY <1>9 DEF ReadString
  <2>. QED
    BY <1>1, <1>2, <1>9, <2>1, UndefineHolds
<1>8. CASE /\ ~ (data = <<>> \/ Len(data) < data[1] + 1)
           /\ ~ (data[1] # 0 /\ Beneath)
  <2>1. /\ data[1] = l /\ Len(body) <= Len(data)
        /\ \A j \in 1 .. Len(body) : data[j] = body[j]
    BY <1>2, <1>4, <1>5, <1>6, <1>8
  <2>2. /\ table' = IF l = 0 THEN table
                    ELSE [table EXCEPT ![At] =
                            [kind |-> "String", value |-> SubSeq(data, 2, l + 1)]]
        /\ data' = Drop(l + 1)
        /\ blocksize' = blocksize - (l + 1)
        /\ Advance(1)
        /\ UNCHANGED <<pc, width, height, next, poked, got>>
    BY <1>8, <2>1 DEF ReadString, Used, At
  <2>3. SubSeq(data, 2, l + 1) = v
    <3>1. \A j \in 1 .. l : data[j + 1] = v[j]
      BY <1>4, <1>5, <2>1
    <3> DEFINE s == SubSeq(data, 2, l + 1)
    <3>2. \A j \in 2 .. l + 1 : data[j] \in Byte
      BY <1>2, <1>4, <1>5, <1>6, <2>1 DEF TypeOK
    <3>3. /\ s \in Seq(Byte)
          /\ Len(s) = IF 2 <= l + 1 THEN l + 1 - 2 + 1 ELSE 0
          /\ \A j \in 1 .. l + 1 - 2 + 1 : s[j] = data[2 + j - 1]
      BY <1>4, <3>2, SubSeqProperties
    <3> HIDE DEF s
    <3>4. Len(s) = l /\ \A j \in 1 .. l : s[j] = v[j]
      BY <1>4, <3>1, <3>3
    <3>5. v \in Seq(Byte) /\ Len(v) = l
      BY <1>3 DEF v, l
    <3>6. s = v
      BY <3>3, <3>4, <3>5, SeqEqual
    <3>. QED
      BY <3>6 DEF s
  <2>4. Stored(c) = IF l = 0 THEN Empty ELSE c
    <3>1. l = 0 <=> c.value = <<>>
      BY <1>3, EmptySeq DEF l, v
    <3>. QED
      BY <1>2, <3>1 DEF Stored
  <2>5. l # 0 => At \in 0 .. width * height - 1
    BY <1>2, <1>8, <2>1, AtInTable
  <2>6. \A j \in 0 .. width * height - 1 : j = At => table[j] = Empty
    <3>1. ~ (At < At)
      BY <1>2
    <3>. QED
      BY <1>2, <3>1 DEF Filled
  <2>7. Stored(c) \in XlCell
    BY <1>2 DEF XlCell
  <2>8. table \in [0 .. width * height - 1 -> XlCell]
    BY <1>2 DEF TypeOK
  <2>9. PICK n : /\ pc \in {"String", "Float"} /\ BeforeBody(poked, pc)
                  /\ blocksize = Rest(poked)[i].left
                  /\ n = Len(Body(poked.cells[i], poked.division[i])) /\ n <= Len(data)
                  /\ data' = Drop(n) /\ blocksize' = blocksize - n /\ Advance(1)
                  /\ UNCHANGED <<pc, width, height, next, poked, got>>
    BY <1>1, <1>2, <1>5, <2>1, <2>2
  <2>10. CASE l = 0
    <3>1. table' = table
      BY <2>2, <2>10
    <3>2. \A j \in 0 .. width * height - 1 :
            table'[j] = IF j = At THEN Stored(poked.cells[i]) ELSE table[j]
      BY <2>4, <2>6, <2>10, <3>1
    <3>. QED
      BY <2>9, <2>8, <3>1, <3>2, CellHolds
  <2>11. CASE l # 0
    <3>1. table' = [table EXCEPT ![At] = Stored(c)]
      BY <1>3, <2>2, <2>3, <2>4, <2>11 DEF v
    <3>0. At \in 0 .. width * height - 1
      BY <2>5, <2>11
    <3>2. table' \in [0 .. width * height - 1 -> XlCell]
      BY <2>7, <2>8, <3>0, <3>1
    <3>3. \A j \in 0 .. width * height - 1 :
            table'[j] = IF j = At THEN Stored(poked.cells[i]) ELSE table[j]
      BY <2>8, <3>1
    <3>. QED
      BY <2>9, <3>2, <3>3, CellHolds
  <2>. QED
    BY <2>10, <2>11
<1>. QED
  BY <1>7, <1>8, <1>9

LEMMA ReadFloatHolds ==
  ASSUME IInv, ReadFloat
  PROVE  IInv'
<1> SUFFICES ASSUME NEW p, p = poked, NEW i, i = At + 1,
                    NEW c, c = p.cells[i], NEW body, body = Body(c, p.division[i])
             PROVE  IInv'
  OBVIOUS
<1>1. pc = "Float" /\ blocksize > 0
  BY DEF ReadFloat
<1>2. /\ Legal(p) /\ TypeOK /\ Filled /\ At < Count(p) /\ At \in Nat
      /\ BeforeBody(p, pc) /\ blocksize = Rest(p)[i].left
      /\ c \in Cells /\ c.kind = "Float"
      /\ Len(data) < Len(body) => ~ Whole
      /\ Len(body) <= Len(data) => \A j \in 1 .. Len(body) : data[j] = body[j]
  BY <1>1, CellIsNext, PlaceType
<1>3. /\ c.value \in Seq(Byte) /\ Len(c.value) = 8
      /\ c = [kind |-> "Float", value |-> c.value]
  BY <1>2, CellType DEF Cells
<1> DEFINE v == c.value
<1>4. v \in Seq(Byte) /\ Len(v) = 8 /\ body = v
  <2>1. body = c.value
    BY <1>2 DEF Body
  <2>. QED
    BY <1>3, <2>1
<1>5. Len(data) \in Nat
  BY <1>2, LenProperties DEF TypeOK
<1> HIDE DEF v
<1>6. CASE Len(data) < 8
  <2>1. ~ Whole
    BY <1>2, <1>4, <1>6
  <2>2. Throw
    BY <1>6 DEF ReadFloat
  <2>. QED
    BY <1>1, <2>1, <2>2, ThrowHolds
<1>8. CASE ~ (Len(data) < 8) /\ Beneath
  <2>1. Undefine
    BY <1>8 DEF ReadFloat
  <2>. QED
    BY <1>1, <1>2, <1>8, <2>1, UndefineHolds
<1>7. CASE ~ (Len(data) < 8) /\ ~ Beneath
  <2>1. Len(body) = 8 /\ Len(body) <= Len(data) /\ body = v
    <3>1. Len(body) = 8 /\ body = v
      BY <1>4, Zenon
    <3>2. 8 <= Len(data)
      BY <1>5, <1>7
    <3>. QED
      BY <3>1, <3>2
  <2>2. \A j \in 1 .. Len(body) : data[j] = body[j]
    BY <1>2, <2>1
  <2>3. SubSeq(data, 1, 8) = v
    <3> DEFINE s == SubSeq(data, 1, 8)
    <3>0. \A j \in 1 .. 8 : v[j] \in Byte
      BY <1>4, ElementOfSeq
    <3>1. \A j \in 1 .. 8 : data[j] = v[j] /\ data[j] \in Byte
      BY <2>1, <2>2, <3>0
    <3>2. s \in Seq(Byte) /\ Len(s) = 8 /\ \A j \in 1 .. 8 : s[j] = data[j]
      BY <3>1, SubSeqProperties
    <3> HIDE DEF s
    <3>3. s = v
      BY <1>4, <3>1, <3>2, SeqEqual
    <3>. QED
      BY <3>3 DEF s
  <2>4. /\ table' = [table EXCEPT ![At] = [kind |-> "Float", value |-> SubSeq(data, 1, 8)]]
        /\ data' = Drop(8) /\ blocksize' = blocksize - 8 /\ Advance(1)
        /\ UNCHANGED <<pc, width, height, next, poked, got>>
    BY <1>7 DEF ReadFloat, At
  <2>5. At \in 0 .. width * height - 1
    BY <1>2, <1>7, AtInTable
  <2>6. Stored(c) = c /\ Stored(c) \in XlCell
    BY <1>2 DEF Stored, XlCell
  <2>7. table' = [table EXCEPT ![At] = Stored(c)]
    <3>1. table' = [table EXCEPT ![At] = [kind |-> "Float", value |-> v]]
      BY <2>3, <2>4
    <3>. QED
      BY <1>3, <2>6, <3>1 DEF v
  <2>8. table \in [0 .. width * height - 1 -> XlCell]
    BY <1>2 DEF TypeOK
  <2>9. table' \in [0 .. width * height - 1 -> XlCell]
    BY <2>6, <2>7, <2>8
  <2>10. \A j \in 0 .. width * height - 1 :
           table'[j] = IF j = At THEN Stored(poked.cells[i]) ELSE table[j]
    BY <2>7, <2>8
  <2>11. PICK n : /\ pc \in {"String", "Float"} /\ BeforeBody(poked, pc)
                  /\ blocksize = Rest(poked)[i].left
                  /\ n = Len(Body(poked.cells[i], poked.division[i])) /\ n <= Len(data)
                  /\ data' = Drop(n) /\ blocksize' = blocksize - n /\ Advance(1)
                  /\ UNCHANGED <<pc, width, height, next, poked, got>>
    BY <1>1, <1>2, <2>1, <2>4
  <2>. QED
    BY <2>9, <2>10, <2>11, CellHolds
<1>. QED
  BY <1>6, <1>7, <1>8

LEMMA ReadBlankHolds ==
  ASSUME IInv, ReadBlank
  PROVE  IInv'
<1> SUFFICES ASSUME NEW p, p = poked, NEW i, i = At + 1,
                    NEW k, k = p.division[i]
             PROVE  IInv'
  OBVIOUS
<1>1. pc = "Blank"
  BY DEF ReadBlank
<1>2. /\ Legal(p) /\ TypeOK /\ Filled /\ At \in Nat /\ got = {} /\ next = 1
      /\ BeforeBody(p, "Blank")
  BY <1>1, PlaceType DEF IInv, Remaining, Delivered
<1>3. /\ At < Count(p) /\ p.cells[i].kind = "Blank"
      /\ i \in 1 .. Count(p) /\ p.missing \in Nat /\ Count(p) \in Nat
  BY <1>2, CountType DEF BeforeBody
<1>4. /\ k \in Nat /\ k < 65536
      /\ Following(p.cells, p.division, i) = i + k
      /\ i + k \in 1 .. Count(p) + 1
      /\ Boundary(p, i + k)
      /\ \A j \in i .. i + k - 1 : p.cells[j].kind = "Blank"
  BY <1>2, <1>3, NextBlock
<1> DEFINE body == Word(k)
           b == Rest(p)[i + k].bytes
<1>5. body \in Seq(Byte) /\ Len(body) = 2 /\ body[1] + 256 * body[2] = k
  BY <1>4, WordIsRead
<1>6. b \in Seq(Byte)
  BY <1>2, <1>4, RestType
<1>7. data = Cut(body \o b, p.missing)
  <2>1. Body(p.cells[i], k) = Word(k)
    BY <1>3 DEF Body
  <2>. QED
    BY <1>2, <1>4, <2>1 DEF BeforeBody
<1> HIDE DEF body, b
<1>8. Len(data) \in Nat
  BY <1>2, LenProperties DEF TypeOK
<1>9. CASE Len(data) < 2
  <2>1. p.missing # 0
    BY <1>3, <1>5, <1>6, <1>7, <1>9, NotWhole
  <2>2. ~ Whole
    BY <2>1 DEF Whole
  <2>3. Throw
    BY <1>9 DEF ReadBlank
  <2>. QED
    BY <1>1, <2>2, <2>3, ThrowHolds
<1>10. CASE ~ (Len(data) < 2)
  <2>1. Len(body) <= Len(data)
    BY <1>5, <1>8, <1>10
  <2>2. (\A j \in 1 .. Len(body) : data[j] = body[j]) /\ Drop(Len(body)) = Cut(b, p.missing)
    BY <1>3, <1>5, <1>6, <1>7, <2>1, DataRead
  <2>3. WordAt(1) = k
    <3>1. 1 \in 1 .. Len(body) /\ 2 \in 1 .. Len(body)
      BY <1>5
    <3>2. data[1] = body[1] /\ data[2] = body[2]
      BY <2>2, <3>1
    <3>. QED
      BY <1>5, <3>2 DEF WordAt
  <2>4. /\ Advance(k) /\ data' = Cut(b, p.missing) /\ pc' = "block"
        /\ UNCHANGED <<width, height, table, blocksize, next, poked, got>>
    BY <1>5, <1>10, <2>2, <2>3 DEF ReadBlank
  <2>5. At + k <= Count(p)
    BY <1>2, <1>3, <1>4
  <2>6. /\ At' = At + k /\ column' < width'
        /\ row' \in Nat /\ column' \in 0 .. width'
        /\ p.surplus = 0 => row' <= height'
    BY <1>2, <1>4, <2>4, <2>5, Moves
  <2>7. At' + 1 = i + k
    BY <1>2, <1>4, <2>6
  <2>8. TypeOK'
    <3>1. data' \in Seq(Byte)
      BY <1>3, <1>6, <2>4, CutType
    <3>. QED
      BY <1>2, <2>4, <2>6, <3>1 DEF TypeOK
  <2>9. Filled'
    <3>1. ASSUME NEW j \in 0 .. width * height - 1
          PROVE  table[j] = IF j < At + k THEN Stored(p.cells[j + 1]) ELSE Empty
      <4>1. table[j] = IF j < At THEN Stored(p.cells[j + 1]) ELSE Empty
        BY <1>2 DEF Filled
      <4>2. width * height - 1 \in Int
        BY <1>2, WordsAre DEF TypeOK
      <4>3. j \in Nat
        BY <4>2
      <4>4. CASE j < At
        BY <1>2, <1>4, <4>1, <4>3, <4>4
      <4>5. CASE ~ (j < At) /\ j < At + k
        <5>1. j + 1 \in i .. i + k - 1
          BY <1>2, <1>4, <4>3, <4>5
        <5>2. p.cells[j + 1].kind = "Blank"
          BY <1>4, <5>1
        <5>3. Stored(p.cells[j + 1]) = Empty
          BY <5>2 DEF Stored
        <5>. QED
          BY <4>1, <4>5, <5>3
      <4>6. CASE ~ (j < At) /\ ~ (j < At + k)
        BY <4>1, <4>6
      <4>. QED
        BY <4>4, <4>5, <4>6
    <3>. QED
      BY <1>2, <2>4, <2>5, <2>6, <3>1 DEF Filled
  <2>10. AtBoundary(p)'
    BY <1>4, <2>4, <2>7 DEF AtBoundary, b
  <2>11. Remaining' /\ Delivered'
    BY <1>2, <2>4, <2>10 DEF Remaining, Delivered
  <2>. QED
    BY <1>2, <2>4, <2>8, <2>9, <2>11 DEF IInv, Resting
<1>. QED
  BY <1>9, <1>10

LEMMA StepHolds == IInv /\ [Next]_vars => IInv'
<1> SUFFICES ASSUME IInv, [Next]_vars PROVE IInv'
  OBVIOUS
<1>1. ASSUME NEW topic \in Topics, NEW size \in Sizes, NEW other \in Endings,
             NEW surplus \in Surplus, NEW missing \in Missing,
             Poke(topic, size, other, surplus, missing)
      PROVE  IInv'
  BY <1>1, PokeHolds
<1>2. CASE ReadTable
  BY <1>2, ReadTableHolds
<1>3. CASE ReadBlock
  BY <1>3, ReadBlockHolds
<1>4. CASE ReadString
  BY <1>4, ReadStringHolds
<1>5. CASE ReadFloat
  BY <1>5, ReadFloatHolds
<1>6. CASE ReadBlank
  BY <1>6, ReadBlankHolds
<1>7. CASE EndBlock
  BY <1>7, EndBlockHolds
<1>8. CASE EndTable
  BY <1>8, EndTableHolds
<1>9. CASE Deliver
  BY <1>9, DeliverHolds
<1>10. CASE EndDeliver
  BY <1>10, EndDeliverHolds
<1>11. CASE Return
  BY <1>11, ReturnHolds
<1>12. CASE UNCHANGED vars \/ Undefined
  <2>1. UNCHANGED <<pc, data, width, height, table, row, column, blocksize, next, poked, got>>
    BY <1>12 DEF vars, position, Undefined
  <2>2. At' = At /\ Whole' = Whole
    BY <2>1 DEF At, Whole
  <2>3. TypeOK' /\ (pc # "idle" => Legal(poked))'
    BY <2>1 DEF IInv, TypeOK
  <2>4. Remaining'
    BY <2>1, <2>2 DEF IInv, Remaining, AtBoundary, BeforeBody, BehindUnknown
  <2>5. (pc \in {"block", "String", "Float", "Blank", "deliver"} \/ got # {} => Filled)'
    BY <2>1, <2>2 DEF IInv, Filled
  <2>6. Delivered'
    BY <2>1, <2>2 DEF IInv, Delivered, AcceptsTopic
  <2>. QED
    BY <2>1, <2>2, <2>3, <2>4, <2>5, <2>6 DEF IInv, Resting
<1>. QED
  BY <1>1, <1>2, <1>3, <1>4, <1>5, <1>6, <1>7, <1>8, <1>9, <1>10, <1>11, <1>12 DEF Next

----------------------------------------------------------------------------
(* The theorems. *)

LEMMA Inductive == Spec => []IInv
<1>1. IInv /\ [Next]_vars => IInv'
  BY StepHolds
<1>. QED
  BY <1>1, InitHolds, PTL DEF Spec

\* Types: for every table, every way to divide it into blocks and every place where
\* the bytes may end, parse writes only to cells of the table, unless the poke has more
\* cells than the size in its header.
THEOREM TypeCorrect == Spec => []TypeOK
<1>1. IInv => TypeOK
  BY DEF IInv
<1>. QED
  BY <1>1, Inductive, PTL

\* parse and parseIncomingData: what a parser is given is what QUIK sent, and a
\* whole poke reaches every parser of its topic that no all-deals parser is before.
THEOREM DeliversTableHolds == Spec => []DeliversTable
<1>1. IInv => DeliversTable
  <2> SUFFICES ASSUME IInv PROVE DeliversTable
    OBVIOUS
  <2>1. ASSUME got # {}, NEW k \in DOMAIN table
        PROVE  \/ k + 1 \in DOMAIN poked.cells /\ table[k] = Stored(poked.cells[k + 1])
               \/ table[k] = Empty /\ ~ Whole
    <3>1. pc # "idle" /\ Filled /\ (Whole => At = Count(poked))
      BY <2>1 DEF IInv, Delivered
    <3>2. Legal(poked) /\ TypeOK /\ At \in Nat
      BY <3>1, PlaceType DEF IInv
    <3>3. /\ Count(poked) \in Nat /\ DOMAIN poked.cells = 1 .. Count(poked)
          /\ poked.other = <<>> => Count(poked) >= poked.size[1] * poked.size[2]
      BY <3>2, LegalType
    <3> DEFINE a == width * height
    <3>4. a \in Nat
      BY <3>2, WordsAre DEF TypeOK
    <3>5. k \in 0 .. a - 1
      BY <3>2 DEF TypeOK
    <3>6. table[k] = IF k < At THEN Stored(poked.cells[k + 1]) ELSE Empty
      BY <3>1, <3>5 DEF Filled
    <3>7. Whole => Count(poked) >= a
      <4>1. width * height = poked.size[1] * poked.size[2]
        BY <3>1 DEF Filled
      <4>. QED
        BY <3>3, <4>1 DEF Whole
    <3>8. At <= Count(poked)
      BY <3>1 DEF Filled
    <3> HIDE DEF a
    <3>9. CASE k < At
      <4>1. k + 1 \in 1 .. Count(poked)
        BY <3>2, <3>3, <3>4, <3>5, <3>8, <3>9
      <4>. QED
        BY <3>3, <3>6, <3>9, <4>1
    <3>10. CASE ~ (k < At)
      <4>1. ~ Whole
        BY <3>1, <3>3, <3>4, <3>5, <3>7, <3>10
      <4>. QED
        BY <3>6, <3>10, <4>1
    <3>. QED
      BY <3>9, <3>10
  <2>2. pc = "done" /\ Whole =>
          \A i \in DOMAIN Parsers :
            AcceptsTopic(i) =>
              \/ i \in got
              \/ \E j \in 1 .. i - 1 : AcceptsTopic(j) /\ MayThrow(j)
    BY DEF IInv, Delivered
  <2>. QED
    BY <2>1, <2>2 DEF DeliversTable
<1>. QED
  BY <1>1, Inductive, PTL
=============================================================================
