------------------------------ MODULE XlParser ------------------------------
(***************************************************************************)
(* core/xltable/xlparser.cpp and DataImportServer::parseIncomingData: a    *)
(* poke of DDE carries a table as bytes.  The decoder walks over its       *)
(* blocks and fills the cells row by row; the table then goes to every     *)
(* parser that is registered for the topic.                                *)
(*                                                                         *)
(* QUIK, outside src/, writes the bytes: how it divides equal cells into   *)
(* blocks is its choice.  A block of a type the decoder does not know comes *)
(* only at the end, with a body of less than four bytes: the body is not   *)
(* skipped, and longer ones would be read as blocks.  The size of the      *)
(* table is what its header says; that no more cells follow is not assumed: *)
(* XlTable::set does not look, and a write outside its cells is undefined. *)
(***************************************************************************)
EXTENDS Integers, Sequences

CONSTANTS
  Parsers,           \* m_tableParsers: records of a kind and a topic
  Topics,
  Sizes,             \* pairs <<width, height>> of the tables poked
  Texts,             \* texts of string cells, as sequences of bytes
  Numbers,           \* the eight bytes of a double
  Surplus,           \* numbers of cells that may be sent beyond those of the size
  Missing,           \* numbers of bytes that may be missing at the end of a poke
  Others             \* blocks of types that the decoder does not know, as bytes

Byte == 0 .. 255
Words == {n \in Nat : n < 65536}

ASSUME XlParserAssumption ==
  /\ Parsers \in Seq([kind : {"current_parameters_table", "all_deals_table"},
                      topic : Topics])
  /\ \A s \in Sizes : /\ s \in Words \X Words /\ 0 \notin {s[1], s[2]}
                       /\ s[1] * s[2] <= 2147483647
  /\ \A t \in Texts : t \in Seq(Byte) /\ Len(t) \in Byte
  /\ \A v \in Numbers : v \in Seq(Byte) /\ Len(v) = 8
  /\ Surplus \subseteq Nat
  /\ Missing \subseteq Nat
  /\ \A o \in Others : /\ o \in Seq(Byte) /\ Len(o) \in 4 .. 7
                       /\ o[1] + 256 * o[2] \notin {1, 2, 5}

VARIABLES
  pc,                \* "idle", or the place in parse or in parseIncomingData
  data,              \* the bytes from RawByteArrayParser::m_ptr on
  width, height,     \* of the table and of XlPosition
  table,             \* XlTable::m_data, numbered from 0
  row, column,       \* XlPosition
  blocksize,
  next,              \* the table parser whose turn it is
  poked,             \* history: what QUIK meant to send
  got                \* history: the parsers that have been given the table

position == <<row, column>>
vars == <<pc, data, width, height, table, position, blocksize, next, poked, got>>

Empty == [kind |-> "Empty"]
Cells == [kind : {"String"}, value : Texts] \cup [kind : {"Float"}, value : Numbers]
           \cup {[kind |-> "Blank"]}

\* What a cell is in the table: no string is not told from no cell.
Stored(cell) ==
  IF cell.kind = "Blank" \/ (cell.kind = "String" /\ cell.value = <<>>)
  THEN Empty ELSE cell
XlCell == {Stored(c) : c \in Cells}

\* Among the types: only a poke of more cells than it says is written beyond the
\* table, or takes the position below its last row.
TypeOK ==
  /\ pc \in {"idle", "table", "block", "String", "Float", "Blank", "deliver", "done",
             "undefined"}
  /\ data \in Seq(Byte)
  /\ width \in Words /\ height \in Words
  /\ table \in [0 .. width * height - 1 -> XlCell]
  /\ row \in Nat
  /\ poked.surplus = 0 => row <= height /\ pc # "undefined"
  /\ column \in 0 .. width /\ (pc \in {"String", "Float"} => column < width)
  /\ blocksize \in Int /\ -255 <= blocksize /\ blocksize < 65536
  /\ next \in 1 .. Len(Parsers) + 1
  /\ got \subseteq 1 .. Len(Parsers)

NoTable == [i \in 0 .. -1 |-> Empty]
NotPoked == [size |-> <<0, 0>>, cells |-> <<>>, division |-> <<>>, other |-> <<>>,
             surplus |-> 0, missing |-> 0, topic |-> CHOOSE t \in Topics : TRUE]

Init ==
  /\ pc = "idle" /\ data = <<>>
  /\ width = 0 /\ height = 0 /\ table = NoTable
  /\ row = 0 /\ column = 0 /\ blocksize = 0 /\ next = 1
  /\ poked = NotPoked /\ got = {}

----------------------------------------------------------------------------
(* QUIK, outside src/. *)

Word(n) == <<n % 256, (n \div 256) % 256>>

BlockType == [Table |-> 16, Float |-> 1, String |-> 2, Blank |-> 5]

\* How cells may be divided into blocks: the number of cells of its block from each
\* one on.
Divisions(cells) ==
  {d \in [DOMAIN cells -> DOMAIN cells] :
     \A i \in DOMAIN cells : \A j \in i .. i + d[i] - 1 :
       j \in DOMAIN cells /\ d[j] = d[i] - (j - i) /\ cells[j].kind = cells[i].kind}

First(d, i) == i = 1 \/ d[i - 1] = 1

\* Blanks are counted, other cells follow each other.
Body(cell, count) ==
  CASE cell.kind = "String" -> <<Len(cell.value)>> \o cell.value
    [] cell.kind = "Float" -> cell.value
    [] cell.kind = "Blank" -> Word(count)
Following(cells, d, i) == IF cells[i].kind = "Blank" THEN i + d[i] ELSE i + 1

\* What there is from cell i on, with what there is behind it: the bytes, and how
\* many of them belong to the block of the cell.
Piece(cells, d, i, behind) ==
  LET body == Body(cells[i], d[i])
      left == Len(body) + (IF Following(cells, d, i) = i + d[i] THEN 0 ELSE behind.left)
      header == IF First(d, i) THEN Word(BlockType[cells[i].kind]) \o Word(left) ELSE <<>>
  IN [left |-> left, bytes |-> header \o body \o behind.bytes]

Written(cells, d, other) ==
  LET from[i \in 1 .. Len(cells) + 1] ==
        IF i = Len(cells) + 1 THEN [left |-> 0, bytes |-> other]
        ELSE Piece(cells, d, i, from[Following(cells, d, i)])
  IN from

\* The size of a block and a number of blanks fit in their words.
Fits(cells, d, other) ==
  LET from == Written(cells, d, other)
  IN /\ \A i \in DOMAIN from : from[i].left \in Words
     /\ \A i \in DOMAIN d : d[i] \in Words

Header(size) ==
  Word(BlockType.Table) \o Word(4) \o Word(size[2]) \o Word(size[1])

\* The last bytes may be missing.
Cut(bytes, missing) == SubSeq(bytes, 1, Len(bytes) - missing)

\* What is behind the last cell: a block of an unknown type, which stands for a
\* cell, or nothing.
Endings == Others \cup {<<>>}
CellsSent(size, other, surplus) ==
  size[1] * size[2] + surplus - (IF other = <<>> THEN 0 ELSE 1)

Poke(topic, size, other, surplus, missing) ==
  /\ pc = "idle"
  /\ \E cells \in [1 .. CellsSent(size, other, surplus) -> Cells] :
     \E d \in Divisions(cells) :
       /\ Fits(cells, d, other)
       /\ data' = Cut(Header(size) \o Written(cells, d, other)[1].bytes, missing)
       /\ poked' = [size |-> size, cells |-> cells, division |-> d, other |-> other,
                    surplus |-> surplus, missing |-> missing, topic |-> topic]
  /\ pc' = "table"
  /\ UNCHANGED <<width, height, table, position, blocksize, next, got>>

----------------------------------------------------------------------------
(* XlParser::parse.  Reading beyond the end throws StreamEndException. *)

WordAt(i) == data[i] + 256 * data[i + 1]
Drop(n) == SubSeq(data, n + 1, Len(data))

Throw ==
  /\ pc' = "done"
  /\ UNCHANGED <<data, width, height, table, position, blocksize, next, poked, got>>

ReadTable ==
  /\ pc = "table"
  /\ IF Len(data) < 8 \/ WordAt(1) # BlockType.Table \/ WordAt(3) # 4
     THEN Throw
     ELSE /\ height' = WordAt(5) /\ width' = WordAt(7)
          /\ table' = [i \in 0 .. width' * height' - 1 |-> Empty]
          /\ row' = 0 /\ column' = 0
          /\ data' = Drop(8)
          /\ pc' = "block"
          /\ UNCHANGED <<blocksize, next, poked, got>>

\* An unknown block is left where it is.
ReadBlock ==
  /\ pc = "block" /\ data # <<>>
  /\ IF Len(data) < 4
     THEN Throw
     ELSE /\ blocksize' = WordAt(3)
          /\ data' = Drop(4)
          /\ pc' = CASE WordAt(1) = BlockType.String -> "String"
                     [] WordAt(1) = BlockType.Float -> "Float"
                     [] WordAt(1) = BlockType.Blank -> "Blank"
                     [] OTHER -> "block"
          /\ UNCHANGED <<width, height, table, position, next, poked, got>>

\* Variant: the column is compared before it is moved on.
Advance_Late(n) ==
  /\ column' = IF column >= width THEN 0 ELSE column + n
  /\ row' = IF column >= width THEN row + 1 ELSE row

\* XlPosition::incrementPosition, n times.
Advance(n) ==
  /\ column' = (column + n) % width
  /\ row' = row + (column + n) \div width

\* Variant: the byte that says how long the string is, is not counted.
Used_TextOnly(length) == length

Used(length) == length + 1

\* XlTable::set, which does not look whether its place is one of m_data.
Beneath == row >= height

Undefine ==
  /\ pc' = "undefined"
  /\ UNCHANGED <<data, width, height, table, position, blocksize, next, poked, got>>

ReadString ==
  /\ pc = "String" /\ blocksize > 0
  /\ IF data = <<>> \/ Len(data) < data[1] + 1
     THEN Throw
     ELSE IF data[1] # 0 /\ Beneath
     THEN Undefine
     ELSE LET length == data[1]
          IN /\ table' = IF length = 0 THEN table
                         ELSE [table EXCEPT ![row * width + column] =
                                 [kind |-> "String", value |-> SubSeq(data, 2, length + 1)]]
             /\ data' = Drop(length + 1)
             /\ blocksize' = blocksize - Used(length)
             /\ Advance(1)
             /\ UNCHANGED <<pc, width, height, next, poked, got>>

ReadFloat ==
  /\ pc = "Float" /\ blocksize > 0
  /\ IF Len(data) < 8
     THEN Throw
     ELSE IF Beneath
     THEN Undefine
     ELSE /\ table' = [table EXCEPT ![row * width + column] =
                         [kind |-> "Float", value |-> SubSeq(data, 1, 8)]]
          /\ data' = Drop(8)
          /\ blocksize' = blocksize - 8
          /\ Advance(1)
          /\ UNCHANGED <<pc, width, height, next, poked, got>>

ReadBlank ==
  /\ pc = "Blank"
  /\ IF Len(data) < 2
     THEN Throw
     ELSE /\ Advance(WordAt(1))
          /\ data' = Drop(2)
          /\ pc' = "block"
          /\ UNCHANGED <<width, height, table, blocksize, next, poked, got>>

EndBlock ==
  /\ pc \in {"String", "Float"} /\ blocksize <= 0
  /\ pc' = "block"
  /\ UNCHANGED <<data, width, height, table, position, blocksize, next, poked, got>>

EndTable ==
  /\ pc = "block" /\ data = <<>>
  /\ pc' = "deliver"
  /\ UNCHANGED <<data, width, height, table, position, blocksize, next, poked, got>>

----------------------------------------------------------------------------
(* DataImportServer::parseIncomingData. *)

AcceptsTopic(i) == Parsers[i].topic = poked.topic

\* AllDealsTableParser throws on a cell that is not what its column calls for;
\* CurrentParameterTableParser keeps its exceptions to itself.
MayThrow(i) == Parsers[i].kind = "all_deals_table"

Deliver ==
  /\ pc = "deliver" /\ next <= Len(Parsers)
  /\ got' = IF AcceptsTopic(next) THEN got \cup {next} ELSE got
  /\ \/ pc' = pc
     \/ AcceptsTopic(next) /\ MayThrow(next) /\ pc' = "done"
  /\ next' = next + 1
  /\ UNCHANGED <<data, width, height, table, position, blocksize, poked>>

EndDeliver ==
  /\ pc = "deliver" /\ next > Len(Parsers)
  /\ pc' = "done"
  /\ UNCHANGED <<data, width, height, table, position, blocksize, next, poked, got>>

\* What follows an undefined write is not modelled.
Undefined == pc = "undefined" /\ UNCHANGED vars

\* The decoder goes out of scope and the callback returns.
Return ==
  /\ pc = "done"
  /\ pc' = "idle" /\ data' = <<>>
  /\ width' = 0 /\ height' = 0 /\ table' = NoTable
  /\ row' = 0 /\ column' = 0 /\ blocksize' = 0 /\ next' = 1
  /\ poked' = NotPoked /\ got' = {}

----------------------------------------------------------------------------

Next ==
  \/ \E topic \in Topics, size \in Sizes, other \in Endings, surplus \in Surplus,
        missing \in Missing :
       Poke(topic, size, other, surplus, missing)
  \/ ReadTable \/ ReadBlock \/ ReadString \/ ReadFloat \/ ReadBlank
  \/ EndBlock \/ EndTable \/ Deliver \/ EndDeliver \/ Return \/ Undefined

Spec == Init /\ [][Next]_vars

----------------------------------------------------------------------------
(* Properties. *)

\* However the cells were divided into blocks, a table that parsers are given
\* has in each cell what QUIK put there, or nothing if the bytes ended before;
\* and a poke that is whole has every cell and reaches every parser of its topic
\* but those behind an all-deals parser, which may throw.
Whole == poked.missing = 0 /\ poked.other = <<>>
DeliversTable ==
  /\ got # {} =>
       \A i \in DOMAIN table :
         \/ i + 1 \in DOMAIN poked.cells /\ table[i] = Stored(poked.cells[i + 1])
         \/ table[i] = Empty /\ ~Whole
  /\ pc = "done" /\ Whole =>
       \A i \in DOMAIN Parsers :
         AcceptsTopic(i) =>
           \/ i \in got
           \/ \E j \in 1 .. i - 1 : AcceptsTopic(j) /\ MayThrow(j)
=============================================================================
