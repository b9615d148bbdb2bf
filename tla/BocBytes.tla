------------------------------ MODULE BocBytes ------------------------------
(***************************************************************************)
(* deserialize_cells_tree (contract.c) byte by byte: byte_stream.c and the *)
(* getters and deserialize_cell of cell.c.  Cells has the same function    *)
(* over whole cells; TreeIsItems says that the two agree on every stream,  *)
(* wherever it is cut.                                                     *)
(***************************************************************************)
EXTENDS Cells

CONSTANT Streams    \* what is sent: [header, cells, cut], see Encode

PRUNED_BRANCH_D1 == 40
CELL_DATA_OFFSET == 2

-----------------------------------------------------------------------------
(***************************************************************************)
(* A boc as bytes: flags and reference size, offset size, counts of cells, *)
(* roots and absent cells, total size, root index; then the cells, each    *)
(* d1, d2, data, references.  A stream is what is left of it after cut.    *)
(***************************************************************************)
EncodeHeader(h) ==
  <<h.first, h.offset_size, h.cells_count, h.roots_count, 0>>
  \o [i \in 1 .. h.offset_size |-> 0] \o [i \in 1 .. h.roots_count |-> 0]

EncodeCell(c) == <<c.d1, c.d2>> \o c.data \o c.refs

\* The bytes up to the end of each cell.
BytesUpTo(s) ==
  LET upto[i \in 0 .. Len(s.cells)] ==
        IF i = 0 THEN EncodeHeader(s.header) ELSE upto[i - 1] \o EncodeCell(s.cells[i])
  IN  upto

Encode(s) ==
  LET all == BytesUpTo(s)[Len(s.cells)]
  IN  IF s.cut < Len(all) THEN SubSeq(all, 1, s.cut) ELSE all

AreBytes(text) == text \in Seq(0 .. 255)

ASSUME StreamsAssumption ==
  \A s \in Streams :
    /\ {s.header.first, s.header.offset_size, s.header.cells_count, s.header.roots_count}
         \subseteq 0 .. 255
    /\ Len(s.cells) \in Nat /\ s.cut \in Nat
    /\ \A i \in 1 .. Len(s.cells) :
         LET c == s.cells[i]
         IN  /\ {c.d1, c.d2} \subseteq 0 .. 255 /\ AreBytes(c.data) /\ AreBytes(c.refs)
             /\ Len(c.data) = c.d2 \div 2 + (c.d2 % 2) /\ Len(c.refs) = c.d1 % 8

-----------------------------------------------------------------------------
VARIABLES
  sent,      \* the stream as it was put together
  stream,    \* ByteStream_t: data, its size being the length
  offset,    \* and offset
  count,     \* cells_count of the header
  cells,     \* boc_context.cells up to cells_count: where each begins, its length
  next,      \* the next read, or "done" or "thrown"
  err

boc == <<sent, stream, offset, count, cells, next, err>>

BocInit ==
  /\ sent \in Streams
  /\ stream = Encode(sent)
  /\ offset = 0 /\ count = 0
  /\ cells = << >>
  /\ next = "init" /\ err = SUCCESS

-----------------------------------------------------------------------------
(***************************************************************************)
(* ByteStream_read_byte, _data and _uint of one byte (references have one  *)
(* byte, as the first byte is checked to say): n bytes are there, or       *)
(* ERR_END_OF_STREAM is thrown; then VALIDATE(valid, ERR_INVALID_CONTRACT).*)
(***************************************************************************)
Available(n) == Len(stream) - offset >= n
byte == stream[offset + 1]

Throw(code) ==
  next' = "thrown" /\ err' = code /\ UNCHANGED <<sent, stream, offset, cells>>

Read(n, valid, following) ==
  IF ~Available(n) THEN Throw("ERR_END_OF_STREAM")
  ELSE IF ~valid THEN Throw("ERR_INVALID_CONTRACT")
  ELSE /\ offset' = offset + n /\ next' = following
       /\ UNCHANGED <<sent, stream, cells, err>>

ByteStream_init ==
  /\ next = "init"
  /\ IF stream = << >> THEN Throw("ERR_END_OF_STREAM") ELSE Read(0, TRUE, "first")
  /\ UNCHANGED count

\* No index, crc or cache bits; references of one byte.
first_byte ==
  /\ next = "first"
  /\ Read(1, byte < 32 /\ byte % 8 = 1, "offset_size")
  /\ UNCHANGED count

offset_size ==
  /\ next = "offset_size"
  /\ Read(1, byte \in 1 .. 8, "cells_count")
  /\ UNCHANGED count

cells_count ==
  /\ next = "cells_count"
  /\ Read(1, TRUE, "roots_count")
  /\ count' = IF Available(1) THEN byte ELSE count

roots_count ==
  /\ next = "roots_count"
  /\ Read(1, byte = MAX_ROOTS_COUNT, "absent_count")
  /\ UNCHANGED count

absent_count ==
  next = "absent_count" /\ Read(1, TRUE, "total_cells_size") /\ UNCHANGED count

total_cells_size ==
  next = "total_cells_size" /\ Read(stream[2], TRUE, "roots") /\ UNCHANGED count

roots ==
  /\ next = "roots"
  /\ Read(1, TRUE, IF count = 0 THEN "done" ELSE "cell")
  /\ UNCHANGED count

-----------------------------------------------------------------------------
(***************************************************************************)
(* deserialize_cell on the bytes from the cursor to the end of the stream. *)
(* A cell's length is what is left of the stream, not its size.            *)
(***************************************************************************)
get_d1 == stream[offset + 1]
get_d2 == stream[offset + 2]
rc == get_d1 % 8
exotic == (get_d1 \div 8) % 2 = 1
hashes == (get_d1 \div 16) % 2 = 1
data_size == get_d2 \div 2 + (get_d2 % 2)
ref(r) == stream[offset + CELL_DATA_OFFSET + data_size + r]
cell_size == CELL_DATA_OFFSET + data_size + rc

Cell_get_length == Len(stream) - offset

RefValid(r, index) ==
  /\ Cell_get_length > CELL_DATA_OFFSET + data_size + r - 1
  /\ ref(r) <= count /\ ref(r) > index

CellValid(index) ==
  /\ Cell_get_length > 0
  /\ ~hashes
  /\ exotic => get_d1 = PRUNED_BRANCH_D1
  /\ rc <= MAX_REFERENCES_COUNT
  /\ Cell_get_length > 1
  /\ get_d1 = PRUNED_BRANCH_D1 => data_size = PRUNED_BRANCH_DATA_SIZE
  /\ \A r \in 1 .. rc : RefValid(r, index)

(***************************************************************************)
(* A round of the loop: the cell is counted once all of it has been read.  *)
(***************************************************************************)
\* Mutant: the cell is counted when it is stored.
TakeCell_unread ==
  /\ offset' = IF Available(cell_size) THEN offset + cell_size ELSE Len(stream)
  /\ cells' = Append(cells, [begin |-> offset, length |-> Cell_get_length])
  /\ next' = IF offset' >= Len(stream) \/ Len(cells') = count THEN "done" ELSE "cell"
  /\ UNCHANGED <<sent, stream, err>>

\* Mutant: the loop goes on until the declared count.
TakeCell_no_break ==
  IF ~Available(cell_size) THEN Throw("ERR_END_OF_STREAM")
  ELSE /\ offset' = offset + cell_size
       /\ cells' = Append(cells, [begin |-> offset, length |-> Cell_get_length])
       /\ next' = IF Len(cells') = count THEN "done" ELSE "cell"
       /\ UNCHANGED <<sent, stream, err>>

TakeCell ==
  IF ~Available(cell_size) THEN Throw("ERR_END_OF_STREAM")
  ELSE /\ offset' = offset + cell_size
       /\ cells' = Append(cells, [begin |-> offset, length |-> Cell_get_length])
       /\ next' = IF offset' >= Len(stream) \/ Len(cells') = count THEN "done" ELSE "cell"
       /\ UNCHANGED <<sent, stream, err>>

read_cell ==
  /\ next = "cell"
  /\ UNCHANGED count
  /\ IF Len(cells) >= MAX_CONTRACT_CELLS_COUNT THEN Throw("ERR_INVALID_CONTRACT")
     ELSE IF ~CellValid(Len(cells)) THEN Throw("ERR_INVALID_CELL")
     ELSE TakeCell

BocNext ==
  \/ ByteStream_init
  \/ first_byte \/ offset_size \/ cells_count \/ roots_count
  \/ absent_count \/ total_cells_size \/ roots
  \/ read_cell

BocSpec == BocInit /\ [][BocNext]_boc

-----------------------------------------------------------------------------
(***************************************************************************)
(* CellsInStream: whatever is read through the cells that are counted lies *)
(* in the stream: each begins where the one before it ends and ends before *)
(* the cursor, which does not pass the end.  calc_cell_hash and the slices *)
(* read d1, d2, data and references without a look at the length           *)
(* (cell.c:65-95, contract.c:136-152).                                     *)
(***************************************************************************)
SizeAt(begin) ==
  CELL_DATA_OFFSET + stream[begin + 2] \div 2 + (stream[begin + 2] % 2) + (stream[begin + 1] % 8)

CellsInStream ==
  /\ offset <= Len(stream)
  /\ \A i \in 1 .. Len(cells) :
       cells[i].begin + SizeAt(cells[i].begin)
         = IF i < Len(cells) THEN cells[i + 1].begin ELSE offset

(***************************************************************************)
(* TreeIsItems: the bytes are taken for the cells they were made of.  A    *)
(* stream that is cut after its header is taken if and only if Cells takes *)
(* the items that are left of it, with the same cells or the same error;   *)
(* one that is cut inside the header never is.  So a boc that ends at a    *)
(* cell's end is taken however many cells it declares, one that ends       *)
(* inside a cell is not, and bytes after the last declared cell change     *)
(* nothing (contract.c:101-153).  In a tree that is taken a cell refers to *)
(* later cells only, but perhaps to one the stream lacks, or to number     *)
(* cells_count, which the check of cell.c:91 lets through.                 *)
(***************************************************************************)
HeaderItem(h) ==
  [kind |-> "boc", plain |-> h.first < 32, ref_size |-> h.first % 8,
   offset_size |-> h.offset_size, cells_count |-> h.cells_count,
   roots_count |-> h.roots_count]

BeginOf(i) == Len(BytesUpTo(sent)[i - 1])

CellItem(c, left) ==
  [kind |-> IF left = 1 THEN "cut" ELSE "cell",
   type |-> IF c.d1 = PRUNED_BRANCH_D1 THEN "pruned"
            ELSE IF (c.d1 \div 8) % 4 = 0 THEN "ordinary" ELSE "other",
   data |-> <<Fld(4 * c.d2, c.data)>>, refs |-> c.refs,
   whole |-> left >= Len(EncodeCell(c))]

ItemsSent ==
  LET begun == {i \in 1 .. Len(sent.cells) : BeginOf(i) < Len(stream)}
  IN  <<HeaderItem(sent.header)>>
      \o [i \in begun |-> CellItem(sent.cells[i], Len(stream) - BeginOf(i))]

CellRead(c) ==
  LET end == c.begin + SizeAt(c.begin)
      nrefs == stream[c.begin + 1] % 8
  IN  [data |-> SubSeq(stream, c.begin + 3, end - nrefs),
       refs |-> SubSeq(stream, end - nrefs + 1, end)]

TreeIsItems ==
  LET cutHeader == Len(stream) < Len(EncodeHeader(sent.header))
      result    == deserialize_cells_tree(ZeroBoc, ItemsSent)
      taken     == result.bc.cells
  IN  /\ next = "done" =>
           /\ ~cutHeader /\ result.err = SUCCESS
           /\ [i \in DOMAIN cells |-> CellRead(cells[i])]
                = [i \in DOMAIN taken |-> [data |-> taken[i].data[1].v, refs |-> taken[i].refs]]
      /\ next = "thrown" /\ ~cutHeader => result.err = err
=============================================================================
