------------------------------- MODULE Cells -------------------------------
(***************************************************************************)
(* Bags of cells (boc): cell.c, slice_data.c (reading), byte_stream.c and  *)
(* deserialize_cells_tree of contract.c.                                   *)
(*                                                                         *)
(* A cell's data is a sequence of fields [w |-> bits, v |-> value]; a read *)
(* of n bits returns the value of the field that is exactly there, and     *)
(* Junk if the bits belong to no single field.  SHA-256 is an injective    *)
(* term over what the code feeds to it.                                    *)
(*                                                                         *)
(* An operator that may throw returns a record with a field err, which is  *)
(* SUCCESS or the thrown code; a step after a throw leaves the record as   *)
(* it is.                                                                  *)
(***************************************************************************)
EXTENDS Integers, Sequences, SequencesExt, Context

SUCCESS == "SUCCESS"
MAX_CONTRACT_CELLS_COUNT == 16
MAX_REFERENCES_COUNT == 4
MAX_ROOTS_COUNT == 1
PRUNED_BRANCH_DATA_SIZE == 36

Fld(width, value) == [w |-> width, v |-> value]

-----------------------------------------------------------------------------
(***************************************************************************)
(* Cells.  type tells the d1 classes deserialize_cell tells apart.         *)
(***************************************************************************)
BitsOf(data) ==
  LET upto[i \in 0 .. Len(data)] == IF i = 0 THEN 0 ELSE upto[i - 1] + data[i].w
  IN  upto[Len(data)]

\* Cell_bit_len: the data without its completion tag.
BitLen(cell) == BitsOf(cell.data)

\* Cell_get_data_size: bytes of data, completion tag included.
DataSize(cell) == (BitLen(cell) + 7) \div 8

-----------------------------------------------------------------------------
(***************************************************************************)
(* Slices: a cursor over a cell's data.  val is what the last read         *)
(* returned.  The window ends with the last byte, not with the last bit:   *)
(* SliceData_from_cell counts whole bytes.                                 *)
(***************************************************************************)
FromCell(cell) ==
  [data |-> cell.data, pos |-> 0, end |-> 8 * DataSize(cell), val |-> 0,
   err |-> SUCCESS]

RemainingBits(s) == IF s.pos > s.end THEN 0 ELSE s.end - s.pos
IsEmpty(s) == s.pos >= s.end

\* VALIDATE(cond, code).
Validate(s, cond, code) ==
  IF s.err = SUCCESS /\ ~cond THEN [s EXCEPT !.err = code] ELSE s

\* VALIDATE of the value just read.
Expect(s, values, code) == Validate(s, s.val \in values, code)

MoveBy(s, bits) ==
  IF s.err # SUCCESS THEN s
  ELSE IF s.pos + bits > s.end THEN [s EXCEPT !.err = "ERR_CELL_UNDERFLOW"]
  ELSE [s EXCEPT !.pos = @ + bits]

FieldAt(s, bits) ==
  LET here == {i \in 1 .. Len(s.data) :
                 /\ BitsOf(SubSeq(s.data, 1, i - 1)) = s.pos
                 /\ s.data[i].w = bits}
  IN  IF here = {} THEN Junk ELSE s.data[CHOOSE i \in here : TRUE].v

\* SliceData_get_next_bit, _byte and _int: check, read and move.
Next_int(s, bits) ==
  IF s.err # SUCCESS THEN s
  ELSE IF bits > RemainingBits(s) THEN [s EXCEPT !.err = "ERR_CELL_UNDERFLOW"]
  ELSE [s EXCEPT !.val = FieldAt(s, bits), !.pos = @ + bits]

\* Reads of two fields the code ignores.
Skip(s, first, second) == Next_int(Next_int(s, first), second)

\* deserialize_value: bytes copied from an arbitrary bit position.
Next_value(s, bytes) ==
  LET fits == s.pos \div 8 + bytes <= s.end \div 8
  IN  IF s.err # SUCCESS THEN s
      ELSE IF bytes = 0 THEN [s EXCEPT !.val = << >>]
      ELSE MoveBy(Validate([s EXCEPT !.val = FieldAt(s, 8 * bytes)], fits,
                           "ERR_INVALID_MESSAGE"),
                  8 * bytes)

-----------------------------------------------------------------------------
(***************************************************************************)
(* boc_context.  cells holds the cells read since the count was last reset *)
(* (cells[i + 1] is cell i); hashes and depths are indexed by cell.        *)
(***************************************************************************)
CellIndex == 0 .. MAX_CONTRACT_CELLS_COUNT - 1

ZeroBoc ==
  [cells |-> << >>,
   hashes |-> [i \in CellIndex |-> Zero],
   cell_depth |-> [i \in CellIndex |-> 0],
   public_key_cell_data |-> << >>,
   public_key_cell_index |-> 0,
   public_key_label_size_bits |-> 0]

(***************************************************************************)
(* deserialize_cell: the checks on one cell; SUCCESS or the thrown code.   *)
(* whole is FALSE when the stream ends inside the cell.  The header of a   *)
(* further boc read as a cell has the reference 1 (its root count), which  *)
(* does not point forward.                                                 *)
(***************************************************************************)
deserialize_cell(cell, index, cells_count) ==
  IF \/ cell.kind # "cell"
     \/ cell.type \notin {"ordinary", "pruned"}
     \/ Len(cell.refs) > MAX_REFERENCES_COUNT
     \/ cell.type = "pruned" /\ DataSize(cell) # PRUNED_BRANCH_DATA_SIZE
     \/ \E r \in 1 .. Len(cell.refs) :
           cell.refs[r] > cells_count \/ cell.refs[r] <= index
     \/ ~cell.whole /\ cell.refs # << >>
  THEN "ERR_INVALID_CELL"
  ELSE IF ~cell.whole THEN "ERR_END_OF_STREAM"
  ELSE SUCCESS

(***************************************************************************)
(* deserialize_cells_tree: src is the stream, its first item the header.   *)
(* Cells are read until the declared count or the end of the stream,       *)
(* whichever comes first, so a stream that lacks declared cells is taken   *)
(* and bytes after the last declared cell are not looked at.  A stream     *)
(* that starts inside a boc is refused: the second byte of a cell of more  *)
(* than four bytes is no valid offset size.                                *)
(***************************************************************************)
HeaderOk(hdr) ==
  /\ hdr.kind = "boc"
  /\ hdr.plain                         \* no index, no crc, no cache bits
  /\ hdr.ref_size = 1
  /\ hdr.offset_size \in 1 .. 8
  /\ hdr.roots_count = MAX_ROOTS_COUNT

\* Mutant: the count is not reset, and cells of an earlier boc stay.
CellsRead_kept(bc, src, n) == SubSeq(src, 2, n + 1) \o SubSeq(bc.cells, n + 1, Len(bc.cells))

\* cells, up to the count that was reset before the first of them.
CellsRead(bc, src, n) == SubSeq(src, 2, n + 1)

deserialize_cells_tree(bc, src) ==
  LET count == Head(src).cells_count
      read  == IF count < Len(src) - 1 THEN count ELSE Len(src) - 1
      CodeAt(i) == IF i >= MAX_CONTRACT_CELLS_COUNT THEN "ERR_INVALID_CONTRACT"
                   ELSE deserialize_cell(src[i + 2], i, count)
      bad   == {i \in 0 .. read - 1 : CodeAt(i) # SUCCESS}
  IN  IF ~HeaderOk(Head(src))
      THEN [bc |-> bc, err |-> "ERR_INVALID_CONTRACT"]
      ELSE [bc  |-> [bc EXCEPT !.cells = CellsRead(bc, src, read)],
            err |-> IF bad # {} THEN CodeAt(Min(bad))
                    ELSE IF count > 0 /\ read = 0 THEN "ERR_INVALID_CELL"
                    ELSE SUCCESS]

-----------------------------------------------------------------------------
(***************************************************************************)
(* calc_cell_hash: hash and depth of cell i from those of its children.    *)
(* When the wallet code has marked a cell as the holder of the public key, *)
(* the data kept aside for it is hashed in place of its own.  Depths are   *)
(* uint8_t, and are only ever raised.                                      *)
(***************************************************************************)
Sha256(data, depths, hashes) == <<"sha256", data, depths, hashes>>

HashedData(bc, i) ==
  LET cell == bc.cells[i + 1]
      held == bc.public_key_cell_data
  IN  IF bc.public_key_cell_index = 0 \/ bc.public_key_cell_index # i
      THEN cell.data
      ELSE IF (BitsOf(held) + 7) \div 8 = DataSize(cell) THEN held
      ELSE <<Fld(8 * DataSize(cell), Junk)>>

\* Mutant: the depth counts the first reference only.
calc_cell_hash_of_first(bc, i) ==
  LET refs == bc.cells[i + 1].refs
  IN  [bc EXCEPT
         !.cell_depth[i] = IF refs = << >> THEN @ ELSE bc.cell_depth[refs[1]] + 1,
         !.hashes[i] = Sha256(HashedData(bc, i),
                              [c \in 1 .. Len(refs) |-> bc.cell_depth[refs[c]]],
                              [c \in 1 .. Len(refs) |-> bc.hashes[refs[c]]])]

Raise(depth, child_depth) ==
  IF depth > child_depth + 1 THEN depth ELSE (child_depth + 1) % 256

RaisedDepth(bc, i) ==
  LET refs == bc.cells[i + 1].refs
      raised[c \in 0 .. Len(refs)] ==
        IF c = 0 THEN bc.cell_depth[i]
        ELSE Raise(raised[c - 1], bc.cell_depth[refs[c]])
  IN  raised[Len(refs)]

calc_cell_hash(bc, i) ==
  LET cell == bc.cells[i + 1]
      refs == cell.refs
  IN  IF cell.type = "pruned"
      THEN [bc EXCEPT !.hashes[i] = cell.data[3].v,
                      !.cell_depth[i] = cell.data[4].v % 256]
      ELSE [bc EXCEPT
              !.cell_depth[i] = RaisedDepth(bc, i),
              !.hashes[i] = Sha256(HashedData(bc, i),
                                   [c \in 1 .. Len(refs) |-> bc.cell_depth[refs[c]]],
                                   [c \in 1 .. Len(refs) |-> bc.hashes[refs[c]]])]

\* Mutant: the root first, its children last.
HashCellsForward(bc, last) ==
  LET done[k \in 0 .. last + 1] ==
        IF k = 0 THEN bc ELSE calc_cell_hash(done[k - 1], k - 1)
  IN  [bc |-> done[last + 1], err |-> SUCCESS]

(***************************************************************************)
(* The loops that hash cells last .. 0, children before parents.  They     *)
(* write hashes and depths, and nothing else.                              *)
(***************************************************************************)
HashCells(bc, last) ==
  LET done[k \in 0 .. last + 1] ==
        IF k = 0 THEN bc ELSE calc_cell_hash(done[k - 1], last + 1 - k)
      all == done[last + 1]
  IN  [bc  |-> [bc EXCEPT !.hashes = all.hashes, !.cell_depth = all.cell_depth],
       err |-> IF \E i \in 0 .. last :
                    /\ bc.cells[i + 1].type # "pruned"
                    /\ \E r \in 1 .. Len(bc.cells[i + 1].refs) :
                          bc.cells[i + 1].refs[r] >= MAX_CONTRACT_CELLS_COUNT
               THEN "ERR_INVALID_CELL" ELSE SUCCESS]
=============================================================================
