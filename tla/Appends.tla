------------------------------ MODULE Appends ------------------------------
(***************************************************************************)
(* Cells that are put together bit by bit with SliceData_append            *)
(* (slice_data.c): the longer root of prepend_address_to_cell (message.c)  *)
(* and the cell of a wallet's public key (contract.c, compute_multisig_    *)
(* address).  A step is one memcpy or one round of SliceData_append.       *)
(***************************************************************************)
EXTENDS SliceLoop, Sequences, FiniteSetsExt

CONSTANT Jobs    \* the cells to build: what RootJob and KeyJob make

PUBLIC_KEY_LENGTH == 32    \* bytes of a public key, and of an address

-----------------------------------------------------------------------------
(***************************************************************************)
(* A cell is its size in whole bytes (d2 / 2), whether a completion tag    *)
(* ends it (d2 & 1), its bytes and its references.                         *)
(***************************************************************************)
Cell_get_data_size(cell) == cell.whole + (IF cell.tagged THEN 1 ELSE 0)

\* The completion tag is the last bit that is set.
Cell_bit_len(cell) ==
  LET bits == 8 * Cell_get_data_size(cell)
      ones == {p \in 0 .. bits - 1 : BitAt(cell.data, p) = 1}
  IN  IF ~cell.tagged THEN bits ELSE IF ones = {} THEN 0 ELSE Max(ones)

\* A call of SliceData_append.
Call(in, bits, tag) == [in |-> in, bits |-> bits, tag |-> tag]

OneByte(byte) == [m \in 0 .. 0 |-> byte]

\* 0x80, which begins with the prefix $100.
Prefix == [k \in 0 .. 7 |-> IF k = 7 THEN 1 ELSE 0]

(***************************************************************************)
(* prepend_address_to_cell: prefix $100, workchain, address and the data   *)
(* of the cell, with its completion tag, into a buffer that holds anything.*)
(* A buffer is modelled with the byte behind its last one.                 *)
(***************************************************************************)
RootJob(cell, wc, address, size, buffer) ==
  [cell |-> cell, start |-> 0, size |-> size, buffer |-> buffer, kind |-> "root",
   calls |-> <<Call(OneByte(Prefix), 3, FALSE), Call(OneByte(wc), 8, FALSE),
               Call(address, 8 * PUBLIC_KEY_LENGTH, FALSE),
               Call(cell.data, 8 * Cell_get_data_size(cell), FALSE)>>]

\* compute_multisig_address: the public key behind the label of its cell.
KeyJob(cell, label, key, size, buffer) ==
  [cell |-> cell, start |-> label, size |-> size, kind |-> "key",
   buffer |-> [b \in DOMAIN buffer |-> IF b < Cell_get_data_size(cell) THEN cell.data[b]
                                       ELSE buffer[b]],
   calls |-> <<Call(key, 8 * PUBLIC_KEY_LENGTH, TRUE)>>]

(***************************************************************************)
(* What the jobs may be: a cell that was read from a stream, a root with   *)
(* at least the call header that has been parsed before; and for a key the *)
(* cell fits the array it is copied to (VALIDATE in compute_multisig_      *)
(* address), with room for the key behind the label.                       *)
(***************************************************************************)
IsCell(cell) ==
  /\ DOMAIN cell = {"whole", "tagged", "data", "refs"}
  /\ cell.whole \in 0 .. 127 /\ cell.tagged \in BOOLEAN
  /\ Cell_get_data_size(cell) > 0
  /\ cell.data \in [0 .. Cell_get_data_size(cell) - 1 -> Byte]
  /\ cell.refs \in Seq(Byte)

Key == [0 .. PUBLIC_KEY_LENGTH - 1 -> Byte]

IsRootJob(j) ==
  /\ j.kind = "root"
  /\ IsCell(j.cell) /\ j.size \in Nat /\ j.buffer \in [0 .. j.size -> Byte]
  /\ j.calls[2].in[0] \in Byte /\ j.calls[3].in \in Key
  /\ j = RootJob(j.cell, j.calls[2].in[0], j.calls[3].in, j.size, j.buffer)

IsKeyJob(j) ==
  /\ j.kind = "key"
  /\ IsCell(j.cell) /\ j.size \in Nat /\ j.buffer \in [0 .. j.size -> Byte]
  /\ Cell_get_data_size(j.cell) <= j.size
  /\ j.start \in Nat /\ j.start + 8 * PUBLIC_KEY_LENGTH <= 8 * j.size
  /\ j.calls[1].in \in Key
  /\ j = KeyJob(j.cell, j.start, j.calls[1].in, j.size, j.buffer)

ASSUME JobsAssumption == \A j \in Jobs : IsRootJob(j) \/ IsKeyJob(j)

-----------------------------------------------------------------------------
\* pc is "append", "done" or "thrown".
VARIABLES
  job,     \* the cell that is built
  calls,   \* the appends that are left, the running one first
  text     \* ghost: the bits a reader of the calls expects before start

appends == <<job, data, start, calls, round, pc, text>>

TextOf(in, n) == [p \in 1 .. n |-> BitAt(in, p - 1)]

AppendsInit ==
  /\ job \in Jobs
  /\ data = job.buffer
  /\ start = job.start
  /\ calls = job.calls
  /\ round = 0
  /\ pc = "append"
  /\ text = TextOf(job.buffer, job.start)

-----------------------------------------------------------------------------
call == Head(calls)
bytes == call.bits \div 8
shift == start % 8

\* data_window_start += bits.
Return(bits) ==
  /\ start' = start + bits
  /\ calls' = Tail(calls)
  /\ round' = 0
  /\ pc' = IF Tail(calls) = << >> THEN "done" ELSE "append"

Underflow == bytes > 8 * remaining_bits(job.size, start)
Thrown == pc' = "thrown" /\ UNCHANGED <<data, start, calls, round, text>>

\* memcpy of whole bytes, or of the byte that begins with the bits.
CopyAligned ==
  /\ pc = "append"
  /\ shift = 0 \/ bytes = 0
  /\ IF Underflow THEN Thrown
     ELSE /\ data' = [b \in DOMAIN data |->
                       IF b - (start \div 8) \in 0 .. Max({bytes, 1}) - 1
                       THEN call.in[b - (start \div 8)] ELSE data[b]]
          /\ text' = text \o TextOf(call.in, call.bits)
          /\ Return(call.bits)
  /\ UNCHANGED job

Completion == [p \in 1 .. 8 - shift |-> IF p = 1 THEN 1 ELSE 0]

AppendRound ==
  /\ pc = "append"
  /\ shift # 0 /\ bytes # 0
  /\ IF (round = 0 /\ Underflow) \/ start \div 8 + round >= job.size THEN Thrown
     ELSE /\ data' = AppendByte(data, call.in, start, round, call.tag)
          /\ IF round + 1 < bytes
             THEN round' = round + 1 /\ UNCHANGED <<start, calls, pc, text>>
             ELSE /\ text' = text \o TextOf(call.in, call.bits)
                             \o (IF call.tag THEN Completion ELSE << >>)
                  /\ Return(call.bits + IF call.tag THEN 8 - shift ELSE 0)
  /\ UNCHANGED job

AppendsNext == CopyAligned \/ AppendRound

AppendsSpec == AppendsInit /\ [][AppendsNext]_appends

-----------------------------------------------------------------------------
(***************************************************************************)
(* The cell that is hashed in place of job.cell: for a root, with the new  *)
(* size and with the references moved behind the longer data; for a key,   *)
(* with the size it had.                                                   *)
(***************************************************************************)
\* d2 is a byte, as is its mutant's: the bits of the prefix are not counted.
SizeOfAligned(bit_len) ==
  [whole |-> ((bit_len - 3) \div 8) % 128, tagged |-> (bit_len - 3) % 8 # 0]

SizeOf(bit_len) == [whole |-> (bit_len \div 8) % 128, tagged |-> bit_len % 8 # 0]

Longer ==
  LET size == SizeOf(Cell_bit_len(job.cell) + 11 + 8 * PUBLIC_KEY_LENGTH)
      n    == Cell_get_data_size(size)
  IN  [whole |-> size.whole, tagged |-> size.tagged, refs |-> job.cell.refs,
       data |-> [b \in DOMAIN data |->
                   IF b - n \in 0 .. Len(job.cell.refs) - 1
                   THEN job.cell.refs[b - n + 1] ELSE data[b]]]

Built == IF job.kind = "root" THEN Longer ELSE [job.cell EXCEPT !.data = data]

-----------------------------------------------------------------------------
(***************************************************************************)
(* AppendedIsText: whenever SliceData_append returns, the bits before the  *)
(* cursor are those that were there and those appended, at any position:   *)
(* nothing of the byte it began in is lost, and no bit of what the buffer  *)
(* held before shows (slice_data.c:157-200).                               *)
(***************************************************************************)
AppendedIsText ==
  pc \in {"append", "done"} /\ round = 0 =>
    /\ Len(text) = start
    /\ \A p \in 1 .. start : text[p] = BitAt(data, p - 1)

(***************************************************************************)
(* CellIsText: the cell that is hashed is exactly its parts one after the  *)
(* other.  Its size and its completion tag, the one the data of a root     *)
(* brought along or the one appended to a key, are those of the text; the  *)
(* bytes and references behind the data change none of it                  *)
(* (message.c:406-451, contract.c:330-333).  It takes a root that brings a *)
(* tag along and has room for the address, and a key whose place ends with *)
(* its cell and is no byte boundary: the call header and the labels of the *)
(* wallets are like that.                                                  *)
(***************************************************************************)
HasTag(cell) ==
  cell.tagged /\ \E p \in 0 .. 8 * Cell_get_data_size(cell) - 1 : BitAt(cell.data, p) = 1

Fits ==
  IF job.kind = "root"
  THEN HasTag(job.cell) /\ Cell_bit_len(job.cell) + 11 + 8 * PUBLIC_KEY_LENGTH < 1024
  ELSE /\ job.cell.tagged /\ job.start % 8 # 0
       /\ Cell_get_data_size(job.cell) = job.start \div 8 + PUBLIC_KEY_LENGTH + 1

Parts ==
  IF job.kind = "root"
  THEN <<1, 0, 0>> \o TextOf(job.calls[2].in, 8) \o TextOf(job.calls[3].in, 8 * PUBLIC_KEY_LENGTH)
       \o TextOf(job.cell.data, Cell_bit_len(job.cell))
  ELSE TextOf(job.cell.data, job.start) \o TextOf(job.calls[1].in, 8 * PUBLIC_KEY_LENGTH)

CellIsText ==
  pc = "done" /\ Fits =>
    /\ Cell_bit_len(Built) = Len(Parts)
    /\ TextOf(Built.data, Len(Parts)) = Parts
=============================================================================
