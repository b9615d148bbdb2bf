------------------------------ MODULE MCCells ------------------------------
(***************************************************************************)
(* TLC instance of the byte level of cells: four machines that share no    *)
(* state of the program, one of which is chosen at the start.              *)
(*                                                                         *)
(*   reads    SliceReads, slices of ten bytes, so that 64 bits fit at a    *)
(*            position that is no byte boundary                            *)
(*   appends  Appends, with the sizes of the code                          *)
(*   stream   BocBytes, bags of cells cut after each of their bytes        *)
(*   fuzz     FuzzHarness, whole and broken messages one after the other   *)
(***************************************************************************)
EXTENDS SliceReads, Appends, BocBytes, FuzzHarness

CONSTANTS None, to

VARIABLE machine    \* the machine that runs

ofSlices  == <<data, start, round, pc>>      \* of SliceReads and of Appends
ofReads   == <<asked, word, out>>
ofAppends == <<job, calls, text>>

-----------------------------------------------------------------------------
(***************************************************************************)
(* Slices to read: bytes that tell every position from its neighbours.     *)
(***************************************************************************)
Mixed == <<165, 60, 255, 0, 129, 126, 195, 24, 90, 231>>

SomeBuffers ==
  { [b \in 0 .. SIZE - 1 |-> ByteOf(Mixed[(b % 10) + 1])],
    [b \in 0 .. SIZE - 1 |-> ByteOf(255 - Mixed[(b % 10) + 1])] }

SomeWidths == {0, 1, 2, 4, 7, 8, 11, 32, 61, 63, 64, 65}
SomeLengths == {0, 1, 2, 5}

(***************************************************************************)
(* Cells to build: roots of one to three bytes whose completion tag stands *)
(* at every place of the last byte, one without a tag, one as long as can  *)
(* be, one whose size wraps and one that does not fit; public keys behind  *)
(* labels of every number of bits.                                         *)
(***************************************************************************)
BytesOf(numbers) == [b \in 0 .. Len(numbers) - 1 |-> ByteOf(numbers[b + 1])]
Repeated(n, size) == [b \in 0 .. size - 1 |-> ByteOf((n * (b + 1)) % 256)]

Tree(bytes_, refs) ==
  [whole |-> Cardinality(DOMAIN bytes_) - 1, tagged |-> TRUE,
   data |-> bytes_, refs |-> [r \in DOMAIN refs |-> ByteOf(refs[r])]]

Roots ==
  {Tree(BytesOf(<<last>>), refs) :
     last \in {1, 2, 4, 8, 16, 32, 64, 128, 255, 180}, refs \in {<< >>, <<1, 2>>}}
  \cup {Tree(BytesOf(<<165, last>>), <<1>>) : last \in {6, 12, 72, 144, 224, 192, 128}}
  \cup {Tree(BytesOf(<<165, 60, 128>>), <<255>>),
        [Tree(BytesOf(<<165, 60>>), << >>) EXCEPT !.whole = 2, !.tagged = FALSE]}
  \cup {Tree(Repeated(n, size), <<3>>) : n \in {7, 128}, size \in {95, 96, 97, 98}}

Addresses == {Repeated(171, PUBLIC_KEY_LENGTH), Repeated(254, PUBLIC_KEY_LENGTH)}

\* A label of some bits, zeros in the place of the key, and the tag.
KeyCell(label) ==
  LET last == PUBLIC_KEY_LENGTH + label \div 8
  IN  Tree([b \in 0 .. last |->
              IF b = last THEN Tagged(ByteOf(0), label % 8)
              ELSE IF b < label \div 8 THEN ByteOf(167)
              ELSE IF b = label \div 8 THEN HighBits(ByteOf(167), label % 8)
              ELSE ByteOf(0)], << >>)

Filled(n, size) == [b \in 0 .. size |-> ByteOf(n)]

SomeJobs ==
  {RootJob(cell, ByteOf(wc), address, 130, Filled(255 - wc, 130)) :
     cell \in Roots, wc \in {0, 255}, address \in Addresses}
  \cup {KeyJob(KeyCell(label), label, key, 36, Filled(255, 36)) :
          label \in 1 .. 23, key \in Addresses}

-----------------------------------------------------------------------------
(***************************************************************************)
(* Streams: a good tree of four cells and trees that break one rule each,  *)
(* with headers that declare too few or too many cells, or break one rule, *)
(* every one cut after each of its bytes; and one tree with more cells     *)
(* than the context holds.                                                 *)
(***************************************************************************)
SomeCell(d1, d2, refs) ==
  [d1 |-> d1, d2 |-> d2, data |-> [k \in 1 .. d2 \div 2 + (d2 % 2) |-> (37 * k) % 256],
   refs |-> refs]
OrdinaryCell(d2, refs) == SomeCell(Len(refs), d2, refs)

BocHeader(first, size, n, nroots) ==
  [first |-> first, offset_size |-> size, cells_count |-> n, roots_count |-> nroots]
GoodHeader(n) == BocHeader(1, 2, n, 1)

Headers ==
  {BocHeader(first, 1, 2, 1) : first \in {0, 1, 2, 9, 25, 33, 65, 129}}
  \cup {BocHeader(1, size, 2, 1) : size \in {0, 1, 8, 9}}
  \cup {BocHeader(1, 1, 2, n) : n \in {0, 2}}

Good ==
  <<OrdinaryCell(4, <<1, 3>>), OrdinaryCell(3, <<2, 3>>),
    SomeCell(40, 72, << >>), OrdinaryCell(0, << >>)>>

\* The second cell breaks a rule, or stands at its border.
Second ==
  {SomeCell(40, 72, << >>), SomeCell(40, 70, << >>), SomeCell(8, 4, << >>), SomeCell(16, 4, << >>),
   SomeCell(23, 4, <<2, 2, 2, 2, 2, 2, 2>>),
   SomeCell(34, 3, <<2, 3>>), SomeCell(232, 72, << >>)}
  \cup {OrdinaryCell(2, refs) :
          refs \in {<<1>>, <<2>>, <<3>>, <<4>>, <<0>>, <<2, 3, 3, 2>>, <<2, 2, 2, 2, 2>>, <<2, 1>>}}

Trees == {Good} \cup {<<Good[1], cell, Good[4]>> : cell \in Second}

Chain(n) == [k \in 1 .. n |-> OrdinaryCell(2, IF k = n THEN << >> ELSE <<k>>)]

WithCuts(header, cells_) ==
  LET whole == [header |-> header, cells |-> cells_, cut |-> 200]
  IN  {[whole EXCEPT !.cut = c] : c \in 0 .. Len(Encode(whole))}

SomeStreams ==
  UNION {WithCuts(GoodHeader(n), tree) : n \in 0 .. 5, tree \in Trees}
  \cup UNION {WithCuts(h, <<OrdinaryCell(2, <<1>>), OrdinaryCell(2, << >>)>>) : h \in Headers}
  \cup {[header |-> GoodHeader(n), cells |-> Chain(n), cut |-> 200] : n \in {16, 17}}

-----------------------------------------------------------------------------
(***************************************************************************)
(* Inputs of the harness: messages of every class of wallet, whole, cut    *)
(* after each cell, under every wallet type, and with a broken header.     *)
(***************************************************************************)
Host == INSTANCE Requests WITH
  app <- None, dc <- None, bc <- None, apdu <- None, ui <- None, flow <- None,
  reply <- [kind |-> "none"], sess <- None, Commands <- {}, Sent <- {}, MAX_DATA_LEN <- 1024

Request(kind, wallet) ==
  [kind |-> kind, wallet |-> wallet, wc |-> 0, to |-> to, amount |-> 5, owners |-> 1]

SomeRequests ==
  {Request("token", Host!WALLET_V3), Request("burn", Host!MULTISIG_2),
   Request("confirm", Host!SURF_WALLET), Request("deploy", Host!SAFE_MULTISIG_WALLET)}

Cut(items, n) == SubSeq(items, 1, IF n < Len(items) THEN n ELSE Len(items))

SomeInputs ==
  {[len |-> 0, wallet |-> 0, items |-> << >>], [len |-> 1, wallet |-> 7, items |-> << >>],
   [len |-> 9, wallet |-> 0, items |-> <<[Host!Header(1) EXCEPT !.roots_count = 2]>>]}
  \cup {[len |-> 9, wallet |-> w, items |-> Cut(Host!Message(r), n)] :
          w \in {0, 13, 16}, r \in SomeRequests, n \in {2, 4}}

-----------------------------------------------------------------------------
NoSlices  == data = None /\ start = None /\ round = None /\ pc = "idle"
NoReads   == asked = None /\ word = None /\ out = None
NoAppends == job = None /\ calls = None /\ text = None
NoStream  == /\ sent = None /\ stream = << >> /\ offset = 0 /\ count = 0
             /\ cells = << >> /\ next = "init" /\ err = None
NoFuzz    == /\ data_context = None /\ boc_context = None /\ input = None
             /\ current_context = None /\ outer = None /\ phase = "ready" /\ outcome = None

CellsInit ==
  \/ machine = "reads" /\ Slice_init /\ NoAppends /\ NoStream /\ NoFuzz
  \/ machine = "appends" /\ AppendsInit /\ NoReads /\ NoStream /\ NoFuzz
  \/ machine = "stream" /\ BocInit /\ NoSlices /\ NoReads /\ NoAppends /\ NoFuzz
  \/ machine = "fuzz" /\ FuzzInit /\ NoSlices /\ NoReads /\ NoAppends /\ NoStream

CellsNext ==
  /\ \/ machine = "reads" /\ ReadsNext /\ UNCHANGED <<ofAppends, boc, fuzz>>
     \/ machine = "appends" /\ AppendsNext /\ UNCHANGED <<ofReads, boc, fuzz>>
     \/ machine = "stream" /\ BocNext /\ UNCHANGED <<ofSlices, ofReads, ofAppends, fuzz>>
     \/ machine = "fuzz" /\ FuzzNext /\ UNCHANGED <<ofSlices, ofReads, ofAppends, boc>>
  /\ UNCHANGED machine

CellsSpec == CellsInit /\ [][CellsNext]_<<machine, ofSlices, ofReads, ofAppends, boc, fuzz>>
=============================================================================
