# Verification of the Everscale Ledger application

This directory holds TLA+ specifications of the Ledger application for the
Everscale network (the C code under `src/src/`), of its host client and its
fuzzing harness, TLC instances that check them, and proofs checked by TLAPS.
`PROJECT.json` lists runs, mutants, theorems, the map from definitions to source
lines, the hazards and the findings.

    tlc -workers 2 -config MCSessions.cfg MCSessions      # a run
    tlapm ScreensProofs.tla                               # the proofs of a module

File names below are relative to `src/src/` of the repository, except where they
begin with `client/` or `fuzzing/`, which are relative to `src/`.

## 1. The system

The application is a single thread on a device with a screen and buttons. A
host sends commands (APDUs) one at a time; the application answers each either
at once or after the user has reviewed it.

| Component | State | Operations | Interacts with |
|---|---|---|---|
| command loop, `main.c` | `boc_context`, `data_context` | `app_main`, `reset_app_context`, catching exceptions | receives from the SDK, calls the dispatcher |
| dispatcher, `apdu/dispatcher.c` | none | checks CLA, INS, P1, P2, Lc and calls a handler | handlers |
| handlers, `handler/*.c` | write `data_context` through the union member of their command | GET_APP_CONFIGURATION, GET_PUBLIC_KEY, GET_ADDRESS, SIGN, SIGN_TRANSACTION in chunks | wallet addresses, messages, review screens |
| review callbacks, `ui/action/validate.c` | none of their own | `validate_*` on the user's choice | sign, send the answer, reset |
| screens, `ui/display_*.c`, `ui/menu_*.c` | two buttons: the flow, its step, the static `g_validate_callback`; touch: the static `pairs` and list, the page | open a review, turn pages, decide, status page, menu | handlers open them, they call `validate_*` |
| responses, `helper/send_response.c` | none | copy out, reset, send | SDK |
| cells, `cell.c`, `slice_data.c`, `byte_stream.c`, and `deserialize_cells_tree` of `contract.c` | `boc_context`: cells, hashes, depths | read and append bits, check cells, hash a tree | wallets, messages |
| wallet addresses, `contract.c`, `hashmap_label.c` | `boc_context`: key cell, its data and label | `get_address` and the dictionary walk | SDK key derivation |
| messages, `message.c` | the review strings and `to_sign` in `data_context` | `prepare_to_sign` and its parsers | cells, amounts |
| amounts, `utils.c` | local arrays | `convert_hex_amount_to_displayable` | messages |
| keys and signatures, `utils.c`, `validate.c` | none | SDK calls that may fail | |
| host client, `client/src/main.rs` | what one run has got so far | its subcommands: commands, answers and a look at the network | the application, the network |
| fuzzing harness, `fuzzing/fuzzer.c`, `os_mocks.c` | the two globals, `current_context` | one input after the other through `prepare_to_sign` | messages, cells |
| functional tests, `tests/` | none | scripts | not modelled |

What makes it hard:

* **One union for all commands.** `data_context` is a C union of the contexts
  of four commands, and a SIGN_TRANSACTION session spans several commands.
  Any command may come between two chunks and writes into the same bytes.
* **A second global, reused.** `boc_context` serves first to compute the
  wallet's address and then to hash the message; depths in it are only raised.
  The fuzzing harness never clears either.
* **Exceptions.** `VALIDATE` throws in the middle of a handler; `app_main`
  answers with the code and returns. What was assigned stays until the restart.
* **Answers that are owed.** With `IO_ASYNCH_REPLY` the answer comes from a
  button callback, which uses the context as it is then.
* **Statics behind the screens.** All reviews share the steps Approve and Reject
  and one pointer to a callback, or one array of pairs; their texts are pointers
  into `data_context`. A status page may be on the screen while commands come in.
* **Refusals keep the context.** Only a positive GET_PUBLIC_KEY or GET_ADDRESS
  and a first chunk reset it.
* **Parsing by position.** The parsers decide by counts of bits, cells and
  references which cell a value is in.
* **Bits at odd positions.** Values are read across bytes without a mask, cells
  are shifted to put 267 bits in front, and the last byte carries a tag.
* **In-place conversion.** Amounts are converted by double dabble with a moving
  lower bound, and cut into a text by two loops with bounds in a `uint8_t`.
* **A client without memory.** A transfer is three commands with a look at the
  network in between; a run may end after each, and the next one finds the
  device as it was left.

Concurrency in the sense of threads there is none, and nothing is persisted.

What would make each component correct: the session's header and buffer are
those of its chunks (loop, handlers); an answer belongs to its command and a
signature to what was approved (callbacks); what was approved was on the screen
(screens); every command is answered (loop, screens); what is read and appended
are the bits that are there, and a tree is accepted only if the stream holds it
(cells); addresses and hashes depend on nothing but their input (cells, wallets);
each well-formed request is reviewed and shown as what it is (messages); the text
is the number (amounts); what a run sends is made of its own key, address and
signature (client); a report depends on its input alone (harness).

## 2. The modules

```
Context --> Cells --> Wallet --+
                               +--> Message --> EverscaleApp --> Requests --> MCSessions, MCMessages
                    Amount ----+       |          |      |          |             |
                      |                |          |      |          +--> HostClient --> MCHostClient
                      |                |          |      +--> SigningDevice (abstract)
                      |                |          +--> Display --> DisplayBagl, DisplayNbgl
                      |                |                               |
                      |                |                            Screens --> MCScreens
                      |                |                                     (with MCMessages)
                      |                +--> FuzzHarness ---------+
                      |   Bits --> Slices --> SliceLoop          |
                      |                         +--> SliceReads -+--> MCCells
                      |                         +--> Appends ----+
                      |   Cells --> BocBytes --------------------+
                      +--> Decimals --> AmountLoop --> AmountText --> MCAmounts

Proofs:  EverscaleAppProofs --> ScreensProofs (Screens)
         EverscaleAppProofs --> RequestsProofs (FuzzHarness too) --> ClientProofs (HostClient)
         Counting --> RequestsProofs, BocProofs (BocBytes)
         SliceProofs (SliceReads, Appends)
         AmountProofs (AmountLoop, AmountText)
```

| Module | Models | Correspondence |
|---|---|---|
| `Context` | the union of `globals.h` | a record with a field `<member>_<field>` for each field of each member; `Layout` gives C offsets; `Write` assigns fields and turns every other field that shares a byte into `Junk` |
| `Cells` | cells, slices, `deserialize_cells_tree`, `calc_cell_hash` | a cell's data is a sequence of fields (width, value); a slice is a cursor. A misaligned read gives `Junk`. SHA-256 is an injective term |
| `Wallet` | `get_address` and everything below | the embedded trees cell by cell, the walk along the all-zero key, the key put into the leaf, hashing from leaf to root |
| `Amount` | `convert_hex_amount_to_displayable` | the same loops on sequences of digits; a text is a sequence of digits and `Point` |
| `Message` | `message.c` | a parse state is a slice with the strings written so far and the error; a step after an error does nothing, as nothing runs after a throw |
| `EverscaleApp` | `main.c`, dispatcher, handlers, callbacks | the state machine: one action per handler and per callback |
| `SigningDevice` | nothing in particular | abstract: one request at a time is reviewed, and a signature comes out only as the answer to an approval, over that request |
| `Requests` | the host | what a host's message for a request looks like, and reference definitions of what should be shown, signed and answered, written without the device's loops |
| `Display` | what both builds share | a page is a title and a text, which is a constant or a field of `data_context` and is read when the page is shown; `seen` is a ghost |
| `DisplayBagl` | `display_bagl.c`, `menu_bagl.c` | the flow on the screen as a list of steps, the step shown, `g_validate_callback`; buttons left, right and both |
| `DisplayNbgl` | `display_nbgl.c`, `menu_nbgl.c` | the static `pairs` and `nbPairs` (not used by the review of an address), the use case and its callback, swipes and choice, the status page |
| `Screens` | `HAVE_BAGL`, `HAVE_NBGL` | the device has the screens of one build, chosen at the start |
| `Bits`, `Slices` | `slice_data.c` and the copying loop of `message.c` on machine words and bytes | a word is a function from bit numbers; shifts and conversions lose what C loses |
| `SliceLoop` | what both of these share | the slice, and how far a loop over its bytes has come |
| `SliceReads` | `SliceData_get_next_int`, `deserialize_value` | calls in any order, one step per round of their loops |
| `Appends` | `SliceData_append`, `prepend_address_to_cell`, the cell of the public key | one step per `memcpy` or round |
| `BocBytes` | `byte_stream.c`, `deserialize_cell`, `deserialize_cells_tree` | byte by byte over an encoded stream, next to `Cells` over whole cells |
| `AmountLoop` | the bit loop of the conversion | one step per bit |
| `AmountText` | the rest of it, `set_amount`, and the C string on the screen | the loops over `scratch` round by round, the arrays with their NULs |
| `Decimals` | nothing | decimal notation by division, the reference |
| `HostClient` | `client/src/main.rs` | a run is in one of its calls, sends commands of `EverscaleApp`, reads answers, looks at the network |
| `FuzzHarness` | `fuzzing/fuzzer.c`, `os_mocks.c` | one input a cycle: begin, try, catch, with the context that `os_longjmp` goes to |
| `MC*` | | the instances for TLC |
| `*Proofs` | | theorems |

Some operators are named *Mutant* in their comment. They are broken variants of
the definition next to them (a lost reset, an off-by-one, a swapped account), and
no specification uses them: they document which bug each property would notice.

### State and actions of `EverscaleApp`

`dc` is `data_context`, `bc` is `boc_context`, `apdu` the command received and
not yet answered, `ui` the menu or the review that is open, `flow` what the
transaction review shows, `reply` the last answer (its status word, what kind of
answer it is, its data and to which command), and `app` whether `app_main`
runs. `sess` is a ghost: header, parts and length of what the host sent since the
last reset, and whether another command wrote to the context since the first
chunk (`intact`). No action reads it to decide anything.

A handler is one action because nothing runs between its first and last line:
buttons are served inside `io_recv_command` only. A throw is part of the action
(`Throw`): the answer, the contexts as far as they were assigned, and the end of
`app_main`; `app_main` is the restart. The SDK is lock-step: `Receive` is enabled
only when the last command has been answered, which includes the SDK's refusal of
commands during a review.

Key derivation and signing succeed or fail by choice (`derived`, `signed`). Where
the code may read a byte that another command has left there (the flag
`sign_with_chain_id`, when chunks follow a SIGN), both values are tried.

A message chunk is a sequence of message items (boc header, cells) with a length;
chunk boundaries fall between items. Bytes of a boc never overlap two meanings in
the model, so a stream that begins inside a boc is refused, as it is by the code
for the cells in use. What streams cut inside an item do is `BocBytes`' subject.

`sign_context.chain_id` is never used by the code and is left out.

### The screens

`DisplayBagl` and `DisplayNbgl` EXTEND the application, and `Screens` is the device with
one or the other: every handler that opens
a review is conjoined with the `ui_display_*` function it calls, every return to
the menu with `ui_menu_main`, and the decision of the user is no free choice any
more but a press on the step Approve or Reject, or the choice behind the last
page. It calls the callback *the screen holds*, which the application's own
specification does not know: that the composition is still the application
(`IsApplication`) is what says that it is the right one.

### Two levels of cells

`Cells` has data as fields, because the parsers and hashes of a whole message must
run in TLC. What it abstracts is checked on its own: that a read at any position
is the bits there (`SliceReads`), that what is put together bit by bit is the
concatenation (`Appends`), and that accepting a stream byte by byte and accepting
its cells are the same, wherever it is cut (`BocBytes`, `TreeIsItems`). A root cell
of whole bytes gets no completion tag when the address is put in front, which
`Cells` marks with a field of width zero and `CellIsText` shows on bits.

### The client and the harness

A run of the client goes through the calls of its subcommand and gives up at the
first error. The library that makes APDUs of its calls is external: a message may
be sent whole or in two chunks. A run for `SURF_WALLET` fails where the client has
`unimplemented!()`. A run may be interrupted between two calls, and the application
closed at any time; nothing else connects two runs. Interruption inside a call is left
out: what then becomes of the answer is up to that library and the transport.

The harness calls the parser with contexts it never clears. `fuzzer.c` keeps the
previous exception context in `BEGIN_TRY`, and `os_mocks.c` keeps where to jump to:
both are variables of `FuzzHarness`.

## 3. Runs

| Run | Instance | Question |
|---|---|---|
| `sessions` | `MCSessions.cfg` | Does a chunked session survive everything that may happen between two chunks, do answers belong to their commands, and is the whole a signing device? |
| `messages` | `MCMessages.cfg` | Is each kind of request of each class of wallet reviewed, shown as what it is, and its hash what is signed? Is every wallet type's address right when `boc_context` is clean? |
| `screens` | `MCScreens.cfg` | Does the screen of either build show and decide the review that is open, and is every command answered? |
| `amounts` | `MCAmounts.cfg` | Is what the screen reads the amount and the ticker? |
| `cells` | `MCCells.cfg` | Are bits read and appended as they are, and streams accepted only for what they hold? Does a report of the harness depend on its input alone? |
| `host_client` | `MCHostClient.cfg` | Is what a run of the client sends its own, whatever runs came before, and does each end? |
| `stale_depth` (violation) | `MCStaleDepth.cfg` | Is an address right whatever ran before? |
| `chunks` (violation) | `MCChunks.cfg` | Is the buffered message what is signed even if another command ran in between? |
| `deploy` (violation) | `MCDeploy.cfg` | Does a review with an amount show one? |
| `no_recipient` (violation) | `MCNoRecipient.cfg` | Was the recipient that is shown read? |
| `full_ticker` (violation) | `MCFullTicker.cfg` | Is a ticker of the full length shown as itself? |
| `p2_bits` (violation) | `MCP2Bits.cfg` | Do the comments in the dispatcher on P2 hold? |

Properties and where they are stated:

* `EverscaleApp`: `TypeOK`; `BufferIsSession` (buffer = parts of this session's
  chunks, always one byte free); `HeaderSurvives` (account, wallets, token,
  addresses = those of the one complete first chunk); `ReviewIsSession` (a review is
  what a device that was just started would make of the session's chunks sent as one
  message, and nothing less of them would have been reviewed); `AnswersMatch`;
  `IsSigningDevice` (refinement of `SigningDevice`).
* `Requests`: `PayloadIsTree` (what an undisturbed session signs is the hash, by
  recursion over the tree, of the cells its chunks add up to), `PayloadIsMessage` (and
  that is the hash of the request the host holds), `ReviewShowsRequest`,
  `RequestsAreReviewed`, `AddressFromCleanBoc`. `MessagesAreRead` and
  `AddressesAreRight` are no properties of behaviours but of the constants: what
  `message.c` shows of each message alone, and what `contract.c` makes of the wallet of
  each header. TLC evaluates them as assumptions: the first in `sessions` for its message,
  both in `deploy` for every request of `MCMessages` under every header.
* `Display`: `AnswerWasShown` (what leaves on an approval was on pages of this
  review), `EveryCommandAnswered`, `IsApplication` (the composition refines
  `EverscaleApp`). `Screens`: `ScreenIsReview`, which is `StepsAreReview` of
  `DisplayBagl`. `DisplayNbgl`: `PairsAreReview`.
* `AmountLoop`: `LoopTypeOK`, `ScratchIsDecimal`, `TextIsValue`, `DigitsDouble`.
  `AmountText`: `LoopsStayInside`, `LoopsWriteText`, `ShownIsAmount`.
* `SliceReads`: `IntIsBits`, `ValueIsBits`. `Appends`: `AppendedIsText`,
  `CellIsText`. `BocBytes`: `CellsInStream`, `TreeIsItems`. `FuzzHarness`:
  `OutcomeIsInputs`.
* `HostClient`: `SentIsSigned`, `RunsEnd`.

### Bounds

* `MCSessions`: lengths are scaled. A block is 3 long and the buffer 9
  (`MAX_DATA_LEN`), so two blocks fit and the third would fill the last byte, which
  is the border of the check; `SCRATCH_SIZE` 6 and `AMOUNT_STR_SIZE` 8 keep the
  conversion short. There is one message (three items, so two chunks), two headers —
  one bare, one with every option and a wallet whose address takes the path that
  leaves most in the contexts — one that ends too early, and every other command in
  a successful and a failing form. Chunks may repeat, come without a first one, or
  after a signature. This is enough for every order of two writers of the union.
* `MCMessages`: the sizes are those of the code, requests come whole, and amounts sit
  at the borders of the encodings: zero, one byte, two bytes, more digits than
  decimals and fewer. Addresses are asked of all wallet types, and of one with a
  review, so that every type meets a clean and a used `boc_context`. Two deploys for two
  owners are sent too, so that `PayloadIsTree` meets a tree that forks. The run `deploy`
  has every request under every header, and two deploys for two owners besides, so that
  `MessagesAreRead` is evaluated for more than the other run sends.
* `MCScreens`: the sizes of the code; one command for each review, each flow of a
  transaction, an answer at once and a throw, so that every ordered pair of reviews
  occurs in both builds. The user turns pages in either direction. `MAX_PAGES` is
  the length of the longest flow.
* `MCAmounts`: four digits of scratch for 37, seven bytes of `amount_str` for 40,
  three bytes of ticker for 10; each leaves the same room at the same borders. Behind
  `amount_str` lie zeros or an id. All
  amounts up to `MAX_VALUE` 2500, so that numbers occur that need the first digit,
  which the conversion refuses; decimals 0 to 5 and 255.
* `MCCells`: slices of ten bytes, so that 64 bits fit at a position that is no byte
  boundary, with two complementary contents; roots whose tag stands at each place of
  the last byte; labels of every odd length up to 23; the trees of `SomeStreams`, each
  breaking one rule or standing at its border, under headers that declare 0 to 5
  cells, cut after every byte; 16 and 17 cells for the bound of 16; for the harness
  four messages under three first bytes, whole and cut.
* `MCHostClient`: one run of each kind in any order, with wallets whose addresses
  take each of the three ways, a message that is signed with the address in front, and
  a wallet that the client does not implement.
  The premise of `SentAlwaysSigned` is evaluated on these runs (`TheirsAreWhole`).

`MCAmounts`, `MCCells` and the run on the full ticker stop (a machine that has
finished its input), so they have `CHECK_DEADLOCK FALSE`. All others are checked for
deadlock.

### Fairness

* `screens`: the loop handles what it has received, stated as `[]<>~Fresh`. This is
  weak fairness of the handlers with the enabling condition written out; that `Fresh`
  is that condition is checked by the absence of deadlock in the same run, where a
  fresh command that no handler takes would stop, as nothing else is enabled then.
  The user turns pages as he likes but does not go back and forth between the same
  two for ever (`SF` of leaving each page forward), and one who comes to a decision
  again and again takes one (`SF` of `TakeDecision`): without such a user no answer
  can be due. That a decision *can* be reached, in every flow and from every page, and
  leads to an answer, is the code's part. Nothing is asked of the host or of a restart.
* `host_client`: the same of the loop, of a review that it is decided, and `WF` of the
  run's own next step, which is a straight-line program. Interrupting is not fair,
  and neither is closing or opening the application.

### Disagreements between code and its comments or documents

1. `stale_depth`: `calc_cell_hash` (`cell.c:134`) takes the maximum of the stored
   depth and that of the children, and GET_ADDRESS does not clear `boc_context`
   first. If the address of a deep wallet is rejected and the address of a flatter
   one is asked next, the answer is not that wallet's address. In the client this
   reaches `get address`, `get balance` and `get token balance`, whose first command is
   GET_ADDRESS (`main.rs:497, 509, 713`), but nothing that is sent: the runs that send
   or deploy begin with a GET_PUBLIC_KEY, which resets the context (`SentIsSigned`).
2. `chunks`: likewise, a GET_ADDRESS rejected between two chunks changes the hash
   of the message that the last chunk completes. (`PayloadIsMessage` shows that it
   takes another command in between.)
3. `deploy`: the constructor call of a multisig wallet for two or more owners has a
   third cell, which is taken for a token body; the review becomes a transfer with
   an amount that nobody has written.
4. `no_recipient`: `deserialize_address` assigns nothing for `addr_none`, and the
   recipient is shown all the same.
5. `full_ticker`: a ticker of ten bytes is let through and fills its array, the last
   one of `data_context`, without a NUL; what follows is taken for ticker.
   `ShownIsAmount` shows that every shorter ticker is right (see below for amounts
   that fill their array).
6. `p2_bits`: a chunk with P2_EXTEND and P2_MORE is taken as an intermediate chunk (as
   `doc/api.md` says), without a first one too; two comments in the dispatcher exclude
   that.

Each has a run with one property that TLC finds violated.

Also observed, without a property: a confirm call of an EVER_WALLET, MULTISIG_2 or
MULTISIG_2_1 whose arguments share the root cell is refused with
ERR_INVALID_CELL_INDEX. And an amount that fills `amount_str` to its last byte has no
NUL there, so that what is shown goes on with `transaction_id_str` unless that is zero;
it is, but for a confirm call with a token body behind it (`message.c:333-344,
546-556`), which has an id and shows an amount. `ShownIsAmount` names this condition.

## 4. Proofs

Each theorem holds for every value of the constants that satisfies the named
assumptions.

**`EverscaleAppProofs`** — for every set of commands, every buffer size, every length
of a session:

* `WellTyped`: `Spec => []TypeOK`
* `BufferAlwaysSession`: `Spec => []BufferIsSession`
* `HeaderAlwaysSurvives`: `Spec => []HeaderSurvives`

From `AppAssumption`: the buffer has a positive size, `None` is no command, chunk
lengths are natural numbers, and a first chunk carries a header (of which
`present` tells how much is there). The inductive invariant is `AppInv ==
TypeOK /\ BufferIsSession /\ SessionKept`, `SessionKept` being `HeaderSurvives` over
an explicit set of fields. The conjuncts need each other: `TypeOK` bounds the write
position only because `BufferIsSession` keeps a byte free, and the contents follow
only if the position is that of the session. The heart of the argument is the layout:
`PrivateLayout` shows that no other field of the union shares a byte with the private
fields (the header's and the buffer's), `WritePrivate` that a write elsewhere
therefore leaves them alone. An action then either keeps the private fields
(`UndisturbedKeeps`), or resets (`ResetKeeps`), or throws (`ThrowInv`, where only
typing is due), or is a chunk (`ChunkLemma`, `AppendLemma`, over `ReadHeaderLemma`,
which follows the header item by item with `StepLemma`). `AddressNeedsKey` shows
that no address comes back when the key could not be derived, so that the address
kept is the wallet's own.

Two more theorems of this module are about answers:

* `AnswersAlwaysMatch`: `Spec => AnswersMatch`
* `AlwaysSigningDevice`: `Spec => IsSigningDevice`

Both need more than `AppInv`: the callback reads the context, so the context must
still be that of the command under review when it does. `SigningInv == AppInv /\
AnswerOwed /\ ReviewIsCommand` says so: an open review belongs to a command that is
not answered, and key, account, prepared bytes and chain id in the context are those
of that command. The invariant is established where a handler opens a review and kept
because nothing is received while one is open. `PreparedParts` shows that a chain id
stands in front of what is prepared if and only if the flag is set, over all branches
of `prepare_to_sign`, so that the callback signs all of what was prepared. The
refinement then maps every decision to a decision of the device, every opened review to
a request, and everything else to a stutter.

**`ScreensProofs`** — for every set of commands, in either build:

* `ScreenAlwaysReview`, `PairsAlwaysReview`: `ScreensSpec => []ScreenIsReview`,
  `[]PairsAreReview`: the buttons, or the list, are those of the review that is open,
  whatever earlier reviews left in the statics
* `ScreensAreApplication`: `ScreensSpec => IsApplication`. The application under its
  screens implements `EverscaleApp`, and so, with the theorems above, everything
  proved of it holds under the screens
* `ApprovalsWereShown`: `ScreensSpec => AnswerWasShown`

Each rests on the same theorem for each build on its own (`StepsAlwaysReview`,
`BaglIsApplication`, `PressesWereShown`; `ListAlwaysReview`, `NbglIsApplication`,
`ChoicesWereShown`): the build is chosen once and the statics of the other one never
change. The invariants add to `SigningInv` which flow is on the screen (`FlowOnScreen`), or
that the first `nbPairs` pairs are those of the review (`PairsOnScreen`), and that
every step up to the one shown has been seen with the text it has *now*: the texts are
fields of the context, which do not change while a review is open. Approve stands
behind all pages of its flow, so whoever is there has seen them; `ApprovalWasShown`
turns that into what the answer carries. `HandleOpens` and `CallbackDecides` are the
two facts about `EverscaleApp` that both builds rest on. Leaving out the assignment of
`g_validate_callback` makes the proof of `BaglInv` fail at the step that opens the
review.

**`SliceProofs`** — for every size and content of a slice up to 255 bytes, every
position and every number of bits or bytes:

* `ReadsAlways`: `ReadsSpec => []ReadsInv`
* `EveryIntIsBits`, `EveryValueIsBits`

The invariant says how much of the result is right after each round: of an integer
the bits from the top, of a copied value all but the last bits of its last byte, which
the next round, or the end, completes. `BitAtPlace` and the lemmas after it say what
each operator of `Bits` does to one bit; that bits are not masked when they come from
two bytes does no harm because the conversion to a byte and the shift that follows
push the surplus out.

The other half is on appending, for every root cell and address, and every public key
behind every label, that `JobsAssumption` allows (data that is bytes, no longer than
its size byte can say, and a label that ends inside the cell):

* `AppendsAlways`: `AppendsSpec => []AppendsInv`
* `EveryAppendedIsText`: `AppendsSpec => []AppendedIsText`
* `EveryCellIsText`: `AppendsSpec => []CellIsText`

Here the ghost `text` is what has been appended, bit by bit. `TextSoFar` says that the bits
before the cursor are the text, and, while a loop runs, how far beyond the cursor the bits
of the running append are in place: a byte appended between two byte boundaries is written
in two halves, and the bits that are cut off at a byte's end are missing until the next
round. `Progress` says which appends are left and which bit of which part each bit of the
text is (`RootBit`, `KeyBit`). `RootIsText` and `KeyIsText` turn the bits into the cell that
is hashed, with its tag and its size, which is a byte and wraps (`SizeOf`); `Fits` says when
it does not.

**`BocProofs`** — for every stream of bytes that encodes a header and cells of any
kind, good or broken, with any number of references, cut anywhere (`StreamsAssumption`):

* `CellsAlwaysInStream`: `BocSpec => []CellsInStream`
* `TreeAlwaysItems`: `BocSpec => []TreeIsItems`

The byte machine knows nothing of items; the model of whole cells knows nothing of bytes.
`StreamIsLaid` says where in the stream each byte of each cell stands (`Begins` is the sum
of the encoded sizes before it), however much of the end is missing. `CellVerdict` then
says which code the byte machine throws at the cell it stands before, and `ItemVerdict`
which one `deserialize_cell` of `Cells` finds in the item: both are the same question
(`Sound`). What is to be shown is that the loops ask it of the same cells in the same
order and end at the same one. `BocInv` has a stage for the header (`HeaderStage`, field by
field), one for the cells (`CellStage`: those before the cursor are whole and sound, and the
cursor stands where the next begins), and one after a throw (`ThrownStage`, the code is that
of the items); `TreeOf` writes out the result on the items, which is the first that is not
sound. The reference count of the item is the number of bytes in the stream that are left
for it, which makes a cell that ends with the stream the hard case (`CellHere`). This proof
found the model wrong in one place: `deserialize_cell` takes a `d1` with level bits (32 and
up) for an ordinary cell, which the item's class did not; the streams of `MCCells` now have
such cells.

**`AmountProofs`** — for every size of `scratch` above two and every input:

* `LoopAlwaysDecimal`: `LoopSpec => [](LoopTypeOK /\ ScratchIsDecimal)`
* `EveryBitDoubles`: `LoopSpec => DigitsDouble`

The conjunction is inductive: the digits stay below ten only because they were before
the round, and the cells left of `smin` stay zero only because `smin` moves when the
digit there reaches five (eight after the correction).

The same module goes on to the characters — for every size of `scratch` up to 255,
every array with room for two characters more, every amount, number of decimals, and
ticker:

* `LoopsAlwaysInside`: `TextSpec => []LoopsStayInside`
* `LoopsAlwaysText`: `TextSpec => []LoopsWriteText`
* `ShownAlwaysAmount`: `TextSpec => []ShownIsAmount`, if every ticker is shorter than its
  array or has a NUL in it (`full_ticker` shows that it takes this), for every content
  of `transaction_id_str`, which has a NUL somewhere and, for a text that fills
  `amount_str`, at its start

From `AmountTextAssumption`. The invariant `TextInv` adds to `LoopInv` what the text is
after each round (`Stripped`, `Fraction`). The loops are bounded by a `uint8_t` that wraps
(`Wraps`): with too many decimals the integer loop cannot end, since `offset` equals its
counter and scratch is shorter. The fraction ends where the look-ahead finds zeros only,
and the round before had found something else (`TextParts`), which is why the last digit
written is the last that counts. That the cursor of the look-ahead and the cursor of the
digit agree is the conjunct `offset = workOffset + i`. For the C strings, `StringOf` says
which string is in an array that ends with, or before, its first NUL, and `FirstNul` that
there is one. These theorems are about the text of the digits.

The last part is that the digits are the number, for every size of `scratch` above two
and every amount:

* `LoopWellTyped`: `LoopSpec => []LoopTypeOK`
* `TextAlwaysValue`: `LoopSpec => []TextIsValue`
* `TextIsLoop`: `TextSpec => LoopSpec`, so that this holds of the text on the screen

Double dabble never computes the number that its digits spell, so the invariant
`ValueInv` has it as a witness: there is a sequence of numbers `v`, each ten times the one
before plus the next digit (`Horner`), whose last is the number shifted in. A round
doubles each `v[k]` and adds the carry into place `k` (`DoubledValue`), and a carry out of
the last digit means that the number has as many digits as scratch (`TooLarge`). The
reference `DecimalText` divides instead, so `Quotient` and `Remainder` show that dividing
by a power of ten cuts the digits in two, and `WidthIs`, `IntegerDigits` and
`FractionDigits` that what the loops leave out are the zeros the reference leaves out.
What is defined by recursion here, `Horner` and the powers of ten, needs induction. The
library's induction theorem takes a predicate, which the provers cannot instantiate; a
*set* of numbers they can, so `EveryNumber` says that a set that holds 0 and with each
number the next one is all of `Nat` (it has no least number outside), and each induction
is about such a set.

**`RequestsProofs`** — for every set of commands, chunks of any number, length and
contents:

* `ReviewAlwaysSession`: `Spec => []ReviewIsSession`
* `PayloadAlwaysTree`: `Spec => []PayloadIsTree`
* `PayloadAlwaysMessage`: `MessagesAreWhole => (Spec => []PayloadIsMessage)`
* `ReviewAlwaysRequest`: `MessagesAreRead => (Spec => []ReviewShowsRequest)`
* `AddressesAlwaysRight`: `AddressesAreRight`
* `AddressAlwaysFromCleanBoc`: `Spec => AddressFromCleanBoc`
* `OutcomeAlwaysInputs`: `FuzzSpec => []OutcomeIsInputs`

The first has no premise. It reduces every behaviour to one command on a fresh device:
however the message was cut, whatever ran before the session or (unless what is signed
is asked for) between two chunks, the review is the one of all chunks as one message. Only
a session of which a part was fit for a review already (`PartReviewed`) is left out: what
that review wrote stays in the context. The invariant `SessionInv` says of any other open
session that its header was read (`WellOpened`) and that the strings of the review are as
the restart, or the other command, left them (`Unreviewed`); the fields of header and
buffer are those of the session by `AppInv`. If the session is undisturbed, `boc_context`
is all zero, because it is cleared after the wallet's address and nothing but a review
fills it. Once a review is open (`Reviewing`), the strings are those the fresh device
would write. The lemmas
named `...Alike` show of each parser that it depends on those fields only and writes the
same strings; those named `...Aside` show that reading the header leaves the rest alone.
`Junk` in the review strings of a disturbed session makes no difference to its review,
which is why `SessionReview` has the two values of `left`.

`PayloadAlwaysTree` has no premise either: whatever proper tree the chunks add up to, of
whatever message, its hash is what is signed. Proper means what the parsers need: ordinary
cells, whole, with up to four references, each to a later cell that is there
(`ProperTree`), and, where the address is put in front, a root that ends inside a byte;
`prepend_address_to_cell` with a root of whole bytes adds a byte (see `CellIsText`). The
argument has three steps. `SessionShown` reduces the behaviour to `prepare_to_sign` on the
session's chunks; `SignedTree` follows `prepare_to_sign` to the cells that are hashed
(`SentAreRead`: the stream is read back cell by cell) and to what is written in front of
the hash; and `TreeHashed`, below, says what the loop makes of them.

`PayloadAlwaysMessage` adds that every message of a host is such a tree, whatever its
amount, recipient, kind and wallet (`EveryMessage`), the deploy for two owners included;
`RootBits` adds up the fields of the calls to show that none fills its last byte. One
premise is left, a formula about the constants without variables, which TLC evaluates
(see above, and `TheirsAreWhole` of `MCHostClient`). `MessagesAreWhole`: no proper part
of a message would be reviewed by itself; the run `deploy` has one that would.

`ReviewAlwaysRequest` rests on `MessagesAreRead`, that the parsers show each message alone
as what it is: which requests satisfy it is a question to the parsers, not to the
interleaving.

Its middle part, on trees of cells — for every bag of up to sixteen ordinary cells:

* `TreeHashed`: from a clean context, the loop of `prepare_payload_hash` leaves in
  `hashes[0]` the hash of the tree, and no error

The loop goes from the last cell to the first and finds depths and hashes of the children
in arrays that it fills as it goes; `TreeDepths` and `TreeHashes` go down from the root. The
loop is a function of the number of cells done, so the invariant is about each stage: the
cells done have the depth and the hash of their subtree, and the others have depth zero.
The stage before a cell has done all its children, because references point forward, and
the depth of the cell itself starts from zero, because the context was clean: this is
where the proof needs what the run `stale_depth` shows the program to lack. `Raise` works
on a `uint8_t`; that depths stay below the number of cells is shown along with it. The
functions of the reference are chosen by their equations, so `DepthsExist` and
`HashesExist` build functions that satisfy them, from the last cell up.

Then the addresses, which are hashes of such trees too. `CleanAddress` says that from a
clean `boc_context` `get_address` finds, for every account and wallet type, what
`WantedAddress` writes out, or throws (`ERR_INVALID_WALLET_TYPE`); both theorems follow,
the first because a header that was read has had its address found (`FoundByHeader`), the
second because nothing else answers or shows a GET_ADDRESS. For the multisig wallets the
argument goes through `contract.c` in its order: the embedded boc is read whole
(`PlainRead`, `ForkedRead`); a label is read as it was written (`LabelRead`, from where
each of its fields begins: `LabelSums`); the walk finds the cell of key 0 in one or two
steps (`PlainFound`, `ForkedFound`) and stays there (`WalkEnds`); the key takes the place
of as many bits behind the label (`KeyPutIn`, `KeyFits`); and the loop that hashes, with
the hash and depth of the code behind the last cell, comes to the root's hash (`PlainHash`,
`ForkedHash`, by the lemmas on trees). For these proofs `put_to_node` is the
iteration of one of its calls (`visit`): it calls itself last of all, on a cell with a
higher index (`deserialize_cell` refuses references that do not point forward), so as many
calls as there are indices are enough for any dictionary.

`OutcomeAlwaysInputs` uses the same lemmas for the harness: two runs of the parser on one
input, in whatever contexts the inputs before have left, end alike, because what it reads
of them it has written first, and the depths it does not clear go into a hash only.

**`Counting`** has what the proofs on sequences of cells need of numbers: an induction over
a set of numbers, and the existence of functions that are defined by their value before,
such as the sum of the bits of a cell.

**`ClientProofs`** — for every set of runs, with any accounts, wallets and requests:

* `SentAlwaysSigned`: `MessagesAreWhole => (ClientSpec => []SentIsSigned)`
* `ClientIsHost`: `ClientSpec => Spec`

The second one makes the theorems on `Spec` theorems on the client with its application:
a run only asks for signatures when it is to send (`AsksInTurn`), so each command it sends
is among `Commands` (`RunsAssumption`). The first one combines `SessionInv` with an
invariant on what is between the two, `ClientInv`. While a command is with the device it
is the one of the call that the run is in (`CommandAsked`); what a positive answer not
read yet says is what the run needs next (`AnswerGot`); and between two calls the run has
got its own key and address, and the device keeps for it what the next call relies on
(`RunHolds`). This is twice something that an earlier run could have spoilt. GET_ADDRESS
needs the contexts as `reset_app_context` leaves them, which is so because the run's first
command was a GET_PUBLIC_KEY without confirmation, and because nothing between the two
touches them: closing the application does not, and opening it cleans them again. The
second of two chunks needs the session of the first, or none: if the application was
closed and opened in between, the second half stands alone in the buffer, and is refused
since it begins with a cell (`NotABag`). The session of an approved review is then that
of the run's own message (`WholeSession`), and `SessionPayload`, of
`RequestsProofs`, says what is signed. `CutInTwo` is about sequences: two chunks add up
to the message.

**Only model-checked:** liveness (`EveryCommandAnswered`, `RunsEnd`), which needs
ENABLED; and what the parsers show of a given message, for the requests of `MCMessages`
(`MessagesAreRead`, `RequestsAreReviewed`).

## 5. Not modelled

* Cryptography: SHA-256, keys and signatures are injective terms, and each call of the
  SDK may fail.
* The SDK's transport (APDU framing, the ticker, events), and how it draws: icons, fonts,
  line breaks, and how it spreads pairs over pages (one a page here, in the order of
  the list).
* Dictionaries other than the embedded ones, and labels at the level of bits:
  `put_to_node` and the labels' slices (fill, truncate, equal) only ever meet the
  trees embedded in `contract.h`, which `Wallet` has cell by cell.
* The ledger library below the client, the network, and the client's own signing of
  messages; they are external in the model.
* The functional tests, which are straight-line scripts. They were read for what they
  say of the program.
* The byte-order helpers of `utils.c`, arithmetic on fixed sizes.

## 6. What is left

That the parsers read each kind of request as meant (`MessagesAreRead`,
`RequestsAreReviewed`), field by field for every amount, recipient and payload, the way
`LabelRead` does it for a label.
