# A formal model of u-connectClient

TLA+ modules that model u-connectClient, TLC configurations that check them on
small instances, and TLAPS proofs of most of the safety properties for every size. All
source paths below are relative to the repository.

    tlc -config MCUrcQueue.cfg MCUrcQueue.tla     one run, see "Runs"
    tlapm UrcQueueProofs.tla                      the proofs of a module, see "Proofs"

## 1. The system

| Component | State it keeps | Operations |
|---|---|---|
| AT client, `src/u_cx_at_client.c` | `cmdMutex`, `executingCmd`, `status`, the expected response, the RX line, the binary transfer, `opened`, `cmdTimeout` | execute, begin / get response / end, `HandleRx`, `HandleRxAvailable`, open, close, set the callback and the timeout |
| URC queue, `src/u_cx_at_urc_queue.c` | a ring of bytes, its positions, the entry being written and the entry being processed, two mutexes | begin / payload / end / abort of an entry, begin / end of processing one |
| Parameter helpers, `src/u_cx_at_util.c`, `src/u_cx_at_params.c` | none; they write over the text they parse | parsing and formatting of parameters and addresses |
| Generated API, `ucx_api` | the URC callbacks of a handle; it holds the client between a Begin and `uCxEnd()` | one function per AT command, one Register per URC |
| XMODEM, `src/u_cx_xmodem.c` | whether the UART is open, block number, offset, tries | open, send, send a file, close |
| OS ports, `ports/os` | one RX worker (thread, task, work item, or none) and how it is told to stop | create and destroy the worker, mutexes, time |
| UART ports, `ports/uart` | on the microcontrollers and Zephyr, rings between an interrupt or DMA and the threads | open, close, read, write, wait, wake |
| Log, examples, tests | - | - |

How they interact. An application thread calls a function of the generated API,
which executes a command: it takes `cmdMutex`, writes the command, and *itself*
reads the UART in `handleRxData()` until a status line came. Outside of commands
the port's worker takes `cmdMutex` and reads, through `uCxAtClientHandleRx*()`. Whoever
reads finds URCs in the stream and puts them in the URC queue; when it has released
`cmdMutex` it calls `processUrcs()`, which hands one URC after the other to the
callback, in place, with `dequeueMutex` held. A callback may execute commands, so a
command can be nested in the processing of URCs that followed another command.
The bytes come from a driver whose interrupt or DMA fills a ring while a thread reads it.

What is hard, and what makes each part correct:

* AT client: threads, callbacks and the worker share one status, one response
  and one stream. An answer belongs to its command; the URC in a callback stays
  where it is; URCs come once and in order; nothing blocks for ever and no URC
  is forgotten; close and open may come at any moment between commands.
* Parser: a read returns any part of a line or of a payload, in whatever call comes
  next, and payloads contain anything. The parser never loses its place, and writes
  into a command's buffer only while that command executes.
* URC queue: entries of any length wrap around a buffer that may begin at an odd
  address, one may be aborted, and a reader holds pointers into it. It is a
  FIFO, nothing is overwritten, and all the space comes back.
* Generated API: some 600 functions that must agree with their headers in the number
  and the types of variadic arguments, hold `cmdMutex` exactly as long as they use the
  client, and give pointers into a buffer that the next line overwrites.
* Parameter helpers: what is sent comes back, and parsing in place does not
  overwrite what has not been read.
* UART drivers: indices shared with an interrupt stay consistent, a wake-up is not
  lost, and an overflow is noticed and recovered from.
* XMODEM: packets and answers are lost, damaged or late. 0 means that the
  receiver has the file; the function returns.

## 2. Modules

| Module | Models |
|---|---|
| `UrcFifo` | what the queue promises: a FIFO with a two-step put and a two-step get |
| `UrcQueue`, `MCUrcQueue` | the ring, byte by byte; implements `UrcFifo` |
| `UrcQueueProofs` | the theorems about `UrcQueue`: its shape, and what it is to its user |
| `AtClient`, `MCAtClient` | threads, worker, callbacks and module, in lines; its queue is `UrcFifo` |
| `AtClientProofs` | the theorems about `AtClient` |
| `RxParser` | the same stream in bytes |
| `AtTextProofs` | the theorems about `RxParser` and `MCAtText`: the parser and the conversions |
| `AtUtil`, `AtParams` | the conversions, as functions and operators |
| `MCAtText` | the parser, or one conversion, per behaviour |
| `ApiForms` | the forms of API functions and declarations, and the format characters |
| `CallsW36X`, `CallsB26X` | what the generated `.c` files send, parse and call back |
| `DeclsW36X`, `DeclsB26X` | what the generated headers declare |
| `UcxApi`, `MCUcxApi` | threads that call any of these functions, and URCs |
| `UcxApiProofs` | the theorems about `UcxApi` |
| `UartFifo` | what a UART driver promises: a bounded FIFO that says so when it overflows |
| `UartIrq`, `UartZephyr`, `UartDma` | the three drivers with a ring; the first two implement `UartFifo` |
| `MCUarts` | one driver per behaviour, chosen at the start |
| `UartZephyrProofs`, `UartDmaProofs` | what holds of these two drivers, for any constants |
| `UartProofs` | the theorems about `MCUarts`, from these two and about `UartIrq` |
| `Xmodem`, `XmodemProofs` | the sender, a receiver and a faulty line; the theorems |

They compose through specifications. `AtClient` instantiates `UrcFifo`, and the run
`urc_ring` shows that `UrcQueue` implements it. `AtClient` takes the stream line by
line, which `FramesAsSent` of `RxParser` justifies for lines that fit: the parser finds the lines and payloads
that the module sent. `UcxApi` takes the client in larger steps. The drivers implement
`UartFifo`, which is what `rx` stands for in `AtClient` and `RxParser`.

### UrcQueue

One action per critical section of `queueMutex`. `uCxAtUrcQueueDequeueBegin()` and
`...End()` do something before and after it, with only `dequeueMutex` held, and
are several actions (`DequeueTryLock`, `DequeueLook`, `DequeueTake` or
`DequeueNone`; `DequeueEnd`, `DequeueRelease`). A pointer is an offset in the buffer.
A byte of memory is the URC it belongs to and, at the start of an entry, the two
lengths of the header, so that a reader really reads the lengths that memory
holds, whatever was written over them. `payloadLen` is the client's fill level.
`chain` is a history variable: where the committed entries are and what they
should be. `EnqueueDrop` is `uCxAtUrcQueueEnqueueBegin()` when it fails, which may
still reset the positions of an empty queue. The enqueuer is always the holder
of `cmdMutex`, so there is one.

### AtClient

A thread's `pc` says between which two steps of the code it is; a step is what it
does between two points at which others can interfere. `handleRxData()` is a step
per line or part of a binary transfer. `status` and `pRspParams` carry the
command that they belong to, which the code does not know and the properties
need. `stack` is the nesting of commands of each thread. The worker is that of one
of the ports, chosen at the start (`Ports`): one that polls (no OS, or an application
that calls `uCxAtClientHandleRx()`), one that sleeps until there is data (POSIX,
Windows), or one that is signalled from the interrupt (FreeRTOS, Zephyr). Close joins
the worker on POSIX and FreeRTOS and does not wait for it, or not for ever, on the others.
`pExpectedRsp` stays as the last query left it, as in the code. The module is
external: it answers commands in order, one at a time, and sends URCs in between,
never in the middle of a line or of a payload. A URC needs one place in the queue.
A query whose response is not awaited any more leaves a `rsp` line that is taken
for a URC; the properties about URCs leave these lines out.

### RxParser

A byte is its role: a character that is not printed, SOH, an end of line, the `+`, a
letter, and one symbol each for the words `OK`, `ERROR` and `AT+`, so that a line has a
handful of bytes. Length bytes count in base 8. The binary state of the client is
the record `binaryRx`, the thread's place is `at`, and each action is one iteration of
`handleRxData()`, with any number of bytes from 1 to what was asked for. `frames` is what
was made of the bytes. The module answers a query with any response, also one
that nobody asked for in this form. One thread is enough, since `cmdMutex` is held
while bytes are read; what comes between two calls is the command that executes.

### AtUtil and AtParams

Pure functions of a text, with the character codes that the code tests. Where the
code writes into the text it parses (escapes, byte arrays, integer lists), the
operator has a parameter `inPlace`: whether it reads from the memory it writes to, as the code does,
or from the original text. `InPlaceIsSafe` says that the two agree.
`ParseParams` gives a valid or an invalid value per format character. `SplitAsDefined`
compares `uCxAtUtilFindParamEnd()` to a definition of quoting and nesting that counts from
the beginning of the line.

### The generated API

`Calls*` and `Decls*` are tables: a line per function, read off the code and the header
respectively: 397 functions and 53 URCs of the NORA-W36X, 198 and 20 of the NORA-B26X. `UcxApi`
compares the two and reduces each function to what matters for a thread and the client
(12 and 8 behaviours), and then runs any two threads over these behaviours. A list
combines the Begin of any list with the entries of any. A response that is overwritten
by `OK` has its first three characters changed, which the model takes for all of them.
Functions that query a response with a discriminator parse it twice; where their probe
fails they return without `uCxAtClientCmdEnd()`, which the run `api_lock_leak` shows and
the other properties leave out (`gaveUp`, `probed`). Of the parsed URCs `UESPSDS` and
`UESPSDB` (both products) and `UESODS`, `UESODSF`, `UESODB` and `UESODBF` (W36X) have no Register function; the
properties say nothing about these.

### The UART drivers

A byte is its number on the wire. Each step accesses one variable that is shared with
the interrupt, so the interrupt comes between any two of them. `UartIrq`: two indices,
no lock, bytes dropped when the ring is full, and a flush. `UartZephyr`: the interrupt moves
bytes between two `ring_buf`s and the hardware, which are bounded sequences; semaphores count
to 1; two writers share a mutex and may give up in the middle. `UartDma`: the hardware writes
without asking, an interrupt counts its wraps a little later, and the reader puts the
wraps and the counter of the hardware together and retries; counters are modulo a multiple
of the ring's size, as 2^32 is when the size is a power of two. It
is that of the F4; those of the F7 and H7 do the same.

### Xmodem

The sender's loops, with a step per packet written and per byte read. The
application opens and closes, and sends one time after the other, so that a transfer may
find what an earlier one left unread. Of the data
the model has the numbers of the bytes, so that the receiver's copy can be
compared. A timeout may come at any time, or with `Timely` only when nothing that
answers is under way. A file may be shortened while it is sent. The receiver is
external: the usual XMODEM-CRC receiver,
which acknowledges a repeated block without storing it, and cancels when a
block number makes no sense; the application makes it listen before each transfer, as
`examples/fw_upgrade_example.c` does. A write that fails delivers nothing; a partial
write is a failed one whose successor is damaged. A damaged answer is one the
sender does not know, since a damaged ACK that reads as another answer is not
something that XMODEM can detect. The receiver asks for a block again only while the sender
waits for an answer and nothing is under way in either direction: its timer is
taken to be longer than the line's delay.

## 3. Runs

Passing runs:

| Run | Checks | Bounds |
|---|---|---|
| `urc_ring` | entries intact, room free, used bytes, alignment, no leak; `Inv`, the invariant of the proofs; `FifoSpec`, the refinement of `UrcFifo` | 20 bytes at an odd address, lines of length 1 and 2, payloads up to 3, two readers |
| `client_commands` | answers, responses, URC order, the URC of a callback, the payload of a URC | two application threads, a polling worker, 2 commands, 2 URCs, 1 timeout, 1 failing read, 1 close, 5 events in all |
| `client_progress` | calls return, data is read, URCs are handled | one application thread, 2 commands, 2 URCs, a port of each kind |
| `received_text` | frames, payloads and buffers of the parser; round trips, splitting and in-place safety of the conversions | a line buffer of 4, response buffers of 0 and 2 bytes, room for payloads of 2 and 4, 3 messages of 7 kinds, 2 commands, 1 failure; texts up to 4 of 10 characters, lists up to 5 of 5 characters, an escape buffer of 8 |
| `api_calls` | functions against headers, the lock, errors, pointers, URCs | every function and URC of both products; two threads, 2 calls, 2 response lines, 1 fault, 2 URCs |
| `uart_rings` | refinements of `UartFifo`; wake-ups, write order; what the DMA reader returns and counts | IRQ ring of 3, 5 bytes; Zephyr rings of 2 and 1, 3 bytes, two writers, 2 writes, 1 stall; DMA ring of 3, counters modulo 9, 12 bytes, 1 error |
| `xmodem_transfer` | completeness, block numbers, termination | 9 bytes in blocks of 2, numbers up to 3, 3 tries, 5 faults, 2 transfers |

Runs that show where the code and its documentation part:

| Run | What TLC finds |
|---|---|
| `client_status_race` | `cmdEnd()` returns `pClient->status` after it released `cmdMutex` and ran callbacks: the status of another command |
| `client_lost_wakeup` | a URC stays in the queue because the thread that drained it was about to release `dequeueMutex`, and the worker sleeps |
| `rx_signal` | with a worker that waits for a signal, what follows a binary URC stays unread: `handleRxData()` returns after the payload, and the one signal has been used up |
| `api_lock_leak` | a query whose response has a discriminator returns `false`, which is 0, without ending the command |
| `xmodem_late_answer` | a late ACK shifts all the following ones, and the loss of the last block goes unnoticed |

Why the bounds are enough. The ring's buffer holds two entries of different
parity and part of a third: it wraps, fills, is aborted at its start
and at its end, and ends with an entry with and without its pad byte; what
remains is covered by the proofs. In the client a second command is what can get a first
one's answer, a second URC is what can overtake, and a callback that executes one
command nests it in another. `client_commands` needs the polling worker only: what it may do at any
time includes what the others do when they are woken. A line of six characters overflows
the line buffer; payloads are longer than, as long as and shorter than each buffer; a
third message shows whether the parser found the end of the second. Four characters hold a string
with an escape, and two strings. In the API a second thread is what waits for, or overwrites, the
first one's, and two response lines are what makes a list. A ring of 3 fills and wraps with 5
bytes; 12 bytes are more than the DMA counter's modulus, so that it wraps too. Five blocks pass the
wrap of the block number, five faults are more than the tries of a block, and a second
transfer follows a first that failed anywhere. `UINT16_MAX`, the sizes of
rings and blocks and the range of block numbers are constants so that they can be small.
Every bound is a constant named in its module.

Threads are symmetric where a run has only safety properties. Deadlock is not checked
where a bound stops the model: `received_text`, `api_calls`, `uart_rings`.

What some properties leave out, because the code does not provide it: `AnswerIsOwn` and
`ResponseIsOwn` end with the first timeout or failing read, since nothing in an `OK` tells whose it is;
`BufferIsLive` ends there too, and with a URC that does not fit in the line buffer, whose rest may
read as the end of a command; `ReadsNextBytes` leaves out the reads that the DMA overtakes while
they copy, which the next read notices; `ParametersSurvive` leaves out strings that do not fit in the
buffer for escaping and need it, which `sendString` sends unescaped; `AsDeclared` holds for enums of the size of
an `int` and not with `ShortEnums`; `TransferComplete` holds with `ShortReads = FALSE`, as a data
callback that gives less than requested and goes on later puts padding in the middle of the file.

## 4. Fairness

`AtClient`: a thread that is inside a call goes on (`Busy`), with weak fairness;
`cmdMutex` is not refused for ever to a thread that waits for it, with strong
fairness, as the OS mutexes promise in practice; the module answers. A callback
returns, and a periodic caller calls again. Nothing makes the application
call, close or open, nor the module send a URC. `CallsReturn` holds on all ports,
`RxIsReadWithoutSignals` on those whose worker looks for data itself, and
`UrcsAreHandledByPolling` on those that poll; `RxIsRead` and `UrcsAreHandled` fail on the others, which
two of the runs above show.

`Xmodem`: the sender runs, and its time is up at last although bytes keep coming
(strong fairness, since `Timely` lets an answer that is under way win). The
receiver takes what it gets; it need not send anything by itself, and the application
need not call anything.

The other specifications have safety properties only, with wake-ups stated as invariants
(a reader that waits has been signalled, or will be by an interrupt that is enabled).

## 5. Proofs

What the runs show on small instances these theorems state for every value of the
constants. Each is `Spec => []P`, but for `RingImplementsFifo`, `RingIsFifo`,
`RingAndReceiverAreFifo` (refinements) and `OverflowsAreReal` (an action property).

| Theorem | States | Property |
|---|---|---|
| **`UrcQueueProofs`** | any buffer length, start position, `UINT16_MAX`, lines and threads | |
| `RingInvariant` | the inductive invariant | `Inv` |
| `TypeCorrect` | no position leaves the buffer, no difference goes below 0 | |
| `NothingOverwritten` | committed and begun entries stay as written and do not overlap | `EntriesIntact` |
| `OldestFirst` | what a reader holds is the oldest entry | |
| `AlwaysAligned` | headers are on even addresses | `HeadersAligned` |
| `AssertionHolds` | the assertion of `uCxAtUrcQueueEnqueueEnd()` | |
| `RoomIsFree` | the room promised for a payload is free | `PayloadRoomIsFree` |
| `SpaceComesBack` | an empty queue has all its room | `NoSpaceLeak` |
| `BytesAreCounted` | `usedBytes` is the number of bytes of the entries | `UsedBytesExact` |
| `RingImplementsFifo` | the ring implements `UrcFifo` | `FifoSpec` |
| **`AtClientProofs`** | any threads, ports, commands, URCs, timeouts, failures and closes | |
| `LocksAreHeld` | who holds `cmdMutex` and `dequeueMutex`, and where `executingCmd` is set | |
| `UrcStaysInCallback` | the URC of a callback stays the first of the queue | `CallbackKeepsUrc` |
| `PayloadIsOfPending` | an entry is open exactly while its payload comes next | `PayloadOfPending` |
| `StatusIsOwn` | a command gets its own status | `AnswerIsOwn` |
| `ResponseLineIsOwn` | a query gets its own response | `ResponseIsOwn` |
| `UrcsInOrder` | URCs are handled in the order sent, once at most | `HandledInOrder` |
| **`AtTextProofs`** | any messages, prefixes, sizes and reads; any texts and lengths | |
| `FramesFound` | the lines and lengths found are those sent | `FramesAsSent` |
| `PayloadsArrive` | a payload is whole, or as much as fits; nothing is written behind a buffer | `PayloadIntact` |
| `BufferOfCommand` | the buffer written is that of the command that executes | `BufferIsLive` |
| `SplitsAsDefined` | a line is split at the commas outside of strings and lists | `SplitAsDefined` |
| `ParametersEnd` | a parameter of any line ends there, a list or an escape left open is an error | |
| `InPlaceSafe` | strings, byte arrays and lists convert in place as from a copy, of the run's lengths | `InPlaceIsSafe` |
| `ConversionsInPlace` | so does a text of any length | |
| `LineIsParsed` | each parameter of a line is converted from its own text | |
| `StringsSurvive` | any strings in a line are parsed as they were sent | |
| **`UcxApiProofs`** | any threads, calls, response lines, faults and URCs | |
| `LockIsBalanced` | `cmdMutex` is held from a Begin to `uCxEnd()`, and not otherwise | `LockBalanced` |
| `SuccessMeansAnswered` | success is a parsed response and `OK` | `SuccessIsAnswered` |
| `PointersStayIntact` | results point into text that stays | `PointersIntact` |
| `ModuleErrorsAreReported` | `false` for an error is an error of `uCxEnd()` | `ErrorsOfModuleAreReported` |
| **`UartProofs`** | any sizes, lengths, writers, stalls and numbers of bytes | |
| `RingIsFifo` | the interrupt driven driver implements `UartFifo` | `IrqFifoSpec` |
| `RingAndReceiverAreFifo` | so does the Zephyr driver | `ZephyrFifoSpec` |
| `ReceiverStaysEnabled` | its receive cause is not left disabled | `RxStaysEnabled` |
| `ReaderIsWoken` | its reader does not sleep on bytes that came | `NoLostWakeup` |
| `TransmitterRuns` | its transmitter does not stop on bytes to send | `TxKeepsRunning` |
| `WritesStayInOrder` | its writers' bytes are not mixed | `WritesInOrder` |
| `NextBytesAreRead` | the DMA driver returns the next bytes unless overtaken | `ReadsNextBytes` |
| `CountsAreRight` | it computes how many there are | `CountIsRight` |
| `OverflowsAreReal` | what it takes for an overflow is one | `OverflowIsReal` |
| **`XmodemProofs`** | any length, block size, range of numbers, tries, faults and transfers | |
| `StaysInStep` | sender and receiver agree on the next block, with `Timely` | `NeverOutOfStep` |
| `SuccessIsComplete` | 0 means a complete file, with `Timely` and without `ShortReads` | `TransferComplete` |
| `BeginningIsIntact` | whatever happens, the receiver has the beginning of the file and padding, under the same conditions | |

The assumptions are the named ones of the modules: constants have their types, sizes are
positive, `NoThread` is no thread, the ring begins at 0 or 1, the DMA's modulus is a
multiple of the ring of at least three times its size (it is 2^32 and the ring is
smaller), and block numbers have at least three values. `ModuleAssumption` of `RxParser`
says that the module answers as it should: the lines of URCs begin with `+` and with no
prefix that a command expects, which `NoUrcTaken` checks of all functions; a response does
not read `OK` or `ERROR`; what ends a command does, and has no data. TLC evaluates it over the
messages of `received_text`, and only `BufferOfCommand` needs it. `TextAssumption` of
`MCAtText` says that the lengths of its texts are natural numbers. `TableAssumption` of `UcxApi`
says of the tables that a probe either reads the discriminator or skips it; TLC
evaluates it over all functions of both products in `api_calls`.

### The arguments

**The shape of the ring** (`UrcQueueProofs`). None of the properties is inductive: that
an entry is not overwritten depends on where the positions are, and these on all entries
that were ever there. `Inv` adds the geometry: the committed entries form a chain
without gaps from `readPos`, perhaps around `wrapPos`, to the entry being written
(`Linked`); they lie in that order in the region between the two positions
(`EntryBounds`, `EntryOrder`); each has the size that the reader will compute, and only
one that ends with the buffer lacks its pad byte (`EntryShape`); `usedBytes` is the
length of that region (`Positions`); the room of the entry being written ends before the
first entry and on an even address (`PendingShape`); and the reader's variables follow
`dequeueMutex` (`ReaderShape`). One lemma per action shows that `Inv` is preserved, with
one lemma per part where a part is hard (a wrap-around, an abort of one, the end of the
last entry before one).

**What the ring is** (`UrcQueueProofs`). That each byte between the positions belongs to
an entry, so that the sizes add up, is by the first entry that ends behind the byte: the
one before it does not, so it begins at or before the byte (`LeastMember` has that least
index from the library's facts on well-foundedness). For the refinement,
`ReaderSeesFirst` says that the header a reader has read from memory is that of the
first entry, and each step of the ring then is a step of the FIFO on the mapped
variables or none.

**The client** (`AtClientProofs`), in layers, each inductive given those before it.
`Control`: the `pc` of a thread says which mutexes it holds and how commands are nested.
`FlowTypes` and `ReaderHas`: the holder of `dequeueMutex` has the first of the queue, or
nothing. `Payloads`: the payload of a URC comes right behind its line, and the open
entry of the queue waits for the payload that comes next. `Exchange`: what the module
has to answer, what is on its way and what was read belongs to the command of the holder
of `cmdMutex`, and a status is the last of it; a command therefore begins with nothing
under way. This one is lost with the first timeout or failing read (`Clean`), because an
answer then outlives its command, and so the two theorems it gives end there. `Ordered`:
the numbers of URCs grow from what is handled over the queue and the open entry to what
is on its way; it needs neither `Clean` nor an open UART.

**The parser** (`AtTextProofs`). That the frames found are those sent does not say why the
next one will be. `Where` does: it divides the bytes that are unread into the messages
they are of, by the positions at which these end (`Ends`; those before 0 are read), so that the
parser is at some byte of some message (`Unread`); it says what the parser has of this
message (`Parsed`: what is kept of the line up to there, the length bytes, or the part of
the payload that the buffer takes), and that each message before it made its frame
(`FramesOf`). Each action that reads then meets the byte that this place has, which is why a
payload that looks like lines does no harm. Lines and frames are subsequences;
they are stated by positions (`Picked`), and what is known of them is by induction over the
number of positions, for which `LeastMember` gives the least counterexample. `Exchange` is that of the
client again, on bytes: what is unread and what the module has still to answer is of
the command that executes, and the buffer registered is its own. It holds while `Clean`
does.

**The conversions** (`AtTextProofs`). What a recursive function computes is known one step
at a time (`Recursion`); that two of them agree, or that all their values have a property,
is by induction up to a number (`UpToNumber`, `SameRecursion`). In place, the invariant
is what was not read yet: behind the position of the read the buffer still has what the copy
has, because what is written never gets past it, and what was written so far is the same
in both (`Unescaped` for strings, `Taken` for byte arrays, `Listed` for lists of integers,
where two bytes replace at least two characters). For the split, `SplitAsDefined` defines
escapes, strings and lists by the characters before a position, looking back, and
`uCxAtUtilFindParamEnd()` carries three flags forward; `EscapedFacts`, `InStringFacts` and
`InListFacts` say what a definition gives one position further, and `Follows` that the flags
are what the definitions say at each position, until the first comma outside is found.

For `LineIsParsed`, a text that has no comma outside and leaves nothing open (`Closed`) has
neither in a line, because what a position has before it in another parameter does
not matter where nothing is open (`OpenAlone`); so each parameter of a line ends where its
text does, and begins where nothing is open. A string that is sent is such a text
(`QuotedIsClosed`): between its quotes each position is inside, character by character
as `escapeCharacter` writes them (`EscapeCases`), and so is a comma or a bracket in it. What was unescaped
after k steps are the first k characters (`Restored`), which gives `StringsSurvive`.

**The generated API** (`UcxApiProofs`). What a thread's invariant (`ThreadInv`) says of
shared variables (`answer`, `sent`, `rxBuffer`) it says of the places where the thread
holds `cmdMutex`; `Undisturbed` is what the steps of all others leave alone for it, and
one lemma shows that each step of another thread does. A thread whose function gave up
keeps the mutex for good, so that it counts as a holder (`gaveUp`) and no other thread
gets in.

**The drivers** (`UartProofs`). The interrupt driven ring needs little: the reader's
copy of `rxHead` is at most as far as `rxHead` now is (`ReaderSees`), and bytes are
written behind the tail, outside what is being read. Zephyr: an interrupt cause that is
disabled is on its way to be enabled by the thread at a named place (`RxInv`, `TxInv`),
and what was sent last is of the write that goes on, or of an earlier one (`OrderInv`).
DMA: `HardwareInv` relates NDTR and the counted wraps to how many bytes came, with a
wrap whose interrupt is pending not yet counted. The reader gets the two at different
times, so its invariant says that the wraps are those of *some* time (`WrapsAsOf`), and,
when both were read, that the count was made of wraps of one time and NDTR of a later
one (`Snapshot`). When the second read of the wraps gives the same value, they are those
of now (`WrapsAreOfNow`): at most two turns can lie between, and the modulus is at least
three. What remains is the gap between a wrap and its interrupt (`InGap`), where the
count is short by a turn and the reader reads as much as there was or retries.
`UartZephyrProofs` and `UartDmaProofs` show this for any constants under the assumptions
of their models; `UartProofs` instantiates them for the behaviours of `MCUarts`.

**XMODEM** (`XmodemProofs`). `Agreement`: at most one thing that wants an answer is on
the line, one answer is, and when it is an ACK the receiver is one block ahead. From
this the block number and what the receiver expects differ by at most one, modulo the
range of numbers. `Delivered` then relates what the receiver has to `offset`. Its proof
showed that `NeverOutOfStep` did not hold with three transfers when `Timely` only meant
that no answer is overtaken by a timeout: an answer that an earlier, failed transfer
left unread was taken for the first of a later one. `Timely` now excludes that too, and
says so. `BeginningReceived` needs no more than these two: a block that the
receiver takes is the next one, whether its ACK arrives or not. Without `Timely` a late answer is the finding of `xmodem_late_answer`.

### What stays with TLC

* Liveness (`CallsReturn`, `RxIsReadWithoutSignals`, `UrcsAreHandledByPolling`,
  `SendReturns`), which is out of the prover's reach, as `ENABLED` is.
* `AsDeclared`, `NoUrcTaken` and `CallbackGetsUrc`: they hold because each line of the
  tables of some 600 functions and 70 URCs is right, and a proof would have to assume
  that. TLC looks at every line in `api_calls`.
* `ParametersSurvive`: `StringsSurvive` is its part about strings, for any number and any
  characters. That numbers, lists and addresses are parsed back is about their digits, one
  by one.

## 6. Not modelled

* Values of timeouts: temporary timeouts that callbacks and other threads change, and the
  POSIX clock, which is taken modulo a day. A timeout in the models may come at any
  time.
* Close of the client from a URC callback, where POSIX joins its own thread. The
  documentation does not allow it.
* A module that never stops sending URCs, which keeps a command from looking at the time.
* The build without a URC queue, and clients that are not initialised.
* In the parser: close and open in the middle of a stream, which `AtClient` has by lines.
* In the conversions: blanks, `0x` and signs that `strtol()` accepts, `isprint()` of a negative
  `char`, byte arrays whose length does not fit in 16 bits.
* In the UART drivers: opening and closing, pins, clocks and byte times, the IRQ driver's missing error
  callback, the F7 and H7 copies. The Windows driver and the Linux driver are thin layers over
  the operating system; the latter's wake-up is a step of the worker in `AtClient`.
* In the ports: the windows between adjacent statements of create and destroy on FreeRTOS and
  Zephyr, a Windows worker that ends after a read error, mutex wrappers.
* In XMODEM: the bytes of a packet and the CRC's polynomial, a read error of a file in
  the middle of a block.
* Log, examples and tests have no state of their own.

What hazards these leave without a property is in `PROJECT.json`.

## 7. Next

Proofs that decimal numbers and hexadecimal addresses are parsed back as they were formatted
(`ParametersSurvive`), which `LineIsParsed` then carries over to whole lines.
