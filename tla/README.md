# A formal model of sdrlib

sdrlib (`src/src`) is a C library for software-defined radio. A device driver
delivers complex samples, a reader thread turns them into a spectrum and into
audio, and three programs (`src/app`, `src/qt`) control it. This directory holds
TLA+ modules for what it does concurrently and for what it computes, TLC
configurations that check them on small instances, and TLAPS proofs for every
value of the constants. `PROJECT.json` maps every definition that models code to the lines it
translates.

Paths such as `sdrlib.c:182` are under `src/src/`, except `sdrserver.c` and
`sdrcmd.c` (`src/app/`), `device-rtl.c` (`src/device/`) and `sdr.h`, `sdr.cpp`,
`waterfall.h`, `freqdial.h` (`src/qt/`).

## 1. Inventory

### How the parts interact

```
 librtlsdr ── async_read_callback ──> ring ──> read() ── sdrReaderThread
 (asyncThread)                      device-rtl.c          │ fftUpdate ──> psFunc (Qt spectrum)
                                                          │ ddcUpdate ─> demod ─> resampler
                                                          │      ├─ audioPlay ──> ring ──> paCallback
                                                          │      └─ codecEncode ─> codecOutput ─> websocket
 sdrcmd, Qt window: one thread ── sdrStart, sdrStop, setters, sdrDelete ──> SdrLib
 sdrserver: one thread per client ── onMessage ── the same calls ─────────> SdrLib
```

Everything downstream of `read()` is a chain of synchronous callbacks on the
reader thread. Threads meet in five places: the two rings, the fields of
`SdrLib`, the fields of `WsServer` with the process's descriptors, and the
queue. Only the queue has a lock.

### Components

| Part | State | Operations | Hard behaviour | What makes it correct |
|---|---|---|---|---|
| Ring buffer, `ringbuffer.c` | `head`, `tail`, elements | `write`/`wpeek`/`wadvance`, `read`/`rpeek`/`radvance` | no lock, a copy in progress on either side, wrap-around, full and empty told apart by one slot | the two copies never share a slot; what is read was written, whole, once and in order; a polling reader gets everything |
| Library session, `sdrlib.c` | `running`, `device`, `thread` | `sdrStart`, `sdrStop`, getters and setters, `sdrDelete`, `sdrReaderThread` | no lock; several clients; a start that fails halfway; the reader ends by itself; stop waits for it | one reader at a time; it never outlives its device; it is joined once; no call reaches a closed device; stop returns |
| RTL driver, `device-rtl.c` | `isOpen`, USB handle, ring, `asyncThread` | `open`, `close`, `isOpen`, `read`, callback | callback of a thread nobody joins; partial failure of `open` | the ring, if there was memory for it, outlives both its users |
| Web server, `wsserver.c` | `clientWs`, one `WsHandler` and thread per connection, descriptors | accept, request, file, websocket, send | `clientWs` is shared by all handlers and the sender; descriptor numbers are reused; peers vanish | the sender never meets a freed or uninitialised record; handlers leak no descriptor; a broken client is given up |
| RTL driver's thread, `device-rtl.c` | the `asyncLoop` thread of each `open` | callback, `rtlsdr_cancel_async` | nobody joins it; it may begin after `close` | only such a late beginner touches what was freed |
| sdrserver, `sdrserver.c` | one `SdrLib`, one `WsServer` | `codecOutput`, `onMessage`, `parseAndExecute` | runs library calls on any client's thread | as the two above |
| Buffer queue, `queue.c` | `head`, `tail`, `count`, `items`, mutex, `cond` | `queuePush`, `queuePop`, `queueDelete` | one condition variable for both kinds of waiter, single signals, spurious wakeups | FIFO; no deadlock; no lost wakeup. It has no caller in the repository |
| Audio output, `audio.c` | stream, ring | `audioPlay`, `paCallback` | callback on PortAudio's thread, partial blocks | the ring's, plus no sample skipped within a block |
| Codec, `codec.c` | partial frame, packet count, ogg stream | `codecEncode` | frames span calls; sixteen packets a page | every sample is encoded once, in order; pages close |
| Rate conversion, `samplerate.c` | delay lines, accumulator, ratio | `decimatorUpdate`, `ddcUpdate`, `resamplerUpdate`, setters | state kept between calls, setters from other threads, ratio 0 | number and position of output samples |
| Demodulators, `demod.c` | last values, output block | `update` per mode | the mode changes between two loads of `sdr->demod` | no block is shared by two modes |
| FFT, sliding DFT, `fft.c` | window, skip counter, queue | `fftUpdate`, `sdftUpdate` | skipping between spectra, state between calls | spectra at equal distances, of samples in order |
| Filters, VFO, `filter.c`, `vfo.c` | coefficients, delay lines, phase | `firLP` ..., `firUpdate`, `vfoUpdate` | even sizes, state between calls | linear phase; the latest samples, in order |
| JSON, `json.c` | value trees, tables, parser position | constructors, `jsonObjPut`, `jsonDelete`, printer, parser | failing `malloc`, refused puts, replaced members, shared buckets, escapes, cut texts | every value has one owner, who frees it once; the last value put is found; a printed value that is simple enough is read back |
| sdrcmd, `sdrcmd.c` | one `SdrLib`, `inbuf` | `parseAndExecute`, `cmdloop` | cut commands, numbers out of range, an end of input that goes unnoticed | the device keeps the setting given last |
| Qt window, `src/qt` | dial, waterfall, offset, zoom, mouse | slots and events | four copies of the tuning; a rate that is 0 while closed | the copies agree; the vfo is in view |
| List, `util.c` | nodes | `listAppend`, `listRemove`, `listDelete` | removal from the middle | the elements removed are the ones asked for |
| Device scan, `device.c` | table of plug-ins | `deviceScan` | two directories, one table | every device that fits, in order |
| Trace, smoke test, web page, PpGen, Windows libraries, build files | – | – | – | – |

Section 6 says what of this is not modelled, and why.
The hazards, each at its line and with the properties that would catch it, are
in `PROJECT.json`.

## 2. The modules

| Module | Models | Extends / instantiates |
|---|---|---|
| `Channel` | what the ring promises: a bounded FIFO whose elements, and the places given back, arrive late but in order | – |
| `RingBuffer` | `ringbuffer.c` with its two users, each with a store buffer | instance of `Channel` |
| `SdrSession` | `sdrlib.c`'s life cycle, `open`/`close` of `device-rtl.c` | – |
| `RtlDevice` | `device-rtl.c` over librtlsdr, with the threads it creates | – |
| `Receiver` | the reader's callbacks in `sdrlib.c`, `demod.c`, `codec.c`, against the setters | – |
| `Filters` | designs, delay lines and phase of `filter.c` and `vfo.c` | – |
| `Resampling` | `samplerate.c`, `firUpdate` | extends `Filters` |
| `Fft` | `fft.c`, `fftUpdate` under the reads of `sdrReaderThread` | – |
| `Controls` | settings of `sdrlib.c`, commands of `sdrserver.c` and `sdrcmd.c` | – |
| `Console` | `cmdloop` of `sdrcmd.c` | extends `Controls` |
| `Dial` | `freqdial.h` | – |
| `FrontEnd` | `sdr.cpp`, `sdr.h`, `waterfall.h` | extends `Controls`, `Dial` |
| `Framing` | the bytes of a websocket of `wsserver.c` and the frames made of them | – |
| `Json`, `Wire`, `Scaling`, `Utilities` | the pure parts of `json.c`; `wsserver.c`; `waterfall.h` and `sdr.h`; `util.c`, `device.c` and the constructors | – |
| `Tree` | who owns which value on the heap under `json.c` | – |
| `Algorithms` | inputs and reference definitions for them; `Fft`, `Console`, `Tree` and `Framing` beside them | extends the four, `Fft`, `Console`, `Tree`, `Framing` |
| `WsServer` | `wsserver.c`, `codecOutput` and `onMessage` of `sdrserver.c` | – |
| `BlockingFifo` | what the queue promises | – |
| `Queue` | `queue.c` | instance of `BlockingFifo` |
| `MC…` | the instance TLC checks | the module |
| `…Proofs` | theorems; those of `Queue` and `Tree` are in `ContainerProofs`, those of `Framing` in `WsServerProofs` | the module and TLAPS |

An operator marked *a mutant* is not part of a model. It is the definition that
follows it with a plausible mistake, kept to show that the properties notice:
each property has one (`PROJECT.json`, "mutants").

### RingBuffer

`head` and `tail` are the fields of the same name divided by `element_size`;
`elems` is `buf`. A `memcpy`, and the loop that fills or drains a peeked slot
(`device-rtl.c:158`, `audio.c:169`), take one step per *part* of an element, so
two threads in the same slot would produce an element nobody wrote.
`ringbuffer_write` and `wpeek … wadvance` have the same steps and are one
sequence of actions: test (`WriteFull`, `WriteBegin`), copy (`WritePart`),
publication of `head` (`WriteDone`). Likewise `ReadEmpty`, `ReadBegin`,
`ReadPart`, `ReadDone`. `wres` and `rres` are the return values.
`ringbuffer_delete` belongs to the life of the device and is part of
`StopRelease` in `SdrSession` and of `CloseRing` in `RtlDevice`.

The C code has no fence, so a store is visible to its own thread at once and to
the other one later. Each thread has a store buffer whose stores reach memory
one at a time and in order, as on x86: `head`, `tail` and `elems` are memory,
`whead`, `welems` and `rtail` what the writer and the reader have stored. The
writer stores a slot part by part, then `head`, then the next slot; what its
buffer holds is therefore given by how far memory is behind it, that is by
`head` and `landed`, the parts of the slot at `head` that reached memory. The
reader's shared stores are those of `tail`, and its buffer is the distance from
`tail` to `rtail`. `LandPart`, `LandHead` and `LandTail` take the oldest store of
a buffer to memory; `WriteFull` and `ReadEmpty` test the other's index as it is
there. A compiler that moved the volatile store before the copy, or a processor
that reorders stores, is not covered: `LandHeadEarly` is what it would do, and
`ImplementsChannel` fails with it.

A premise: the writer fills each slot it advances over. `audioPlay` does
(`ringbuffer_write` copies a whole element). The driver's callback does when it
gets a whole buffer, which is what librtlsdr delivers by default; with less it
would leave the end of the slot as it was, since `device-rtl.c:153` tests for
more only. To `RtlDevice`, which numbers blocks, such a block is one like any other.

### SdrSession

A *controller* is a thread that calls the library. sdrcmd and the Qt window have
one; sdrserver has one per client, because `onMessage` runs on the handler's
thread. Every access to a field another thread uses is a step of its own:

| Code | Steps |
|---|---|
| `sdrStart`, `sdrlib.c:139-171` | `StartCheckRunning`, `StartCheckDevice`, `Open` / `OpenFails` / `OpenHalfDone`, `StartPublish`, `StartSpawn` / `SpawnFails`, `StartRecord`, `StartMark` |
| `sdrStop`, `177-190` | `StopCheckRunning`, `StopJoin`, `StopJoined` / `JoinReturnsError` / `JoinCrashes`, `StopClose`, `StopRelease`, `StopClear`, `StopUnmark` |
| getters and setters that use the device, `195-208`, `272-306` | `TuneRead`, `TuneUse` |
| `sdrDelete`, `112-132` | `Delete` |
| `sdrReaderThread`, `426-453` | `ReaderBegin` / `ReaderBeginNull`, `ReaderCheck`, `ReaderRead`, `ReaderExit` |

`isOpen` is the driver's flag and `handle` says whether librtlsdr's device and
the ring are held; `close()` gives up the first before the second. `Open` is one
step although the code tests `isOpen` and sets it later, because between them
stands `rtlsdr_open`, which claims the USB device and lets one caller through.
`device` is whether `sdr->device` is non-NULL: there is one device.

Outside `src/`, and therefore assumed: `pthread_join` of a thread that was joined
already, is being joined, or never existed is undefined. The model allows an
immediate error, which `sdrStop` ignores (`JoinReturnsError`), and a crash when
the identity belongs to no thread (`JoinCrashes`). `DeviceDrop` is a driver
whose `isOpen` turns 0 by itself, which the plug-in interface allows and the
RTL driver never does.

### WsServer

A handler is a `WsHandler` record with its thread; `hpc` is where in
`handleClient` the thread is, `"free"` when the record is not allocated.
Descriptors are modelled because the threads share them: `desc` says what each
number stands for, `socket` and `fopen` take the lowest free number, and
`handleClient` closes `sock` twice (`Fclose`, `Close`; lines 780 and 782).
`peer` is the state of the other end: reading from one that closed gives 0,
which the loop does not notice (`661`); reading from one that was reset gives
-1; writing to a closed one provokes the reset and writing after a reset raises
SIGPIPE, which ends the process (`up = FALSE`). `clientWs` starts as `Junk`,
what `malloc` left in the field that `wsCreate` does not initialise.

`Accept` has three outcomes. When `handlerCreate` returns NULL the listener goes
on to the next connection (`"none"`, line 816), when `pthread_create` fails it
returns (`"unstarted"`, 828), and in both cases nobody closes the socket: with
enough of the first, `accept` fails too (`AcceptFails`). A listener that
returned lets `wsServe` return, the library be deleted and the process end;
`ServerEnds` is that as one step, before which the handlers go on, and what they
meet between the delete and the exit is not modelled. A request or a header line
without a word makes `strtok_r` return NULL, which `strcmp` or `strncpy` then
reads: `RequestWithoutWord` ends the process. `FileSend` is one `write` of those
of `serveFile`, so that a peer may leave between two.

The sender is the library's reader thread inside `codecOutput`: it fetches
`clientWs` (`SendGet`), then the record's socket (`SendSocket`), then writes
header and payload. What a frame decodes to is abstracted here to the commands it
may carry (the bytes are in `Framing`); "stop" while the stream runs does not come back,
as `SdrSession` shows.

### Queue

One step is what a call does under the mutex: `Push`, `Pop`, or `Wait`, which
puts the thread to sleep on `cond`. `SignalAndLeave` wakes any one sleeper, of
either kind; `WakeSpuriously` is POSIX's licence to return early. `Delete` is
`queueDelete`, which locks a *copy* of the mutex (line 66) and so excludes
nobody; the model lets it run when no other thread is inside, the only case
with a defined meaning.

### RtlDevice

The controller's calls go through `open` (`OpenHandle`, `OpenFlag`, `OpenRing`,
`OpenSpawn`), `close` (`CloseFlag`, `CloseCancel`, `CloseHandle`, `CloseRing`) and
`delete` one statement at a time. Each `open` gets a number, which stands for its
handle, its ring and its thread; `dev` and `ring` keep the number of what was
freed, as the pointers do, and a step of the thread that uses a freed one puts
it into `misused`. librtlsdr is external and assumed: `rtlsdr_read_async`
returns at once from a handle that streams already, `rtlsdr_cancel_async` has no
effect on one that does not stream, and `rtlsdr_close` waits for the end of the
stream. That a late thread begins before the handle of the *next* open has its
ring is among the behaviours (`CallbackDead`). Nobody looks at what
`ringbuffer_create` returns, so `open` may go on without a ring (`OpenRingFails`),
and callback and `read` use the NULL (`CallbackDead`, `ReadDead`); `ringless` has
the openings this happened to.

### Receiver

The reader takes a block from the DDC to the codec: `LoadUpdate` and `LoadSelf`
are the two loads of `sdr->demod` in one expression (`sdrlib.c:423`; a build may
merge them), `Demodulate` the loop of a demodulator, `Resample` the order in
which `resamplerUpdate` loads `ratio` and `updown`, `Output` one block through
`codecEncode`. Clients go through `sdrSetVfo`, `sdrSetPbLo/Hi` and `sdrSetMode`
one store at a time. The rate after the DDC takes two values only, because
`sdrSetDdcFreqs` passes the passband the DDC has and not its arguments
(`sdrlib.c:215`): that of creation and that of any tuning.

`demodNullCreate` does not set `bufPtr` (`demod.c:37`), and when the two loads
come apart a demodulator runs on NULL's object. `Unset` are the values it may
find there: a place in the buffer, or `Outside`. With one outside, the sample is
stored there and the buffer handed on, or the whole block is stored there, or
the process ends (`DemodulateOutside`, `pc = "lost"`); what a store outside
damages besides is not followed.

### Filters and Resampling

One object of one kind (decimator, DDC, resampler, complex resampler, FIR) per
behaviour. An update copies the fields into locals (`Call`), goes round its loop
(`Keep`, `Skip`, `Widen`, `Fill`, `FillDone`) and stores them (`Return`); a
setter's stores interleave with that. Samples are numbered, so that an output is
the sequence of the samples under its taps. The accumulator counts in units of
`1/One`, with `One` such that every ratio is a whole number: the arithmetic is
exact, and rounding is what the abstraction leaves out. The setters of decimator
and DDC take any rate, as in the code. What is checked and proved has a premise
about their callers (`Narrower`): nobody asks a decimator or a DDC for a higher
rate than it is fed, with which it would put out one sample for each it gets and
its accumulator would run away. `sdrSetDdcFreqs` cannot ask for one. The three tests (`> 0` in
the decimator, the DDC and the complex resampler, `>= 0` in the resampler) are in
`Due`. A coefficient is the set of its terms, which is enough to tell what is
symmetric.

### Fft

`Read` is a read of the device with `fftUpdate` on its block; `FftTurn` is one
turn of that function's loop. A sample is its number in the stream, so that a
spectrum says which samples it came from. Every sample is counted by
`skipCounter`, but the pointer into the block moves with those collected alone:
the samples of a spectrum are the first of the block and not the ones the
counter reached. The sliding DFT, which nothing calls, is an operator
(`SdftUpdate`), with the result `{}` where `sdftUpdate` leaves its arrays.

### Controls, Console, Dial and FrontEnd

`Controls` holds the library as a record and each setter as a function of it;
commands are `parseAndExecute`, identical in both programs. A start has three
outcomes (`Outcomes`): the device does not open, it opens and `pthread_create`
fails, or there is a reader. The second leaves a device that `sdrStop`, which
asks `running` first, does not close (`sdrlib.c:163`, `179`). `Console` is
sdrcmd's loop: `ReadLine` is a turn with a new line, `EndOfInput` one after
`fgets` failed, which leaves in the buffer what `strtok_r` made of the last
line, its first word; the loop does not ask. The buffer is not initialised, so
that an input that is empty executes any line first. A stop that does not
return would end a behaviour earlier and is none of `Console`'s. `FrontEnd` has an action for each event of the GUI thread, with
the signals it emits and the slots they run: a turn of the dial sets the
library, the dial and, through `adjust`, the waterfall, whose signal sets the
library again. Every retune and every new vfo also writes a frequency into the
window (`showVfoFreq`), the sum of the device's, the offset and `Sdr::vfoFreq`.
Nothing sets that member before the vfo is first dragged or clamped; `Unset` are
the values it may have until then, and `heard` says that it was set. Widgets and
painting are left out.

### Tree

A `JsonVal` is a member of a small set; `type` is its tag, `"free"` before
`jsonCreate` and after `free`, and `cells` its list of `JsonNode`s or `JsonProp`s.
The 256 buckets are one list here, because members of the same name are always
in the same bucket (`Json` has the buckets). The application creates values,
puts one it owns into any container of its trees that is not inside that value
(`AppGive`), deletes what it holds and parses. `stack` is the recursion of
`parse`, `getObject` and `getArray`, a frame with the container and the name
just read; of the text only the structure is left, and `Mistake` may happen
wherever the code returns NULL. Every allocation may fail: a container may be
NULL (`Enter`), which `getObject` notices at its first put and `getArray` does not
(`PutCrashes`: `jsonArrAdd` reads the type of no array, `json.c:346`), a name may
be NULL, a put may be refused. `Unwind` is the return through one frame, which
deletes its container; the value that was refused is deleted by nobody and goes
to `lost`. `dying` are the values that a running `jsonDelete` has reached and not
freed yet, since its recursion is what could free a value twice: `DeleteCell`
and `DeleteValue` are its steps. `given` remembers what was put last under each
name of an object.

### Framing

`wire` is every byte written to a connection, `pos` how many of them are read,
`handled` what `onMessage` got. `SendFrame` is `wsSendPacket` or a client, which
sets the mask bit and masks: a header in one of three formats, the mask, the
payload. `Take` is one turn of the loop of `handleClientWebsocket`: header
(`ReadHeader`, `GetInt`), mask, payload, `onMessage`. The loop asks for a length
and does not look at how much came. So a turn may also end `Short`, when a read
came short, or `TooLong`, when a payload fills the buffer: then there is no room
for its terminator, or the rest of it is taken for frames. `step` says which;
nothing follows in the model. A frame is on the wire as a whole before it is
read. `begins` and `sent` are history, of what was written and where.

### Json, Wire, Scaling, Utilities and Algorithms

Pure operators, translated function by function, quirks included: the printer
that leaves out commas between buckets, the keyword test at the start of the
buffer, the SHA-1 padding of a block with 63 bytes, `listRemove` that compares
the head. A line of a request may hold a `"cut"`, the place where `fgets` has
read 254 characters; a file may be one that cannot be read, and a socket may take
less than it is given. `Scaling` is the pair of loops in `updatePs` as recursive functions,
`Narrow` and `Wide`, of a column. `Algorithms` builds every input up to a
length, one element at a time, and states what each result should be; where the
code differs, the property says for which inputs it holds. Four of its kinds of
input are the stream of `Fft`, the lines of `Console`, the heap of `Tree` and the
websocket of `Framing`, which move by those modules' own actions. `Utilities` also says what each constructor has acquired
after each of its failures.

## 3. What the runs check

| Run | Instance | Checks |
|---|---|---|
| `ring_buffer` | 3 slots, 2 parts, 2 sample values | `NoRace`, `ImplementsChannel`, `Consumed` |
| `session_app` | 1 controller making every call, 2 threads, device may drop | `ReaderHoldsHandle`, `TunesHeldDevice`, `StopFindsReader`, `StopReturnsOnceClosed` |
| `session_clients` | 2 controllers that start and stop, 2 threads | `ReaderFollowsDevice` |
| `ws_server` | 2 connections, 3 descriptors | `ClientWsLive`, `Published`, `DescriptorsHeld`, `BrokenClientEnds` |
| `queue` | 2 producers, 2 consumers, 3 slots, 2 buffers | `NoLostWakeup`, `ImplementsFifo`, `Served` |
| `signal` | 5 kinds, 3 taps, rates 2 and 3, blocks of 2, 4 samples in calls of up to 2 | `Bounded`, `NoDrift`, `Continuous`, `Settled`, `LinearPhase`, `UpdateReturns` |
| `rtl_device` | 3 opens, a ring of 2 blocks, 4 blocks delivered | `Lifetimes`, `InOrder`, `CloseReturns` |
| `receiver` | 2 clients, 3 modes, NULL's pointer outside its buffer or inside, blocks of 5 units, frames of 2, pages of 2 packets | `NeverTorn`, `OneModePerBlock`, `TunedAsAsked`, `PageWhole`, `PagesKeepComing` |
| `front_end` | 2 values in an unset `vfoFreq`, 8 pixels, 2 zooms, a dial of 2 binary digits, 2 offsets | `VfoAgrees`, `InView`, `DialShowsDevice` |
| `algorithms` | all inputs of 3 to 7 elements, sizes to 140; transforms of 3 after 2 skipped, a stream of 22 in reads of 1, 2, 3, 4 and 9; 4 lines out of 16; 4 JSON values, 2 names, 2 containers in one another; 2 frames of 0, 126, 65536 or 65537 bytes, masked or not, and a buffer of 65537 | `TreesKept`, `JsonText`, `FramesInStep`, `Traffic`, `PureParts`, `SpectraFollow`, `SettingsKept` |

What they show, for the parts that have no section of their own above: the
ratio an update works with is never torn into one that cannot be (`NeverTorn`:
setters store `updown` before `ratio`, updates load them the other way around)
and never zero (`Bounded`), so that interpolation ends whatever a client sets
meanwhile; a stream may be cut into calls anywhere (`Continuous`); with fixed
rates the number of outputs is right to one sample for good (`NoDrift`); a block
that meets a change of mode half-way is run by one demodulator's code on
another's buffer and still leaves nothing behind in it (`OneModePerBlock`,
because a block has exactly the size of the buffer; NULL's, where no block
belongs, is excepted); the codec hands over whole
pages without a gap (`PageWhole`); the driver's callback never outlives its ring
although nobody joins its thread (`Lifetimes`); handlers close each descriptor
they open, whoever got its number meanwhile (`DescriptorsHeld`); every JSON value has one owner
whatever fails, values never own each other in a ring, and an object answers
what was put into it last (`TreesKept`); spectra come at equal distances
and out of samples in order, wherever a read ends (`SpectraFollow`); frames of
every format reach `onMessage` as they were sent, and the loop stands between two
of them until a read comes short or a payload does not fit (`FramesInStep`); and only a
stop with a start after it undoes a tuning, not a second start, a cut line or
the end of the input (`SettingsKept`).

Premises that say what the code does *not* do: `TunedAsAsked` needs calls that do
not overlap, `CloseReturns` and `Lifetimes` except a thread that had not begun
when `close` was called, and `Lifetimes` a device that got no ring;
`DescriptorsHeld` excepts the sockets the listener leaks, `OneModePerBlock` the
buffer of NULL, `PagesKeepComing` a process that a store outside a buffer ended;
`VfoAgrees` is about `vfoFreq` once a drag or a clamp has set it, and about the
display while, besides, the dial tuned the running device last; `SettingsKept`
says that a stop does not undo a start that got no reader; `DialShowsDevice` waits for the next turn of the dial
after a start, `TreesKept` counts as owned what a refused put has lost in the
parser and is about applications that put no value into its own tree, `JsonText` is about texts without numbers, quotes, empty
containers or members in two buckets, `Handshake` (in `Traffic`) about messages
that do not leave 63 bytes in their last block, `SettingsKept` about gains that
are not `nan`, and `PureParts` about lists whose second element is not the one removed, a
sliding sum of single samples that has not had its `N` samples yet (`SumsUntilFull`; with more
at once or after that `sdftUpdate` leaves its arrays), and creations that leak
nothing but what it names: the ring of an `Audio`, the object of a `WsServer` that got no socket.
In `Traffic`, `UpgradedInHeader` is about header lines that `fgets` reads whole,
and says that one cut before its end ends the header; `FileWhole` is about files
that can be read, sent to a socket that takes each buffer whole, and says that of
a directory nothing is sent. `FramesInStep` is about payloads below 2^31 bytes
(`FramingAssumption`).

Two runs end with a counterexample:

| Run | Refutes | Because |
|---|---|---|
| `session_stop_hangs` | `StopReturns`, "Stop sdrlib processing" (`sdrlib.h:106`) | `sdrStop` joins the reader (`sdrlib.c:182`) before it clears `running` or closes the device, the two things the reader's loop looks at |
| `ws_client` | `ClientWsFound`, "an existing client websocket, if any" (`wsserver.h:85`) | any handler that ends sets `clientWs` to NULL (`wsserver.c:715`), whoever's it is |

With the RTL driver the first `sdrStop` after a successful start never returns.
`Receiver`, `RtlDevice` and `FrontEnd` are about what holds when it does, as with
a driver that reports itself closed.

Other disagreements are part of the models and of no run: `sdrDelete` does not
stop the reader; a `pthread_create` that fails leaves the device open, and no
stop closes it; the listener leaks a socket for which it gets no record or no
thread (`wsserver.c:816`, `828`), and `wsCreate` its object when it gets no socket
(`887`); `GET /` answers with the length of a directory and none of its bytes
(`623`); a header line of 254 characters ends the header (`748`); a request line
without a word ends the process (`738`); the first click on the dial displays a sum
with a `vfoFreq` that nothing has set (`sdr.cpp:93`); a demodulator may run
with a buffer pointer that nothing has set (`demod.c:37`); two
concurrent stops join the same thread twice; a socket number is closed twice
(`wsserver.c:780`, `782`); `sdrSetPbLo` and `sdrSetPbHi` change nothing but rates;
`getInt` returns an int, so that a frame of 2^31 bytes or more is read with another
length, and a negative one passes the test of the buffer's size (`wsserver.c:477`, `686`);
`sdrGetMode` does not follow `sdrSetMode`; every start tunes to 88.7 MHz; a value
that a put refuses while `jsonParse` runs is never freed, and a `getArray` without
memory for its array crashes at its first item.

**Why these bounds.** The ring's arithmetic distinguishes empty, partly used and
full, and head before or after tail: three slots reach all of them, with up to
two elements in the store buffer, and two parts are enough for a torn element to
differ from a written one. A start, a
stop and a restart need two thread identities, since an identity is free again
after the join and a reader that ended by itself leaves no way to start a third.
Two handlers and three descriptors are the least with which a number is closed
by one thread, taken by another and closed again, with a file between them, and
with which `accept` runs out. Four threads on three slots is the most the
condition for `NoLostWakeup` allows, and two of each kind is the least with which
a signal can go to the wrong one. Rates of 2 and 3 give a ratio below one whose
accumulator takes more than one value in both directions; blocks of two and
calls of up to two let a buffer fill inside a call and stay half full after one.
A third open lets a thread of the first meet a handle that is neither its own
nor the next. Frames of two in blocks of five, in pages of two packets, make
frames and pages end inside blocks at varying places. An unset pointer need only be
outside the buffer or where no block leaves one; an unset `vfoFreq` other than 0, the vfo it stands beside. On eight pixels with two
zooms every drag meets its limit and every clamp acts. Inputs of four to seven
elements pass each border in the algorithms at least once: a group of base64, a
bucket shared by two names, a block boundary of the transform; sizes up to 140
pass two blocks of SHA-1, and headers are built around 126 and 65536 as well. The
four lengths of whole frames are the shortest of each format, the empty one, and
one the buffer does not hold; two frames show that the first leaves the loop where
the second begins.
Reads of 1 to 9 against a period of five samples end while samples are skipped,
between two that are collected and with a spectrum, and the longest holds more
than one period; 22 samples are four. Four lines are a start, a setting, and a
pair that could undo it. Four JSON values are an object in an object with a
member, and the value that takes its place. The
theorems of section 5 remove the bounds for the safety properties they state.

`CHECK_DEADLOCK FALSE` is set where the system may really stop: after
`sdrDelete`, a crash or the end of the process, with a stop that hangs, with a
queue or a device that was deleted, a window that was closed, or an input at its
bound. `Capacity`, `MaxOpens`, `MaxBlocks`, `MaxSamples`, `MaxCall`, `MaxOut`,
`MaxFrames`, `MaxWire`, `Numbers`, `Bound`, `Unset`, `MaxDepth`, `Longest`, `Largest`, `Most` and `MostLines` bound the instances.

## 4. Fairness

- *Ring*: weak fairness of the reader, because `sdrReaderThread` calls `read()`
  in a loop and PortAudio calls `paCallback` for every output block; a copy the
  writer began is finished, and a processor empties its store buffer. Nothing
  obliges the writer to begin.
- *Session*: weak fairness of each controller inside a call and of each reader
  thread: the scheduler runs what can run. Nobody has to make a call, and a
  device does not have to drop. `session_stop_hangs` is therefore a real hang and
  no starvation.
- *Web server*: weak fairness of a handler's failing read and of the steps by
  which it ends. Clients, and commands they might send, are under no obligation.
- *Queue*: weak fairness of a thread that is awake inside a call: it gets the
  mutex in the end. Sleepers do not have to wake by themselves and threads do
  not have to call again.
- *Rate converters*: weak fairness of the loop of an update that was called.
  Setters and further calls are free.
- *Driver*: weak fairness of `close` once called and of a callback that began;
  and librtlsdr's event loop notices, sooner or later, that a stream was
  cancelled. Nobody has to open, and the receiver need not deliver.
- *Receiver*: weak fairness of the reader, whose device delivers. Clients are
  free; `PagesKeepComing` assumes that they leave the mode NULL in the end.

## 5. What is proved

Each theorem holds for every value of the constants that satisfies the named
assumptions of its module.

| Theorem | Says | Argument |
|---|---|---|
| `RaceFree` | `NoRace` | `IInv` |
| `InvariantHolds` | `IInv` | inductive: `InTurn` (around the ring come `tail`, `rtail`, `head`, `whead`) and `Separation` (a copying writer has `Advance(whead) # tail`, a copying reader `head # rtail`) protect both partial copies (`ReadFaithful`, `WriteFaithful`); `MemoryFaithful` says memory has what the writer stored in every slot a read can reach, `UsedAreElements` that it was written whole |
| `RingImplementsChannel` | `Spec => Chan!Spec` | the abstract channel is the slots from `rtail` to `whead`, as the writer stored them, of which those up to `head` have arrived; storing `head` appends, storing `tail` takes the head, `LandHead` and `LandTail` are its `Arrive` and `Return`, all else stutters; `ReadFaithful` and `MemoryFaithful` make the copy returned equal to the head |
| `SerialInvariant` | with one controller, `SerialInv` | inductive, one part per phase of a call: nobody reads while a start is under way, a reader that is alive is the one the next join will name, `device` implies that the USB device is held |
| `ReaderSafe`, `TuningSafe`, `JoinSafe`, `NoReaderEscapes` | with one controller, `ReaderHoldsHandle`, `TunesHeldDevice`, `JoinsOnce`, `StopFindsReader` | `SerialInv` |
| `StartsAgree` | without stops, any number of clients share one reader | `StartersInv`: at most one controller is past `open`, and only it creates a thread |
| `ClientWsNeverDangles`, `StreamMeetsNoJunk`, `DescriptorsReturn` | `ClientWsLive`, `Published`, `DescriptorsHeld` | `WsInv`, for any number of handlers and descriptors, and with a listener that fails |
| `FramingInvariant`, `FramesReadAsSent` | `FramesInStep`, for any frames, masks and buffer | `FramingInv`: the bytes of every frame sent lie where it begins, and it ends where the next begins (`OnTheWire`); the loop stands at the end of the last one handled (`Handled`). `HeaderRead` gets mask, length and place of the payload back from each format of the header, `FrameRead` the payload |
| `QueueInvariant`, `QueueImplementsFifo` | `IInv`, `ImplementsFifo` | `head` is `count` slots after `tail`; the abstract sequence is those slots |
| `QueueDeadlockFree` | if `\|P\| + \|C\| <= 2 Size`, `NeverAllAsleep` | `DrainInv` |
| `QueueWakes` | if `\|P\| + \|C\| <= Size + 1`, `NoLostWakeup` | `WakeInv` |
| `RatesBounded` | `Bounded`: ratios in (0, 1], the accumulator within one sample of zero between calls | inductive as it stands; it rests on `RatesAssumption`, that the ratio of two rates is a positive number of units |
| `NeverDrifts` | `NoDrift` | `Books`: with unchanged rates the accumulator *is* inputs times ratio less outputs (or the reverse when widening), and a call continues the books of the last one |
| `PhaseIsLinear` | `LinearPhase`: every design is symmetric | of an odd size the terms of a tap are those of its mirror image |
| `CallsSettle` | `Settled`: a call that began after the latest setter returned has the ratio and direction of the rates in force | `SettledInv`: which of the fields a setter still has to store |
| `StreamsContinue` | `Continuous`: the blocks a stream is cut into are of no consequence | `FlowInv`: buffer, delay line and phase as functions of the samples so far, between calls and within one |
| `DeviceSafe` | `DeviceInv`, and so `Lifetimes` | inductive: at most one thread streams, from the handle that is open; a thread that has not begun belongs to the latest open or is in `late`; the ring is that of the open device unless it is in `ringless` |
| `BlocksInOrder` | `InOrder`: blocks are read in the order of delivery, across every close and open | `OrderInv`: what was read, then the ring of the open device, rises |
| `SettersSafe`, with `RatioNeverTorn`, `ModesStayApart`, `TuningArrives` | `NeverTorn`, `OneModePerBlock`, `TunedAsAsked`, for any number of clients and any `Unset` | `SettersInv`: `ratio` is only stored after `up`; a setter that nobody overlaps carries the vfo last asked for |
| `PagesAreWhole` | `PageWhole`, for any size of block, frame and page | `CodecInv` holds after every unit of a block, hence after the block |
| `SpectraInOrder` | `SpectraFollow`, for any transform, distance and reads | `SpectraInv` holds after every turn of `fftUpdate`'s loop (`TurnKeeps`), hence after a read: the counter is the samples since the last spectrum, and the pointer never overtakes it |
| `WindowSafe`, with `TuningAgrees`, `PassbandNeverCrosses`, `VfoStaysInView` | `VfoAgrees`, `PassbandKept`, `InView`, for any screen and tuner | `WindowInv`: the four conjuncts need each other, since a clamp moves the vfo and must tell the library; before the first the vfo is 0, and after it `vfoFreq` is the vfo (`heard`) |
| `DialAgrees` | `DialShowsDevice`, for any number of digits and any base | `DialInv` says which frequency the digits were cut from; `DialReads` that they add up to it |
| `ClicksTurn` | `DialTurns`: a click turns the number on the dial by the weight of its digit, through every carry and borrow, and tunes the device to that | `IncrTurns`, `DecrTurns` |
| `SpectraSpread` | `Spreads`: what `updatePs` shows in each column, for any size, zoom and width | `NarrowAt`, `WideAt`: the accumulator is what the place in the spectrum is ahead of the column |
| `TreeInvariant`, `TreesAreKept` | `TreesKept`, for any number of values and names and any depth | `TreeInv`: the sets of values held by cells, application, `jsonDelete`, parser and nobody are disjoint and make up what is not free; each value is in one cell or one frame (`HeldOnce`, `StackedOnce`); `Remembered` that an object has one member of a name. A put may close a ring only through the value put, and that one's tree does not hold the container (`AppGiveKeeps`) |
| `ConsoleKeeps` | `SettingsKept`, for any lines, tuner and rate | `ConsoleInv`: the device is open, and has a reader, as the starts that no line undid say; `Effect` reads off a line's words what it does |

The hypothesis *one controller* is essential: with two that stop at the same
time the second join is an ignored error and the device is closed under the
reader. So are the hypotheses on the queue: with one slot, two
producers and one consumer TLC finds a lost wakeup.

The two counting arguments. *No deadlock*: one kind of thread, call it X, has at
most `Size` members. While some X sleeps, every step of another thread since the
queue was last full for X has woken a sleeper, so there are never more sleepers
than units of work left, and for everybody to be asleep Y would need `Size` of
its members awake. *No lost wakeup*: with at most `Size + 1` threads only one
kind sleeps at a time, and the units of work available to it are matched by
members of it that were woken and have not run yet.

**Only model-checked**: the liveness properties (`Consumed`,
`StopReturnsOnceClosed`, `ReaderFollowsDevice`, `BrokenClientEnds`, `Served`,
`UpdateReturns`, `CloseReturns`, `PagesKeepComing`), since the prover does not do
fairness; `JsonText`, `Traffic` and `PureParts` but for what it says of the
waterfall's columns, whose operators are declared RECURSIVE or fold
over their inputs, which the prover cannot unfold; and the two counterexamples.

**Only proved**: `JoinsOnce`, `NeverAllAsleep`, `PassbandKept`, `DialTurns` and
`Spreads` for the sizes beyond those of `PureParts`; no run lists the first four.
(In the run `queue` `NeverAllAsleep` would say nothing that `NoLostWakeup` does
not: its four threads on three slots never have both kinds asleep.)

*Induction.* The library's induction theorems take an operator, which no
installed prover can instantiate. Loops that the modules write as recursive
functions over numbers (`turn` of `Fft`, the digits of the dial, the columns of
the waterfall, the units of a block, the samples of a call) are nevertheless
proved about, by the least counterexample: a set of numbers that is not empty
has a least member (`Least`, from the well-foundedness of `<`), and the step
from its predecessor contradicts it.

**Assumed, from outside `src/`**: memory that keeps the stores of a thread in
order, for the ring, and sequentially consistent memory elsewhere; POSIX mutexes,
condition variables, joins and descriptor allocation; `rtlsdr_open` claims the
device exclusively; librtlsdr's cancelling and closing, TCP reset and SIGPIPE
behave as described above.

## 6. What is not modelled, and what could follow

- *Floating point*: sample values, the rounding of accumulators and phases, the
  transforms and the biquad section. The models are exact where the code rounds.
- *Sizes of encoded data*: `codecEncode` copies pages into `oggbuf` without a test
  (`codec.c:150`); whether they fit depends on Opus.
- *Short writes* of a websocket frame (`wsserver.c:449`; those of a file are in `ServeFile`), and what the loop makes of
  the bytes after a read that came short, or of a payload cut at the end of the buffer
  (`wsserver.c:686-708`): both do reach `onMessage`, with what the buffer held, after
  the step at which `Framing` stops. `FramesInStep` is about the messages before.
- *A server that ends*: what handlers and stream do between `svrDelete` and the
  exit of the process.
- *Weak memory*: store buffers are part of the ring only; the fields that setters,
  handlers and readers share without a lock are modelled with sequential
  consistency, and reordering of stores not at all.
- *Widgets and painting*, gain sliders and mode buttons, and the calls the reader
  thread makes into the window (`sdr.cpp:54`); the gain of `audio.c`.
- *Trace and error output, the smoke test, the web page, the polyphase generator,
  the headers of Windows libraries and the build*: no state of the program.

What could follow: `sdrserver` with `Receiver` and `WsServer` composed, so that a
page's way to a client is one model; the ring of `RtlDevice` as an instance of
`Channel`.
