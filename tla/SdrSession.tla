----------------------------- MODULE SdrSession -----------------------------
(***************************************************************************)
(* The life of an SdrLib instance (src/sdrlib.c): the API calls sdrStart,  *)
(* sdrStop, the getters and setters that go through sdr->device, and       *)
(* sdrDelete, made by one or several controlling threads, the reader       *)
(* thread sdrStart creates, and the driver's open and close                *)
(* (device/device-rtl.c).  No lock protects any of it.                     *)
(*                                                                         *)
(* A call is a sequence of steps, one per access to a field another thread *)
(* may use.  sdrcmd and the Qt application have one controller; sdrserver  *)
(* has one per connected client.                                           *)
(***************************************************************************)
CONSTANTS Controllers,    \* threads that call the library
          Calls,          \* the calls each of them makes
          Threads,        \* threads pthread_create can hand out at a time
          NoThread,       \* sdr->thread as sdrCreate's memset left it
          DeviceMayDrop   \* the driver may report isOpen = 0 by itself;
                          \* the RTL driver never does

ASSUME CallsAssumption ==
         Calls \in [Controllers -> SUBSET {"start", "stop", "tune", "delete"}]
ASSUME NoThreadAssumption == NoThread \notin Threads
ASSUME DropAssumption == DeviceMayDrop \in BOOLEAN

VARIABLES
  lib,                    \* "live", "freed" by sdrDelete, or "crashed"
  running, device, thread,\* fields of SdrLib; device: is it non-NULL
  isOpen, handle,         \* driver: its flag; are librtlsdr and the ring held
  pc, thr,                \* callers: control, local pthread_t
  rpc                     \* control of each thread

session == <<running, device, thread>>
driver  == <<isOpen, handle>>
callers == <<pc, thr>>
vars == <<lib, session, driver, callers, rpc>>

Init == /\ lib = "live"
        /\ running = FALSE /\ device = FALSE /\ thread = NoThread
        /\ isOpen = FALSE /\ handle = FALSE
        /\ pc = [c \in Controllers |-> "idle"]
        /\ thr = [c \in Controllers |-> NoThread]
        /\ rpc = [r \in Threads |-> "none"]

\* Controller c is at label l of a call and goes on to label m, or returns.
Step(c, l, m) == lib = "live" /\ pc[c] = l /\ pc' = [pc EXCEPT ![c] = m]
Return(c, l)  == Step(c, l, "idle") /\ thr' = [thr EXCEPT ![c] = NoThread]
-----------------------------------------------------------------------------
\* sdrStart.  Its first test reads running, then device.

StartCheckRunning(c) ==
  /\ "start" \in Calls[c]
  /\ IF running THEN Return(c, "idle")
                ELSE Step(c, "idle", "checkDevice") /\ UNCHANGED thr
  /\ UNCHANGED <<lib, session, driver, rpc>>

StartCheckDevice(c) ==
  /\ IF device THEN Return(c, "checkDevice")
               ELSE Step(c, "checkDevice", "open") /\ UNCHANGED thr
  /\ UNCHANGED <<lib, session, driver, rpc>>

\* The driver refuses a device it believes open, or that librtlsdr cannot
\* open; a device left held is such a device.
OpenFails(c) ==
  /\ Return(c, "open")
  /\ UNCHANGED <<lib, session, driver, rpc>>

\* open() when asyncThread cannot be created: FALSE, with isOpen left set.
OpenHalfDone(c) ==
  /\ ~isOpen /\ ~handle
  /\ Return(c, "open")
  /\ isOpen' = TRUE /\ handle' = TRUE
  /\ UNCHANGED <<lib, session, rpc>>

\* rtlsdr_open claims the USB device, so of two callers that both saw
\* isOpen = 0 only one gets past it: test and open are one step.
Open(c) ==
  /\ ~isOpen /\ ~handle
  /\ Step(c, "open", "publish")
  /\ isOpen' = TRUE /\ handle' = TRUE
  /\ UNCHANGED <<lib, session, thr, rpc>>

StartPublish(c) ==
  /\ Step(c, "publish", "spawn")
  /\ device' = TRUE
  /\ UNCHANGED <<lib, running, thread, driver, thr, rpc>>

\* The new thread may run before its identity is recorded.
StartSpawn(c) ==
  /\ Step(c, "spawn", "record")
  /\ \E r \in Threads : /\ rpc[r] = "none"
                        /\ rpc' = [rpc EXCEPT ![r] = "begin"]
                        /\ thr' = [thr EXCEPT ![c] = r]
  /\ UNCHANGED <<lib, session, driver>>

SpawnFails(c) ==
  /\ Return(c, "spawn")
  /\ UNCHANGED <<lib, session, driver, rpc>>

StartRecord(c) ==
  /\ Step(c, "record", "mark")
  /\ thread' = thr[c]
  /\ UNCHANGED <<lib, running, device, driver, thr, rpc>>

StartMarkLeftToReader(c) ==       \* a mutant: the reader sets running anyway
  /\ Return(c, "mark")
  /\ UNCHANGED <<lib, session, driver, rpc>>

StartMark(c) ==
  /\ Return(c, "mark")
  /\ running' = TRUE
  /\ UNCHANGED <<lib, device, thread, driver, rpc>>
-----------------------------------------------------------------------------
\* sdrStop.  It waits for the reader without telling it to end.

StopCheckRunning(c) ==
  /\ "stop" \in Calls[c]
  /\ IF running THEN Step(c, "idle", "join") /\ UNCHANGED thr
                ELSE Return(c, "idle")
  /\ UNCHANGED <<lib, session, driver, rpc>>

StopJoin(c) ==
  /\ Step(c, "join", "joining")
  /\ thr' = [thr EXCEPT ![c] = thread]
  /\ UNCHANGED <<lib, session, driver, rpc>>

Joinable == {r \in Threads : rpc[r] # "none"}

\* pthread_join of what is not a joinable thread, or of one that another
\* thread is already joining.
Undefined(c) == \/ thr[c] \notin Joinable
                \/ \E d \in Controllers \ {c} :
                      pc[d] = "joining" /\ thr[d] = thr[c]

StopJoinedAtOnce(c) ==            \* a mutant: the wait is left out
  /\ Step(c, "joining", "close")
  /\ UNCHANGED <<lib, session, driver, thr, rpc>>

StopJoined(c) ==
  /\ Step(c, "joining", "close")
  /\ ~Undefined(c)
  /\ rpc[thr[c]] = "dead"
  /\ rpc' = [rpc EXCEPT ![thr[c]] = "none"]
  /\ UNCHANGED <<lib, session, driver, thr>>

\* Undefined: pthread_join returns an error at once, which sdrStop ignores ...
JoinReturnsError(c) ==
  /\ Step(c, "joining", "close")
  /\ Undefined(c) /\ thr[c] # NoThread
  /\ UNCHANGED <<lib, session, driver, thr, rpc>>

\* ... or follows an identity that is no thread (a null one always).
JoinCrashes(c) ==
  /\ Step(c, "joining", "joining")
  /\ thr[c] \notin Joinable
  /\ lib' = "crashed"
  /\ UNCHANGED <<session, driver, thr, rpc>>

\* close() clears isOpen first, then gives up librtlsdr and the ring.
StopClose(c) ==
  /\ IF device THEN Step(c, "close", "release") /\ isOpen' = FALSE
               ELSE Step(c, "close", "unmark") /\ UNCHANGED isOpen
  /\ UNCHANGED <<lib, session, handle, thr, rpc>>

StopRelease(c) ==
  /\ Step(c, "release", "clear")
  /\ handle' = FALSE
  /\ UNCHANGED <<lib, session, isOpen, thr, rpc>>

StopClearForgotten(c) ==          \* a mutant: device keeps its pointer
  /\ Step(c, "clear", "unmark")
  /\ UNCHANGED <<lib, session, driver, thr, rpc>>

StopClear(c) ==
  /\ Step(c, "clear", "unmark")
  /\ device' = FALSE
  /\ UNCHANGED <<lib, running, thread, driver, thr, rpc>>

StopUnmark(c) ==
  /\ Return(c, "unmark")
  /\ running' = FALSE
  /\ UNCHANGED <<lib, device, thread, driver, rpc>>
-----------------------------------------------------------------------------
\* The getters and setters of frequency, sample rate and gain read
\* sdr->device and call the driver through it.

TuneRead(c) ==
  /\ "tune" \in Calls[c]
  /\ device
  /\ Step(c, "idle", "use")
  /\ UNCHANGED <<lib, session, driver, thr, rpc>>

TuneUse(c) ==
  /\ Step(c, "use", "idle")
  /\ UNCHANGED <<lib, session, driver, thr, rpc>>

\* sdrDelete neither stops the reader nor closes the device; what a reader
\* still alive does with the freed memory is not modelled.
Delete(c) ==
  /\ "delete" \in Calls[c]
  /\ Step(c, "idle", "idle")
  /\ lib' = "freed"
  /\ UNCHANGED <<session, driver, thr, rpc>>
-----------------------------------------------------------------------------
\* sdrReaderThread.  It takes dev from sdr->device when it begins.

Runs(r, l, m) == lib = "live" /\ rpc[r] = l /\ rpc' = [rpc EXCEPT ![r] = m]

ReaderBegin(r) ==
  /\ device
  /\ Runs(r, "begin", "check")
  /\ running' = TRUE
  /\ UNCHANGED <<lib, device, thread, driver, callers>>

ReaderBeginNull(r) ==             \* dev is NULL and dev->isOpen is called
  /\ ~device
  /\ Runs(r, "begin", "begin")
  /\ lib' = "crashed"
  /\ UNCHANGED <<session, driver, callers>>

ReaderCheckRunningOnly(r) ==      \* a mutant: isOpen is not looked at
  /\ Runs(r, "check", IF running THEN "read" ELSE "exit")
  /\ UNCHANGED <<lib, session, driver, callers>>

ReaderCheck(r) ==
  /\ Runs(r, "check", IF running /\ isOpen THEN "read" ELSE "exit")
  /\ UNCHANGED <<lib, session, driver, callers>>

ReaderReadRetries(r) ==           \* a mutant: read() again until samples come
  /\ Runs(r, "read", IF isOpen THEN "check" ELSE "read")
  /\ UNCHANGED <<lib, session, driver, callers>>

\* read(), and when it returned samples the spectrum and the demodulation.
ReaderRead(r) ==
  /\ Runs(r, "read", "check")
  /\ UNCHANGED <<lib, session, driver, callers>>

ReaderExit(r) ==
  /\ Runs(r, "exit", "dead")
  /\ running' = FALSE
  /\ UNCHANGED <<lib, device, thread, driver, callers>>

DeviceDrop ==
  /\ DeviceMayDrop /\ lib = "live" /\ isOpen
  /\ isOpen' = FALSE
  /\ UNCHANGED <<lib, session, handle, callers, rpc>>
-----------------------------------------------------------------------------
Starting(c) == \/ StartCheckDevice(c) \/ OpenFails(c) \/ OpenHalfDone(c)
               \/ Open(c) \/ StartPublish(c) \/ StartSpawn(c) \/ SpawnFails(c)
               \/ StartRecord(c) \/ StartMark(c)

Stopping(c) == \/ StopJoin(c) \/ StopJoined(c) \/ JoinReturnsError(c)
               \/ JoinCrashes(c) \/ StopClose(c) \/ StopRelease(c)
               \/ StopClear(c) \/ StopUnmark(c)

Controller(c) == \/ StartCheckRunning(c) \/ StopCheckRunning(c) \/ TuneRead(c)
                 \/ Delete(c) \/ Starting(c) \/ Stopping(c) \/ TuneUse(c)

Reader(r) == \/ ReaderBegin(r) \/ ReaderBeginNull(r) \/ ReaderCheck(r)
             \/ ReaderRead(r) \/ ReaderExit(r)

Next == \/ \E c \in Controllers : Controller(c)
        \/ \E r \in Threads : Reader(r)
        \/ DeviceDrop

Spec == Init /\ [][Next]_vars

\* The scheduler runs every thread that can run.  Nobody is obliged to make
\* another call, and a device is not obliged to drop.
Fairness == /\ \A c \in Controllers :
                  WF_vars(Starting(c) \/ Stopping(c) \/ TuneUse(c))
            /\ \A r \in Threads : WF_vars(Reader(r))

LiveSpec == Spec /\ Fairness
-----------------------------------------------------------------------------
Labels == {"idle", "checkDevice", "open", "publish", "spawn", "record", "mark",
           "join", "joining", "close", "release", "clear", "unmark", "use"}

TypeOK == /\ lib \in {"live", "freed", "crashed"}
          /\ running \in BOOLEAN /\ device \in BOOLEAN
          /\ thread \in Threads \cup {NoThread}
          /\ isOpen \in BOOLEAN /\ handle \in BOOLEAN
          /\ pc \in [Controllers -> Labels]
          /\ thr \in [Controllers -> Threads \cup {NoThread}]
          /\ rpc \in [Threads -> {"none", "begin", "check", "read", "exit", "dead"}]

Alive(r) == rpc[r] \in {"begin", "check", "read", "exit"}

\* The reader thread never reads from a driver whose ring and USB handle
\* close() gave up: sdrStop closes only after pthread_join.
ReaderHoldsHandle == \A r \in Threads : rpc[r] = "read" => handle

\* A setter, and sdrStart's own setGain and setCenterFrequency, reach a
\* device that is held: sdr->device is never published before open() nor
\* left behind by close() when the next call begins.
TunesHeldDevice ==
  \A c \in Controllers : pc[c] \in {"spawn", "use"} => handle

\* pthread_join is called on a thread that was created and not joined yet.
JoinsOnce == \A c \in Controllers :
               pc[c] = "joining" => thr[c] \in Joinable

\* One reader thread at a time feeds the demodulators, which it shares with
\* no lock.
OneReader == \A q, r \in Threads : Alive(q) /\ Alive(r) => q = r

\* Between calls, a reader that is alive is one sdrStop would find: running
\* is set and sdr->thread is that reader.
StopFindsReader ==
  (\A c \in Controllers : pc[c] = "idle") =>
    \A r \in Threads : Alive(r) => running /\ thread = r

\* Why the invariants hold when there is one controller.  Owned(t): thread t
\* is there to be joined, and no other reader is alive.
Quiet    == \A r \in Threads : ~Alive(r)
Owned(t) == t \in Joinable /\ \A r \in Threads : Alive(r) => r = t

InStart(c) == /\ pc[c] \in {"checkDevice", "open", "publish", "spawn"} => Quiet /\ ~running
              /\ pc[c] \in {"open", "publish"} => ~device
              /\ pc[c] = "publish" => handle
              /\ pc[c] \in {"record", "mark"} => Owned(thr[c])
              /\ pc[c] = "mark" => thread = thr[c]

InStop(c) == /\ pc[c] \in {"join", "joining"} => Owned(thread)
             /\ pc[c] = "joining" => thr[c] = thread
             /\ pc[c] \in {"close", "release", "clear", "unmark"} => Quiet

Between(c) == pc[c] \in {"idle", "use"} =>
                /\ running => device /\ Owned(thread)
                /\ Quiet \/ running

DeviceHeld(c) == /\ Quiet \/ device
                 /\ device => handle \/ pc[c] = "clear"
                 /\ pc[c] \in {"spawn", "record", "mark", "join", "joining",
                              "close", "release", "use"} => device

SerialInv == /\ TypeOK
             /\ lib # "crashed"
             /\ \A c \in Controllers :
                   InStart(c) /\ InStop(c) /\ Between(c) /\ DeviceHeld(c)

\* Why one reader survives concurrent starts, as long as nobody stops: open()
\* lets one caller through, and only that caller creates a thread.
Opened(c) == pc[c] \in {"publish", "spawn", "record", "mark"}

StartersInv == /\ TypeOK
               /\ \A c \in Controllers :
                     pc[c] \in {"idle", "checkDevice", "open", "use"} \/ Opened(c)
               /\ \A c, d \in Controllers : Opened(c) /\ Opened(d) => c = d
               /\ \A c \in Controllers :
                     /\ Opened(c) => handle
                     /\ pc[c] \in {"publish", "spawn"} => Quiet
               /\ handle \/ Quiet
               /\ OneReader

\* However calls overlap, a reader whose device is closed ends, unless
\* another client opens the device again.
ReaderFollowsDevice ==
  \A r \in Threads :
    (Alive(r) /\ ~isOpen) ~> (~Alive(r) \/ isOpen \/ lib # "live")

\* Once the device is no longer open, a stop that waits for the reader
\* returns.
StopReturnsOnceClosed ==
  \A c \in Controllers :
    (pc[c] = "joining" /\ ~isOpen) ~> (pc[c] = "idle" \/ lib # "live")
-----------------------------------------------------------------------------
\* What a header says and the code does not do.

\* "Stop sdrlib processing" (src/sdrlib.h:106): a stop comes to its end.
StopReturns == \A c \in Controllers :
                 (pc[c] = "joining") ~> (pc[c] = "idle" \/ lib # "live")
=============================================================================
