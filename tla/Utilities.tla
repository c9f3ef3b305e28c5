---------------------------- MODULE Utilities ----------------------------
(***************************************************************************)
(* The list of src/util.c over a heap of nodes, the scan for devices of    *)
(* src/device.c, and what the constructors and destructors of the library  *)
(* acquire and give back.                                                  *)
(***************************************************************************)
EXTENDS Integers, Sequences, FiniteSets

\* A heap maps the live nodes to [next, data]; Null is no node.
Null == 0
Node(next, data) == [next |-> next, data |-> data]
Without(heap, n) == [m \in DOMAIN heap \ {n} |-> heap[m]]

RECURSIVE LastNode(_, _), DataFrom(_, _)
LastNode(heap, n) == IF heap[n].next = Null THEN n ELSE LastNode(heap, heap[n].next)
\* listForEach, the data it is called with, in order.
DataFrom(heap, n) == IF n = Null THEN <<>> ELSE <<heap[n].data>> \o DataFrom(heap, heap[n].next)

\* listAppend, of a node nobody has; it returns the node, not the list.
ListAppend(heap, list, new, data) ==
  LET grown == [m \in DOMAIN heap \cup {new} |-> IF m = new THEN Node(Null, data) ELSE heap[m]]
  IN  IF list = Null THEN grown ELSE [grown EXCEPT ![LastNode(heap, list)].next = new]

\* listRemove's loop.  It compares the data of the list's head, which it may
\* have freed; a read or a write of a freed node is undefined.
UndefinedList == [heap |-> <<>>, list |-> -1]

RECURSIVE RemoveLoop(_, _, _, _, _)
RemoveLoop(heap, list, prev, curr, data) ==
  IF curr = Null THEN [heap |-> heap, list |-> list]
  ELSE IF list \notin DOMAIN heap THEN UndefinedList
  ELSE LET next == heap[curr].next
       IN  IF heap[list].data # data THEN RemoveLoop(heap, list, curr, next, data)
           ELSE IF prev = Null THEN RemoveLoop(Without(heap, curr), next, curr, next, data)
           ELSE IF prev \notin DOMAIN heap THEN UndefinedList
           ELSE RemoveLoop([Without(heap, curr) EXCEPT ![prev].next = next], list, curr, next, data)

ListRemove(heap, list, data) == RemoveLoop(heap, list, Null, list, data)

\* listDelete: the heap without the list, and what func was called with.
RECURSIVE ListDelete(_, _)
ListDelete(heap, n) == IF n = Null THEN heap ELSE ListDelete(Without(heap, n), heap[n].next)
-----------------------------------------------------------------------------
\* deviceScanDir: of a directory's entries, each its device's name and what
\* dload, dlsym and deviceCreate make of it ("device" when all succeed), the
\* first maxDevices that are one.  A directory that is not there has none.
RECURSIVE DeviceScanDir(_, _)
DeviceScanDir(entries, maxDevices) ==
  IF entries = <<>> \/ maxDevices = 0 THEN <<>>
  ELSE IF Head(entries).is = "device"
       THEN <<Head(entries).name>> \o DeviceScanDir(Tail(entries), maxDevices - 1)
       ELSE DeviceScanDir(Tail(entries), maxDevices)

\* deviceScan: the directory beside the executable, then the current one's.
DeviceScan(beside, current, maxDevices) ==
  LET first == DeviceScanDir(beside, maxDevices)
  IN  first \o DeviceScanDir(current, maxDevices - Len(first))

\* getExecutableDir tests realpath the wrong way around: where it finds the
\* program's name the answer is the current directory, otherwise a buffer that
\* realpath left undefined.
ExecutableDir(found) == IF found THEN "." ELSE "undefined"
-----------------------------------------------------------------------------
\* What a constructor has acquired when it returns: all its steps, or, when
\* one of them fails, those before it that it does not give back.
Kept(steps, fails, undone) ==
  {steps[i] : i \in 1 .. fails - 1} \ (IF fails <= Len(steps) THEN undone[fails] ELSE {})

\* audioCreate: the last three failures give back neither the ring nor its slots.
AudioSteps == <<"audio", "ring", "initialized", "open", "started">>

AudioCreate(fails) ==
  Kept(AudioSteps, fails,
       <<{}, {"audio"}, {"audio"}, {"audio", "initialized"}, {"audio", "initialized", "open"}>>)

\* audioDelete gives back each in turn, whatever PortAudio answers.
AudioDelete(held) == held \ {"started", "open", "initialized", "ring", "audio"}

CodecCreate(fails) == Kept(<<"codec", "encoder", "stream">>, fails, <<{}, {"codec"}, {"codec", "encoder"}>>)
CodecDelete(held)  == held \ {"encoder", "stream", "codec"}

\* ddcCreate does not test its first allocation: undefined.
DdcCreate(fails) == IF fails = 1 THEN {"undefined"}
                    ELSE Kept(<<"ddc", "coeffs", "delayLine">>, fails, <<{}, {"ddc"}, {"ddc", "coeffs"}>>)
DdcDelete(held)  == held \ {"delayLine", "coeffs", "ddc"}

SdftCreate(fails) == Kept(<<"sdft", "queue">>, fails, <<{}, {"sdft"}>>)
SdftDelete(held)  == held \ {"queue", "sdft"}

\* firCreate goes on after a failed allocation, tests all of them at the end,
\* and then frees all there are.
FirParts         == {"fir", "coeffs", "delayLine", "delayLineC"}
FirCreate(failed) == IF failed = {} THEN FirParts ELSE {}
FirDelete(held)  == held \ FirParts

SvrCreate(fails) == Kept(<<"server", "library">>, fails, <<{}, {"server"}>>)
SvrDelete(held)  == held \ {"library", "server"}

\* wsCreate gives back nothing when there is no socket, and does not test listen.
WsCreate(fails) == Kept(<<"ws", "socket", "bound">>, fails, <<{}, {}, {"ws", "socket"}>>)
WsDelete(held)  == held \ {"bound", "socket", "ws"}
=============================================================================
