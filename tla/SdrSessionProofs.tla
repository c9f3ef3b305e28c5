-------------------------- MODULE SdrSessionProofs --------------------------
(***************************************************************************)
(* Proofs about SdrSession.  Those under OneController hold for the        *)
(* programs in which a single thread calls the library, sdrcmd and the Qt  *)
(* application, and for any device, also one that drops by itself.         *)
(***************************************************************************)
EXTENDS SdrSession, TLAPS

\* All calls come from one thread.
OneController(app) == Controllers = {app}

LEMMA TypeNext == TypeOK /\ [Next]_vars => TypeOK'
<1> SUFFICES ASSUME TypeOK, [Next]_vars PROVE TypeOK'
  OBVIOUS
<1> USE DEF TypeOK, Labels, session, driver, callers, Step, Return, Runs
<1>1. ASSUME NEW c \in Controllers, Starting(c) PROVE TypeOK'
  BY <1>1 DEF Starting, StartCheckDevice, OpenFails, OpenHalfDone, Open,
     StartPublish, StartSpawn, SpawnFails, StartRecord, StartMark
<1>2. ASSUME NEW c \in Controllers, Stopping(c) PROVE TypeOK'
  BY <1>2 DEF Stopping, StopJoin, StopJoined, JoinReturnsError, JoinCrashes,
     StopClose, StopRelease, StopClear, StopUnmark
<1>3. ASSUME NEW c \in Controllers,
             \/ StartCheckRunning(c) \/ StopCheckRunning(c)
             \/ TuneRead(c) \/ TuneUse(c) \/ Delete(c)
      PROVE  TypeOK'
  BY <1>3 DEF StartCheckRunning, StopCheckRunning, TuneRead, TuneUse, Delete
<1>4. ASSUME NEW r \in Threads, Reader(r) PROVE TypeOK'
  BY <1>4 DEF Reader, ReaderBegin, ReaderBeginNull, ReaderCheck, ReaderRead,
     ReaderExit
<1>5. CASE DeviceDrop
  BY <1>5 DEF DeviceDrop
<1>6. CASE UNCHANGED vars
  BY <1>6 DEF vars
<1> QED BY <1>1, <1>2, <1>3, <1>4, <1>5, <1>6 DEF Next, Controller

LEMMA SerialInit == Init => SerialInv
BY DEF Init, SerialInv, TypeOK, Labels, InStart, InStop, Between, DeviceHeld,
       Quiet, Alive, Owned, Joinable

LEMMA SerialNext ==
  ASSUME NEW app, OneController(app), SerialInv, [Next]_vars
  PROVE  SerialInv'
<1> USE DEF OneController, SerialInv, session, driver, callers, Step, Return, Runs
<1>0. TypeOK'
  BY TypeNext
<1>a. app \in Controllers /\ \A c \in Controllers : c = app
  OBVIOUS
<1> DEFINE Good == /\ lib # "crashed"
                   /\ InStart(app) /\ InStop(app) /\ Between(app) /\ DeviceHeld(app)
<1>b. Good
  BY <1>a
<1> SUFFICES Good'
  BY <1>0, <1>a
<1> USE <1>b DEF TypeOK, InStart, InStop, Between, DeviceHeld, Quiet, Alive,
                 Owned, Joinable
<1>1. CASE StartCheckRunning(app)
  BY <1>1 DEF StartCheckRunning
<1>2. CASE StartCheckDevice(app)
  BY <1>2 DEF StartCheckDevice
<1>3. CASE OpenFails(app) \/ OpenHalfDone(app) \/ Open(app)
  BY <1>3 DEF OpenFails, OpenHalfDone, Open
<1>4. CASE StartPublish(app)
  BY <1>4 DEF StartPublish
<1>5. CASE StartSpawn(app)
  BY <1>5, NoThreadAssumption DEF StartSpawn
<1>6. CASE SpawnFails(app)
  BY <1>6 DEF SpawnFails
<1>7. CASE StartRecord(app)
  BY <1>7 DEF StartRecord
<1>8. CASE StartMark(app)
  BY <1>8 DEF StartMark
<1>9. CASE StopCheckRunning(app)
  BY <1>9 DEF StopCheckRunning
<1>10. CASE StopJoin(app)
  BY <1>10 DEF StopJoin
<1>11. CASE StopJoined(app)
  BY <1>11 DEF StopJoined
<1>12. ~JoinReturnsError(app) /\ ~JoinCrashes(app)
  BY <1>a DEF JoinReturnsError, JoinCrashes, Undefined
<1>13. CASE StopClose(app)
  BY <1>13 DEF StopClose
<1>14. CASE StopRelease(app)
  BY <1>14 DEF StopRelease
<1>15. CASE StopClear(app)
  BY <1>15 DEF StopClear
<1>16. CASE StopUnmark(app)
  BY <1>16 DEF StopUnmark
<1>17. CASE TuneRead(app) \/ TuneUse(app) \/ Delete(app)
  BY <1>17 DEF TuneRead, TuneUse, Delete
<1>18. ASSUME NEW r \in Threads, Reader(r) PROVE Good'
  <2>1. CASE ReaderBegin(r)
    BY <2>1 DEF ReaderBegin
  <2>2. CASE ReaderBeginNull(r)
    BY <2>2 DEF ReaderBeginNull
  <2>3. CASE ReaderCheck(r)
    BY <2>3 DEF ReaderCheck
  <2>4. CASE ReaderRead(r)
    BY <2>4 DEF ReaderRead
  <2>5. CASE ReaderExit(r)
    BY <2>5 DEF ReaderExit
  <2> QED BY <1>18, <2>1, <2>2, <2>3, <2>4, <2>5 DEF Reader
<1>19. CASE DeviceDrop
  BY <1>19 DEF DeviceDrop
<1>20. CASE UNCHANGED vars
  BY <1>20 DEF vars
<1> HIDE DEF Good
<1> QED BY <1>a, <1>1, <1>2, <1>3, <1>4, <1>5, <1>6, <1>7, <1>8, <1>9, <1>10,
           <1>11, <1>12, <1>13, <1>14, <1>15, <1>16, <1>17, <1>18, <1>19, <1>20
        DEF Next, Controller, Starting, Stopping

THEOREM SerialInvariant ==
  ASSUME NEW CONSTANT app, OneController(app)
  PROVE  Spec => []SerialInv
<1>1. Init => SerialInv
  BY SerialInit
<1>2. SerialInv /\ [Next]_vars => SerialInv'
  BY SerialNext
<1> QED BY <1>1, <1>2, PTL DEF Spec

\* With one controller, sdrStop closes the device only when the reader has
\* ended, so the reader never touches a ring or a USB handle given up.
THEOREM ReaderSafe ==
  ASSUME NEW CONSTANT app, OneController(app)
  PROVE  Spec => []ReaderHoldsHandle
<1>1. SerialInv => ReaderHoldsHandle
  BY DEF OneController, SerialInv, InStop, DeviceHeld, ReaderHoldsHandle, Quiet,
         Alive
<1> QED BY <1>1, SerialInvariant, PTL

\* With one controller, every setter, getter and initial tuning call reaches
\* a device that is held.
THEOREM TuningSafe ==
  ASSUME NEW CONSTANT app, OneController(app)
  PROVE  Spec => []TunesHeldDevice
<1>1. SerialInv => TunesHeldDevice
  BY DEF SerialInv, DeviceHeld, TunesHeldDevice
<1> QED BY <1>1, SerialInvariant, PTL

\* With one controller, pthread_join is only called on the reader thread of
\* the session being stopped, which nobody joined before.
THEOREM JoinSafe ==
  ASSUME NEW CONSTANT app, OneController(app)
  PROVE  Spec => []JoinsOnce
<1>1. SerialInv => JoinsOnce
  BY DEF SerialInv, InStop, JoinsOnce, Owned
<1> QED BY <1>1, SerialInvariant, PTL

\* With one controller, no reader escapes: between calls a live reader is the
\* one sdrStop would wait for.
THEOREM NoReaderEscapes ==
  ASSUME NEW CONSTANT app, OneController(app)
  PROVE  Spec => []StopFindsReader
<1>1. SerialInv => StopFindsReader
  <2> SUFFICES ASSUME SerialInv, \A c \in Controllers : pc[c] = "idle",
                      NEW r \in Threads, Alive(r)
               PROVE  running /\ thread = r
    BY DEF StopFindsReader
  <2>1. Between(app) /\ pc[app] = "idle"
    BY DEF OneController, SerialInv
  <2> QED BY <2>1 DEF Between, Quiet, Owned
<1> QED BY <1>1, SerialInvariant, PTL

-----------------------------------------------------------------------------
LEMMA StartersInit == Init => StartersInv
BY DEF Init, StartersInv, TypeOK, Labels, Opened, Quiet, Alive, OneReader

LEMMA StartersNext ==
  ASSUME \A c \in Controllers : "stop" \notin Calls[c], StartersInv, [Next]_vars
  PROVE  StartersInv'
<1> USE DEF StartersInv, session, driver, callers, Step, Return, Runs,
            Opened, Quiet, Alive, OneReader
<1>0. TypeOK'
  BY TypeNext
<1>1. ASSUME NEW c \in Controllers, Starting(c) PROVE StartersInv'
  <2> USE <1>0, <1>1 DEF TypeOK
  <2>1. CASE StartCheckDevice(c) \/ OpenFails(c) \/ SpawnFails(c)
    BY <2>1 DEF StartCheckDevice, OpenFails, SpawnFails
  <2>2. CASE OpenHalfDone(c) \/ Open(c)
    BY <2>2 DEF OpenHalfDone, Open
  <2>3. CASE StartPublish(c)
    BY <2>3 DEF StartPublish
  <2>4. CASE StartSpawn(c)
    BY <2>4 DEF StartSpawn
  <2>5. CASE StartRecord(c) \/ StartMark(c)
    BY <2>5 DEF StartRecord, StartMark
  <2> QED BY <1>1, <2>1, <2>2, <2>3, <2>4, <2>5 DEF Starting
<1>2. ASSUME NEW c \in Controllers PROVE ~Stopping(c) /\ ~StopCheckRunning(c)
  BY <1>2 DEF Stopping, StopJoin, StopJoined, JoinReturnsError, JoinCrashes,
     StopClose, StopRelease, StopClear, StopUnmark, StopCheckRunning
<1>3. ASSUME NEW c \in Controllers,
             StartCheckRunning(c) \/ TuneRead(c) \/ TuneUse(c) \/ Delete(c)
      PROVE  StartersInv'
  BY <1>0, <1>3 DEF TypeOK, StartCheckRunning, TuneRead, TuneUse, Delete
<1>4. ASSUME NEW r \in Threads, Reader(r) PROVE StartersInv'
  BY <1>0, <1>4 DEF TypeOK, Reader, ReaderBegin, ReaderBeginNull, ReaderCheck,
     ReaderRead, ReaderExit
<1>5. CASE DeviceDrop
  BY <1>0, <1>5 DEF DeviceDrop
<1>6. CASE UNCHANGED vars
  BY <1>0, <1>6 DEF vars
<1> QED BY <1>1, <1>2, <1>3, <1>4, <1>5, <1>6 DEF Next, Controller

\* However many clients start at once, a single reader thread comes to life,
\* if none of them stops.
THEOREM StartsAgree ==
  ASSUME \A c \in Controllers : "stop" \notin Calls[c]
  PROVE  Spec => []OneReader
<1>1. Init => StartersInv
  BY StartersInit
<1>2. StartersInv /\ [Next]_vars => StartersInv'
  BY StartersNext
<1>3. StartersInv => OneReader
  BY DEF StartersInv
<1> QED BY <1>1, <1>2, <1>3, PTL DEF Spec
=============================================================================
