--------------------------- MODULE ReceiverProofs ---------------------------
(***************************************************************************)
(* Three invariants of the receiver, for any number of clients, tunings    *)
(* and modes, and blocks, frames and pages of any length.  SettersInv is   *)
(* inductive: RatioAfterUp is why no ratio of a widening is stored before  *)
(* updown says so, and AloneCarries is why a tuning nobody interrupts      *)
(* arrives everywhere.  CodecInv is inductive of its own: the codec is     *)
(* always within a page that is whole so far, after every unit of a block  *)
(* (EncodeKeeps) and so after all of them (OutputKeeps).  SpectraInv, of   *)
(* the transform beside the demodulator, is kept in the same way by every  *)
(* turn of fftUpdate's loop (TurnKeeps) and so by a read (UpdateKeeps).    *)
(***************************************************************************)
EXTENDS Receiver, Fft, WellFoundedInduction, TLAPS

\* The remainder is unique.
LEMMA Residue ==
  ASSUME NEW T \in Nat, T > 0, NEW x \in Int, NEW r \in 0 .. T - 1, NEW q \in Int, x = q * T + r
  PROVE  x % T = r
OBVIOUS

\* A block as long as the buffer ends where it began.
LEMMA AllAround ==
  ASSUME NEW T \in Nat \ {0}, NEW r \in 0 .. T - 1
  PROVE  (r + T) % T = r
<1>1. r + T \in Int /\ r + T = 1 * T + r /\ 1 \in Int /\ T > 0
  OBVIOUS
<1> QED BY <1>1, Residue

\* In the initial state nothing was set and nothing is buffered.
LEMMA InitSetters == Init => SettersInv
<1> SUFFICES ASSUME Init PROVE SettersInv
  OBVIOUS
<1> USE ChoicesAssumption, UnitsAssumption DEF Init
<1>1. TypeOK
  <2>1. 0 \in Pointers
    BY DEF Pointers
  <2>2. bufPtr \in [Modes -> Pointers]
    BY <2>1
  <2>3. cpc \in [Clients -> {"idle", "vfo", "mixer", "up", "ratio"}] /\ cv \in [Clients -> Vfos]
    OBVIOUS
  <2> QED BY <2>2, <2>3 DEF TypeOK
<1>2. NeverTorn /\ RatioAfterUp /\ OneModePerBlock /\ TunedAsAsked /\ AloneCarries
  BY DEF NeverTorn, RatioAfterUp, OneModePerBlock, TunedAsAsked, AloneCarries, Busy
<1> QED BY <1>1, <1>2 DEF SettersInv

\* What the reader does leaves settings and setters alone, and its buffers
\* are empty again after every block.
LEMMA ReaderStep == SettersInv /\ Reader => SettersInv'
<1> SUFFICES ASSUME SettersInv, Reader PROVE SettersInv'
  OBVIOUS
<1> USE ChoicesAssumption, UnitsAssumption
<1> USE DEF Reader, LoadUpdate, LoadSelf, DemodulateNull, Demodulate, DemodulateOutside, Resample,
            Output, Return, settings, calls, clients, history
<1>1. UNCHANGED <<settings, clients, history>>
  OBVIOUS
<1>2. bufPtr' \in [Modes -> Pointers] /\ OneModePerBlock'
  <2>1. CASE Demodulate
    <3>1. /\ obj \in Modes /\ bufPtr \in [Modes -> Pointers]
          /\ bufPtr[obj] \in 0 .. DemodUnits - 1 /\ (obj # "NULL" => bufPtr[obj] = 0)
      BY <2>1 DEF SettersInv, TypeOK, OneModePerBlock, Pointers, Outside
    <3>2. DemodUnits \in Nat \ {0} /\ BlockUnits = DemodUnits
      OBVIOUS
    <3>3. (bufPtr[obj] + BlockUnits) % DemodUnits = bufPtr[obj]
      <4>1. (bufPtr[obj] + DemodUnits) % DemodUnits = bufPtr[obj]
        BY <3>1, <3>2, AllAround
      <4> QED BY <3>2, <4>1
    <3>4. bufPtr' = bufPtr
      BY <2>1, <3>1, <3>3
    <3> QED BY <3>1, <3>4 DEF SettersInv, OneModePerBlock
  <2>2. CASE DemodulateOutside
    <3>1. obj = "NULL"
      BY <2>2 DEF SettersInv, TypeOK, OneModePerBlock, Outside
    <3>2. PICK p \in Pointers : bufPtr' = [bufPtr EXCEPT ![obj] = p] \/ bufPtr' = bufPtr
      BY <2>2 DEF Pointers
    <3> QED BY <3>1, <3>2 DEF SettersInv, TypeOK, OneModePerBlock
  <2>3. CASE UNCHANGED bufPtr
    BY <2>3 DEF SettersInv, TypeOK, OneModePerBlock
  <2> QED BY <2>1, <2>2, <2>3
<1>3. /\ fn' \in Modes /\ obj' \in Modes /\ rt' \in {"one", "wide"}
      /\ pc' \in {"read", "self", "demodulate", "resample", "output", "lost"}
  BY DEF SettersInv, TypeOK
<1>4. rt' = rt \/ rt' = ratio \/ rt' = "one"
  OBVIOUS
<1>5. TypeOK'
  BY <1>1, <1>2, <1>3 DEF SettersInv, TypeOK
<1>6. NeverTorn'
  BY <1>1, <1>4 DEF SettersInv, NeverTorn
<1>7. RatioAfterUp' /\ TunedAsAsked' /\ AloneCarries'
  BY <1>1 DEF SettersInv, RatioAfterUp, TunedAsAsked, AloneCarries, Busy
<1> QED BY <1>2, <1>5, <1>6, <1>7 DEF SettersInv

\* Nor does a setter's store disturb what the others rely on.
LEMMA SetterStep == ASSUME NEW c \in Clients PROVE SettersInv /\ Setter(c) => SettersInv'
<1> SUFFICES ASSUME SettersInv, Setter(c) PROVE SettersInv'
  OBVIOUS
<1> USE ChoicesAssumption
<1> USE DEF Setter, settings, calls, reader, clients, history
<1>1. CASE \E v \in Vfos : SetVfo(c, v) \/ SetPb(c)
  <2>1. PICK v \in Vfos : Enter(c, v) /\ asked' \in {v, asked} /\ (asked' = v \/ (v = vfo /\ asked' = asked))
    BY <1>1 DEF SetVfo, SetPb, SettersInv, TypeOK
  <2>2. TypeOK' /\ NeverTorn' /\ OneModePerBlock' /\ RatioAfterUp'
    BY <2>1 DEF Enter, SettersInv, TypeOK, NeverTorn, OneModePerBlock, RatioAfterUp
  <2>3. Busy' = Busy \cup {c} /\ c \notin Busy
    BY <2>1 DEF Enter, Busy, SettersInv, TypeOK
  <2>4. TunedAsAsked'
    BY <2>3 DEF TunedAsAsked
  <2>5. ASSUME ~overlapped' PROVE Busy = {} /\ vfo = asked
    BY <2>1, <2>5 DEF Enter, SettersInv, TunedAsAsked
  <2>6. AloneCarries'
    BY <2>1, <2>3, <2>5 DEF AloneCarries, Enter, SettersInv, TypeOK
  <2> QED BY <2>2, <2>4, <2>6 DEF SettersInv
<1>2. CASE StoreVfo(c) \/ StoreMixer(c) \/ StoreUp(c)
  <2>1. TypeOK' /\ NeverTorn' /\ OneModePerBlock'
    <3>1. /\ cpc' \in [Clients -> {"idle", "vfo", "mixer", "up", "ratio"}]
          /\ cv' \in [Clients -> Vfos]
      BY <1>2 DEF StoreVfo, StoreMixer, StoreUp, Store, SettersInv, TypeOK
    <3>2. vfo' \in Vfos /\ mixer' \in Vfos /\ up' \in BOOLEAN /\ (up => up')
      <4>1. CASE StoreVfo(c) \/ StoreMixer(c)
        BY <4>1 DEF StoreVfo, StoreMixer, SettersInv, TypeOK
      <4>2. CASE StoreUp(c)
        <5>1. up' = TRUE /\ UNCHANGED <<vfo, mixer>>
          BY <4>2 DEF StoreUp
        <5> QED BY <5>1 DEF SettersInv, TypeOK
      <4> QED BY <1>2, <4>1, <4>2
    <3>3. UNCHANGED <<demod, ratio, reader, history>>
      BY <1>2 DEF StoreVfo, StoreMixer, StoreUp, Store
    <3> QED BY <3>1, <3>2, <3>3 DEF SettersInv, TypeOK, NeverTorn, OneModePerBlock
  <2>2. RatioAfterUp'
    BY <1>2 DEF StoreVfo, StoreMixer, StoreUp, Store, SettersInv, TypeOK, RatioAfterUp
  <2>3. Busy' = Busy /\ c \in Busy
    BY <1>2 DEF StoreVfo, StoreMixer, StoreUp, Store, SettersInv, TypeOK, Busy
  <2>4. TunedAsAsked'
    BY <2>3 DEF TunedAsAsked
  <2>5. AloneCarries'
    BY <1>2, <2>3 DEF StoreVfo, StoreMixer, StoreUp, Store, SettersInv, TypeOK, AloneCarries
  <2> QED BY <2>1, <2>2, <2>4, <2>5 DEF SettersInv
<1>3. CASE StoreRatio(c)
  <2>1. TypeOK' /\ OneModePerBlock' /\ RatioAfterUp'
    BY <1>3 DEF StoreRatio, Store, SettersInv, TypeOK, OneModePerBlock, RatioAfterUp
  <2>2. NeverTorn'
    BY <1>3 DEF StoreRatio, Store, SettersInv, NeverTorn, RatioAfterUp
  <2>3. Busy' = Busy \ {c} /\ c \in Busy
    BY <1>3 DEF StoreRatio, Store, SettersInv, TypeOK, Busy
  <2>4. AloneCarries'
    BY <1>3, <2>3 DEF StoreRatio, Store, SettersInv, TypeOK, AloneCarries
  <2>5. TunedAsAsked'
    BY <1>3, <2>3 DEF StoreRatio, Store, SettersInv, TypeOK, AloneCarries, TunedAsAsked
  <2> QED BY <2>1, <2>2, <2>4, <2>5 DEF SettersInv
<1>4. CASE \E m \in Modes : SetMode(c, m)
  BY <1>4 DEF SetMode, SettersInv, TypeOK, NeverTorn, RatioAfterUp, OneModePerBlock, TunedAsAsked,
              AloneCarries, Busy
<1> QED BY <1>1, <1>2, <1>3, <1>4

\* However many clients set vfo, passband and mode while the reader runs: it
\* never narrows with a widening's ratio, no demodulator but NULL's keeps
\* samples across a change of mode, and a tuning that nobody interrupts is the one in effect.
THEOREM SettersSafe == Spec => []SettersInv
<1>1. SettersInv /\ [Next]_vars => SettersInv'
  <2> SUFFICES ASSUME SettersInv, [Next]_vars PROVE SettersInv'
    OBVIOUS
  <2>1. CASE Next
    BY <2>1, ReaderStep, SetterStep DEF Next
  <2>2. CASE UNCHANGED vars
    BY <2>2 DEF vars, settings, calls, reader, clients, history, SettersInv, TypeOK, NeverTorn,
                RatioAfterUp, OneModePerBlock, TunedAsAsked, AloneCarries, Busy
  <2> QED BY <2>1, <2>2
<1> QED BY InitSetters, <1>1, PTL DEF Spec

\* The three parts a reader of the code asks about.
THEOREM RatioNeverTorn == Spec => []NeverTorn
BY SettersSafe, PTL DEF SettersInv

THEOREM ModesStayApart == Spec => []OneModePerBlock
BY SettersSafe, PTL DEF SettersInv

THEOREM TuningArrives == Spec => []TunedAsAsked
BY SettersSafe, PTL DEF SettersInv
-----------------------------------------------------------------------------
\* Every set of natural numbers with a member has a least one.
Less == {p \in Nat \X Nat : p[1] < p[2]}

\* Numbers cannot decrease for ever.
LEMMA LessWellFounded == IsWellFoundedOn(Less, Nat)
BY NatLessThanWellFounded DEF OpToRel, Less

\* The smallest of some numbers.
LEMMA Least ==
  ASSUME NEW T, T \subseteq Nat, T # {}
  PROVE  \E m \in T : \A k \in T : m <= k
<1>1. PICK m \in T : \A k \in T : <<k, m>> \notin Less
  BY ONLY LessWellFounded, WFMin, T \subseteq Nat, T # {}, Zenon
<1>2. \A k \in T : ~ (k < m)  BY <1>1 DEF Less
<1> QED  BY <1>2

\* A loop that goes from one value of D to the next with S[i] in its i-th turn
\* has, for any number of turns, the sequence of values it goes through.
Runs(g, z, S, D, L) ==
  g \in [0 .. L -> D] /\ g[0] = z /\ \A i \in 1 .. L : g[i] = S[i][g[i - 1]]

LEMMA LoopRuns ==
  ASSUME NEW L \in Nat, NEW D, NEW z \in D, NEW S \in [1 .. L -> [D -> D]]
  PROVE  \E g : Runs(g, z, S, D, L)
<1> DEFINE T == {n \in 0 .. L : ~ \E g : Runs(g, z, S, D, n)}
<1>1. SUFFICES ASSUME T # {} PROVE FALSE
  <2>1. L \in 0 .. L
    OBVIOUS
  <2> QED BY <2>1
<1>2. PICK m \in T : \A k \in T : m <= k
  <2>1. T \subseteq Nat
    OBVIOUS
  <2> HIDE DEF T
  <2> QED BY <1>1, <2>1, Least
<1>3. CASE m = 0
  <2>1. Runs([i \in 0 .. 0 |-> z], z, S, D, 0)
    BY DEF Runs
  <2> QED BY <1>2, <1>3, <2>1
<1>4. CASE m # 0
  <2>1. m \in 1 .. L /\ m - 1 \in 0 .. L /\ m - 1 \notin T
    BY <1>2, <1>4
  <2>2. PICK g : Runs(g, z, S, D, m - 1)
    BY <2>1
  <2> DEFINE h == [i \in 0 .. m |-> IF i = m THEN S[m][g[m - 1]] ELSE g[i]]
  <2>3. S[m][g[m - 1]] \in D
    BY <2>1, <2>2 DEF Runs
  <2>4. h \in [0 .. m -> D]
    BY <2>1, <2>2, <2>3 DEF Runs
  <2>5. h[0] = z /\ \A i \in 1 .. m : h[i] = S[i][h[i - 1]]
    <3>1. h[0] = z
      BY <2>1, <2>2 DEF Runs
    <3>2. ASSUME NEW i \in 1 .. m PROVE h[i] = S[i][h[i - 1]]
      <4>1. h[i - 1] = g[i - 1]
        BY <2>1
      <4>2. CASE i = m
        BY <2>1, <4>1, <4>2
      <4>3. CASE i # m
        <5>1. i \in 1 .. m - 1 /\ h[i] = g[i]
          BY <2>1, <4>3
        <5> QED BY <2>2, <4>1, <5>1 DEF Runs
      <4> QED BY <4>2, <4>3
    <3> QED BY <3>1, <3>2
  <2> HIDE DEF h
  <2>6. Runs(h, z, S, D, m)
    BY <2>4, <2>5 DEF Runs
  <2> QED BY <1>2, <2>6
<1> QED BY <1>3, <1>4

\* Remainders of a division by any positive number.
LEMMA Quotient ==
  ASSUME NEW T \in Nat, T > 0, NEW x \in Int
  PROVE  \E q \in Int, r \in 0 .. T - 1 : r = x % T /\ x = q * T + r
<1>1. \E q \in Int : x - (x % T) = q * T
  OBVIOUS
<1>2. x % T \in 0 .. T - 1
  OBVIOUS
<1>3. PICK r \in 0 .. T - 1 : r = x % T
  BY <1>2
<1>4. PICK q \in Int : x - r = q * T
  BY <1>1, <1>3
<1>5. x = q * T + r
  BY <1>4
<1> QED BY <1>3, <1>5

\* A remainder counts on like the number itself.
LEMMA TurnOn ==
  ASSUME NEW T \in Nat, T > 0, NEW x \in Int, NEW y \in Int
  PROVE  ((x % T) + y) % T = (x + y) % T
<1>1. PICK p \in Int, m \in 0 .. T - 1 : m = x % T /\ x = p * T + m
  BY Quotient
<1>2. m + y \in Int
  OBVIOUS
<1>3. PICK q \in Int, r \in 0 .. T - 1 : r = (m + y) % T /\ m + y = q * T + r
  BY <1>2, Quotient
<1>4. PICK k \in Int : k = p + q
  OBVIOUS
<1>5. k * T = p * T + q * T /\ p * T \in Int /\ q * T \in Int
  BY <1>4
<1>6. PICK w \in Int : w = x + y
  OBVIOUS
<1>7. w = k * T + r
  BY <1>1, <1>3, <1>5, <1>6
<1>8. w % T = r
  BY <1>7, Residue
<1> QED BY <1>1, <1>3, <1>6, <1>8

-----------------------------------------------------------------------------
\* What the codec holds; strings and frames share a page.
Things == Seq(Nat) \cup {"OpusHead", "OpusTags", "end"}
Codecs == [inbuf : Seq(Nat), packets : Nat, os : Seq(Things), sent : Seq(Seq(Things))]
CodecOK(c, n) == c \in Codecs /\ Unfilled(c) /\ InStep(c, n) /\ \A i \in DOMAIN c.sent : Whole(c.sent[i])

\* The constants, as the lemmas below use them.
LEMMA Constants ==
  /\ FrameUnits \in Nat /\ FrameUnits > 0 /\ PagePackets \in Nat /\ PagePackets > 0
  /\ BlockUnits \in Nat /\ Numbers \in Nat /\ Numbers > 0
BY UnitsAssumption

\* A page begins with two things, its headers.
LEMMA HeaderIs == Header \in Seq(Things) /\ Len(Header) = 2 /\ Headed(Header)
BY DEF Header, Things, Headed

\* A sequence with one element more.
LEMMA Appended ==
  ASSUME NEW X, NEW s \in Seq(X), NEW e \in X
  PROVE  /\ Append(s, e) \in Seq(X) /\ Len(Append(s, e)) = Len(s) + 1
         /\ \A i \in 1 .. Len(s) : Append(s, e)[i] = s[i]
         /\ Append(s, e)[Len(s) + 1] = e
OBVIOUS

\* The next number in the sequence.
LEMMA CountsOn ==
  ASSUME NEW x \in Int, NEW n, n = x % Numbers
  PROVE  n \in 0 .. Numbers - 1 /\ n \in Nat /\ (n + 1) % Numbers = (x + 1) % Numbers
<1>1. PICK T \in Nat : T > 0 /\ T = Numbers
  BY Constants
<1>2. PICK q \in Int, r \in 0 .. T - 1 : r = x % T
  BY <1>1, Quotient
<1>3. ((x % T) + 1) % T = (x + 1) % T
  <2>1. \A y \in Int : ((x % T) + y) % T = (x + y) % T
    BY <1>1, TurnOn
  <2> QED BY <2>1
<1> QED BY <1>1, <1>2, <1>3

\* A sample put behind the frame in inbuf.
LEMMA SequenceGrows ==
  ASSUME NEW f \in Seq(Nat), NEW x \in Int, Sequence(f, x), NEW n \in Nat, n = (x + Len(f)) % Numbers
  PROVE  /\ Append(f, n) \in Seq(Nat) /\ Len(Append(f, n)) = Len(f) + 1
         /\ Sequence(Append(f, n), x)
<1>1. /\ Append(f, n) \in Seq(Nat) /\ Len(Append(f, n)) = Len(f) + 1 /\ Len(f) \in Nat
      /\ \A i \in 1 .. Len(f) : Append(f, n)[i] = f[i]
      /\ Append(f, n)[Len(f) + 1] = n
  BY Appended
<1> DEFINE g == Append(f, n)
<1> HIDE DEF g
<1>2. PICK m \in Nat : m = Len(f)
  BY <1>1
<1>3. ASSUME NEW k \in 1 .. m + 1 PROVE g[k] = (x + k - 1) % Numbers
  <2>1. CASE k = m + 1
    <3>1. x + k - 1 = x + m
      BY <2>1
    <3> QED BY <1>1, <1>2, <2>1, <3>1 DEF g
  <2>2. CASE k # m + 1
    <3>1. k \in 1 .. m
      BY <2>2
    <3> QED BY <1>1, <1>2, <3>1 DEF g, Sequence
  <2> QED BY <2>1, <2>2
<1> QED BY <1>1, <1>2, <1>3 DEF g, Sequence

\* A frame put behind the frames of a page.
LEMMA FramesGrow ==
  ASSUME NEW s \in Seq(Things), NEW many \in Nat, Len(s) = many + 2, NEW x \in Int,
         Headed(s), Frames(s, many, x),
         NEW f \in Seq(Nat), Len(f) = FrameUnits, Sequence(f, x + many * FrameUnits)
  PROVE  /\ Append(s, f) \in Seq(Things) /\ Len(Append(s, f)) = many + 3
         /\ Headed(Append(s, f)) /\ Frames(Append(s, f), many + 1, x)
<1> DEFINE g == Append(s, f)
<1>1. f \in Things
  BY DEF Things
<1>2. /\ g \in Seq(Things) /\ Len(g) = many + 3
      /\ \A i \in 1 .. many + 2 : g[i] = s[i]
      /\ g[many + 3] = f
  BY <1>1, Appended
<1> HIDE DEF g
<1>3. Headed(g)
  BY <1>2 DEF Headed
<1>4. ASSUME NEW j \in 1 .. many + 1
      PROVE  Len(g[j + 2]) = FrameUnits /\ Sequence(g[j + 2], x + (j - 1) * FrameUnits)
  <2>1. CASE j = many + 1
    <3>1. j + 2 = many + 3 /\ j - 1 = many
      BY <2>1
    <3> QED BY <1>2, <3>1
  <2>2. CASE j # many + 1
    <3>1. j \in 1 .. many /\ j + 2 \in 1 .. many + 2
      BY <2>2
    <3> QED BY <1>2, <3>1 DEF Frames
  <2> QED BY <2>1, <2>2
<1> QED BY <1>2, <1>3, <1>4 DEF g, Frames

\* One unit through codecEncode: a frame grows, a page grows, or a whole page
\* goes out and the next one begins with its headers.
LEMMA EncodeKeeps ==
  ASSUME NEW c, NEW n, CodecOK(c, n)
  PROVE  CodecOK(Encode(c, n), (n + 1) % Numbers)
<1> DEFINE frame == Append(c.inbuf, n)
           c2 == Encode(c, n)
           n2 == (n + 1) % Numbers
<1>1. /\ c \in Codecs /\ c.packets \in 0 .. PagePackets - 1 /\ Len(c.inbuf) < FrameUnits
      /\ c.inbuf \in Seq(Nat) /\ c.os \in Seq(Things) /\ c.sent \in Seq(Seq(Things))
      /\ \A i \in DOMAIN c.sent : Whole(c.sent[i])
  BY DEF CodecOK, Codecs, Unfilled
<1>2. PICK first \in 0 .. Numbers - 1 :
        /\ Len(c.os) = c.packets + 2 /\ Headed(c.os) /\ Frames(c.os, c.packets, first)
        /\ Sequence(c.inbuf, first + c.packets * FrameUnits)
        /\ n = (first + c.packets * FrameUnits + Len(c.inbuf)) % Numbers
  BY DEF CodecOK, InStep
<1>3. PICK P \in Nat : P = c.packets /\ P \in 0 .. PagePackets - 1
  BY <1>1, Constants
<1>4. PICK x \in Int : x = first + P * FrameUnits
  BY Constants
<1>5. PICK m \in Nat : m = Len(c.inbuf) /\ m < FrameUnits
  BY <1>1
<1>6. n \in Nat /\ n2 = (x + m + 1) % Numbers
  <2>1. n = (x + m) % Numbers /\ x + m \in Int
    BY <1>2, <1>3, <1>4, <1>5
  <2> QED BY <2>1, CountsOn
<1>7. frame \in Seq(Nat) /\ Len(frame) = m + 1 /\ Sequence(frame, x)
  <2>1. Sequence(c.inbuf, x) /\ n = (x + Len(c.inbuf)) % Numbers
    BY <1>2, <1>3, <1>4
  <2> QED BY <1>1, <1>5, <1>6, <2>1, SequenceGrows
<1> HIDE DEF frame, c2, n2
<1>8. CASE m + 1 < FrameUnits
  <2>1. c2 = [c EXCEPT !.inbuf = frame]
    BY <1>7, <1>8 DEF c2, frame, Encode
  <2>2. c2 \in Codecs /\ c2.inbuf = frame /\ c2.packets = P /\ c2.os = c.os /\ c2.sent = c.sent
    BY <1>1, <1>3, <1>7, <2>1 DEF Codecs
  <2>3. Unfilled(c2)
    BY <1>3, <1>7, <1>8, <2>2 DEF Unfilled
  <2>4. n2 = (first + P * FrameUnits + Len(frame)) % Numbers
    <3>1. x + m + 1 = first + P * FrameUnits + Len(frame)
      BY <1>4, <1>7
    <3> QED BY <1>6, <3>1
  <2>5. InStep(c2, n2)
    BY <1>2, <1>3, <1>4, <1>7, <2>2, <2>4 DEF InStep
  <2> QED BY <1>1, <2>2, <2>3, <2>5 DEF CodecOK, c2, n2
<1>9. CASE ~(m + 1 < FrameUnits)
  <2>1. Len(frame) = FrameUnits /\ m + 1 = FrameUnits
    BY <1>5, <1>7, <1>9, Constants
  <2>2. /\ Append(c.os, frame) \in Seq(Things) /\ Len(Append(c.os, frame)) = P + 3
        /\ Headed(Append(c.os, frame)) /\ Frames(Append(c.os, frame), P + 1, first)
    <3>1. Sequence(frame, first + P * FrameUnits) /\ first \in Int
      BY <1>4, <1>7, Constants
    <3>2. Len(c.os) = P + 2 /\ Headed(c.os) /\ Frames(c.os, P, first)
      BY <1>2, <1>3
    <3> QED BY <1>1, <1>7, <2>1, <3>1, <3>2, FramesGrow
  <2>3. CASE P + 1 < PagePackets
    <3>1. c2 = [c EXCEPT !.inbuf = <<>>, !.packets = P + 1, !.os = Append(c.os, frame)]
      BY <1>3, <1>7, <1>9, <2>3 DEF c2, frame, Encode
    <3>2. /\ c2 \in Codecs /\ c2.inbuf = <<>> /\ c2.packets = P + 1 /\ c2.os = Append(c.os, frame)
          /\ c2.sent = c.sent
      <4>1. PICK s \in Seq(Things) : s = Append(c.os, frame)
        BY <2>2
      <4>2. c2 = [inbuf |-> <<>>, packets |-> P + 1, os |-> s, sent |-> c.sent]
        BY <1>1, <3>1, <4>1 DEF Codecs
      <4>3. c2 \in Codecs
        BY <1>1, <4>2 DEF Codecs
      <4> QED BY <4>1, <4>2, <4>3
    <3>3. Unfilled(c2)
      BY <2>3, <3>2, Constants DEF Unfilled
    <3>4. n2 = (first + (P + 1) * FrameUnits + 0) % Numbers
      <4>1. x + m + 1 = first + (P + 1) * FrameUnits + 0
        BY <1>4, <2>1, Constants
      <4> QED BY <1>6, <4>1
    <3>5. Sequence(c2.inbuf, first + (P + 1) * FrameUnits) /\ Len(c2.inbuf) = 0
      BY <3>2 DEF Sequence
    <3>6. InStep(c2, n2)
      BY <2>2, <3>2, <3>4, <3>5 DEF InStep
    <3> QED BY <1>1, <3>2, <3>3, <3>6 DEF CodecOK, c2, n2
  <2>4. CASE ~(P + 1 < PagePackets)
    <3> DEFINE page == c.os \o <<frame, "end">>
    <3>0. P + 1 = PagePackets
      BY <1>3, <2>4, Constants
    <3>1. c2 = [inbuf |-> <<>>, packets |-> 0, os |-> Header, sent |-> Append(c.sent, page)]
      BY <1>3, <1>7, <1>9, <2>4 DEF c2, frame, Encode
    <3>2. /\ page \in Seq(Things) /\ Len(page) = P + 4 /\ page[P + 4] = "end" /\ Whole(page)
      <4>1. /\ page \in Seq(Things) /\ Len(page) = P + 4 /\ page[P + 4] = "end"
            /\ \A i \in 1 .. P + 3 : page[i] = Append(c.os, frame)[i]
        <5>1. frame \in Things /\ "end" \in Things
          BY <1>7 DEF Things
        <5>2. Len(c.os) = P + 2
          BY <1>2, <1>3
        <5>3. page = Append(Append(c.os, frame), "end")
          BY <1>1, <5>1, <5>2
        <5> HIDE DEF page
        <5> QED BY <2>2, <5>1, <5>3, Appended
      <4> HIDE DEF page
      <4>2. Headed(page) /\ Frames(page, P + 1, first)
        <5>1. \A j \in 1 .. P + 1 : j + 2 \in 1 .. P + 3
          OBVIOUS
        <5>2. 1 \in 1 .. P + 3 /\ 2 \in 1 .. P + 3
          OBVIOUS
        <5> QED BY <2>2, <4>1, <5>1, <5>2 DEF Headed, Frames
      <4>3. page[3][1] = first
        <5>1. 1 \in 1 .. P + 1 /\ 1 + 2 = 3
          OBVIOUS
        <5>2. Len(page[3]) = FrameUnits /\ Sequence(page[3], first + 0 * FrameUnits)
          BY <4>2, <5>1 DEF Frames
        <5>3. first + 0 * FrameUnits + 1 - 1 = first /\ first % Numbers = first
          BY Constants
        <5>4. page[3][1] = (first + 0 * FrameUnits + 1 - 1) % Numbers
          BY <5>2, Constants DEF Sequence
        <5> QED BY <5>3, <5>4
      <4> QED BY <3>0, <4>1, <4>2, <4>3 DEF Whole
    <3> HIDE DEF page
    <3>3. /\ Append(c.sent, page) \in Seq(Seq(Things))
          /\ \A i \in DOMAIN Append(c.sent, page) : Whole(Append(c.sent, page)[i])
      <4>1. /\ Append(c.sent, page) \in Seq(Seq(Things)) /\ Len(Append(c.sent, page)) = Len(c.sent) + 1
            /\ \A i \in 1 .. Len(c.sent) : Append(c.sent, page)[i] = c.sent[i]
            /\ Append(c.sent, page)[Len(c.sent) + 1] = page
        BY <1>1, <3>2, Appended
      <4>2. DOMAIN c.sent = 1 .. Len(c.sent) /\ Len(c.sent) \in Nat
        BY <1>1
      <4>3. DOMAIN Append(c.sent, page) = 1 .. Len(c.sent) + 1
        BY <4>1
      <4>4. ASSUME NEW i \in 1 .. Len(c.sent) + 1 PROVE Whole(Append(c.sent, page)[i])
        <5>1. CASE i = Len(c.sent) + 1
          BY <3>2, <4>1, <5>1
        <5>2. CASE i # Len(c.sent) + 1
          <6>1. i \in 1 .. Len(c.sent)
            BY <4>2, <5>2
          <6> QED BY <1>1, <4>1, <4>2, <6>1
        <5> QED BY <5>1, <5>2
      <4> QED BY <4>1, <4>3, <4>4
    <3>4. /\ c2 \in Codecs /\ c2.inbuf = <<>> /\ c2.packets = 0 /\ c2.os = Header
          /\ c2.sent = Append(c.sent, page)
      BY <3>1, <3>3, HeaderIs DEF Codecs
    <3>5. Unfilled(c2)
      BY <3>4, Constants DEF Unfilled
    <3>6. InStep(c2, n2)
      <4>1. n2 \in 0 .. Numbers - 1
        BY <1>4, <1>6, CountsOn
      <4>2. (n2 + 0 * FrameUnits + 0) % Numbers = n2 /\ 0 * FrameUnits = 0
        BY <4>1, Constants
      <4>3. Len(c2.inbuf) = 0 /\ Sequence(c2.inbuf, n2 + 0 * FrameUnits)
        BY <3>4 DEF Sequence
      <4>4. Frames(Header, 0, n2) /\ Len(Header) = 0 + 2
        BY HeaderIs DEF Frames
      <4> QED BY <3>4, <4>1, <4>2, <4>3, <4>4, HeaderIs DEF InStep
    <3> QED BY <3>3, <3>4, <3>5, <3>6 DEF CodecOK, c2, n2
  <2> QED BY <2>3, <2>4
<1> QED BY <1>8, <1>9

\* What Encode makes of a codec is a codec.
LEMMA EncodeTypes == ASSUME NEW c \in Codecs, NEW n \in Nat PROVE Encode(c, n) \in Codecs
<1>1. /\ c.inbuf \in Seq(Nat) /\ c.packets \in Nat /\ c.os \in Seq(Things) /\ c.sent \in Seq(Seq(Things))
      /\ c = [inbuf |-> c.inbuf, packets |-> c.packets, os |-> c.os, sent |-> c.sent]
  BY DEF Codecs
<1>2. PICK f \in Seq(Nat) : f = Append(c.inbuf, n)
  <2>1. Append(c.inbuf, n) \in Seq(Nat)
    BY <1>1, Appended
  <2> QED BY <2>1
<1>3. PICK s \in Seq(Things) : s = Append(c.os, f)
  <2>1. f \in Things
    BY DEF Things
  <2>2. Append(c.os, f) \in Seq(Things)
    BY <1>1, <2>1, Appended
  <2> QED BY <2>2
<1>4. PICK page \in Seq(Things) : page = c.os \o <<f, "end">>
  <2>1. f \in Things /\ "end" \in Things
    BY DEF Things
  <2>2. c.os \o <<f, "end">> = Append(s, "end")
    BY <1>1, <1>3, <2>1
  <2>3. Append(s, "end") \in Seq(Things)
    BY <2>1, Appended
  <2> QED BY <2>2, <2>3
<1>5. Append(c.sent, page) \in Seq(Seq(Things))
  BY <1>1, Appended
<1>6. CASE Len(f) < FrameUnits
  <2>1. Encode(c, n) = [c EXCEPT !.inbuf = f]
    BY <1>2, <1>6 DEF Encode
  <2> QED BY <2>1 DEF Codecs
<1>7. CASE ~(Len(f) < FrameUnits) /\ c.packets + 1 < PagePackets
  <2>1. Encode(c, n) = [inbuf |-> <<>>, packets |-> c.packets + 1, os |-> s, sent |-> c.sent]
    BY <1>1, <1>2, <1>3, <1>7 DEF Encode
  <2> QED BY <1>1, <2>1 DEF Codecs
<1>8. CASE ~(Len(f) < FrameUnits) /\ ~(c.packets + 1 < PagePackets)
  <2>1. Encode(c, n) = [inbuf |-> <<>>, packets |-> 0, os |-> Header, sent |-> Append(c.sent, page)]
    BY <1>2, <1>4, <1>8 DEF Encode
  <2> QED BY <1>5, <2>1, HeaderIs DEF Codecs
<1> QED BY <1>6, <1>7, <1>8

\* A codec whose pages were taken.
LEMMA Taken ==
  ASSUME NEW c \in Codecs
  PROVE  LET d == [c EXCEPT !.sent = <<>>]
         IN  d \in Codecs /\ d.inbuf = c.inbuf /\ d.packets = c.packets /\ d.os = c.os /\ d.sent = <<>>
<1>1. <<>> \in Seq(Seq(Things))
  OBVIOUS
<1>2. PICK none \in Seq(Seq(Things)) : none = <<>>
  BY <1>1
<1>3. PICK d : d = [c EXCEPT !.sent = none]
  OBVIOUS
<1>4. d = [inbuf |-> c.inbuf, packets |-> c.packets, os |-> c.os, sent |-> none]
  BY <1>3 DEF Codecs
<1>5. d \in Codecs /\ d.inbuf = c.inbuf /\ d.packets = c.packets /\ d.os = c.os /\ d.sent = none
  BY <1>4 DEF Codecs
<1> QED BY <1>2, <1>3, <1>5

\* A block through codecEncode, unit by unit.
LEMMA OutputKeeps ==
  ASSUME next \in 0 .. Numbers - 1, CodecOK(codec, next), Output
  PROVE  next' \in 0 .. Numbers - 1 /\ CodecOK(codec', next')
<1> DEFINE start == [codec EXCEPT !.sent = <<>>]
           num(i) == (next + i - 1) % Numbers
           S == [i \in 1 .. BlockUnits |-> [c \in Codecs |-> Encode(c, num(i))]]
           encoded == CHOOSE e : e = [i \in 0 .. BlockUnits |->
                        IF i = 0 THEN start ELSE Encode(e[i - 1], (next + i - 1) % Numbers)]
<1>0. BlockUnits \in Nat /\ next \in Nat /\ next % Numbers = next /\ \A i \in 1 .. BlockUnits : num(i) \in Nat
  <2>1. next \in Nat
    BY Constants
  <2>2. ASSUME NEW i \in 1 .. BlockUnits PROVE num(i) \in Nat
    <3>1. PICK x \in Int : x = next + i - 1
      BY <2>1
    <3> QED BY <3>1, CountsOn
  <2> QED BY <2>1, <2>2, Constants
<1>1. CodecOK(start, next)
  <2>1. codec \in Codecs
    BY DEF CodecOK
  <2>2. /\ start \in Codecs /\ start.inbuf = codec.inbuf /\ start.packets = codec.packets
        /\ start.os = codec.os /\ start.sent = <<>>
    BY <2>1, Taken
  <2> HIDE DEF start
  <2> QED BY <2>2 DEF CodecOK, Unfilled, InStep
<1> HIDE DEF start, num
<1>2. S \in [1 .. BlockUnits -> [Codecs -> Codecs]] /\ start \in Codecs
  <2>1. \A i \in 1 .. BlockUnits, c \in Codecs : Encode(c, num(i)) \in Codecs
    BY <1>0, EncodeTypes
  <2> QED BY <1>1, <2>1 DEF CodecOK
<1>3. PICK g : Runs(g, start, S, Codecs, BlockUnits)
  <2> HIDE DEF S
  <2> QED BY <1>0, <1>2, LoopRuns
<1>4. g = [i \in 0 .. BlockUnits |-> IF i = 0 THEN start ELSE Encode(g[i - 1], num(i))]
  <2>1. ASSUME NEW i \in 0 .. BlockUnits PROVE g[i] = IF i = 0 THEN start ELSE Encode(g[i - 1], num(i))
    <3>1. CASE i # 0
      <4>1. i \in 1 .. BlockUnits /\ i - 1 \in 0 .. BlockUnits
        BY <1>0, <3>1
      <4>2. g[i - 1] \in Codecs /\ g[i] = S[i][g[i - 1]]
        BY <1>3, <4>1 DEF Runs
      <4> QED BY <3>1, <4>1, <4>2
    <3> QED BY <1>3, <3>1 DEF Runs
  <2> QED BY <1>3, <2>1 DEF Runs
<1>5. encoded = [i \in 0 .. BlockUnits |-> IF i = 0 THEN start ELSE Encode(encoded[i - 1], num(i))]
  BY <1>4 DEF num
<1>6. codec' = encoded[BlockUnits] /\ next' = (next + BlockUnits) % Numbers
  BY DEF Output, start
<1> HIDE DEF encoded
<1>7. \A i \in 0 .. BlockUnits : CodecOK(encoded[i], (next + i) % Numbers)
  <2> DEFINE T == {i \in 0 .. BlockUnits : ~ CodecOK(encoded[i], (next + i) % Numbers)}
  <2> SUFFICES ASSUME T # {} PROVE FALSE
    OBVIOUS
  <2>1. PICK m \in T : \A k \in T : m <= k
    <3>1. T \subseteq Nat
      OBVIOUS
    <3> HIDE DEF T
    <3> QED BY <3>1, Least
  <2>2. m # 0
    <3>1. encoded[0] = start /\ next + 0 = next
      BY <1>0, <1>5
    <3>2. CodecOK(encoded[0], (next + 0) % Numbers)
      BY <1>0, <1>1, <3>1
    <3> QED BY <2>1, <3>2
  <2>3. m \in 1 .. BlockUnits /\ m - 1 \in 0 .. BlockUnits /\ m - 1 \notin T
    BY <1>0, <2>1, <2>2
  <2>4. next + (m - 1) = next + m - 1
    BY <1>0, <2>3
  <2>5. CodecOK(encoded[m - 1], num(m))
    <3>1. CodecOK(encoded[m - 1], (next + (m - 1)) % Numbers)
      BY <2>3
    <3> QED BY <2>4, <3>1 DEF num
  <2>6. encoded[m] = Encode(encoded[m - 1], num(m))
    BY <1>5, <2>2, <2>3
  <2>7. CodecOK(encoded[m], (num(m) + 1) % Numbers)
    BY <2>5, <2>6, EncodeKeeps
  <2>8. (num(m) + 1) % Numbers = (next + m) % Numbers
    <3>1. PICK x \in Int : x = next + m - 1 /\ x + 1 = next + m
      BY <1>0, <2>3
    <3>2. num(m) = x % Numbers
      BY <3>1 DEF num
    <3> QED BY <3>1, <3>2, CountsOn
  <2> QED BY <2>1, <2>7, <2>8
<1>8. CodecOK(codec', next')
  <2>1. BlockUnits \in 0 .. BlockUnits
    BY <1>0
  <2> QED BY <1>6, <1>7, <2>1
<1>9. next' \in 0 .. Numbers - 1
  <2>1. PICK x \in Int : x = next + BlockUnits
    BY <1>0
  <2> QED BY <1>6, <2>1, CountsOn
<1> QED BY <1>8, <1>9

\* PagesInv, with what the codec holds.  The codec belongs to the reader: of
\* its steps only Output and LoadUpdate reach it.
CodecInv == next \in 0 .. Numbers - 1 /\ CodecOK(codec, next)

LEMMA CodecStep == CodecInv /\ [Next]_vars => CodecInv'
<1> SUFFICES ASSUME CodecInv, [Next]_vars PROVE CodecInv'
  OBVIOUS
<1>1. CASE UNCHANGED <<next, codec>>
  BY <1>1 DEF CodecInv, CodecOK, Unfilled, InStep, Headed, Frames, Sequence, Whole
<1>2. CASE LoadUpdate
  <2>1. codec' = [codec EXCEPT !.sent = <<>>] /\ next' = next /\ codec \in Codecs
    BY <1>2 DEF LoadUpdate, CodecInv, CodecOK
  <2>2. /\ codec' \in Codecs /\ codec'.inbuf = codec.inbuf /\ codec'.packets = codec.packets
        /\ codec'.os = codec.os /\ codec'.sent = <<>>
    BY <2>1, Taken
  <2>3. CodecOK(codec', next')
    BY <2>1, <2>2 DEF CodecInv, CodecOK, Unfilled, InStep
  <2> QED BY <2>1, <2>3 DEF CodecInv, CodecOK, Unfilled, InStep, Headed, Frames, Sequence, Whole
<1>3. CASE Output
  <2>1. next' \in 0 .. Numbers - 1 /\ CodecOK(codec', next')
    BY <1>3, OutputKeeps DEF CodecInv
  <2> QED BY <2>1 DEF CodecInv, CodecOK, Unfilled, InStep, Headed, Frames, Sequence, Whole
<1>4. CASE Reader /\ ~LoadUpdate /\ ~Output
  BY <1>1, <1>4 DEF Reader, LoadSelf, DemodulateNull, Demodulate, DemodulateOutside, Resample
<1>5. ASSUME NEW c \in Clients, Setter(c) PROVE UNCHANGED <<next, codec>>
  BY <1>5 DEF Setter, SetVfo, SetPb, Enter, StoreVfo, StoreMixer, StoreUp, StoreRatio, Store, SetMode, reader
<1>6. CASE UNCHANGED vars
  BY <1>1, <1>6 DEF vars, reader
<1> QED BY <1>1, <1>2, <1>3, <1>4, <1>5, <1>6 DEF Next

\* The first page has its headers and nothing else.
LEMMA CodecInit == Init => CodecInv
<1> SUFFICES ASSUME Init PROVE CodecInv
  OBVIOUS
<1>1. codec = [inbuf |-> <<>>, packets |-> 0, os |-> Header, sent |-> <<>>] /\ next = 0
  BY DEF Init
<1>2. codec \in Codecs /\ Unfilled(codec)
  BY <1>1, HeaderIs, Constants DEF Codecs, Unfilled
<1>3. InStep(codec, 0)
  <2>1. 0 \in 0 .. Numbers - 1 /\ 0 * FrameUnits = 0 /\ (0 + 0 * FrameUnits + 0) % Numbers = 0
    BY Constants
  <2>2. Frames(Header, 0, 0) /\ Sequence(<<>>, 0 + 0 * FrameUnits)
    BY DEF Frames, Sequence
  <2> QED BY <1>1, <2>1, <2>2, HeaderIs DEF InStep
<1> QED BY <1>1, <1>2, <1>3, Constants DEF CodecInv, CodecOK

\* Whatever the lengths of block, frame and page, and wherever in a page a
\* block ends: every page codecFunc gets has its headers, all its packets and
\* its end, and the samples in them follow one another without a gap.
THEOREM PagesAreWhole == Spec => []PageWhole
<1>1. CodecInv => PageWhole
  BY DEF CodecInv, CodecOK, PageWhole
<1> QED BY <1>1, CodecInit, CodecStep, PTL DEF Spec
-----------------------------------------------------------------------------
\* A period of the spectra, which the counter counts out.
Period == Threshold + N

LEMMA PeriodIs == Period \in Nat /\ Period > 0 /\ Threshold \in Nat /\ N \in Nat /\ N > 0
BY FftAssumption DEF Period

\* One more is the next place of the period, or the first of the next one.
LEMMA NextInPeriod ==
  ASSUME NEW c \in Nat
  PROVE  /\ c % Period \in 0 .. Period - 1 /\ c \div Period \in Nat
         /\ (c % Period) + 1 < Period =>
              (c + 1) % Period = (c % Period) + 1 /\ (c + 1) \div Period = c \div Period
         /\ (c % Period) + 1 = Period =>
              (c + 1) % Period = 0 /\ (c + 1) \div Period = (c \div Period) + 1
<1>1. PICK T \in Nat : T = Period /\ T > 0
  BY PeriodIs
<1>2. PICK q \in Nat, r \in 0 .. T - 1 : q = c \div T /\ r = c % T /\ c = q * T + r
  <2>1. PICK p \in Int, r \in 0 .. T - 1 : r = c % T /\ c = p * T + r
    BY <1>1, Quotient
  <2>2. p \in Nat
    <3>1. p * T > -T
      BY <2>1
    <3>2. p < 0 => p * T <= -T
      BY <1>1, Z3
    <3> QED BY <3>1, <3>2
  <2>3. c \div T = p
    BY <1>1, <2>1, <2>2
  <2> QED BY <2>1, <2>2, <2>3
<1>3. CASE r + 1 < T
  <2>1. c + 1 = q * T + (r + 1) /\ r + 1 \in 0 .. T - 1
    BY <1>2, <1>3
  <2>2. (c + 1) % T = r + 1 /\ (c + 1) \div T = q
    BY <1>1, <2>1
  <2> QED BY <1>1, <1>2, <1>3, <2>2
<1>4. CASE r + 1 = T
  <2>1. (q + 1) * T = q * T + T
    OBVIOUS
  <2>2. c + 1 = (q + 1) * T + 0
    BY <1>2, <1>4, <2>1
  <2>3. PICK w \in Nat, z \in 0 .. T - 1, x \in Nat : w = q + 1 /\ z = 0 /\ x = c + 1 /\ x = w * T + z
    BY <1>1, <2>2
  <2>4. x % T = z /\ x \div T = w
    BY <1>1, <2>3
  <2>5. (c + 1) % T = 0 /\ (c + 1) \div T = q + 1
    BY <2>3, <2>4
  <2> QED BY <1>1, <1>2, <1>4, <2>5
<1> QED BY <1>1, <1>2, <1>3, <1>4

\* Samples in the order of the stream, up to a last one.
InOrder(p, last) ==
  \A i, j \in DOMAIN p : \A a \in DOMAIN p[i], b \in DOMAIN p[j] :
    /\ p[i][a] \in 1 .. last
    /\ i < j \/ (i = j /\ a < b) => p[i][a] < p[j][b]

Parts == Seq(Seq(Nat))

\* A sample more behind the last part.
LEMMA OrderGrows ==
  ASSUME NEW q \in Parts, NEW s \in Seq(Nat), NEW last \in Nat, InOrder(Append(q, s), last),
         NEW v \in Nat, v > last, NEW hi \in Nat, hi >= v
  PROVE  InOrder(Append(q, Append(s, v)), hi)
<1> DEFINE p == Append(q, s)
           p2 == Append(q, Append(s, v))
<1>1. PICK m \in Nat, n \in Nat : m = Len(q) + 1 /\ n = Len(s)
  BY DEF Parts
<1>2. /\ DOMAIN p = 1 .. m /\ p[m] = s /\ \A i \in 1 .. m : i # m => p[i] = q[i]
      /\ DOMAIN p2 = 1 .. m /\ p2[m] = Append(s, v) /\ \A i \in 1 .. m : i # m => p2[i] = q[i]
  BY <1>1
<1>3. /\ DOMAIN Append(s, v) = 1 .. n + 1 /\ Append(s, v)[n + 1] = v
      /\ \A a \in 1 .. n : Append(s, v)[a] = s[a] /\ DOMAIN s = 1 .. n
  BY <1>1
<1>4. ASSUME NEW i \in DOMAIN p2, NEW a \in DOMAIN p2[i], ~(i = m /\ a = n + 1)
      PROVE  i \in DOMAIN p /\ a \in DOMAIN p[i] /\ p2[i][a] = p[i][a]
  <2>1. CASE i = m
    <3>1. a \in 1 .. n
      BY <1>2, <1>3, <1>4, <2>1
    <3>2. a \in DOMAIN s
      BY <1>1, <3>1
    <3> QED BY <1>2, <1>3, <2>1, <3>1, <3>2
  <2>2. CASE i # m
    BY <1>2, <2>2
  <2> QED BY <2>1, <2>2
<1>5. \A i \in DOMAIN p2 : \A a \in DOMAIN p2[i] : i = m /\ a = n + 1 => p2[i][a] = v
  BY <1>2, <1>3
<1>6. \A i \in DOMAIN p2 : i <= m /\ i \in Nat /\ (i = m => \A a \in DOMAIN p2[i] : a <= n + 1 /\ a \in Nat)
  BY <1>2, <1>3
<1>7. \A i \in DOMAIN p : \A a \in DOMAIN p[i] : p[i][a] \in 1 .. last
  BY DEF InOrder
<1> HIDE DEF p, p2
<1>8. ASSUME NEW i \in DOMAIN p2, NEW j \in DOMAIN p2, NEW a \in DOMAIN p2[i], NEW b \in DOMAIN p2[j]
      PROVE  /\ p2[i][a] \in 1 .. hi
             /\ i < j \/ (i = j /\ a < b) => p2[i][a] < p2[j][b]
  <2>1. CASE i = m /\ a = n + 1
    <3>1. p2[i][a] = v
      BY <1>5, <2>1
    <3>2. ~(i < j \/ (i = j /\ a < b))
      BY <1>6, <2>1
    <3>3. v \in 1 .. hi
      OBVIOUS
    <3> QED BY <3>1, <3>2, <3>3
  <2>2. CASE ~(i = m /\ a = n + 1)
    <3>1. i \in DOMAIN p /\ a \in DOMAIN p[i] /\ p2[i][a] = p[i][a] /\ p[i][a] \in 1 .. last
      BY <1>4, <1>7, <2>2
    <3>2. CASE j = m /\ b = n + 1
      <4>1. p2[j][b] = v
        BY <1>5, <3>2
      <4>2. PICK x \in 1 .. last : x = p2[i][a]
        BY <3>1
      <4>3. x \in 1 .. hi /\ x < v
        BY <4>2
      <4> QED BY <4>1, <4>2, <4>3
    <3>3. CASE ~(j = m /\ b = n + 1)
      <4>1. j \in DOMAIN p /\ b \in DOMAIN p[j] /\ p2[j][b] = p[j][b]
        BY <1>4, <3>3
      <4>2. i < j \/ (i = j /\ a < b) => p[i][a] < p[j][b]
        BY <3>1, <4>1 DEF InOrder, p
      <4>3. PICK x \in 1 .. last : x = p2[i][a]
        BY <3>1
      <4>4. x \in 1 .. hi
        OBVIOUS
      <4> QED BY <3>1, <4>1, <4>2, <4>3, <4>4
    <3> QED BY <3>2, <3>3
  <2> QED BY <2>1, <2>2
<1> QED BY <1>8 DEF InOrder, p2

\* The last part is done with, and an empty one begun.
LEMMA OrderBegins ==
  ASSUME NEW q \in Parts, NEW last, InOrder(q, last)
  PROVE  InOrder(Append(q, <<>>), last)
<1>1. PICK m \in Nat : m = Len(q)
  BY DEF Parts
<1>2. PICK p : p = Append(q, <<>>)
  OBVIOUS
<1>3. DOMAIN p = 1 .. m + 1 /\ p[m + 1] = <<>> /\ \A i \in 1 .. m : p[i] = q[i] /\ DOMAIN q = 1 .. m
  BY <1>1, <1>2
<1>4. \A i \in DOMAIN p : \A a \in DOMAIN p[i] : i \in DOMAIN q /\ p[i] = q[i]
  <2>1. DOMAIN (<<>>) = {}
    OBVIOUS
  <2>2. \A i \in DOMAIN p : i # m + 1 => i \in 1 .. m /\ m >= 1
    BY <1>3
  <2> QED BY <1>3, <2>1, <2>2
<1>5. InOrder(p, last)
  BY <1>4 DEF InOrder
<1> QED BY <1>2, <1>5

\* A part more behind two sequences of them.
LEMMA JoinAppend ==
  ASSUME NEW a \in Parts, NEW b \in Parts, NEW x \in Seq(Nat)
  PROVE  a \o Append(b, x) = Append(a \o b, x)
<1> USE DEF Parts
<1>1. PICK l \in Parts, r \in Parts : l = a \o Append(b, x) /\ r = Append(a \o b, x)
  <2>1. Append(b, x) \in Parts /\ a \o b \in Parts
    OBVIOUS
  <2>2. a \o Append(b, x) \in Parts /\ Append(a \o b, x) \in Parts
    BY <2>1
  <2> QED BY <2>2
<1>2. Len(l) = Len(r) /\ Len(l) = Len(a) + Len(b) + 1
  BY <1>1
<1>3. ASSUME NEW i \in 1 .. Len(l) PROVE l[i] = r[i]
  <2>1. CASE i <= Len(a)
    BY <1>1, <1>2, <2>1
  <2>2. CASE i > Len(a) /\ i <= Len(a) + Len(b)
    BY <1>1, <1>2, <2>2
  <2>3. CASE i = Len(a) + Len(b) + 1
    BY <1>1, <1>2, <2>3
  <2>4. PICK m \in Nat, n \in Nat, k \in Nat : m = Len(a) /\ n = Len(b) /\ k = Len(l)
    <3>1. Len(a) \in Nat /\ Len(b) \in Nat /\ Len(l) \in Nat
      OBVIOUS
    <3> HIDE DEF Parts
    <3> QED BY <3>1
  <2>5. i <= m \/ (i > m /\ i <= m + n) \/ i = m + n + 1
    <3>1. i \in 1 .. k /\ k = m + n + 1
      BY <1>2, <2>4
    <3> HIDE DEF Parts
    <3> QED BY <3>1
  <2> QED BY <2>1, <2>2, <2>3, <2>4, <2>5
<1> QED BY <1>1, <1>2, <1>3

\* Where a transform and the spectra before it are after t samples, if they
\* took them from the first hi.
Ffts == [in : Seq(Nat), skip : Nat]
Counted(f, sp, t, hi) ==
  /\ f \in Ffts /\ sp \in Parts
  /\ f.skip = t % Period
  /\ Len(f.in) = (IF f.skip < Threshold THEN 0 ELSE f.skip - Threshold)
  /\ Len(sp) = t \div Period /\ \A i \in DOMAIN sp : Len(sp[i]) = N
  /\ InOrder(Append(sp, f.in), hi)

\* The values of the loop, over the samples X that a block may hold.
Turns(X) == [fft : [in : Seq(X), skip : Nat], taken : Nat, out : Seq(Seq(X))]

\* A turn goes from one of these to another.
LEMMA TurnTypes ==
  ASSUME NEW X, NEW s \in Turns(X), NEW block, block[s.taken + 1] \in X
  PROVE  FftTurn(s, block) \in Turns(X)
<1> DEFINE in == Append(s.fft.in, block[s.taken + 1])
<1>1. in \in Seq(X) /\ s.fft \in [in : Seq(X), skip : Nat] /\ s.fft.skip + 1 \in Nat
      /\ s.taken \in Nat /\ s.taken + 1 \in Nat /\ s.out \in Seq(Seq(X)) /\ s.fft.in \in Seq(X)
  BY DEF Turns
<1>2. Append(s.out, in) \in Seq(Seq(X)) /\ <<>> \in Seq(X)
  BY <1>1
<1> HIDE DEF in
<1>3. CASE s.fft.skip < Threshold
  <2>1. FftTurn(s, block) = [s EXCEPT !.fft.skip = @ + 1]
    BY <1>3 DEF FftTurn
  <2>2. @ = [fft |-> [in |-> s.fft.in, skip |-> s.fft.skip + 1], taken |-> s.taken, out |-> s.out]
    BY DEF Turns
  <2> QED BY <1>1, <2>1, <2>2 DEF Turns
<1>4. CASE ~ (s.fft.skip < Threshold)
  <2>1. FftTurn(s, block) =
          [fft   |-> IF Len(in) < N THEN [in |-> in, skip |-> s.fft.skip + 1] ELSE FftNew,
           taken |-> s.taken + 1, out |-> IF Len(in) < N THEN s.out ELSE Append(s.out, in)]
    BY <1>4 DEF FftTurn, in
  <2> QED BY <1>1, <1>2, <2>1 DEF Turns, FftNew
<1> QED BY <1>3, <1>4

\* A turn counts a sample, and takes the next one once it collects.
LEMMA TurnKeeps ==
  ASSUME NEW s, NEW sp \in Parts, NEW t \in Nat, NEW base \in Nat, NEW block,
         s \in [fft : Ffts, taken : Nat, out : Parts], block[s.taken + 1] = base + s.taken + 1,
         Counted(s.fft, sp \o s.out, t, base + s.taken)
  PROVE  LET s2 == FftTurn(s, block)
         IN  /\ s2 \in [fft : Ffts, taken : Nat, out : Parts]
             /\ Counted(s2.fft, sp \o s2.out, t + 1, base + s2.taken)
             /\ s2.taken <= s.taken + 1
<1> DEFINE v == base + s.taken + 1
           in == Append(s.fft.in, v)
<1>1. PICK all \in Parts : all = sp \o s.out
  <2>1. PICK o \in Parts : o = s.out
    OBVIOUS
  <2>2. sp \o o \in Parts
    BY DEF Parts
  <2> QED BY <2>1, <2>2
<1>2. PICK hi \in Nat : hi = base + s.taken /\ v = hi + 1 /\ v \in Nat /\ base + (s.taken + 1) = v
  OBVIOUS
<1>3. /\ Counted(s.fft, all, t, hi) /\ s.fft \in Ffts /\ s.out \in Parts /\ s.taken \in Nat
      /\ s.fft.in \in Seq(Nat) /\ s.fft.skip \in Nat
  BY <1>1, <1>2 DEF Ffts
<1>4. in \in Seq(Nat) /\ Len(in) = Len(s.fft.in) + 1 /\ Len(s.fft.in) \in Nat
  BY <1>2, <1>3
<1>5. PICK c \in Nat, P \in Nat : c = t % P /\ P = Period /\ P > 0 /\ c \in 0 .. P - 1 /\ s.fft.skip = c
                       /\ P = Threshold + N /\ Threshold \in Nat /\ N \in Nat /\ N > 0
  BY <1>3, PeriodIs, NextInPeriod DEF Counted, Period
<1>6. /\ c + 1 < P => (t + 1) % Period = c + 1 /\ (t + 1) \div Period = t \div Period
      /\ c + 1 = P => (t + 1) % Period = 0 /\ (t + 1) \div Period = (t \div Period) + 1
      /\ t \div Period \in Nat
  BY <1>5, NextInPeriod
<1>7. Len(s.fft.in) = IF c < Threshold THEN 0 ELSE c - Threshold
  BY <1>3, <1>5 DEF Counted
<1>8. block[s.taken + 1] = v
  OBVIOUS
<1> HIDE DEF in, v
<1>9. CASE c < Threshold
  <2>0. c + 1 \in Nat
    BY <1>5
  <2>1. FftTurn(s, block) = [s EXCEPT !.fft.skip = @ + 1]
    BY <1>5, <1>9 DEF FftTurn
  <2>2. @ = [fft |-> [in |-> s.fft.in, skip |-> c + 1], taken |-> s.taken, out |-> s.out]
    <3>1. s = [fft |-> s.fft, taken |-> s.taken, out |-> s.out] /\ s.fft = [in |-> s.fft.in, skip |-> c]
      BY <1>3, <1>5 DEF Ffts
    <3> QED BY <3>1
  <2>3. PICK s2 : s2 = FftTurn(s, block)
    OBVIOUS
  <2>4. /\ s2.fft = [in |-> s.fft.in, skip |-> c + 1] /\ s2.taken = s.taken /\ s2.out = s.out
        /\ s2 = [fft |-> s2.fft, taken |-> s2.taken, out |-> s2.out]
    BY <2>1, <2>2, <2>3
  <2>5. s2.fft \in Ffts /\ s2.fft.in = s.fft.in /\ s2.fft.skip = c + 1
    BY <1>3, <2>0, <2>4 DEF Ffts
  <2>6. c + 1 < P /\ Len(s.fft.in) = 0 /\ (c + 1 < Threshold \/ c + 1 - Threshold = 0)
    BY <1>5, <1>7, <1>9
  <2>7. Counted(s2.fft, all, t + 1, hi)
    <3>1. /\ all \in Parts /\ InOrder(Append(all, s.fft.in), hi)
          /\ Len(all) = t \div Period /\ \A i \in DOMAIN all : Len(all[i]) = N
      BY <1>3 DEF Counted
    <3>2. (t + 1) % Period = c + 1 /\ (t + 1) \div Period = t \div Period
      BY <1>6, <2>6
    <3>3. Len(s2.fft.in) = (IF s2.fft.skip < Threshold THEN 0 ELSE s2.fft.skip - Threshold)
      <4>1. PICK x, y : x = s2.fft.in /\ y = s2.fft.skip
        OBVIOUS
      <4>2. x = s.fft.in /\ y = c + 1
        BY <2>5, <4>1
      <4>3. Len(x) = 0 /\ (y < Threshold \/ y - Threshold = 0)
        BY <1>5, <2>6, <4>2
      <4>4. Len(x) = (IF y < Threshold THEN 0 ELSE y - Threshold)
        BY <4>3
      <4> QED BY <4>1, <4>4
    <3> QED BY <2>5, <3>1, <3>2, <3>3 DEF Counted
  <2>8. s2 \in [fft : Ffts, taken : Nat, out : Parts]
    BY <1>3, <2>4, <2>5
  <2> QED BY <1>1, <1>2, <2>3, <2>4, <2>7, <2>8
<1>10. CASE ~ (c < Threshold) /\ c + 1 < P
  <2>0. c + 1 \in Nat
    BY <1>5
  <2>1. Len(in) = c - Threshold + 1 /\ Len(in) < N /\ c + 1 - Threshold = c - Threshold + 1
    BY <1>4, <1>5, <1>7, <1>10
  <2>2. FftTurn(s, block) = [fft |-> [in |-> in, skip |-> c + 1], taken |-> s.taken + 1, out |-> s.out]
    BY <1>5, <1>8, <1>10, <2>1 DEF FftTurn, in
  <2>3. PICK s2 : s2 = FftTurn(s, block)
    OBVIOUS
  <2>4. /\ s2.fft = [in |-> in, skip |-> c + 1] /\ s2.taken = s.taken + 1 /\ s2.out = s.out
        /\ s2 = [fft |-> s2.fft, taken |-> s2.taken, out |-> s2.out]
    BY <2>2, <2>3
  <2>5. s2.fft \in Ffts /\ s2.fft.in = in /\ s2.fft.skip = c + 1
    BY <1>4, <2>0, <2>4 DEF Ffts
  <2>6. InOrder(Append(all, in), v)
    <3>1. InOrder(Append(all, s.fft.in), hi)
      BY <1>3 DEF Counted
    <3>2. v \in Nat /\ v > hi /\ v >= v
      BY <1>2
    <3> QED BY <1>3, <3>1, <3>2, OrderGrows DEF in
  <2>7. ~ (c + 1 < Threshold)
    BY <1>5, <1>10
  <2>8. Counted(s2.fft, all, t + 1, v)
    <3>1. all \in Parts /\ Len(all) = t \div Period /\ \A i \in DOMAIN all : Len(all[i]) = N
      BY <1>3 DEF Counted
    <3>2. (t + 1) % Period = c + 1 /\ (t + 1) \div Period = t \div Period
      BY <1>6, <1>10
    <3>3. Len(s2.fft.in) = (IF s2.fft.skip < Threshold THEN 0 ELSE s2.fft.skip - Threshold)
      <4>1. PICK x, y : x = s2.fft.in /\ y = s2.fft.skip
        OBVIOUS
      <4>2. x = in /\ y = c + 1
        BY <2>5, <4>1
      <4>3. Len(x) = y - Threshold /\ ~ (y < Threshold)
        BY <1>5, <2>1, <2>7, <4>2
      <4> QED BY <4>1, <4>3
    <3>4. InOrder(Append(all, s2.fft.in), v)
      BY <2>5, <2>6
    <3> QED BY <2>5, <3>1, <3>2, <3>3, <3>4 DEF Counted
  <2>9. s2 \in [fft : Ffts, taken : Nat, out : Parts]
    BY <1>3, <2>4, <2>5
  <2> QED BY <1>1, <1>2, <1>3, <2>3, <2>4, <2>8, <2>9
<1>11. CASE ~ (c < Threshold) /\ c + 1 = P
  <2>1. Len(in) = N /\ ~ (Len(in) < N)
    BY <1>4, <1>5, <1>7, <1>11
  <2>2. FftTurn(s, block) = [fft |-> FftNew, taken |-> s.taken + 1, out |-> Append(s.out, in)]
    BY <1>5, <1>8, <1>11, <2>1 DEF FftTurn, in
  <2>3. PICK s2 : s2 = FftTurn(s, block)
    OBVIOUS
  <2>4. /\ s2.fft = FftNew /\ s2.taken = s.taken + 1 /\ s2.out = Append(s.out, in)
        /\ s2 = [fft |-> s2.fft, taken |-> s2.taken, out |-> s2.out]
    BY <2>2, <2>3
  <2>5. s2.fft \in Ffts /\ s2.fft.in = <<>> /\ s2.fft.skip = 0
    BY <2>4 DEF Ffts, FftNew
  <2>6. s2.out \in Parts
    BY <1>3, <1>4, <2>4 DEF Parts
  <2>7. sp \o s2.out = Append(all, in) /\ Append(all, in) \in Parts
    <3>1. PICK o \in Parts : o = s.out
      BY <1>3
    <3>2. Append(all, in) \in Parts
      BY <1>4 DEF Parts
    <3>3. sp \o Append(o, in) = Append(sp \o o, in)
      BY <1>4, JoinAppend
    <3> QED BY <1>1, <2>4, <3>1, <3>2, <3>3
  <2>8. InOrder(Append(all, in), v)
    <3>1. InOrder(Append(all, s.fft.in), hi)
      BY <1>3 DEF Counted
    <3>2. v \in Nat /\ v > hi /\ v >= v
      BY <1>2
    <3> QED BY <1>3, <3>1, <3>2, OrderGrows DEF in
  <2>9. InOrder(Append(Append(all, in), <<>>), v)
    BY <2>7, <2>8, OrderBegins
  <2>10. /\ Len(Append(all, in)) = (t + 1) \div Period
         /\ \A i \in DOMAIN Append(all, in) : Len(Append(all, in)[i]) = N
    <3>1. Len(all) = t \div Period /\ \A i \in DOMAIN all : Len(all[i]) = N
      BY <1>3 DEF Counted
    <3>2. PICK m \in Nat : m = Len(all)
      BY DEF Parts
    <3>3. /\ Len(Append(all, in)) = m + 1 /\ DOMAIN Append(all, in) = 1 .. m + 1 /\ DOMAIN all = 1 .. m
          /\ Append(all, in)[m + 1] = in /\ \A i \in 1 .. m : Append(all, in)[i] = all[i]
      BY <3>2 DEF Parts
    <3> QED BY <1>6, <1>11, <2>1, <3>1, <3>2, <3>3
  <2>11. Counted(s2.fft, sp \o s2.out, t + 1, v)
    <3>1. (t + 1) % Period = 0 /\ Len(<<>>) = 0 /\ (0 < Threshold \/ 0 - Threshold = 0)
      BY <1>5, <1>6, <1>11
    <3> QED BY <2>5, <2>7, <2>9, <2>10, <3>1 DEF Counted
  <2>12. s2 \in [fft : Ffts, taken : Nat, out : Parts]
    <3>1. s2.taken \in Nat
      BY <1>3, <2>4
    <3> QED BY <2>4, <2>5, <2>6, <3>1
  <2> QED BY <1>2, <1>3, <2>3, <2>4, <2>11, <2>12
<1>12. c + 1 < P \/ c + 1 = P
  BY <1>5
<1> QED BY <1>9, <1>10, <1>11, <1>12

\* A block through fftUpdate, sample by sample.
LEMMA UpdateKeeps ==
  ASSUME NEW count \in Nat, total \in Nat, Counted(fft, spectra, total, total)
  PROVE  LET done == FftUpdate([k \in 1 .. count |-> total + k])
         IN  Counted(done.fft, spectra \o done.out, total + count, total + count)
<1> DEFINE block == [k \in 1 .. count |-> total + k]
           X == Nat \cup {block[j] : j \in Nat}
           D == Turns(X)
           start == [fft |-> fft, taken |-> 0, out |-> <<>>]
           S == [k \in 1 .. count |-> [s \in D |-> FftTurn(s, block)]]
           turn == CHOOSE f : f = [k \in 0 .. Len(block) |-> IF k = 0 THEN start ELSE FftTurn(f[k - 1], block)]
           Good(k) == /\ turn[k] \in [fft : Ffts, taken : Nat, out : Parts] /\ turn[k].taken <= k
                      /\ Counted(turn[k].fft, spectra \o turn[k].out, total + k, total + turn[k].taken)
<1>1. Len(block) = count /\ \A j \in 1 .. count : block[j] = total + j
  OBVIOUS
<1>2. start \in D
  <2>1. fft \in Ffts
    BY DEF Counted
  <2>2. fft \in [in : Seq(X), skip : Nat]
    BY <2>1 DEF Ffts
  <2> QED BY <2>2 DEF Turns
<1>3. S \in [1 .. count -> [D -> D]]
  <2> HIDE DEF block
  <2>1. ASSUME NEW s \in D PROVE FftTurn(s, block) \in D
    <3>1. s.taken + 1 \in Nat
      BY DEF Turns
    <3>2. block[s.taken + 1] \in X
      BY <3>1
    <3> HIDE DEF X
    <3> QED BY <3>2, TurnTypes
  <2> QED BY <2>1
<1>4. PICK g : Runs(g, start, S, D, count)
  <2> HIDE DEF S, D, start
  <2> QED BY <1>2, <1>3, LoopRuns
<1>5. g = [k \in 0 .. count |-> IF k = 0 THEN start ELSE FftTurn(g[k - 1], block)]
  <2> HIDE DEF D, start, block
  <2>1. ASSUME NEW k \in 0 .. count PROVE g[k] = IF k = 0 THEN start ELSE FftTurn(g[k - 1], block)
    <3>1. CASE k # 0
      <4>1. k \in 1 .. count /\ k - 1 \in 0 .. count
        BY <3>1
      <4>2. g[k - 1] \in D /\ g[k] = S[k][g[k - 1]]
        BY <1>4, <4>1 DEF Runs
      <4> QED BY <3>1, <4>1, <4>2
    <3> QED BY <1>4, <3>1 DEF Runs
  <2> QED BY <1>4, <2>1 DEF Runs
<1>6. turn = [k \in 0 .. count |-> IF k = 0 THEN start ELSE FftTurn(turn[k - 1], block)]
  <2> HIDE DEF start, block
  <2> QED BY <1>1, <1>5
<1>7. FftUpdate(block) = turn[count]
  BY <1>1 DEF FftUpdate
<1> HIDE DEF turn, block, X, S, D
<1>8. Good(0)
  <2>1. turn[0] = start
    BY <1>6
  <2>2. /\ turn[0].fft = fft /\ turn[0].taken = 0 /\ turn[0].out = <<>>
        /\ fft \in Ffts /\ spectra \in Parts
    BY <2>1 DEF Counted
  <2>3. spectra \o <<>> = spectra
    BY <2>2 DEF Parts
  <2>4. turn[0] \in [fft : Ffts, taken : Nat, out : Parts]
    <3>1. <<>> \in Parts
      BY DEF Parts
    <3> QED BY <2>1, <2>2, <3>1
  <2> QED BY <2>2, <2>3, <2>4
<1>9. ASSUME NEW k \in 1 .. count, Good(k - 1) PROVE Good(k)
  <2>1. PICK s : s = turn[k - 1]
    OBVIOUS
  <2>2. turn[k] = FftTurn(s, block) /\ k - 1 \in Nat
    BY <1>6, <2>1
  <2>3. /\ s \in [fft : Ffts, taken : Nat, out : Parts] /\ s.taken \in Nat /\ s.taken <= k - 1
        /\ Counted(s.fft, spectra \o s.out, total + (k - 1), total + s.taken)
    BY <1>9, <2>1
  <2>4. block[s.taken + 1] = total + s.taken + 1
    <3>1. s.taken + 1 \in 1 .. count
      BY <2>3
    <3> QED BY <1>1, <2>3, <3>1
  <2>5. spectra \in Parts /\ total + (k - 1) \in Nat /\ total + (k - 1) + 1 = total + k
    BY DEF Counted
  <2> HIDE DEF Good
  <2>6. LET s2 == FftTurn(s, block)
        IN  /\ s2 \in [fft : Ffts, taken : Nat, out : Parts]
            /\ Counted(s2.fft, spectra \o s2.out, total + (k - 1) + 1, total + s2.taken)
            /\ s2.taken <= s.taken + 1
    BY <2>3, <2>4, <2>5, TurnKeeps
  <2>7. turn[k].taken <= s.taken + 1 /\ turn[k].taken \in Nat
    BY <2>2, <2>6
  <2>8. turn[k].taken <= k
    BY <2>3, <2>7
  <2> QED BY <2>2, <2>5, <2>6, <2>8 DEF Good
<1>10. \A k \in 0 .. count : Good(k)
  <2> DEFINE T == {k \in 0 .. count : ~ Good(k)}
  <2> HIDE DEF Good
  <2>1. SUFFICES ASSUME T # {} PROVE FALSE
    OBVIOUS
  <2>2. PICK m \in T : \A k \in T : m <= k
    <3>1. T \subseteq Nat
      OBVIOUS
    <3> HIDE DEF T
    <3> QED BY <2>1, <3>1, Least
  <2>3. m \in 1 .. count /\ m - 1 \in 0 .. count /\ m - 1 \notin T
    BY <1>8, <2>2
  <2> QED BY <1>9, <2>2, <2>3
<1>11. Good(count)
  BY <1>10
<1>12. PICK done : done = turn[count]
  OBVIOUS
<1>13. /\ done.taken \in Nat /\ done.taken <= count
       /\ Counted(done.fft, spectra \o done.out, total + count, total + done.taken)
  BY <1>11, <1>12
<1>14. Counted(done.fft, spectra \o done.out, total + count, total + count)
  <2>1. \A x : x \in 1 .. total + done.taken => x \in 1 .. total + count
    BY <1>13
  <2>2. PICK lo, hi : lo = total + done.taken /\ hi = total + count /\ \A x : x \in 1 .. lo => x \in 1 .. hi
    BY <2>1
  <2>3. \A p : InOrder(p, lo) => InOrder(p, hi)
    BY <2>2 DEF InOrder
  <2> QED BY <1>13, <2>2, <2>3 DEF Counted
<1> QED BY <1>7, <1>12, <1>14 DEF block

\* Between two reads the transform is where the whole stream has brought it.
SpectraInv == total \in Nat /\ Counted(fft, spectra, total, total)

\* fftCreate has seen no sample.
LEMMA InitSpectra == SpectraInit => SpectraInv
<1> SUFFICES ASSUME SpectraInit PROVE SpectraInv
  OBVIOUS
<1>1. fft = FftNew /\ total = 0 /\ spectra = <<>>
  BY DEF SpectraInit
<1>2. FftNew \in Ffts /\ FftNew.in = <<>> /\ FftNew.skip = 0 /\ <<>> \in Parts
  BY DEF FftNew, Ffts, Parts
<1>3. PICK T \in Nat : T = Period /\ T > 0
  BY PeriodIs
<1>4. 0 % T = 0 /\ 0 \div T = 0
  BY <1>3
<1>5. Threshold \in Nat /\ Len(<<>>) = 0 /\ (0 < Threshold \/ 0 - Threshold = 0)
  BY PeriodIs
<1>6. DOMAIN (<<>>) = {}
  OBVIOUS
<1>7. InOrder(Append(<<>>, <<>>), 0)
  <2>1. InOrder(<<>>, 0)
    BY <1>6 DEF InOrder
  <2> QED BY <1>2, <2>1, OrderBegins
<1> QED BY <1>1, <1>2, <1>3, <1>4, <1>5, <1>6, <1>7 DEF SpectraInv, Counted

\* A read of any number of samples.
LEMMA ReadKeeps == SpectraInv /\ [SpectraNext]_spectraVars => SpectraInv'
<1> SUFFICES ASSUME SpectraInv, [SpectraNext]_spectraVars PROVE SpectraInv'
  OBVIOUS
<1>1. ASSUME NEW count \in Reads, Read(count) PROVE SpectraInv'
  <2>1. count \in Nat /\ total \in Nat /\ Counted(fft, spectra, total, total)
    BY FftAssumption DEF SpectraInv
  <2>2. PICK done : done = FftUpdate([k \in 1 .. count |-> total + k])
    OBVIOUS
  <2>3. fft' = done.fft /\ spectra' = spectra \o done.out /\ total' = total + count
    BY <1>1, <2>2 DEF Read
  <2>4. Counted(done.fft, spectra \o done.out, total + count, total + count)
    BY <2>1, <2>2, UpdateKeeps
  <2>5. Counted(fft', spectra', total', total')
    BY <2>3, <2>4
  <2> QED BY <2>1, <2>3, <2>5 DEF SpectraInv, Counted
<1>2. CASE UNCHANGED spectraVars
  BY <1>2 DEF SpectraInv, Counted, spectraVars
<1> QED BY <1>1, <1>2 DEF SpectraNext

\* The invariant holds for any stream and any reads.
LEMMA AlwaysCounted == SpectraSpec => []SpectraInv
BY InitSpectra, ReadKeeps, PTL DEF SpectraSpec

\* fftUpdate puts out one spectrum of N samples with every Threshold + N
\* samples, however the stream is cut into reads.  It takes no sample twice,
\* and takes all in the order of the stream, although its pointer into the
\* block lags behind the counter.
THEOREM SpectraInOrder == SpectraSpec => []SpectraFollow
<1>1. SpectraInv => Spaced
  BY DEF SpectraInv, Counted, Spaced, Period
<1>2. SpectraInv => Ordered
  BY DEF SpectraInv, Counted, Ordered, Collected, InOrder
<1> QED BY <1>1, <1>2, AlwaysCounted, PTL DEF SpectraFollow
=============================================================================
