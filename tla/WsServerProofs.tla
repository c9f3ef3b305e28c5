--------------------------- MODULE WsServerProofs ---------------------------
(***************************************************************************)
(* Proofs about WsServer, for any number of connections and descriptors,   *)
(* and about Framing, for any frames and buffer.                           *)
(***************************************************************************)
EXTENDS WsServer, Framing, SequenceTheorems, TLAPS

LEMMA TypeInit == Init => TypeOK
BY DEF Init, TypeOK, HandlerLabels, Things

LEMMA TypeNext == TypeOK /\ [Next]_vars => TypeOK'
<1> SUFFICES ASSUME TypeOK, [Next]_vars PROVE TypeOK'
  OBVIOUS
<1> USE DEF TypeOK, HandlerLabels, Things, server, handler, sender, At, CloseFd
<1>w. ASSUME NEW n, Write(n) PROVE up' \in BOOLEAN /\ peer' \in [Handlers -> {"up", "fin", "rst"}]
  <2>1. CASE \E h \in Handlers : desc[n] = Sock(h)
    <3> DEFINE g == CHOOSE h \in Handlers : desc[n] = Sock(h)
    <3>1. g \in Handlers
      BY <2>1
    <3>2. /\ up' = (peer[g] # "rst")
          /\ peer' = IF peer[g] = "fin" THEN [peer EXCEPT ![g] = "rst"] ELSE peer
      BY <1>w, <2>1 DEF Write
    <3> HIDE DEF g
    <3> QED BY <3>1, <3>2
  <2>2. CASE ~\E h \in Handlers : desc[n] = Sock(h)
    BY <1>w, <2>2 DEF Write
  <2> QED BY <2>1, <2>2
<1>1. ASSUME NEW h \in Handlers, Accept(h) \/ PeerLeaves(h) PROVE TypeOK'
  BY <1>1 DEF Accept, PeerLeaves
<1>2. ASSUME NEW h \in Handlers, Handler(h) PROVE TypeOK'
  <2>1. CASE Request(h) \/ RequestWithoutWord(h)
    BY <2>1 DEF Request, RequestWithoutWord
  <2>2. CASE Reject(h) \/ FileMissing(h) \/ FileSend(h) \/ Upgrade(h)
    BY <2>2, <1>w DEF Reject, FileMissing, FileSend, Upgrade
  <2>3. CASE FileOpen(h)
    BY <2>3 DEF FileOpen
  <2>4. CASE FileClose(h) \/ Fclose(h) \/ Close(h)
    BY <2>4 DEF FileClose, Fclose, Close
  <2>5. CASE Publish(h) \/ Clear(h)
    BY <2>5 DEF Publish, Clear
  <2>6. CASE ReceiveStart(h) \/ ReceiveStop(h) \/ ReceiveFails(h)
    BY <2>6 DEF ReceiveStart, ReceiveStop, ReceiveFails
  <2>7. CASE HandlerDelete(h)
    BY <2>7 DEF HandlerDelete
  <2> QED BY <1>2, <2>1, <2>2, <2>3, <2>4, <2>5, <2>6, <2>7 DEF Handler, Ending
<1>3. CASE AcceptFails \/ ServerEnds
  BY <1>3 DEF AcceptFails, ServerEnds
<1>4. CASE Sender
  <2>1. CASE SendGet
    BY <2>1 DEF SendGet
  <2>2. CASE SendSocket
    BY <2>2 DEF SendSocket
  <2>3. CASE SendHeader
    BY <2>3, <1>w DEF SendHeader
  <2>4. CASE SendPayload
    BY <2>4, <1>w DEF SendPayload
  <2> QED BY <1>4, <2>1, <2>2, <2>3, <2>4 DEF Sender
<1>5. CASE UNCHANGED vars
  BY <1>5 DEF vars
<1> QED BY <1>1, <1>2, <1>3, <1>4, <1>5 DEF Next
-----------------------------------------------------------------------------
WsInv == TypeOK /\ ClientWsLive /\ Published /\ DescriptorsHeld

LEMMA WsInit == Init => WsInv
<1> SUFFICES ASSUME Init PROVE WsInv
  OBVIOUS
<1>1. ClientWsLive /\ Published
  BY HandlersAssumption DEF Init, ClientWsLive, Published, JunkNeverUsed
<1>2. DescriptorsHeld
  BY DEF Init, DescriptorsHeld, Free, Sock, File
<1> QED BY <1>1, <1>2, TypeInit DEF WsInv

\* The parts of the state the properties speak of, and their types.
Fields == /\ hpc \in [Handlers -> HandlerLabels]
          /\ sock \in [Handlers -> Fds \cup {NoFd}]
          /\ file \in [Handlers -> Fds \cup {NoFd}]
          /\ desc \in [Fds -> Things]

LEMMA WsNext == WsInv /\ [Next]_vars => WsInv'
<1> SUFFICES ASSUME WsInv, [Next]_vars
             PROVE  ClientWsLive' /\ Published' /\ DescriptorsHeld'
  BY TypeNext DEF WsInv
<1> DEFINE Goal == ClientWsLive' /\ Published' /\ DescriptorsHeld'
<1>0. Fields /\ ClientWsLive /\ Published /\ DescriptorsHeld
  BY DEF WsInv, TypeOK, Fields
<1> USE <1>0, HandlersAssumption, FdsAssumption
    DEF Fields, server, handler, sender, At, CloseFd, ClientWsLive, Published,
        JunkNeverUsed, DescriptorsHeld, Closing, HandlerLabels, Free, Sock, File
<1>1. ASSUME NEW h \in Handlers, Accept(h) \/ PeerLeaves(h) PROVE Goal
  <2>1. CASE Accept(h)
    BY <2>1 DEF Accept, Lowest, FreeFds
  <2>2. CASE PeerLeaves(h)
    BY <2>2 DEF PeerLeaves
  <2> QED BY <1>1, <2>1, <2>2
<1>2. ASSUME NEW h \in Handlers, Handler(h) PROVE Goal
  <2>1. CASE Request(h)
    <3>1. /\ hpc[h] = "request" /\ hpc'[h] \in {"reject", "open", "upgrade"}
          /\ \A g \in Handlers \ {h} : hpc'[g] = hpc[g]
          /\ UNCHANGED <<server, sock, file, peer, desc, sender>>
      BY <2>1 DEF Request
    <3> QED BY <3>1
  <2>10. CASE RequestWithoutWord(h)
    BY <2>10 DEF RequestWithoutWord
  <2>2. CASE Reject(h) \/ FileMissing(h) \/ FileSend(h) \/ Upgrade(h)
    BY <2>2 DEF Reject, FileMissing, FileSend, Upgrade
  <2>3. CASE FileOpen(h)
    BY <2>3 DEF FileOpen, Lowest, FreeFds
  <2>4. CASE FileClose(h)
    BY <2>4 DEF FileClose
  <2>5. CASE Publish(h)
    BY <2>5 DEF Publish
  <2>6. CASE ReceiveStart(h) \/ ReceiveStop(h) \/ ReceiveFails(h)
    BY <2>6 DEF ReceiveStart, ReceiveStop, ReceiveFails
  <2>7. CASE Clear(h)
    <3>1. ClientWsLive' /\ Published'
      BY <2>7 DEF Clear
    <3>2. DescriptorsHeld'
      BY <2>7 DEF Clear
    <3> QED BY <3>1, <3>2
  <2>8. CASE Fclose(h) \/ Close(h)
    BY <2>8 DEF Fclose, Close
  <2>9. CASE HandlerDelete(h)
    BY <2>9 DEF HandlerDelete
  <2> QED BY <1>2, <2>1, <2>2, <2>3, <2>4, <2>5, <2>6, <2>7, <2>8, <2>9, <2>10
          DEF Handler, Ending
<1>3. CASE AcceptFails \/ ServerEnds
  BY <1>3 DEF AcceptFails, ServerEnds
<1>4. CASE Sender
  <2>1. CASE SendGet
    BY <2>1 DEF SendGet
  <2>2. CASE SendSocket
    BY <2>2 DEF SendSocket
  <2>3. CASE SendHeader \/ SendPayload
    BY <2>3 DEF SendHeader, SendPayload
  <2> QED BY <1>4, <2>1, <2>2, <2>3 DEF Sender
<1>5. CASE UNCHANGED vars
  BY <1>5 DEF vars
<1> QED BY <1>1, <1>2, <1>3, <1>4, <1>5 DEF Next

THEOREM WsInvariant == Spec => []WsInv
BY WsInit, WsNext, PTL DEF Spec

\* wsGetClientWs never hands out a freed record, however many clients come
\* and go.
THEOREM ClientWsNeverDangles == Spec => []ClientWsLive
<1>1. WsInv => ClientWsLive
  BY DEF WsInv
<1> QED BY <1>1, WsInvariant, PTL

\* The uninitialised clientWs is never used.
THEOREM StreamMeetsNoJunk == Spec => []Published
<1>1. WsInv => Published
  BY DEF WsInv
<1> QED BY <1>1, WsInvariant, PTL

\* Closing numbers twice loses other clients' sockets but leaks none: every
\* descriptor is still to be closed by the handler that opened it, but for the
\* sockets that the listener got and made no record or no thread for.
THEOREM DescriptorsReturn == Spec => []DescriptorsHeld
<1>1. WsInv => DescriptorsHeld
  BY DEF WsInv
<1> QED BY <1>1, WsInvariant, PTL
-----------------------------------------------------------------------------
\* A number is what is left of it after a shift by a byte, and that byte.
LEMMA Halves == ASSUME NEW n \in Nat
                PROVE  /\ n \div 256 \in Nat /\ n % 256 \in Octet
                       /\ (n \div 256) * 256 + (n % 256) = n
BY DEF Octet

\* Every shift leaves what the one before left, by eight bits.
LEMMA Shifts == ASSUME NEW n \in Nat
                PROVE  /\ \A k \in 1 .. 8 : Shifted(n)[k] \in Nat
                       /\ \A k \in 1 .. 7 : Shifted(n)[k] * 256 + (Shifted(n)[k + 1] % 256) = Shifted(n)[k + 1]
                       /\ Shifted(n)[8] = n
<1> DEFINE s == Shifted(n)
<1>s8. s[8] = n
  BY DEF Shifted
<1>s7. s[7] = s[8] \div 256
  BY DEF Shifted
<1>s6. s[6] = s[7] \div 256
  BY DEF Shifted
<1>s5. s[5] = s[6] \div 256
  BY DEF Shifted
<1>s4. s[4] = s[5] \div 256
  BY DEF Shifted
<1>s3. s[3] = s[4] \div 256
  BY DEF Shifted
<1>s2. s[2] = s[3] \div 256
  BY DEF Shifted
<1>s1. s[1] = s[2] \div 256
  BY DEF Shifted
<1> HIDE DEF s
<1>1. s[8] \in Nat
  BY <1>s8
<1>d7. s[7] \in Nat /\ s[7] * 256 + (s[8] % 256) = s[8]
  BY <1>s7, <1>1, Halves
<1>d6. s[6] \in Nat /\ s[6] * 256 + (s[7] % 256) = s[7]
  BY <1>s6, <1>d7, Halves
<1>d5. s[5] \in Nat /\ s[5] * 256 + (s[6] % 256) = s[6]
  BY <1>s5, <1>d6, Halves
<1>d4. s[4] \in Nat /\ s[4] * 256 + (s[5] % 256) = s[5]
  BY <1>s4, <1>d5, Halves
<1>d3. s[3] \in Nat /\ s[3] * 256 + (s[4] % 256) = s[4]
  BY <1>s3, <1>d4, Halves
<1>d2. s[2] \in Nat /\ s[2] * 256 + (s[3] % 256) = s[3]
  BY <1>s2, <1>d3, Halves
<1>d1. s[1] \in Nat /\ s[1] * 256 + (s[2] % 256) = s[2]
  BY <1>s1, <1>d2, Halves
<1>4. \A k \in 1 .. 8 : s[k] \in Nat
  BY <1>1, <1>d7, <1>d6, <1>d5, <1>d4, <1>d3, <1>d2, <1>d1
<1>5. \A k \in 1 .. 7 : s[k] * 256 + (s[k + 1] % 256) = s[k + 1]
  <2> SUFFICES ASSUME NEW k \in 1 .. 7 PROVE s[k] * 256 + (s[k + 1] % 256) = s[k + 1]
    OBVIOUS
  <2>1. k = 1 \/ k = 2 \/ k = 3 \/ k = 4 \/ k = 5 \/ k = 6 \/ k = 7
    OBVIOUS
  <2> QED BY <2>1, <1>1, <1>d7, <1>d6, <1>d5, <1>d4, <1>d3, <1>d2, <1>d1
<1> QED BY <1>s8, <1>4, <1>5 DEF s

\* getInt's int, made of eight bytes, is the length they were taken from.
LEMMA LongRead ==
  ASSUME NEW n \in Nat, Shifted(n)[5] < 128
  PROVE  GetInt([k \in 1 .. 8 |-> Shifted(n)[k] % 256], 8) = n
<1> DEFINE s == Shifted(n)
           buf == [k \in 1 .. 8 |-> s[k] % 256]
<1>1. buf[5] = s[5] % 256 /\ buf[6] = s[6] % 256 /\ buf[7] = s[7] % 256 /\ buf[8] = s[8] % 256
  OBVIOUS
<1>2. \A k \in 1 .. 7 : s[k] * 256 + (s[k + 1] % 256) = s[k + 1]
  BY Shifts
<1>3. s[5] \in Nat /\ s[5] < 128 /\ s[8] = n
  BY Shifts
<1>4. GetInt(buf, 8) = (((IF buf[5] < 128 THEN buf[5] ELSE buf[5] - 256) * 256 + buf[6]) * 256 + buf[7]) * 256
                         + buf[8]
  BY DEF GetInt
<1> HIDE DEF s, buf
<1>5. buf[5] = s[5]
  BY <1>1, <1>3
<1>6. /\ s[5] * 256 + buf[6] = s[6] /\ s[6] * 256 + buf[7] = s[7]
      /\ s[7] * 256 + buf[8] = s[8]
  <2>1. /\ s[5] * 256 + (s[5 + 1] % 256) = s[5 + 1] /\ s[6] * 256 + (s[6 + 1] % 256) = s[6 + 1]
        /\ s[7] * 256 + (s[7 + 1] % 256) = s[7 + 1]
    BY ONLY <1>2
  <2> QED BY ONLY <1>1, <2>1
<1> QED BY ONLY <1>3, <1>4, <1>5, <1>6 DEF s, buf

\* One sequence behind another.
LEMMA Joined ==
  ASSUME NEW S, NEW s \in Seq(S), NEW t \in Seq(S)
  PROVE  /\ s \o t \in Seq(S) /\ Len(s \o t) = Len(s) + Len(t)
         /\ \A k \in 1 .. Len(s) : (s \o t)[k] = s[k]
         /\ \A k \in 1 .. Len(t) : (s \o t)[Len(s) + k] = t[k]
<1> DEFINE m == Len(s)  n == Len(t)
<1>1. m \in Nat /\ n \in Nat /\ Len(s) = m /\ Len(t) = n
  OBVIOUS
<1> HIDE DEF m, n
<1>2. s \o t \in Seq(S) /\ Len(s \o t) = m + n
  BY <1>1, ConcatProperties
<1>3. ASSUME NEW k \in 1 .. m PROVE (s \o t)[k] = s[k]
  BY <1>1
<1>4. ASSUME NEW k \in 1 .. n PROVE (s \o t)[m + k] = t[k]
  BY <1>1
<1> QED BY <1>1, <1>2, <1>3, <1>4

\* The bytes s lie behind the first i of b.
Lies(s, b, i) == \A k \in 1 .. Len(s) : b[i + k] = s[k]

\* What wsSendPacket is given.
Announced(opcode, bit, len) ==
  opcode \in 0 .. 15 /\ bit \in {0, 128} /\ len \in Nat /\ Shifted(len)[5] < 128

\* What lies at a place of the wire as a whole lies there in its parts.
LEMMA Laid ==
  ASSUME NEW S, NEW s, NEW t, NEW b, NEW i, s \in Seq(S), t \in Seq(S), i \in Nat, Lies(s \o t, b, i)
  PROVE  Lies(s, b, i) /\ Lies(t, b, i + Len(s))
<1> DEFINE c == s \o t
           m == Len(s)
           n == Len(t)
<1>1. m \in Nat /\ n \in Nat
  OBVIOUS
<1>2. Len(c) = m + n
  BY Joined
<1>3. \A k \in 1 .. m : c[k] = s[k]
  BY Joined
<1>4. \A k \in 1 .. n : c[m + k] = t[k]
  BY Joined
<1>5. \A k \in 1 .. Len(c) : b[i + k] = c[k]
  BY DEF Lies
<1> HIDE DEF c, m, n
<1>6. ASSUME NEW k \in 1 .. m PROVE b[i + k] = s[k]
  BY <1>1, <1>2, <1>3, <1>5
<1>7. ASSUME NEW k \in 1 .. n PROVE b[i + m + k] = t[k]
  <2>1. m + k \in 1 .. m + n
    BY <1>1
  <2>2. b[i + (m + k)] = c[m + k]
    BY <1>2, <1>5, <2>1
  <2>3. i + (m + k) = i + m + k
    BY <1>1
  <2> QED BY <1>4, <2>2, <2>3
<1> QED BY <1>6, <1>7 DEF m, n, Lies

\* handleClientWebsocket reads from a header the length that was announced, and
\* finds the mask and the payload behind it.
LEMMA HeaderRead ==
  ASSUME NEW opcode, NEW bit, NEW len, Announced(opcode, bit, len),
         NEW b, NEW i, i \in Nat, Lies(Header(opcode, bit, len), b, i)
  PROVE  LET h == Header(opcode, bit, len)
             r == ReadHeader(b, i)
         IN  /\ h \in Seq(Octet) /\ Len(h) >= 2
             /\ r.paylen = len /\ r.masked = (bit = 128) /\ r.maskAt = i + Len(h)
             /\ r.dataAt = i + Len(h) + (IF bit = 128 THEN 4 ELSE 0)
<1> DEFINE h == Header(opcode, bit, len)
<1>0. opcode \in 0 .. 15 /\ bit \in {0, 128} /\ len \in Nat /\ Shifted(len)[5] < 128
  BY DEF Announced
<1>4. \A k \in 1 .. Len(h) : b[i + k] = h[k]
  BY DEF Lies
<1> USE <1>0
<1>1. CASE len < 126
  <2>1. h = <<128 + opcode, bit + len>>
    BY <1>1 DEF Header
  <2>2. h \in Seq(Octet) /\ Len(h) = 2 /\ h[2] = bit + len
    BY <1>1, <2>1 DEF Octet
  <2>3. b[i + 2] = bit + len
    BY <2>2, <1>4
  <2>4. b[i + 2] % 128 = len /\ (b[i + 2] >= 128 <=> bit = 128)
    BY <1>1, <2>3
  <2>5. Extended(len) = 0
    BY <1>1 DEF Extended
  <2> QED BY <1>1, <2>2, <2>4, <2>5 DEF ReadHeader
<1>2. CASE len >= 126 /\ len < 65536
  <2>1. h = <<128 + opcode, bit + 126, (len \div 256) % 256, len % 256>>
    BY <1>2 DEF Header
  <2>2. (len \div 256) % 256 = len \div 256
    BY <1>2
  <2>3. h \in Seq(Octet) /\ Len(h) = 4 /\ h[2] = bit + 126 /\ h[3] = len \div 256 /\ h[4] = len % 256
    BY <1>2, <2>1, <2>2, Halves DEF Octet
  <2>4. b[i + 2] = bit + 126 /\ b[i + 3] = len \div 256 /\ b[i + 4] = len % 256
    <3>1. 2 \in 1 .. Len(h) /\ 3 \in 1 .. Len(h) /\ 4 \in 1 .. Len(h)
      BY <2>3
    <3>2. b[i + 2] = h[2] /\ b[i + 3] = h[3] /\ b[i + 4] = h[4]
      BY ONLY <1>4, <3>1
    <3> QED BY ONLY <2>3, <3>2
  <2>5. b[i + 2] % 128 = 126 /\ (b[i + 2] >= 128 <=> bit = 128)
    BY <2>4
  <2>6. GetInt([k \in 1 .. 2 |-> b[i + 2 + k]], 2) = len
    <3>1. i + 2 + 1 = i + 3 /\ i + 2 + 2 = i + 4
      OBVIOUS
    <3> QED BY <2>4, <3>1, Halves DEF GetInt
  <2>7. ReadHeader(b, i) = [paylen |-> GetInt([k \in 1 .. 2 |-> b[i + 2 + k]], 2), masked |-> bit = 128,
                            maskAt |-> i + 2 + 2, dataAt |-> i + 2 + 2 + (IF bit = 128 THEN 4 ELSE 0)]
    <3>1. Extended(b[i + 2] % 128) = 2
      BY <2>5 DEF Extended
    <3>2. (b[i + 2] >= 128) = (bit = 128)
      BY <2>5
    <3> QED BY <3>1, <3>2, 2 # 0, Zenon DEF ReadHeader
  <2> QED BY <2>3, <2>6, <2>7
<1>3. CASE len >= 65536
  <2>1. /\ h \in Seq(Octet) /\ Len(h) = 10 /\ h[2] = bit + 127
        /\ \A k \in 1 .. 8 : h[k + 2] = Shifted(len)[k] % 256
    <3> DEFINE first == <<128 + opcode, bit + 127>>
               tail == [k \in 1 .. 8 |-> Shifted(len)[k] % 256]
    <3>1. h = first \o tail
      <4> DEFINE short  == <<128 + opcode, bit + len>>
                 middle == <<128 + opcode, bit + 126, (len \div 256) % 256, len % 256>>
                 long   == first \o tail
      <4>1. h = IF len < 126 THEN short ELSE IF len < 65536 THEN middle ELSE long
        BY DEF Header
      <4> HIDE DEF short, middle, long, h
      <4>2. h = long
        BY ONLY <1>0, <1>3, <4>1
      <4> QED BY <4>2 DEF long
    <3>2. tail \in Seq(Octet) /\ Len(tail) = 8
      <4>1. ASSUME NEW k \in 1 .. 8 PROVE Shifted(len)[k] % 256 \in Octet
        <5>1. Shifted(len)[k] \in Nat
          BY Shifts
        <5> QED BY <5>1, Halves
      <4> QED BY <4>1, IsASeq
    <3>3. \A k \in 1 .. 8 : tail[k] = Shifted(len)[k] % 256
      OBVIOUS
    <3>4. first \in Seq(Octet) /\ Len(first) = 2 /\ first[2] = bit + 127
      BY DEF Octet
    <3> HIDE DEF first, tail, h
    <3>5. first \in Seq(Octet) /\ tail \in Seq(Octet)
      BY <3>2, <3>4
    <3>6. h \in Seq(Octet) /\ Len(h) = Len(first) + Len(tail)
      BY <3>1, <3>5, ConcatProperties
    <3>7. \A k \in 1 .. Len(first) : h[k] = first[k]
      BY <3>1, <3>5, Joined
    <3>8. \A k \in 1 .. Len(tail) : h[Len(first) + k] = tail[k]
      BY <3>1, <3>5, Joined
    <3>9. h \in Seq(Octet) /\ Len(h) = 10 /\ h[2] = bit + 127
      BY <3>2, <3>4, <3>6, <3>7
    <3>10. ASSUME NEW k \in 1 .. 8 PROVE h[k + 2] = Shifted(len)[k] % 256
      <4>1. k \in 1 .. Len(tail) /\ k + 2 = Len(first) + k
        BY <3>2, <3>4
      <4>2. h[k + 2] = tail[k]
        BY ONLY <3>8, <4>1
      <4> QED BY ONLY <3>3, <4>2, k \in 1 .. 8
    <3> QED BY <3>9, <3>10 DEF h
  <2> HIDE DEF h
  <2>4. 2 \in 1 .. Len(h)
    BY <2>1
  <2>5. b[i + 2] = bit + 127
    BY ONLY <1>4, <2>1, <2>4
  <2>6. b[i + 2] % 128 = 127 /\ (b[i + 2] >= 128 <=> bit = 128)
    BY <2>5
  <2>7. ASSUME NEW k \in 1 .. 8 PROVE b[i + 2 + k] = Shifted(len)[k] % 256
    <3>1. k + 2 \in 1 .. Len(h) /\ i + 2 + k = i + (k + 2)
      BY <2>1
    <3>2. b[i + (k + 2)] = h[k + 2]
      BY <1>4, <3>1
    <3> QED BY <2>1, <3>1, <3>2
  <2>8. GetInt([k \in 1 .. 8 |-> b[i + 2 + k]], 8) = len
    <3>1. [k \in 1 .. 8 |-> b[i + 2 + k]] = [k \in 1 .. 8 |-> Shifted(len)[k] % 256]
      BY <2>7
    <3> QED BY <3>1, LongRead
  <2>9. ReadHeader(b, i) = [paylen |-> GetInt([k \in 1 .. 8 |-> b[i + 2 + k]], 8), masked |-> bit = 128,
                            maskAt |-> i + 2 + 8, dataAt |-> i + 2 + 8 + (IF bit = 128 THEN 4 ELSE 0)]
    <3>1. Extended(b[i + 2] % 128) = 8
      BY <2>6 DEF Extended
    <3>2. (b[i + 2] >= 128) = (bit = 128)
      BY <2>6
    <3> QED BY <3>1, <3>2, 8 # 0, Zenon DEF ReadHeader
  <2>10. i + 2 + 8 = i + 10
    OBVIOUS
  <2> QED BY <2>1, <2>8, <2>9, <2>10 DEF h
<1> QED BY <1>1, <1>2, <1>3

\* A header is two bytes or more.
LEMMA HeaderType ==
  ASSUME NEW opcode, NEW bit, NEW len, Announced(opcode, bit, len)
  PROVE  Header(opcode, bit, len) \in Seq(Octet) /\ Len(Header(opcode, bit, len)) >= 2
<1> DEFINE h == Header(opcode, bit, len)
<1>1. 0 \in Nat
  OBVIOUS
<1>2. Lies(h, h, 0)
  BY DEF Lies
<1> QED BY <1>1, <1>2, HeaderRead, Zenon

\* What the assumptions say of a message's parts.
LEMMA DataType ==
  ASSUME NEW f \in Message
  PROVE  /\ f.opcode \in 0 .. 15 /\ f.data \in Seq(Octet)
         /\ Len(f.data) \in Nat /\ Shifted(Len(f.data))[5] < 128
         /\ f.mask # <<>> => f.mask \in Seq(Octet) /\ Len(f.mask) = 4
<1>1. f.opcode \in 0 .. 15
  BY FramingAssumption DEF Message
<1>2. f.data \in Data /\ f.mask \in Masks \cup {<<>>}
  BY DEF Message
<1>3. f.data \in Seq(Octet) /\ Shifted(Len(f.data))[5] < 128
  BY <1>2, FramingAssumption
<1>4. ASSUME f.mask # <<>> PROVE f.mask \in Seq(Octet) /\ Len(f.mask) = 4
  BY <1>2, <1>4, FramingAssumption
<1>5. Len(f.data) \in Nat
  BY <1>3
<1> QED BY <1>1, <1>3, <1>4, <1>5

\* A client's mask makes as many bytes of a payload's bytes.
LEMMA MaskedType ==
  ASSUME NEW f \in Message, f.mask # <<>>
  PROVE  /\ MaskedBy(f.mask, f.data) \in Seq(Octet) /\ Len(MaskedBy(f.mask, f.data)) = Len(f.data)
         /\ \A k \in 1 .. Len(f.data) : /\ f.mask[((k - 1) % 4) + 1] \in Octet /\ f.data[k] \in Octet
                                        /\ MaskedBy(f.mask, f.data)[k] = XorByte(f.data[k], f.mask[((k - 1) % 4) + 1])
<1> DEFINE d == f.data
           m == f.mask
           n == Len(d)
           x == MaskedBy(m, d)
<1>1. d \in Seq(Octet) /\ n \in Nat /\ m \in Seq(Octet) /\ Len(m) = 4
  BY DataType
<1>2. ASSUME NEW k \in 1 .. n PROVE m[((k - 1) % 4) + 1] \in Octet /\ d[k] \in Octet
  <2>1. ((k - 1) % 4) + 1 \in 1 .. 4
    BY <1>1
  <2> QED BY <1>1, <2>1
<1>3. x = [k \in 1 .. n |-> XorByte(d[k], m[((k - 1) % 4) + 1])]
  BY DEF MaskedBy
<1> HIDE DEF d, m, n, x
<1>4. ASSUME NEW k \in 1 .. n PROVE XorByte(d[k], m[((k - 1) % 4) + 1]) \in Octet
  BY <1>2, FramingAssumption
<1>5. x \in Seq(Octet) /\ Len(x) = n
  <2>1. x \in [1 .. n -> Octet]
    BY <1>3, <1>4
  <2>2. x \in Seq(Octet)
    BY <1>1, <2>1, SeqDef
  <2> QED BY <1>1, <2>1, <2>2
<1>6. \A k \in 1 .. n : x[k] = XorByte(d[k], m[((k - 1) % 4) + 1])
  BY <1>3
<1> QED BY <1>2, <1>5, <1>6 DEF d, m, n, x

\* The mask bit and the header of a frame.
BitOf(f)  == IF f.mask = <<>> THEN 0 ELSE 128
HeaderOf(f) == Header(f.opcode, BitOf(f), Len(f.data))

\* Every message can be announced.
LEMMA HeaderOfType ==
  ASSUME NEW f \in Message
  PROVE  /\ Announced(f.opcode, BitOf(f), Len(f.data))
         /\ HeaderOf(f) \in Seq(Octet) /\ Len(HeaderOf(f)) >= 2
<1>1. Announced(f.opcode, BitOf(f), Len(f.data))
  BY DataType DEF Announced, BitOf
<1> QED BY <1>1, HeaderType DEF HeaderOf

\* A frame is its header, its mask if it has one, and the payload.
LEMMA BytesType ==
  ASSUME NEW f \in Message
  PROVE  /\ f.mask = <<>> => Bytes(f) = HeaderOf(f) \o f.data
         /\ f.mask # <<>> => /\ Bytes(f) = HeaderOf(f) \o (f.mask \o MaskedBy(f.mask, f.data))
                            /\ f.mask \o MaskedBy(f.mask, f.data) \in Seq(Octet)
                            /\ Len(f.mask \o MaskedBy(f.mask, f.data)) = 4 + Len(f.data)
         /\ Bytes(f) \in Seq(Octet) /\ Len(Bytes(f)) >= 2
         /\ Len(Bytes(f)) = Len(HeaderOf(f)) + (IF f.mask = <<>> THEN 0 ELSE 4) + Len(f.data)
<1> DEFINE h == HeaderOf(f)
           x == MaskedBy(f.mask, f.data)
<1>1. h \in Seq(Octet) /\ Len(h) >= 2 /\ Len(h) \in Nat
  BY HeaderOfType
<1>2. f.data \in Seq(Octet) /\ Len(f.data) \in Nat
  BY DataType
<1>3. CASE f.mask = <<>>
  <2>1. Bytes(f) = h \o f.data
    BY <1>3 DEF Bytes, HeaderOf, BitOf
  <2> HIDE DEF h
  <2>2. Bytes(f) \in Seq(Octet) /\ Len(Bytes(f)) = Len(h) + Len(f.data)
    BY <1>1, <1>2, <2>1, ConcatProperties
  <2>3. Len(Bytes(f)) >= 2 /\ Len(h) + Len(f.data) = Len(h) + 0 + Len(f.data)
    BY <1>1, <1>2, <2>2
  <2> QED BY <1>3, <2>1, <2>2, <2>3 DEF h
<1>4. CASE f.mask # <<>>
  <2>1. Bytes(f) = h \o (f.mask \o x)
    BY <1>4 DEF Bytes, HeaderOf, BitOf
  <2>2. f.mask \in Seq(Octet) /\ Len(f.mask) = 4 /\ x \in Seq(Octet) /\ Len(x) = Len(f.data)
    BY <1>4, DataType, MaskedType
  <2> HIDE DEF h, x
  <2>3. f.mask \o x \in Seq(Octet) /\ Len(f.mask \o x) = Len(f.mask) + Len(x)
    BY <2>2, ConcatProperties
  <2> DEFINE y == f.mask \o x
  <2> HIDE DEF y
  <2>4. y \in Seq(Octet) /\ Len(y) = 4 + Len(f.data) /\ Bytes(f) = h \o y
    BY <2>1, <2>2, <2>3 DEF y
  <2>5. Bytes(f) \in Seq(Octet) /\ Len(Bytes(f)) = Len(h) + Len(y)
    <3>1. h \in Seq(Octet) /\ y \in Seq(Octet)
      BY <1>1, <2>4
    <3>2. h \o y \in Seq(Octet) /\ Len(h \o y) = Len(h) + Len(y)
      BY ONLY <3>1, ConcatProperties
    <3> QED BY <2>4, <3>2
  <2>6. Len(Bytes(f)) >= 2 /\ Len(Bytes(f)) = Len(h) + 4 + Len(f.data)
    <3> DEFINE n == Len(Bytes(f))
               a == Len(h)
               c == Len(f.data)
    <3>1. a \in Nat /\ a >= 2 /\ c \in Nat /\ n = a + (4 + c)
      BY <1>1, <1>2, <2>4, <2>5
    <3> HIDE DEF a, c, n
    <3>2. n >= 2 /\ n = a + 4 + c
      BY ONLY <3>1
    <3> QED BY <3>2 DEF a, c, n
  <2> QED BY <1>4, <2>1, <2>4, <2>5, <2>6 DEF h, x, y
<1> QED BY <1>3, <1>4

\* Of a frame that lies on the wire the loop reads its payload, and is where it
\* ends.
LEMMA FrameRead ==
  ASSUME NEW f, NEW b, NEW i, f \in Message, i \in Nat, Lies(Bytes(f), b, i)
  PROVE  LET r == ReadHeader(b, i)
         IN  /\ r.paylen = Len(f.data) /\ r.dataAt + r.paylen = i + Len(Bytes(f))
             /\ Unmask(b, r) = f.data
<1> DEFINE h == HeaderOf(f)
           d == f.data
           n == Len(d)
           r == ReadHeader(b, i)
<1>1. h \in Seq(Octet) /\ Len(h) \in Nat /\ d \in Seq(Octet) /\ n \in Nat
  BY HeaderOfType, DataType
<1>2. /\ r.paylen = n /\ r.masked = (BitOf(f) = 128) /\ r.maskAt = i + Len(h)
      /\ r.dataAt = i + Len(h) + (IF BitOf(f) = 128 THEN 4 ELSE 0)
  <2>1. Announced(f.opcode, BitOf(f), n)
    BY HeaderOfType
  <2>2. Lies(h, b, i)
    <3>1. CASE f.mask = <<>>
      <4>1. Bytes(f) = h \o d /\ h \in Seq(Octet) /\ d \in Seq(Octet)
        BY <1>1, <3>1, BytesType
      <4> HIDE DEF h, d
      <4>2. Lies(h \o d, b, i)
        BY <4>1
      <4> QED BY <4>1, <4>2, Laid, Zenon
    <3>2. CASE f.mask # <<>>
      <4> DEFINE y == f.mask \o MaskedBy(f.mask, f.data)
      <4>1. Bytes(f) = h \o y /\ h \in Seq(Octet) /\ y \in Seq(Octet)
        BY <1>1, <3>2, BytesType
      <4> HIDE DEF h, y
      <4>2. Lies(h \o y, b, i)
        BY <4>1
      <4> QED BY <4>1, <4>2, Laid, Zenon
    <3> QED BY <3>1, <3>2
  <2> DEFINE c == f.opcode
             t == BitOf(f)
  <2>3. h = Header(c, t, n)
    BY DEF HeaderOf
  <2>4. Lies(Header(c, t, n), b, i)
    BY <2>2, <2>3
  <2> HIDE DEF c, t, n, h, r
  <2>5. /\ ReadHeader(b, i).paylen = n /\ ReadHeader(b, i).masked = (t = 128)
        /\ ReadHeader(b, i).maskAt = i + Len(Header(c, t, n))
        /\ ReadHeader(b, i).dataAt = i + Len(Header(c, t, n)) + (IF t = 128 THEN 4 ELSE 0)
    <3>1. Announced(c, t, n)
      BY <2>1 DEF c, t, n
    <3> QED BY ONLY <2>4, <3>1, i \in Nat, HeaderRead
  <2> QED BY <2>3, <2>5 DEF r, t
<1>3. r.dataAt + r.paylen = i + Len(Bytes(f))
  <2>1. Len(Bytes(f)) = Len(h) + (IF f.mask = <<>> THEN 0 ELSE 4) + n
    BY BytesType
  <2>2. BitOf(f) = 128 <=> f.mask # <<>>
    BY DEF BitOf
  <2> HIDE DEF h, n, r
  <2>3. CASE f.mask = <<>>
    BY <1>1, <1>2, <2>1, <2>2, <2>3
  <2>4. CASE f.mask # <<>>
    BY <1>1, <1>2, <2>1, <2>2, <2>4
  <2> QED BY <2>3, <2>4
<1>4. d = [k \in 1 .. n |-> d[k]]
  BY <1>1
<1>5. Unmask(b, r) = d
  <2>1. CASE f.mask = <<>>
    <3>1. r.masked = FALSE /\ r.dataAt = i + Len(h)
      <4>1. BitOf(f) = 0
        BY <2>1 DEF BitOf
      <4>2. (BitOf(f) = 128) = FALSE
        BY <4>1
      <4>3. r.masked = FALSE
        BY <1>2, <4>2, Zenon
      <4> HIDE DEF r, h
      <4>4. r.dataAt = i + Len(h) + 0
        BY <1>2, <4>2
      <4> QED BY <1>1, <4>3, <4>4
    <3>2. Lies(d, b, i + Len(h))
      <4>1. Bytes(f) = h \o d /\ h \in Seq(Octet) /\ d \in Seq(Octet)
        BY <1>1, <2>1, BytesType
      <4> HIDE DEF h, d
      <4>2. Lies(h \o d, b, i)
        BY <4>1
      <4> QED BY <4>1, <4>2, Laid, Zenon
    <3> HIDE DEF r, h, d
    <3>3. \A k \in 1 .. n : b[r.dataAt + k] = d[k]
      BY <3>1, <3>2 DEF Lies
    <3>4. Unmask(b, r) = [k \in 1 .. n |-> b[r.dataAt + k]]
      BY <1>2, <3>1 DEF Unmask
    <3> QED BY <1>4, <3>3, <3>4
  <2>2. CASE f.mask # <<>>
    <3> DEFINE m == f.mask
               x == MaskedBy(m, d)
    <3>1. r.masked = TRUE /\ r.maskAt = i + Len(h) /\ r.dataAt = i + Len(h) + 4
      BY <1>1, <1>2, <2>2 DEF BitOf
    <3>2. m \in Seq(Octet) /\ Len(m) = 4 /\ x \in Seq(Octet) /\ Len(x) = n /\ i + Len(h) \in Nat
      BY <1>1, <2>2, DataType, MaskedType
    <3>3. Lies(m \o x, b, i + Len(h))
      <4> DEFINE y == m \o x
      <4>1. Bytes(f) = h \o y /\ h \in Seq(Octet) /\ y \in Seq(Octet)
        BY <1>1, <2>2, BytesType
      <4> HIDE DEF h, y
      <4>2. Lies(h \o y, b, i)
        BY <4>1
      <4>3. Lies(y, b, i + Len(h))
        BY <4>1, <4>2, Laid, Zenon
      <4> QED BY <4>3 DEF y
    <3>4. \A k \in 1 .. n : /\ m[((k - 1) % 4) + 1] \in Octet /\ d[k] \in Octet
                            /\ x[k] = XorByte(d[k], m[((k - 1) % 4) + 1])
      BY <2>2, MaskedType
    <3> HIDE DEF r, h, d, m, x
    <3>5. Lies(m, b, i + Len(h)) /\ Lies(x, b, i + Len(h) + Len(m))
      BY <3>2, <3>3, Laid, Zenon
    <3>6. \A k \in 1 .. 4 : b[r.maskAt + k] = m[k]
      BY <3>1, <3>2, <3>5 DEF Lies
    <3>7. \A k \in 1 .. n : b[r.dataAt + k] = x[k]
      BY <3>1, <3>2, <3>5 DEF Lies
    <3>8. ASSUME NEW k \in 1 .. n
          PROVE  XorByte(b[r.dataAt + k], b[r.maskAt + ((k - 1) % 4) + 1]) = d[k]
      <4>1. ((k - 1) % 4) + 1 \in 1 .. 4
        BY <1>1
      <4>2. r.maskAt + ((k - 1) % 4) + 1 = r.maskAt + (((k - 1) % 4) + 1)
        BY <3>1, <3>2, <4>1
      <4>3. b[r.maskAt + ((k - 1) % 4) + 1] = m[((k - 1) % 4) + 1]
        BY <3>6, <4>1, <4>2
      <4> QED BY <3>4, <3>7, <4>3, FramingAssumption
    <3>9. Unmask(b, r) = [k \in 1 .. n |-> XorByte(b[r.dataAt + k], b[r.maskAt + ((k - 1) % 4) + 1])]
      BY <1>2, <3>1 DEF Unmask
    <3> QED BY <1>4, <3>8, <3>9
  <2> QED BY <2>1, <2>2
<1> QED BY <1>2, <1>3, <1>5
-----------------------------------------------------------------------------
\* Nothing is on the wire at first.
LEMMA FramingInitInv == FramingInit => FramingInv
BY FramingAssumption DEF FramingInit, FramingInv, FramingTypeOK, OnTheWire, Handled, Boundary

\* While bytes are left, the loop stands before the first frame that it has not
\* handed on, and reads that one.
LEMMA Standing ==
  ASSUME FramingInv, pos < Len(wire)
  PROVE  LET n == Len(handled) + 1
         IN  /\ n \in 1 .. Len(sent) /\ n \in Nat /\ sent[n] \in Message
             /\ Next1.paylen = Len(sent[n].data) /\ Unmask(wire, Next1) = sent[n].data
             /\ End1 = Boundary(n) /\ End1 <= Len(wire) /\ End1 \in Nat
<1> DEFINE n == Len(handled) + 1
           f == sent[n]
<1>1. /\ Len(handled) \in Nat /\ Len(sent) \in Nat /\ Len(handled) <= Len(sent) /\ pos \in Nat
      /\ Len(wire) \in Nat /\ pos = Boundary(Len(handled))
  BY DEF FramingInv, FramingTypeOK, Handled
<1>2. n \in 1 .. Len(sent) /\ n \in Nat /\ pos = begins[n]
  BY <1>1 DEF Boundary
<1>3. f \in Message
  BY <1>2 DEF FramingInv, FramingTypeOK
<1>4. /\ begins[n] + Len(Bytes(f)) = Boundary(n) /\ Boundary(n) <= Len(wire)
      /\ \A k \in 1 .. Len(Bytes(f)) : wire[begins[n] + k] = Bytes(f)[k]
  BY <1>2 DEF FramingInv, OnTheWire
<1>5. Lies(Bytes(f), wire, pos)
  BY <1>2, <1>4 DEF Lies
<1>6. /\ ReadHeader(wire, pos).paylen = Len(f.data)
      /\ ReadHeader(wire, pos).dataAt + ReadHeader(wire, pos).paylen = pos + Len(Bytes(f))
      /\ Unmask(wire, ReadHeader(wire, pos)) = f.data
  <2> HIDE DEF f
  <2> QED BY ONLY <1>1, <1>3, <1>5, FrameRead
<1>7. Len(Bytes(f)) \in Nat
  BY <1>3, BytesType
<1>8. End1 = pos + Len(Bytes(f)) /\ End1 \in Nat
  <2>1. End1 = ReadHeader(wire, pos).dataAt + ReadHeader(wire, pos).paylen
    BY DEF End1, Next1
  <2> HIDE DEF f
  <2> QED BY <1>1, <1>6, <1>7, <2>1
<1> QED BY <1>2, <1>3, <1>4, <1>6, <1>8 DEF Next1

\* A frame that is written lies behind the others, and one that is taken is the
\* first that was not yet.
LEMMA FramingNextInv == FramingInv /\ [FramingNext]_framingVars => FramingInv'
<1> SUFFICES ASSUME FramingInv, [FramingNext]_framingVars PROVE FramingInv'
  OBVIOUS
<1>t. FramingTypeOK /\ OnTheWire /\ Handled
  BY DEF FramingInv
<1>1. ASSUME NEW f \in Message, SendFrame(f) PROVE FramingInv'
  <2> DEFINE b == Bytes(f)
             w == Len(wire)
             s == Len(sent)
  <2>1. /\ wire' = wire \o b /\ sent' = Append(sent, f) /\ begins' = Append(begins, w)
        /\ pos' = pos /\ handled' = handled /\ step' = step
    BY <1>1 DEF SendFrame
  <2>2. b \in Seq(Octet) /\ Len(b) \in Nat /\ wire \in Seq(Octet) /\ w \in Nat /\ s \in Nat /\ Len(begins) = s
        /\ sent \in Seq(Message) /\ begins \in Seq(Nat)
    <3>1. b \in Seq(Octet)
      BY BytesType
    <3> HIDE DEF b
    <3> QED BY <1>t, <3>1 DEF FramingTypeOK, OnTheWire
  <2>3. sent' \in Seq(Message) /\ Len(sent') = s + 1 /\ sent'[s + 1] = f /\ \A i \in 1 .. s : sent'[i] = sent[i]
    BY <2>1, <2>2, AppendProperties
  <2>4. begins' \in Seq(Nat) /\ Len(begins') = s + 1 /\ begins'[s + 1] = w /\ \A i \in 1 .. s : begins'[i] = begins[i]
    BY <2>1, <2>2, AppendProperties
  <2>5. wire' \in Seq(Octet) /\ Len(wire') = w + Len(b)
    <3>1. wire \in Seq(Octet) /\ b \in Seq(Octet)
      BY <2>2
    <3> HIDE DEF b
    <3>2. wire \o b \in Seq(Octet) /\ Len(wire \o b) = w + Len(b)
      BY ONLY <3>1, ConcatProperties DEF w
    <3> QED BY <2>1, <3>2
  <2>6. \A k \in 1 .. w : wire'[k] = wire[k]
    <3>1. wire \in Seq(Octet) /\ b \in Seq(Octet)
      BY <2>2
    <3> HIDE DEF b
    <3> QED BY ONLY <2>1, <3>1, Joined DEF w
  <2>7. \A k \in 1 .. Len(b) : wire'[w + k] = b[k]
    <3>1. wire \in Seq(Octet) /\ b \in Seq(Octet)
      BY <2>2
    <3> HIDE DEF b
    <3> QED BY ONLY <2>1, <3>1, Joined DEF w
  <2>8. FramingTypeOK'
    BY <1>t, <2>1, <2>3, <2>4, <2>5 DEF FramingTypeOK
  <2>9. ASSUME NEW i \in 0 .. s PROVE (IF i < s + 1 THEN begins'[i + 1] ELSE Len(wire')) = Boundary(i)
    <3>1. CASE i < s
      <4>1. i + 1 \in 1 .. s /\ i < s + 1
        BY <2>2, <3>1
      <4>2. Boundary(i) = begins[i + 1]
        BY <3>1 DEF Boundary
      <4> QED BY <2>4, <4>1, <4>2
    <3>2. CASE i = s
      <4>1. Boundary(i) = w
        BY <2>2, <3>2 DEF Boundary
      <4>2. i + 1 = s + 1 /\ i < s + 1
        BY <2>2, <3>2
      <4> QED BY <2>4, <4>1, <4>2
    <3> QED BY <2>2, <3>1, <3>2
  <2>11. OnTheWire'
    <3>1. ASSUME NEW i \in 1 .. s
          PROVE  /\ begins'[i] + Len(Bytes(sent'[i])) = Boundary(i)' /\ Boundary(i)' <= Len(wire')
                 /\ \A k \in 1 .. Len(Bytes(sent'[i])) : wire'[begins'[i] + k] = Bytes(sent'[i])[k]
      <4>0. i \in 0 .. s /\ i \in 1 .. Len(begins)
        BY <2>2
      <4>1. /\ sent'[i] = sent[i] /\ begins'[i] = begins[i] /\ Boundary(i)' = Boundary(i) /\ begins[i] \in Nat
        <5>1. begins[i] \in Nat
          BY <2>2, <4>0
        <5>2. Boundary(i)' = Boundary(i)
          BY <2>3, <2>9, <4>0 DEF Boundary
        <5> QED BY <2>3, <2>4, <5>1, <5>2
      <4> DEFINE c == Bytes(sent[i])
      <4>2. /\ begins[i] + Len(c) = Boundary(i) /\ Boundary(i) <= w
            /\ \A k \in 1 .. Len(c) : wire[begins[i] + k] = c[k]
        BY <1>t DEF OnTheWire
      <4>3. Len(c) \in Nat
        BY <2>2, BytesType
      <4> HIDE DEF c, b, w
      <4>4. Boundary(i) <= Len(wire')
        <5>1. Boundary(i) \in Nat
          BY <4>1, <4>2, <4>3
        <5>2. Len(wire') = w + Len(b) /\ w \in Nat /\ Len(b) \in Nat /\ Boundary(i) <= w
          BY <2>2, <2>5, <4>2
        <5> QED BY ONLY <5>1, <5>2
      <4>5. ASSUME NEW k \in 1 .. Len(c) PROVE wire'[begins[i] + k] = c[k]
        <5>1. begins[i] + k \in 1 .. w
          <6> DEFINE p == begins[i]
                     l == Len(c)
          <6>1. p \in Nat /\ w \in Nat /\ l \in Nat /\ p + l <= w /\ k \in 1 .. l
            BY <2>2, <4>1, <4>2, <4>3
          <6> HIDE DEF p, l
          <6>2. p + k \in 1 .. w
            BY ONLY <6>1
          <6> QED BY <6>2 DEF p
        <5> QED BY <2>6, <4>2, <5>1
      <4> QED BY <4>1, <4>2, <4>4, <4>5 DEF c
    <3>2. ASSUME NEW i \in 1 .. Len(sent'), i = s + 1
          PROVE  /\ begins'[i] + Len(Bytes(sent'[i])) = Boundary(i)' /\ Boundary(i)' <= Len(wire')
                 /\ \A k \in 1 .. Len(Bytes(sent'[i])) : wire'[begins'[i] + k] = Bytes(sent'[i])[k]
      <4>1. sent'[i] = f /\ begins'[i] = w
        BY <2>3, <2>4, <3>2
      <4>2. Boundary(i)' = w + Len(b)
        BY <2>2, <2>3, <2>5, <3>2 DEF Boundary
      <4>3. Boundary(i)' <= Len(wire')
        BY <2>2, <2>5, <4>2
      <4> QED BY <2>7, <4>1, <4>2, <4>3
    <3>3. Boundary(0)' = 0
      <4>1. 0 \in 0 .. s
        BY <2>2
      <4>2. Boundary(0)' = IF 0 < s + 1 THEN begins'[0 + 1] ELSE Len(wire')
        BY <2>3 DEF Boundary
      <4>3. Boundary(0) = 0
        BY <1>t DEF OnTheWire
      <4> QED BY <2>9, <4>1, <4>2, <4>3
    <3>4. \A i \in 1 .. Len(sent') : i \in 1 .. s \/ i = s + 1
      BY <2>2, <2>3
    <3>5. ASSUME NEW i \in 1 .. Len(sent')
          PROVE  /\ begins'[i] + Len(Bytes(sent'[i])) = Boundary(i)' /\ Boundary(i)' <= Len(wire')
                 /\ \A k \in 1 .. Len(Bytes(sent'[i])) : wire'[begins'[i] + k] = Bytes(sent'[i])[k]
      <4>1. CASE i \in 1 .. s
        BY <3>1, <4>1
      <4>2. CASE i = s + 1
        BY <3>2, <4>2
      <4> QED BY <3>4, <4>1, <4>2
    <3>6. Len(begins') = Len(sent')
      BY <2>3, <2>4
    <3> QED BY <3>3, <3>5, <3>6, Zenon DEF OnTheWire
  <2>12. Handled'
    <3>1. Len(handled) \in 0 .. s
      BY <1>t DEF Handled, FramingTypeOK
    <3>2. Boundary(Len(handled))' = Boundary(Len(handled))
      <4>1. Boundary(Len(handled))' = IF Len(handled) < Len(sent') THEN begins'[Len(handled) + 1] ELSE Len(wire')
        BY <2>1 DEF Boundary
      <4> QED BY <2>3, <2>9, <3>1, <4>1
    <3>3. \A i \in 1 .. Len(handled') : handled'[i] = sent'[i].data
      BY <1>t, <2>1, <2>3, <3>1 DEF Handled
    <3>4. step' = "over" => Len(handled') < Len(sent') /\ Len(sent'[Len(handled') + 1].data) >= BufLen
      BY <1>t, <2>1, <2>3, <3>1 DEF Handled
    <3>5. Len(handled') <= Len(sent')
      BY <2>1, <2>2, <2>3, <3>1
    <3>6. pos' = Boundary(Len(handled))'
      BY <1>t, <2>1, <3>2 DEF Handled
    <3> QED BY <3>3, <3>4, <3>5, <3>6 DEF Handled
  <2> QED BY <2>8, <2>11, <2>12 DEF FramingInv
<1>2. CASE Take
  <2> DEFINE n == Len(handled) + 1
             f == sent[n]
  <2>1. /\ handled' = Append(handled, Unmask(wire, Next1)) /\ pos' = End1
        /\ wire' = wire /\ step' = step /\ sent' = sent /\ begins' = begins /\ step = "in" /\ pos < Len(wire)
    BY <1>2 DEF Take, Reading
  <2>2. /\ n \in 1 .. Len(sent) /\ n \in Nat /\ f \in Message /\ Unmask(wire, Next1) = f.data
        /\ End1 = Boundary(n) /\ End1 \in Nat
    BY <2>1, Standing
  <2>3. f.data \in Seq(Octet)
    BY <2>2, DataType
  <2>4. handled \in Seq(Seq(Octet)) /\ handled' = Append(handled, f.data)
    BY <1>t, <2>1, <2>2 DEF FramingTypeOK
  <2>5. handled' \in Seq(Seq(Octet)) /\ Len(handled') = n /\ handled'[n] = f.data
        /\ \A i \in 1 .. Len(handled) : handled'[i] = handled[i]
    <3> HIDE DEF f
    <3> QED BY <2>3, <2>4, AppendProperties
  <2>6. FramingTypeOK'
    BY <1>t, <2>1, <2>2, <2>5 DEF FramingTypeOK
  <2>7. \A i : Boundary(i)' = Boundary(i)
    BY <2>1 DEF Boundary
  <2>8. OnTheWire'
    BY <1>t, <2>1, <2>7 DEF OnTheWire
  <2>9. ASSUME NEW i \in 1 .. Len(handled') PROVE handled'[i] = sent'[i].data
    <3>1. CASE i = n
      BY <2>1, <2>5, <3>1
    <3>2. CASE i # n
      <4>1. i \in 1 .. Len(handled)
        BY <2>2, <2>4, <2>5, <3>2
      <4> QED BY <1>t, <2>1, <2>5, <4>1 DEF Handled
    <3> QED BY <3>1, <3>2
  <2>10. Handled'
    <3>1. pos' = Boundary(Len(handled))'
      BY <2>1, <2>2, <2>5 DEF Boundary
    <3>2. Len(handled') <= Len(sent')
      BY <2>1, <2>2, <2>5
    <3> QED BY <2>1, <2>9, <3>1, <3>2 DEF Handled
  <2> QED BY <2>6, <2>8, <2>10 DEF FramingInv
<1>3. ASSUME TooLong \/ Short PROVE FramingInv'
  <2>1. /\ wire' = wire /\ pos' = pos /\ handled' = handled /\ sent' = sent /\ begins' = begins
        /\ step' \in {"over", "short"} /\ pos < Len(wire)
        /\ step' = "over" => Next1.paylen >= BufLen
    BY <1>3 DEF TooLong, Short, Reading
  <2>2. FramingTypeOK'
    BY <1>t, <2>1 DEF FramingTypeOK
  <2>3. \A i : Boundary(i)' = Boundary(i)
    BY <2>1 DEF Boundary
  <2>4. OnTheWire'
    BY <1>t, <2>1, <2>3 DEF OnTheWire
  <2>5. /\ Len(handled) + 1 \in 1 .. Len(sent)
        /\ Next1.paylen = Len(sent[Len(handled) + 1].data)
    BY <2>1, Standing
  <2>6. Len(handled) \in Nat /\ Len(sent) \in Nat
    BY <1>t DEF FramingTypeOK
  <2>7. step' = "over" => Len(handled') < Len(sent') /\ Len(sent'[Len(handled') + 1].data) >= BufLen
    BY <2>1, <2>5, <2>6
  <2>8. Handled'
    BY <1>t, <2>1, <2>3, <2>7 DEF Handled
  <2> QED BY <2>2, <2>4, <2>8 DEF FramingInv
<1>4. CASE UNCHANGED framingVars
  BY <1>t, <1>4 DEF framingVars, FramingInv, FramingTypeOK, OnTheWire, Handled, Boundary
<1> QED BY <1>1, <1>2, <1>3, <1>4 DEF FramingNext

\* Whatever is sent, the bytes of every frame are where it begins, and what was
\* handed on are the payloads of the first frames.
THEOREM FramingInvariant == FramingSpec => []FramingInv
BY FramingInitInv, FramingNextInv, PTL DEF FramingSpec

\* wsSendPacket's frames and those of clients, of any lengths and masks, reach
\* onMessage as they were sent, in order; a frame that does not fit into the
\* buffer is the only one that is taken for too long.
THEOREM FramesReadAsSent == FramingSpec => []FramesInStep
<1>1. FramingInv => FramesInStep
  <2> SUFFICES ASSUME FramingInv PROVE FramesInStep
    OBVIOUS
  <2>1. ASSUME pos < Len(wire) PROVE End1 <= Len(wire)
    BY <2>1, Standing
  <2> QED BY <2>1 DEF FramingInv, Handled, FramesInStep
<1> QED BY <1>1, FramingInvariant, PTL
==============================================================================
