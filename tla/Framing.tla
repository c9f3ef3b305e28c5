------------------------------ MODULE Framing ------------------------------
(***************************************************************************)
(* A websocket of src/wsserver.c as a stream of bytes: what wsSendPacket   *)
(* or a client writes, and the frames that handleClientWebsocket's loop    *)
(* makes of it.                                                            *)
(*                                                                         *)
(* A frame is on the wire as a whole before any of it is read.  A read of  *)
(* more than one byte may still come short, which the loop mistakes for    *)
(* the end of the payload, or gives up.                                    *)
(***************************************************************************)
EXTENDS Integers, Sequences

CONSTANTS BufLen,           \* the 1024 * 1024 bytes of recvBuf
          XorByte(_, _),    \* C's ^
          Opcodes,          \* 1 for text, 2 for bytes
          Data,             \* what may be sent
          Masks,            \* the masks of clients
          MaxFrames,        \* bound: frames on one connection,
          MaxWire           \* and their bytes

Octet == 0 .. 255

\* A length as a long: what is left of it after each shift by eight bits.
Shifted(n) == LET n1 == n \div 256   n2 == n1 \div 256   n3 == n2 \div 256   n4 == n3 \div 256
                  n5 == n4 \div 256  n6 == n5 \div 256   n7 == n6 \div 256
              IN  <<n7, n6, n5, n4, n3, n2, n1, n>>

ASSUME FramingAssumption ==
  /\ BufLen \in Nat \ {0} /\ {MaxFrames, MaxWire} \subseteq Nat
  /\ Opcodes \subseteq 0 .. 15
  /\ Data \subseteq Seq(Octet) /\ \A d \in Data : Shifted(Len(d))[5] < 128   \* below 2^31
  /\ Masks \subseteq Seq(Octet) /\ \A m \in Masks : Len(m) = 4
  /\ \A a, b \in Octet : XorByte(a, b) \in Octet /\ XorByte(XorByte(a, b), b) = a

VARIABLES wire,             \* the bytes written so far
          pos,              \* how many of them are read
          handled,          \* the payloads onMessage got
          step,             \* "in", or why the loop is not in step any more
          sent,             \* history: the frames written
          begins            \* history: where each begins on the wire

framingVars == <<wire, pos, handled, step, sent, begins>>

Message == [opcode : Opcodes, mask : Masks \cup {<<>>}, data : Data]
-----------------------------------------------------------------------------
\* wsSendPacket's header; that of a masked frame has one bit more.

HeaderNarrow(opcode, masked, len) ==          \* a mutant: two bytes up to 65536
  IF len < 126 THEN <<128 + opcode, masked + len>>
  ELSE IF len <= 65536 THEN <<128 + opcode, masked + 126, (len \div 256) % 256, len % 256>>
  ELSE <<128 + opcode, masked + 127>> \o [k \in 1 .. 8 |-> Shifted(len)[k] % 256]

Header(opcode, masked, len) ==
  IF len < 126 THEN <<128 + opcode, masked + len>>
  ELSE IF len < 65536 THEN <<128 + opcode, masked + 126, (len \div 256) % 256, len % 256>>
  ELSE <<128 + opcode, masked + 127>> \o [k \in 1 .. 8 |-> Shifted(len)[k] % 256]

MaskedBy(mask, data) == [i \in 1 .. Len(data) |-> XorByte(data[i], mask[((i - 1) % 4) + 1])]

Bytes(f) == IF f.mask = <<>> THEN Header(f.opcode, 0, Len(f.data)) \o f.data
            ELSE Header(f.opcode, 128, Len(f.data)) \o (f.mask \o MaskedBy(f.mask, f.data))
-----------------------------------------------------------------------------
\* getInt, of two bytes or of eight: it returns an int, so of eight the last four
\* are left, the first of which has the sign.
GetInt(buf, size) ==
  IF size = 2 THEN buf[1] * 256 + buf[2]
  ELSE (((IF buf[5] < 128 THEN buf[5] ELSE buf[5] - 256) * 256 + buf[6]) * 256 + buf[7]) * 256 + buf[8]

\* How many bytes of length follow the second byte of a header.
Extended(code) == CASE code = 126 -> 2 [] code = 127 -> 8 [] OTHER -> 0

\* What the loop reads before the payload of the frame behind i bytes.
ReadHeader(b, i) ==
  LET code   == b[i + 2] % 128
      size   == Extended(code)
      masked == b[i + 2] >= 128
  IN  [paylen |-> IF size = 0 THEN code ELSE GetInt([k \in 1 .. size |-> b[i + 2 + k]], size),
       masked |-> masked, maskAt |-> i + 2 + size,
       dataAt |-> i + 2 + size + (IF masked THEN 4 ELSE 0)]

UnmaskLate(b, h) ==                           \* a mutant: begins with the second byte of the mask
  [k \in 1 .. h.paylen |-> IF h.masked THEN XorByte(b[h.dataAt + k], b[h.maskAt + (k % 4) + 1]) ELSE b[h.dataAt + k]]

Unmask(b, h) ==
  [k \in 1 .. h.paylen |-> IF h.masked THEN XorByte(b[h.dataAt + k], b[h.maskAt + ((k - 1) % 4) + 1]) ELSE b[h.dataAt + k]]
-----------------------------------------------------------------------------
FramingInit == /\ wire = <<>> /\ pos = 0 /\ handled = <<>> /\ step = "in"
               /\ sent = <<>> /\ begins = <<>>

SendFrame(f) == /\ Len(sent) < MaxFrames /\ Len(wire) + Len(f.data) < MaxWire
                /\ wire' = wire \o Bytes(f) /\ sent' = Append(sent, f) /\ begins' = Append(begins, Len(wire))
                /\ UNCHANGED <<pos, handled, step>>

\* One turn of the loop.  A payload as long as the buffer has no room for the
\* terminator, one that is longer is cut, and the rest is taken for frames; after
\* a read that came short onMessage gets what the buffer held before.  What is
\* handed on in such a turn, and after it, is not said here: the loop is out of
\* step.
Next1 == ReadHeader(wire, pos)
End1  == Next1.dataAt + Next1.paylen

Reading == step = "in" /\ pos < Len(wire)

Take == /\ Reading /\ Next1.paylen < BufLen /\ End1 <= Len(wire)
        /\ handled' = Append(handled, Unmask(wire, Next1)) /\ pos' = End1
        /\ UNCHANGED <<wire, step, sent, begins>>

TooLong == /\ Reading /\ Next1.paylen >= BufLen /\ step' = "over"
           /\ UNCHANGED <<wire, pos, handled, sent, begins>>

Short == /\ Reading /\ End1 - pos > 3 /\ step' = "short"
         /\ UNCHANGED <<wire, pos, handled, sent, begins>>

FramingNext == (\E f \in Message : SendFrame(f)) \/ Take \/ TooLong \/ Short

FramingSpec == FramingInit /\ [][FramingNext]_framingVars
-----------------------------------------------------------------------------
\* Where the frame after the first n begins, or will.
Boundary(n) == IF n < Len(sent) THEN begins[n + 1] ELSE Len(wire)

\* Every payload is handed on as it was sent, in order, and the loop stands
\* between two frames; it never waits for more than was sent, and no frame but
\* one that does not fit is taken for one.
FramesInStep ==
  /\ Len(handled) <= Len(sent) /\ \A i \in 1 .. Len(handled) : handled[i] = sent[i].data
  /\ step = "in" => /\ pos = Boundary(Len(handled))
                    /\ pos < Len(wire) => End1 <= Len(wire)
  /\ step = "over" => Len(handled) < Len(sent) /\ Len(sent[Len(handled) + 1].data) >= BufLen
-----------------------------------------------------------------------------
FramingTypeOK == /\ wire \in Seq(Octet) /\ pos \in Nat /\ handled \in Seq(Seq(Octet))
                 /\ step \in {"in", "over", "short"}
                 /\ sent \in Seq(Message) /\ begins \in Seq(Nat)

\* The bytes of every frame are where it begins, and the next begins behind.
OnTheWire == /\ Len(begins) = Len(sent)
             /\ \A i \in 1 .. Len(sent) :
                  LET b == Bytes(sent[i])
                  IN  /\ begins[i] + Len(b) = Boundary(i) /\ Boundary(i) <= Len(wire)
                      /\ \A k \in 1 .. Len(b) : wire[begins[i] + k] = b[k]
             /\ Boundary(0) = 0

Handled == /\ Len(handled) <= Len(sent) /\ \A i \in 1 .. Len(handled) : handled[i] = sent[i].data
           /\ pos = Boundary(Len(handled))
           /\ step = "over" => Len(handled) < Len(sent) /\ Len(sent[Len(handled) + 1].data) >= BufLen

FramingInv == FramingTypeOK /\ OnTheWire /\ Handled
=============================================================================
