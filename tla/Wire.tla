------------------------------- MODULE Wire -------------------------------
(***************************************************************************)
(* What src/wsserver.c computes for the wire: base64, SHA-1, the request's *)
(* lines and the delivery of files.                                        *)
(*                                                                         *)
(* Bytes are numbers; a word of SHA-1 is the set of its one bits, bit 0    *)
(* being the lowest.                                                       *)
(***************************************************************************)
EXTENDS Integers, Sequences, SequencesExt

CONSTANT Chunk             \* WS_BUFLEN, what fread asks for

ASSUME WireAssumption == Chunk \in Nat \ {0}
-----------------------------------------------------------------------------
\* base64encode, to the indices of its alphabet; 64 is the "=".

Base64(in) ==
  LET group(i) == LET b(k) == IF 3 * (i - 1) + k <= Len(in) THEN in[3 * (i - 1) + k] ELSE 0
                      left == Len(in) - (3 * (i - 1))
                  IN  <<b(1) \div 4, (b(1) % 4) * 16 + b(2) \div 16,
                        IF left = 1 THEN 64 ELSE (b(2) % 16) * 4 + b(3) \div 64,
                        IF left < 3 THEN 64 ELSE b(3) % 64>>
  IN  FlattenSeq([i \in 1 .. (Len(in) + 2) \div 3 |-> group(i)])
-----------------------------------------------------------------------------
\* _sha1transform and sha1hash.

Bits == 0 .. 31

Byte(n)        == {k \in 0 .. 7 : (n \div (2 ^ k)) % 2 = 1}
ByteAt(w, k)   == MapThenSumSet(LAMBDA j : 2 ^ (j % 8), w \cap (8 * k .. 8 * k + 7))
WordOf(b, k)   == {8 * (4 - j) + x : <<j, x>> \in {jx \in (1 .. 4) \X (0 .. 7) : jx[2] \in Byte(b[4 * k + jx[1]])}}
Rotl(w, n)     == {(k + n) % 32 : k \in w}
RECURSIVE Plus(_, _)
Plus(v, w)     == IF w = {} THEN v ELSE Plus(SymDiff(v, w), {k + 1 : k \in v \cap w} \cap Bits)

\* A word from its eight hexadecimal digits.
Word(digits) == {4 * (8 - i) + x : <<i, x>> \in {ix \in (1 .. 8) \X (0 .. 3) : (digits[ix[1]] \div (2 ^ ix[2])) % 2 = 1}}

RECURSIVE Schedule(_)
Schedule(W) == LET i == Len(W) + 1
               IN  IF i > 80 THEN W
                   ELSE Schedule(Append(W, Rotl(SymDiff(SymDiff(W[i - 3], W[i - 8]), SymDiff(W[i - 14], W[i - 16])), 1)))

Ch(b, c, d)     == (b \cap c) \cup ((Bits \ b) \cap d)
Parity(b, c, d) == SymDiff(b, SymDiff(c, d))
Maj(b, c, d)    == SymDiff(b \cap c, SymDiff(b \cap d, c \cap d))

K == <<Word(<<5, 10, 8, 2, 7, 9, 9, 9>>), Word(<<6, 14, 13, 9, 14, 11, 10, 1>>),
       Word(<<8, 15, 1, 11, 11, 12, 13, 12>>), Word(<<12, 10, 6, 2, 12, 1, 13, 6>>)>>
H0 == <<Word(<<6, 7, 4, 5, 2, 3, 0, 1>>), Word(<<14, 15, 12, 13, 10, 11, 8, 9>>),
        Word(<<9, 8, 11, 10, 13, 12, 15, 14>>), Word(<<1, 0, 3, 2, 5, 4, 7, 6>>),
        Word(<<12, 3, 13, 2, 14, 1, 15, 0>>)>>

Round(i, h, w) ==
  LET f == CASE i \div 20 = 0 -> Ch(h[2], h[3], h[4])
             [] i \div 20 = 2 -> Maj(h[2], h[3], h[4])
             [] OTHER         -> Parity(h[2], h[3], h[4])
  IN  <<Plus(Plus(Plus(Plus(Rotl(h[1], 5), f), h[5]), K[i \div 20 + 1]), w), h[1], Rotl(h[2], 30), h[3], h[4]>>

RECURSIVE Rounds(_, _)
Rounds(hs, W) == IF Len(hs) > 80 THEN hs[81] ELSE Rounds(Append(hs, Round(Len(hs) - 1, hs[Len(hs)], W[Len(hs)])), W)

Transform(h, block) ==
  LET last == Rounds(<<h>>, Schedule([i \in 1 .. 16 |-> WordOf(block, i - 1)]))
  IN  [j \in 1 .. 5 |-> Plus(h[j], last[j])]

\* The eight bytes of 8 * len, for a length below 2^24.
BitCount(len) == <<0, 0, 0, 0, (len \div 2097152) % 256, (len \div 8192) % 256, (len \div 32) % 256,
                   (8 * len) % 256>>

Zeros(n) == [k \in 1 .. n |-> 0]

\* The blocks sha1hash transforms, one after the other.  With 63 bytes in the
\* last block the padding runs to -8, and over the end of the block: undefined.
Undefined == <<>>

Padded(data) ==
  LET left == Len(data) % 64
      pad  == 64 - left - 1
  IN  IF pad = 0 THEN Undefined
      ELSE IF pad < 8 THEN data \o <<128>> \o Zeros(pad) \o Zeros(64 - 8) \o BitCount(Len(data))
      ELSE data \o <<128>> \o Zeros(pad - 8) \o BitCount(Len(data))

Sha1(data) ==
  LET text == Padded(data)
      n    == Len(text) \div 64
      h[i \in 0 .. n] == IF i = 0 THEN H0 ELSE Transform(h[i - 1], SubSeq(text, 64 * (i - 1) + 1, 64 * i))
      last == h[n]
  IN  [k \in 1 .. 20 |-> ByteAt(last[(k - 1) \div 4 + 1], 3 - ((k - 1) % 4))]

Sha1Hash64(data) == Base64(Sha1(data))
-----------------------------------------------------------------------------
\* A line of a request is a sequence of words, "sp"s and ":"s.  "cut" stands
\* where 254 characters of it are read: fgets takes what follows for a line of
\* its own, be it nothing but the line's end.
Pieces(line) ==
  LET at[n \in 0 .. Len(line)] ==
        IF n = 0 THEN <<<<>>>>
        ELSE LET done == at[n - 1]
             IN  IF line[n] = "cut" THEN Append(done, <<>>)
                 ELSE Append(Front(done), Append(Last(done), line[n]))
  IN  at[Len(line)]

Trim(str) == LET words == {i \in 1 .. Len(str) : str[i] # "sp"}
             IN  IF words = {} THEN <<>> ELSE SubSeq(str, Min(words), Max(words))
Words(str, delims) == SelectSeq(str, LAMBDA w : w \notin delims)

\* handleClient: what it serves, "websocket" (with the last key), "file" or
\* "refused" (405).  The header ends at the first line that fgets finds empty,
\* or where the request does.  Where strtok_r finds no word its NULL goes on to
\* strcmp or strncpy: "crashed".  A key without a value prints as "(null)".
Answer(kind, key) == [kind |-> kind, key |-> key]

Served(request, lines) ==
  LET read   == FlattenSeq([i \in 1 .. Len(lines) |-> Pieces(lines[i])])
      end    == SelectInSeq(read, LAMBDA l : Trim(l) = <<>>)
      header == [i \in 1 .. IF end = 0 THEN Len(read) ELSE end - 1 |-> Words(read[i], {"sp", ":"})]
      asked  == Words(request, {"sp"})
      keys   == {i \in DOMAIN header : header[i] # <<>> /\ header[i][1] = "Sec-WebSocket-Key"}
  IN  IF asked = <<>> THEN Answer("crashed", "")
      ELSE IF asked[1] # "GET" THEN Answer("refused", "")
      ELSE IF Len(asked) = 1 \/ <<>> \in Range(header) THEN Answer("crashed", "")
      ELSE IF keys = {} THEN Answer("file", "")
      ELSE Answer("websocket", IF Len(header[Max(keys)]) = 1 THEN "(null)" ELSE header[Max(keys)][2])

\* getMimeType, of a path as a sequence of words, "/" and ".".
Mime == [txt |-> "text/plain", htm |-> "text/html", html |-> "text/html", jpg |-> "image/jpeg",
         jpeg |-> "image/jpeg", js |-> "text/javascript", css |-> "text/css", png |-> "image/png"]
LastOf(seq, x) == SelectLastInSeq(seq, LAMBDA y : y = x)
GetMimeType(path) ==
  LET fname == SubSeq(path, LastOf(path, "/") + 1, Len(path))
      ext   == SubSeq(fname, LastOf(fname, ".") + 1, Len(fname))
  IN  IF LastOf(fname, ".") > 0 /\ Len(ext) = 1 /\ ext[1] \in DOMAIN Mime
      THEN Mime[ext[1]] ELSE "application/octet-stream"

AtMost(a, b) == IF a < b THEN a ELSE b

\* serveFile's loop: how many bytes it writes of a file that fstat found to have
\* len.  A file has size bytes; fread fails on one that cannot be read, such as a
\* directory, which fopen opens: it gives 0 then, and feof never holds.  Where
\* feof does, a fread more gives 0 as well.  write takes at most takes bytes,
\* and what it leaves is not written again.
ServeFile(file, len) ==
  LET turn[n \in 0 .. len] ==
        IF n = 0 THEN [at |-> 0, sent |-> 0]
        ELSE LET last  == turn[n - 1]
                 count == IF file.readable THEN AtMost(file.size - last.at, Chunk) ELSE 0
             IN  [at |-> last.at + count, sent |-> last.sent + AtMost(count, file.takes)]
  IN  turn[len].sent
=============================================================================
