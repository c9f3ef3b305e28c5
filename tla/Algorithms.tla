---------------------------- MODULE Algorithms ----------------------------
(***************************************************************************)
(* The pure parts of the program against what they should compute, on the  *)
(* inputs a bounded number of steps builds: a kind of input is chosen, and *)
(* grows by one element of its alphabet, or by one in size, at a time.     *)
(* Four more kinds are the stream of the reader's spectra, the lines of    *)
(* the console, the heap under JSON and the bytes on a websocket, which    *)
(* move as their own specifications say.                                   *)
(***************************************************************************)
EXTENDS Json, Tree, Wire, Framing, Fft, Scaling, Utilities, Console

CONSTANTS Alphabet,        \* of each kind of input that is a sequence
          Longest,         \* bound: the length of such a sequence
          Largest          \* bound: of a size

VARIABLES kind,            \* what is being built
          input,           \* a sequence over Alphabet[kind]
          size             \* or a number

Kinds == DOMAIN Alphabet \cup {"size", "stream", "console", "tree", "socket"}

Init == /\ kind \in Kinds /\ input = <<>> /\ size = 0
        /\ SpectraInit /\ TreeInit /\ FramingInit
        /\ ConsoleInit /\ (kind # "console" => inbuf = <<>>)

Grow == /\ kind \in DOMAIN Alphabet /\ Len(input) < Longest[kind]
        /\ \E e \in Alphabet[kind] : input' = Append(input, e)
        /\ UNCHANGED <<size, spectraVars, consoleVars, treeVars, framingVars>>

Enlarge == /\ kind = "size" /\ size < Largest /\ size' = size + 1
           /\ UNCHANGED <<input, spectraVars, consoleVars, treeVars, framingVars>>

Listen  == kind = "stream" /\ SpectraNext /\ UNCHANGED <<input, size, consoleVars, treeVars, framingVars>>
Type    == kind = "console" /\ ConsoleNext /\ UNCHANGED <<input, size, spectraVars, treeVars, framingVars>>
Plant   == kind = "tree" /\ TreeNext /\ UNCHANGED <<input, size, spectraVars, consoleVars, framingVars>>
Connect == kind = "socket" /\ FramingNext /\ UNCHANGED <<input, size, spectraVars, consoleVars, treeVars>>

Next == UNCHANGED kind /\ (Grow \/ Enlarge \/ Listen \/ Type \/ Plant \/ Connect)

Spec == Init /\ [][Next]_<<kind, input, size, spectraVars, consoleVars, treeVars, framingVars>>

\* The results over the input, from a first one.
Folded(first, op(_, _)) == LET f[i \in 0 .. Len(input)] == IF i = 0 THEN first ELSE op(f[i - 1], input[i])
                           IN  f[Len(input)]
TypeOK == kind \in Kinds /\ size \in 0 .. Largest
-----------------------------------------------------------------------------
\* A JSON value under construction: "put" a member, "add" an item, or wrap what
\* there is into a new array or object.

Build(done, e) ==
  LET put  == ObjPut(done.val, e.name, e.value)
      add  == ArrAdd(done.val, e.value)
      item == ArrAdd(Arr, done.val)
      prop == ObjPut(Obj, e.name, done.val)
      after(r, more) == Done(r.val, r.ret, done.blocks + (IF r.ret THEN r.blocks + more ELSE 0))
  IN  CASE e.op = "put"  -> after(put, Blocks(e.value))
        [] e.op = "add"  -> after(add, Blocks(e.value))
        [] e.op = "item" -> after(item, Blocks(Arr))
        [] e.op = "prop" -> after(prop, Blocks(Obj))

Built == Folded(Done(Obj, TRUE, Blocks(Obj)), Build)

\* jsonObjGet answers the value jsonObjPut stored last under the name, however
\* the names share buckets.
JsonLastPut ==
  kind = "json" /\ (\A i \in 1 .. Len(input) : input[i].op = "put") =>
    \A name \in {e.name : e \in Alphabet["json"]} :
      LET last == SelectLastInSeq(input, LAMBDA e : e.name = name)
      IN  ObjGet(Built.val, name) = IF last = 0 THEN {} ELSE {input[last].value}

\* What jsonDelete frees is what the calls that built the value allocated:
\* nothing leaks when a value is replaced.
JsonOwns == kind = "json" => Built.blocks = Blocks(Built.val)

\* jsonToStr writes the whole text and its terminator, or fails, and never
\* writes past the length it is given.
JsonFits ==
  kind = "json" =>
    LET v    == Built.val
        text == ToText(v, <<>>, 1000)
    IN  \A len \in {1, Len(text) \div 2 + 1} \cup Len(text) - 1 .. Len(text) + 2 :
          ToStr(v, len) = IF Len(text) + 1 <= len THEN Append(text, "NUL") ELSE Overflow

\* The values that survive: no number, no keyword inside a container, no
\* character that is printed badly, no empty array or object, and the members
\* of an object all in one bucket.
PlainText(s) == Len(s) <= MaxStr /\ \A i \in 1 .. Len(s) : s[i] \notin {"q", "ctl", "high"}
RECURSIVE Nests(_)
Nests(v) == CASE v.t = "str" -> PlainText(v.s)
              [] v.t = "arr" -> v.a # <<>> /\ \A i \in 1 .. Len(v.a) : Nests(v.a[i])
              [] v.t = "obj" -> \E b \in DOMAIN v.h :
                   /\ v.h[b] # <<>> /\ \A c \in DOMAIN v.h \ {b} : v.h[c] = <<>>
                   /\ \A i \in 1 .. Len(v.h[b]) : PlainText(v.h[b][i].name) /\ Nests(v.h[b][i].value)
              [] OTHER -> FALSE

\* jsonParse reads back what jsonToStr wrote of these, and takes nothing that
\* is cut short for one, whatever lies behind in memory.
JsonRoundTrip ==
  kind = "json" =>
    LET v    == Built.val
        text == ToText(v, <<>>, 1000)
        m(len, behind) == [mem |-> text \o behind, len |-> len]
    IN  Nests(v) => /\ \A behind \in {<<"NUL">>, <<"NUL", "1", "]">>} : JsonParse(m(Len(text), behind)) = {v}
                    /\ \A len \in 0 .. Len(text) - 1 : JsonParse(m(len, <<"NUL">>)) = {}

\* An object answers what was put into it last and owns exactly that; what is
\* printed fits, and what is printed and simple enough is read again.
JsonText == JsonLastPut /\ JsonOwns /\ JsonFits /\ JsonRoundTrip
-----------------------------------------------------------------------------
\* The stream of samples 1, 2, 3, ... in blocks of the lengths of the input.

Total(n)  == SumOver(n, LAMBDA i : input[i])
BlockOf(n) == [k \in 1 .. input[n] |-> Total(n - 1) + k]

\* The sliding DFT is defined for the first N samples only, given one at a time,
\* and then its first bin is their sum; nothing ever slides out of it.
SumsUntilFull ==
  kind = "blocks" =>
    LET slide[n \in 0 .. Len(input)] ==
          IF n = 0 THEN {SdftNew} ELSE UNION {SdftUpdate(d, BlockOf(n)) : d \in slide[n - 1]}
        all    == Total(Len(input))
        single == \A n \in DOMAIN input : input[n] <= 1
    IN  {d.x : d \in slide[Len(input)]} = IF single /\ all <= N THEN {SumOver(all, LAMBDA i : i)} ELSE {}
-----------------------------------------------------------------------------
\* What the server puts on the wire is what the other end reads from it.

\* Base64 as the standard reads it.
Base64Decode(in) ==
  LET v(k)  == IF in[k] = 64 THEN 0 ELSE in[k]
      trio(i) == LET k == 4 * (i - 1)
                 IN  <<v(k + 1) * 4 + v(k + 2) \div 16, (v(k + 2) % 16) * 16 + v(k + 3) \div 4,
                       (v(k + 3) % 4) * 64 + v(k + 4)>>
      len   == (Len(in) \div 4) * 3
      pads  == Cardinality({k \in {Len(in), Len(in) - 1} \cap 1 .. Len(in) : in[k] = 64})
  IN  SubSeq(FlattenSeq([i \in 1 .. Len(in) \div 4 |-> trio(i)]), 1, len - pads)

\* base64encode can be decoded, by groups of four, for every length.
Base64Decodes == kind = "bytes" => /\ Base64Decode(Base64(input)) = input
                                   /\ Len(Base64(input)) = 4 * ((Len(input) + 2) \div 3)

\* sha1hash is SHA-1 on two messages of known digests, the second, of two
\* blocks, being the handshake of RFC 6455, and its base64 with the terminator
\* fits into keybuf's 40 bytes.
Abc      == <<97, 98, 99>>
AbcSha   == <<169, 153, 62, 54, 71, 6, 129, 106, 186, 62, 37, 113, 120, 80, 194, 108, 156, 208, 216, 157>>
RfcKey   == <<100, 71, 104, 108, 73, 72, 78, 104, 98, 88, 66, 115, 90, 83, 66, 117, 98, 50, 53, 106, 90,
              81, 61, 61, 50, 53, 56, 69, 65, 70, 65, 53, 45, 69, 57, 49, 52, 45, 52, 55, 68, 65, 45, 57,
              53, 67, 65, 45, 67, 53, 65, 66, 48, 68, 67, 56, 53, 66, 49, 49>>
RfcSha   == <<179, 122, 79, 44, 192, 98, 79, 22, 144, 246, 70, 6, 207, 56, 89, 69, 178, 190, 196, 234>>
DigestsKnown == kind = "size" /\ size = 0 => /\ Sha1(Abc) = AbcSha
                                             /\ Sha1Hash64(RfcKey) = Base64(RfcSha)
                                             /\ Len(Sha1Hash64(RfcKey)) + 1 <= 40

\* The padding is that of the standard for every length but those with 63
\* bytes in the last block, where it is undefined: the message, a one bit, as
\* few zeros as fill the last block, and the length in bits.
PaddingRight ==
  kind = "size" =>
    LET data == [i \in 1 .. size |-> i % 256]
        text == Padded(data)
    IN  IF size % 64 = 63 THEN text = Undefined
        ELSE /\ Len(text) % 64 = 0 /\ Len(text) - size \in 9 .. 72
             /\ SubSeq(text, 1, size + 1) = data \o <<128>>
             /\ \A i \in size + 2 .. Len(text) - 2 : text[i] = 0
             /\ GetInt(SubSeq(text, Len(text) - 1, Len(text)), 2) = 8 * size

\* The handshake gives the answer that browsers compute: SHA-1 in base64.
Handshake == Base64Decodes /\ DigestsKnown /\ PaddingRight

\* A frame of any length is announced as long as it is, in wsSendPacket's 14
\* bytes.
FramesAnnounced ==
  kind = "size" =>
    \A len \in {size, 65536 - (Largest \div 2) + size}, opcode \in {1, 2}, bit \in {0, 128} :
      LET b == Header(opcode, bit, len)
          h == ReadHeader(b, 0)
      IN  /\ b[1] = 128 + opcode /\ h.paylen = len /\ h.masked = (bit = 128)
          /\ h.maskAt = Len(b) /\ Len(b) <= 14

\* A request whose lines fgets reads whole is upgraded by a key in its header,
\* and by none behind it, and it crashes the server if and only if a line of its
\* header, or the request itself, has delimiters only.  A line that is cut
\* before its end, of 253 or 254 characters, ends the header like an empty one.
UpgradedInHeader ==
  kind = "lines" =>
    LET end      == SelectInSeq(input, LAMBDA l : \A i \in 1 .. Len(l) : l[i] = "sp")
        header   == IF end = 0 THEN input ELSE SubSeq(input, 1, end - 1)
        named(l) == Words(l, {"sp", ":"})
        isKey(l) == named(l) # <<>> /\ named(l)[1] = "Sec-WebSocket-Key"
        isCut(l) == l # <<>> /\ Last(l) = "cut"
        get(lines) == Served(<<"GET", "sp", "file">>, lines)
    IN  /\ (\A i \in DOMAIN header : "cut" \notin Range(header[i])) =>
             /\ get(input) = get(header)
             /\ get(input).kind = "crashed" <=> \E i \in DOMAIN header : named(header[i]) = <<>>
             /\ get(input).kind = "websocket" =>  \E i \in DOMAIN header : isKey(header[i])
             /\ get(input).kind = "file"      => ~\E i \in DOMAIN header : isKey(header[i])
        /\ \A i \in DOMAIN header : isCut(header[i]) => get(input) = get(SubSeq(input, 1, i))
        /\ \A request \in {<<"POST", "sp", "file">>, <<":">>} : Served(request, input).kind = "refused"
        /\ \A request \in {<<>>, <<"sp">>, <<"GET">>, <<"GET", "sp">>} : Served(request, input).kind = "crashed"

\* The type of a file depends on nothing but what follows its last dot, and no
\* directory's dot counts.
MimeOfExtension ==
  kind = "path" =>
    LET mime == GetMimeType(input)
    IN  mime # "application/octet-stream" <=>
          Len(input) >= 2 /\ input[Len(input) - 1] = "." /\ input[Len(input)] \in DOMAIN Mime

\* serveFile sends as many bytes as its Content-Length says, of a file that can be
\* read and to a socket that takes each buffer whole; of a directory, which it
\* announces with a length as well, it sends nothing.
FileWhole ==
  kind = "size" =>
    \A readable \in BOOLEAN, takes \in {Chunk - 1, Chunk} :
      LET wrote == ServeFile([size |-> size, readable |-> readable, takes |-> takes], size)
      IN  /\ ~readable => wrote = 0
          /\ readable  => (wrote = size <=> (takes >= Chunk \/ size < Chunk))

\* Handshakes get the answer that is theirs, frames are announced at the length
\* they have; requests with lines that fgets reads whole are served by what their
\* header says, and files that can be read are sent whole.
Traffic == Handshake /\ FramesAnnounced /\ UpgradedInHeader /\ MimeOfExtension /\ FileWhole
-----------------------------------------------------------------------------
\* What the window shows, and the lists.

\* updatePs spreads the middle of the spectrum over the columns.
ColumnsSpread == kind = "size" /\ size < 20 => \A scale \in {1, 2, 4}, w \in 1 .. 7 : Spreads(size, scale, w)

\* formatFreq groups the digits by three from the right.
FormatGrouped ==
  kind = "size" /\ size \in 1 .. 12 =>
    FormatFreq([i \in 1 .. size |-> i]) =
      FlattenSeq([i \in 1 .. size |-> IF i > 1 /\ (size - i + 1) % 3 = 0 THEN <<",", i>> ELSE <<i>>])

\* listRemove frees the head alone, and only when that holds the data; the rest
\* stays, in order, unless the second holds it too, which is undefined.
Listed == LET f[n \in 0 .. Len(input)] == IF n = 0 THEN <<>> ELSE ListAppend(f[n - 1], IF n = 1 THEN Null ELSE 1, n, input[n])
          IN  f[Len(input)]
RemovesHead ==
  kind = "list" =>
    \A data \in Alphabet["list"] :
      LET r    == ListRemove(Listed, IF input = <<>> THEN Null ELSE 1, data)
          hits(i) == Len(input) >= i /\ input[i] = data
      IN  IF hits(1) /\ hits(2) THEN r = UndefinedList
          ELSE /\ r.list \in DOMAIN r.heap \cup {Null}
               /\ DataFrom(r.heap, r.list) = IF hits(1) THEN Tail(input) ELSE input
               /\ DOMAIN ListDelete(r.heap, r.list) = {}

\* The two scans together find the devices of both places in order, and no
\* more than there is room for.
DevicesFit ==
  kind = "entries" =>
    \A cut \in 0 .. Len(input), room \in 0 .. 3 :
      LET devices == SelectSeq(input, LAMBDA e : e.is = "device")
          names   == [i \in 1 .. Len(devices) |-> devices[i].name]
      IN  DeviceScan(SubSeq(input, 1, cut), SubSeq(input, cut + 1, Len(input)), room)
            = SubSeq(names, 1, IF Len(names) < room THEN Len(names) ELSE room)

\* A creation that failed leaves nothing behind but the ring of an Audio, and
\* the object of a server that got no socket (the first failure of a Ddc is
\* undefined); an object that was created leaves nothing once deleted.
CreationsBalanced ==
  kind = "size" /\ size = 0 =>
    /\ \A fails \in 1 .. 5 : AudioCreate(fails) \subseteq {"ring"}
    /\ \A fails \in 1 .. 3 : CodecCreate(fails) = {}
    /\ \A fails \in 1 .. 3 : DdcCreate(fails) = IF fails = 1 THEN {"undefined"} ELSE {}
    /\ \A fails \in 1 .. 3 : WsCreate(fails) = IF fails = 2 THEN {"ws"} ELSE {}
    /\ \A fails \in 1 .. 2 : SdftCreate(fails) = {} /\ SvrCreate(fails) = {}
    /\ \A failed \in SUBSET FirParts \ {{}} : FirCreate(failed) = {}
    /\ {} = AudioDelete(AudioCreate(6)) \cup CodecDelete(CodecCreate(4)) \cup DdcDelete(DdcCreate(4))
             \cup SdftDelete(SdftCreate(3)) \cup SvrDelete(SvrCreate(3)) \cup WsDelete(WsCreate(4))
             \cup FirDelete(FirCreate({}))

\* The sliding sum is right for as long as it is defined; a spectrum is spread
\* evenly over any width, and a frequency is written as people read it; lists
\* and scans hold what was put into them, and creation and deletion balance but
\* for the two leaks named.
PureParts == /\ SumsUntilFull /\ ColumnsSpread /\ FormatGrouped
             /\ RemovesHead /\ DevicesFit /\ CreationsBalanced
=============================================================================
