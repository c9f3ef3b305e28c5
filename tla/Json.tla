------------------------------- MODULE Json -------------------------------
(***************************************************************************)
(* src/json.c: values, the tables of objects, the printer and the parser.  *)
(*                                                                         *)
(* A text is a sequence of characters: "q" is the double quote, "'" the    *)
(* single one, "nl" a control character with an escape, "ctl" one without, *)
(* "high" a byte above 127, "sp" white space, "NUL" the terminator; the    *)
(* others stand for themselves.  A number is its decimal text.  The parser *)
(* reads a memory: the text, and what happens to lie behind it.            *)
(***************************************************************************)
EXTENDS Integers, Sequences

CONSTANTS Buckets,          \* the 256 buckets of an object
          Bucket(_),        \* jenkinsHash(name) & 255
          MaxStr            \* MAXSTR

ASSUME JsonAssumption == {Buckets, MaxStr} \subseteq Nat \ {0}
-----------------------------------------------------------------------------
\* jsonNil ... jsonObj: values own what they hold.

Nil          == [t |-> "nil"]
Bool(b)      == [t |-> "bool", b |-> b]
IntVal(n)    == [t |-> "int", n |-> n]
FloatVal(n)  == [t |-> "float", n |-> n]
Str(s)       == [t |-> "str", s |-> s]
Arr          == [t |-> "arr", a |-> <<>>]
Obj          == [t |-> "obj", h |-> [b \in 0 .. Buckets - 1 |-> <<>>]]

SumOver(n, term(_)) == LET sum[i \in 0 .. n] == IF i = 0 THEN 0 ELSE sum[i - 1] + term(i) IN sum[n]

\* The blocks jsonDelete frees: one for the value, and for what it holds.
RECURSIVE Blocks(_)
Blocks(v) ==
  1 + CASE v.t = "str" -> 1
        [] v.t = "arr" -> SumOver(Len(v.a), LAMBDA i : 1 + Blocks(v.a[i]))
        [] v.t = "obj" -> 1 + SumOver(Buckets, LAMBDA b :
                            SumOver(Len(v.h[b - 1]), LAMBDA i : 2 + Blocks(v.h[b - 1][i].value)))
        [] OTHER       -> 0

\* What a call answers, and how many blocks it allocated less those it freed.
Done(v, ret, blocks) == [val |-> v, ret |-> ret, blocks |-> blocks]

ArrAdd(v, item) == IF v.t # "arr" THEN Done(v, FALSE, 0)
                   ELSE Done([v EXCEPT !.a = Append(@, item)], TRUE, 1)

Named(chain, name) == {i \in 1 .. Len(chain) : chain[i].name = name}

ObjPut(v, name, value) ==
  IF v.t # "obj" THEN Done(v, FALSE, 0)
  ELSE LET chain == v.h[Bucket(name)]
           at    == Named(chain, name)
           first == CHOOSE i \in at : \A j \in at : i <= j
       IN  IF at = {}
           THEN Done([v EXCEPT !.h[Bucket(name)] = Append(@, [name |-> name, value |-> value])], TRUE, 2)
           ELSE Done([v EXCEPT !.h[Bucket(name)][first].value = value], TRUE, -Blocks(chain[first].value))

\* {} for NULL.
ObjGet(v, name) ==
  IF v.t # "obj" THEN {}
  ELSE LET chain == v.h[Bucket(name)]
           at    == Named(chain, name)
       IN  IF at = {} THEN {} ELSE {chain[CHOOSE i \in at : \A j \in at : i <= j].value}
-----------------------------------------------------------------------------
\* jsonToStr writes into a buffer; Overflow is the -1 that ends it.

Overflow == <<"overflow">>

Out(buf, len, str) ==
  IF buf = Overflow \/ Len(buf) + Len(str) > len THEN Overflow ELSE buf \o str

\* outStr leaves a double quote as it is.  "\u%04x" is cut to three digits.
Escaped(ch) == CASE ch = "\\"  -> <<"\\", "\\">>
                 [] ch = "nl"  -> <<"\\", "n">>
                 [] ch = "q"   -> <<"q">>
                 [] ch = "ctl" -> <<"\\", "u", "0", "0", "0">>
                 [] ch = "high" -> <<"\\", "u", "f", "f", "f">>
                 [] OTHER      -> <<ch>>

OutStr(buf, len, src) ==
  LET text[i \in 0 .. Len(src)] == IF i = 0 THEN Out(buf, len, <<"q">>)
                                   ELSE Out(text[i - 1], len, Escaped(src[i]))
  IN  Out(text[Len(src)], len, <<"q">>)

\* n items, with a comma between them.
Joined(n, item(_, _), buf, len) ==
  LET text[i \in 0 .. n] ==
        IF i = 0 THEN buf ELSE item(i, IF i = 1 THEN text[0] ELSE Out(text[i - 1], len, <<",">>))
  IN  text[n]

NullText  == <<"n", "u", "l", "l">>
TrueText  == <<"t", "r", "u", "e">>
FalseText == <<"f", "a", "l", "s", "e">>

\* There is no comma between the last name of a bucket and the next bucket.
RECURSIVE ToText(_, _, _)
Chain(chain, buf, len) ==
  Joined(Len(chain),
         LAMBDA i, b : ToText(chain[i].value, Out(OutStr(b, len, chain[i].name), len, <<":">>), len),
         buf, len)
ToText(v, buf, len) ==
  CASE v.t = "nil"  -> Out(buf, len, NullText)
    [] v.t = "bool" -> Out(buf, len, IF v.b THEN TrueText ELSE FalseText)
    [] v.t \in {"int", "float"} -> Out(buf, len, v.n)
    [] v.t = "str"  -> OutStr(buf, len, v.s)
    [] v.t = "arr"  -> Out(Joined(Len(v.a), LAMBDA i, b : ToText(v.a[i], b, len), Out(buf, len, <<"[">>), len),
                           len, <<"]">>)
    [] v.t = "obj"  -> LET text[b \in 0 .. Buckets] ==
                             IF b = 0 THEN Out(buf, len, <<"{">>) ELSE Chain(v.h[b - 1], text[b - 1], len)
                       IN  Out(text[Buckets], len, <<"}">>)

\* The text with its terminator, or Overflow.
ToStr(v, len) == LET text == ToText(v, <<>>, len - 1)
                 IN  IF text = Overflow THEN Overflow ELSE Append(text, "NUL")
-----------------------------------------------------------------------------
\* The parser, on m = [mem, len] from position i.  A result is the position it
\* leaves, which after a failure nobody uses, and {} or {what was parsed}.

At(m, i)   == IF i < Len(m.mem) THEN m.mem[i + 1] ELSE "NUL"
Quotes     == {"q", "'"}
Digit      == {"0", "1", "2"}
Hex        == Digit \cup {"a", "e", "f"}
Result(i, val) == [pos |-> i, val |-> val]
Fail(i)        == Result(i, {})

RECURSIVE SkipWhite(_, _)
SkipWhite(m, i) == IF At(m, i) # "sp" THEN [pos |-> i, ok |-> TRUE]
                   ELSE IF i >= m.len THEN [pos |-> i, ok |-> FALSE] ELSE SkipWhite(m, i + 1)

\* "EOF" is the -1, and so is, by its sign, a byte above 127.
GetUnbounded(m, i) == [ch |-> At(m, i), pos |-> i + 1]        \* a mutant: past the length
Get(m, i) == IF i >= m.len THEN [ch |-> "EOF", pos |-> i] ELSE [ch |-> At(m, i), pos |-> i + 1]

\* How many characters from i on are in a set, as strtol counts them.
RECURSIVE Run(_, _, _)
Run(m, i, chars) == IF At(m, i) \in chars THEN 1 + Run(m, i + 1, chars) ELSE 0

Unescaped(ch) == CASE ch \in {"n", "f", "b", "t", "r"} -> <<"nl">> [] ch \in {"\\", "/", "q"} -> <<ch>> [] OTHER -> <<>>

\* getString behind its quote; \u needs exactly four digits in a row.
RECURSIVE StringRest(_, _, _, _)
StringRest(m, i, quote, s) ==
  LET c == Get(m, i)
      e == Get(m, c.pos)
  IN  IF Len(s) > MaxStr \/ c.ch \in {"EOF", "high"} THEN Fail(c.pos)
      ELSE IF c.ch = quote THEN Result(c.pos, {s})
      ELSE IF c.ch # "\\" THEN StringRest(m, c.pos, quote, Append(s, c.ch))
      ELSE IF e.ch # "u" THEN StringRest(m, e.pos, quote, s \o Unescaped(e.ch))
      ELSE IF Run(m, e.pos, Hex) # 4 THEN Fail(e.pos)
      ELSE StringRest(m, e.pos + 4, quote, Append(s, "byte"))

GetString(m, i) == LET c == Get(m, i)
                   IN  IF c.ch \notin Quotes THEN Fail(c.pos) ELSE StringRest(m, c.pos, c.ch, <<>>)

\* strtof and strtol: a sign, digits, and for strtof a point and digits.
\* (Exponents, infinities and hexadecimal numbers are left out.)
Number(m, from) ==
  LET i    == from + Run(m, from, {"sp"})
      sign == IF At(m, i) = "-" THEN 1 ELSE 0
      int  == Run(m, i + sign, Digit)
      frac == IF At(m, i + sign + int) = "." THEN Run(m, i + sign + int + 1, Digit) ELSE 0
      ilen == IF int = 0 THEN 0 ELSE sign + int
      flen == IF int + frac = 0 THEN 0
              ELSE IF At(m, i + sign + int) = "." THEN sign + int + 1 + frac ELSE ilen
      text(n) == [k \in 1 .. n |-> At(m, i + k - 1)]
  IN  IF flen > ilen THEN Result(i + flen, {FloatVal(text(flen))})
      ELSE IF ilen > 0 THEN Result(i + ilen, {IntVal(text(ilen))}) ELSE Fail(i)

Starts(m, text) == \A k \in 1 .. Len(text) : At(m, k - 1) = text[k]

\* The keywords are looked for at the start of the buffer, and pos already is
\* one past the first character; for a number it goes one further still.
Scalar(m, i) ==
  IF Starts(m, NullText) THEN Result(i + 4, {Nil})
  ELSE IF Starts(m, TrueText) THEN Result(i + 4, {Bool(TRUE)})
  ELSE IF Starts(m, FalseText) THEN Result(i + 5, {Bool(FALSE)})
  ELSE Number(m, i + 1)

RECURSIVE Parse(_, _), Members(_, _, _), Items(_, _, _)

\* What follows a value: the end of its container, or more of it.
AfterValue(m, i, v, close, more(_, _)) ==
  LET w == SkipWhite(m, i)
      c == Get(m, w.pos)
  IN  IF ~w.ok THEN Fail(w.pos)
      ELSE IF c.ch = close THEN Result(c.pos, {v})
      ELSE IF c.ch = "," THEN more(c.pos, v) ELSE Fail(c.pos)

Only(set) == CHOOSE x \in set : TRUE

\* getObject.
Members(m, i, obj) ==
  LET w    == SkipWhite(m, i)
      name == GetString(m, w.pos)
      w2   == SkipWhite(m, name.pos)
      c    == Get(m, w2.pos)
      v    == Parse(m, c.pos)
  IN  IF ~w.ok \/ name.val = {} \/ ~w2.ok \/ c.ch # ":" THEN Fail(w.pos)
      ELSE IF v.val = {} THEN v
      ELSE AfterValue(m, v.pos, ObjPut(obj, Only(name.val), Only(v.val)).val, "}",
                      LAMBDA j, o : Members(m, j, o))

\* getArray; an empty array is no array to it.
Items(m, i, arr) ==
  LET w == SkipWhite(m, i)
      v == Parse(m, w.pos)
  IN  IF ~w.ok \/ v.val = {} THEN Fail(v.pos)
      ELSE AfterValue(m, v.pos, ArrAdd(arr, Only(v.val)).val, "]", LAMBDA j, a : Items(m, j, a))

Parse(m, i) ==
  LET w == SkipWhite(m, i)
      c == Get(m, w.pos)
      s == GetString(m, w.pos)
  IN  CASE ~w.ok           -> Fail(w.pos)
        [] w.ok /\ c.ch = "{" -> Members(m, c.pos, Obj)
        [] w.ok /\ c.ch = "[" -> Items(m, c.pos, Arr)
        [] w.ok /\ c.ch \in Quotes -> Result(s.pos, {Str(x) : x \in s.val})
        [] w.ok /\ c.ch \notin {"{", "["} \cup Quotes -> Scalar(m, c.pos)

\* jsonParse; {} for NULL.
JsonParse(m) == LET r == Parse(m, 0)
                IN  IF SkipWhite(m, r.pos).pos < m.len THEN {} ELSE r.val
=============================================================================
