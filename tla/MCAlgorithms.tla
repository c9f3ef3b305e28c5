---------------------------- MODULE MCAlgorithms ----------------------------
(***************************************************************************)
(* Two buckets that the names "a" and "c" share; sizes past two blocks of  *)
(* SHA-1, and lengths around the borders of the three formats of a frame.  *)
(* Frames of each format, with and without a mask, the longest of them too *)
(* long for the buffer, and one other before or behind.                    *)
(* Reads that end while samples are skipped, between two that are          *)
(* collected, and with a spectrum; the longest holds a spectrum and the    *)
(* beginning of the next.  Every command that sets, with arguments the     *)
(* tuner takes and refuses, or the gain's range leaves out, with one that  *)
(* is no number, or with none.  Four JSON values are the least with which  *)
(* an object in an object has a member, and another value takes its place. *)
(***************************************************************************)
EXTENDS Algorithms

Symmetry == Permutations(JsonVal)

MCBucket(name) == Len(name) % 2

Names  == {<<"a">>, <<"c">>, <<"a", "c">>}
Atoms  == {Nil, IntVal(<<"1", "2", "0">>), Str(<<"\\", "nl">>), Str(<<"q">>), Str(<<>>)}
Ops    == [op : {"put"}, name : Names, value : Atoms] \cup [op : {"add"}, name : {<<"a">>}, value : Atoms]
          \cup [op : {"item", "prop"}, name : {<<"a">>}, value : {Nil}]

HeaderLines == {<<>>, <<"sp">>, <<"sp", "Sec-WebSocket-Key", "sp", "k1">>,
                <<"Sec-WebSocket-Key", "sp", "k2">>,
                <<"Host", ":", "sp", "Sec-WebSocket-Key">>, <<"Host", ":", "h", "cut">>, <<":">>}
Entries == [is : {"device", "refuses", "no symbol", "no library"}, name : {"one", "two"}]

MCAlphabet == [json |-> Ops, blocks |-> 0 .. 4, bytes |-> {0, 77, 255}, lines |-> HeaderLines,
               path |-> {"/", ".", "js", "other"}, list |-> {1, 2}, entries |-> Entries]
MCLongest  == [json |-> 3, blocks |-> 5, bytes |-> 7, lines |-> 4, path |-> 5,
               list |-> 6, entries |-> 4]

Args    == [kind : {"number"}, n : {3, 11}] \cup {[kind |-> "nan", n |-> -1], [kind |-> "text", n |-> 0]}
MCLines == {<<>>} \cup {<<[cmd |-> cmd]>> : cmd \in {"start", "stop", "exit", "freq", "gain", "vfo"}}
           \cup {<<[cmd |-> cmd], arg>> : cmd \in {"freq", "gain"}, arg \in Args}
           \cup {<<[cmd |-> "vfo"], [kind |-> "number", n |-> 3]>>}
MCTunable == 1 .. 5

Bit(n, k) == (n \div (2 ^ k)) % 2
XorTable  == [a \in Octet |-> [b \in Octet |->
               MapThenSumSet(LAMBDA k : IF Bit(a, k) # Bit(b, k) THEN 2 ^ k ELSE 0, 0 .. 7)]]
MCXorByte(a, b) == XorTable[a][b]

MCData  == {[i \in 1 .. n |-> i % 256] : n \in {0, 126, 65536, 65537}}
MCMasks == {<<7, 0, 255, 129>>}
=============================================================================
