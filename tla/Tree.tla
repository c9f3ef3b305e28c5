-------------------------------- MODULE Tree --------------------------------
(***************************************************************************)
(* The heap under src/json.c: which value owns which while jsonParse       *)
(* builds a tree, and while an application builds, changes and deletes     *)
(* trees of its own.  Any malloc may fail.                                 *)
(*                                                                         *)
(* A string, a number or a keyword is an atom.  The cells of a value are   *)
(* the JsonNodes of an array or the JsonProps of an object, here in one    *)
(* list: a bucket depends on the name alone, so that the members of one    *)
(* name are in one chain.  Of the text that is parsed only the structure   *)
(* is left, and that an error may be found anywhere in it.                 *)
(***************************************************************************)
EXTENDS Integers, Sequences, FiniteSets

CONSTANTS JsonVal,      \* the values there is room for
          Name,         \* names of members
          NULL,         \* a value or a name that could not be allocated
          MaxDepth      \* bound: containers in one another

ASSUME TreeAssumption == NULL \notin JsonVal \cup Name /\ MaxDepth \in Nat

VARIABLES type,         \* of each value; "free" is what malloc may return
          cells,        \* of each value, [name, value] in order
          roots,        \* the values that the application holds
          dying,        \* those that a jsonDelete under way has still to free
          at,           \* where jsonParse is
          stack,        \* its containers, each with the name just read, innermost last
          val,          \* the value that parse returned
          lost,         \* history: values that nobody holds any more
          given         \* history: of each object and name, the value put last

treeVars == <<type, cells, roots, dying, at, stack, val, lost, given>>

Frame == [kind : {"arr", "obj"}, node : JsonVal \cup {NULL}, name : Name \cup {NULL}]

TreeInit == /\ type = [n \in JsonVal |-> "free"] /\ cells = [n \in JsonVal |-> <<>>]
            /\ roots = {} /\ dying = {}
            /\ at = "app" /\ stack = <<>> /\ val = NULL
            /\ lost = {} /\ given = [n \in JsonVal |-> [x \in Name |-> NULL]]
-----------------------------------------------------------------------------
\* jsonCreate, and what jsonObjPut and jsonArrAdd do when they answer TRUE.

Create(n, t) == type[n] = "free" /\ type' = [type EXCEPT ![n] = t]

Extend(n, name, v) == /\ cells' = [cells EXCEPT ![n] = Append(@, [name |-> name, value |-> v])]
                      /\ UNCHANGED dying

AddItem(a, v) == type[a] = "arr" /\ Extend(a, NULL, v) /\ UNCHANGED given

MembersNamed(o, name) == {i \in 1 .. Len(cells[o]) : cells[o][i].name = name}

PutMemberLeaks(o, name, v) ==                 \* a mutant: no jsonDelete of what is replaced
  /\ type[o] = "obj" /\ name # NULL /\ given' = [given EXCEPT ![o][name] = v]
  /\ IF MembersNamed(o, name) = {} THEN Extend(o, name, v)
     ELSE \E i \in MembersNamed(o, name) : cells' = [cells EXCEPT ![o][i].value = v] /\ UNCHANGED dying

PutMember(o, name, v) ==
  /\ type[o] = "obj" /\ name # NULL /\ given' = [given EXCEPT ![o][name] = v]
  /\ \/ MembersNamed(o, name) = {} /\ Extend(o, name, v)
     \/ \E i \in MembersNamed(o, name) :
          /\ \A j \in MembersNamed(o, name) : i <= j
          /\ cells' = [cells EXCEPT ![o][i].value = v]
          /\ dying' = dying \cup {cells[o][i].value}

GetMember(o, name) == IF MembersNamed(o, name) = {} THEN NULL
                      ELSE cells[o][CHOOSE i \in MembersNamed(o, name) : \A j \in MembersNamed(o, name) : i <= j].value
-----------------------------------------------------------------------------
\* jsonDelete: of one of its values the next cell, or the value itself when
\* all are gone.  It returns before anything else happens.

DeleteCell(n) == /\ n \in dying /\ cells[n] # <<>>
                 /\ dying' = dying \cup {Head(cells[n]).value}
                 /\ cells' = [cells EXCEPT ![n] = Tail(@)]
                 /\ UNCHANGED <<type, roots, at, stack, val, lost, given>>

DeleteValue(n) == /\ n \in dying /\ cells[n] = <<>>
                  /\ dying' = dying \ {n}
                  /\ type' = [type EXCEPT ![n] = "free"]
                  /\ given' = [given EXCEPT ![n] = [x \in Name |-> NULL]]
                  /\ UNCHANGED <<cells, roots, at, stack, val, lost>>

JsonDelete == \E n \in JsonVal : DeleteCell(n) \/ DeleteValue(n)
-----------------------------------------------------------------------------
\* The application owns the values it creates until it puts them into another,
\* which may itself be in a tree by then, but not in that of the value; it keeps
\* the one that a call refused.

Holds(m, n) == \E i \in 1 .. Len(cells[m]) : cells[m][i].value = n

Closed(S) == \A m \in S, n \in JsonVal : Holds(m, n) => n \in S
TreeOf(r) == {n \in JsonVal : \A S \in SUBSET JsonVal : r \in S /\ Closed(S) => n \in S}

App == at = "app" /\ dying = {}

AppCreate(n, t) == /\ App /\ Create(n, t) /\ roots' = roots \cup {n}
                   /\ UNCHANGED <<cells, dying, at, stack, val, lost, given>>

AppGive(c, v, name) == /\ App /\ v \in roots /\ c \notin TreeOf(v)
                       /\ \E r \in roots : c \in TreeOf(r)
                       /\ AddItem(c, v) \/ PutMember(c, name, v)
                       /\ roots' = roots \ {v}
                       /\ UNCHANGED <<type, at, stack, val, lost>>

AppDelete(r) == /\ App /\ r \in roots /\ roots' = roots \ {r} /\ dying' = {r}
                /\ UNCHANGED <<type, cells, at, stack, val, lost, given>>

AppParse == /\ App /\ at' = "value"
            /\ UNCHANGED <<type, cells, roots, dying, stack, val, lost, given>>
-----------------------------------------------------------------------------
\* jsonParse.

Parsing(where) == at = where /\ dying = {}
Top   == stack[Len(stack)]
Below == SubSeq(stack, 1, Len(stack) - 1)

\* getObject: a name, which strdup may fail to copy.
ReadName(name) == /\ Parsing("name") /\ stack' = Append(Below, [Top EXCEPT !.name = name])
                  /\ at' = "value"
                  /\ UNCHANGED <<type, cells, roots, dying, val, lost, given>>

\* parse: a value without cells, ...
ParseAtom(n) == /\ Parsing("value") /\ Create(n, "atom") /\ val' = n /\ at' = "got"
                /\ UNCHANGED <<cells, roots, dying, stack, lost, given>>

\* ... or a container.  getArray and getObject go on without one that could
\* not be created.
Enter(n, kind) == /\ Parsing("value") /\ Len(stack) < MaxDepth
                  /\ IF n = NULL THEN UNCHANGED type ELSE Create(n, kind)
                  /\ stack' = Append(stack, [kind |-> kind, node |-> n, name |-> NULL])
                  /\ at' = (IF kind = "obj" THEN "name" ELSE "value")
                  /\ UNCHANGED <<cells, roots, dying, val, lost, given>>

\* The value is put into its container, ...
Put == /\ Parsing("got") /\ stack # <<>> /\ Top.node # NULL
       /\ AddItem(Top.node, val) \/ PutMember(Top.node, Top.name, val)
       /\ val' = NULL /\ at' = "next"
       /\ UNCHANGED <<type, roots, stack, lost>>

\* ... or the call answers FALSE, because there is no object, no name or no
\* memory for the cell.  Then the container is deleted, but not the value.
PutRefused == /\ Parsing("got") /\ stack # <<>>
              /\ IF Top.kind = "arr" THEN Top.node # NULL
                 ELSE NULL \notin {Top.node, Top.name} => MembersNamed(Top.node, Top.name) = {}
              /\ val' = NULL /\ lost' = lost \cup {val} /\ at' = "failed"
              /\ UNCHANGED <<type, cells, roots, dying, stack, given>>

\* jsonArrAdd, unlike jsonObjPut, looks at the type of no array.
PutCrashes == /\ Parsing("got") /\ stack # <<>> /\ Top.kind = "arr" /\ Top.node = NULL
              /\ at' = "crashed"
              /\ UNCHANGED <<type, cells, roots, dying, stack, val, lost, given>>

\* A comma; the end of the container, which is the value of the next.
Comma == /\ Parsing("next") /\ at' = (IF Top.kind = "obj" THEN "name" ELSE "value")
         /\ UNCHANGED <<type, cells, roots, dying, stack, val, lost, given>>

Close == /\ Parsing("next") /\ val' = Top.node /\ stack' = Below /\ at' = "got"
         /\ UNCHANGED <<type, cells, roots, dying, lost, given>>

\* What is there is not what was expected, or an atom found no memory.
Mistake == /\ at \in {"name", "value", "next"} /\ dying = {} /\ at' = "failed"
           /\ UNCHANGED <<type, cells, roots, dying, stack, val, lost, given>>

\* Every getObject and getArray deletes what it has and returns NULL.
Unwind == /\ Parsing("failed") /\ stack # <<>> /\ stack' = Below
          /\ dying' = {Top.node} \ {NULL}
          /\ UNCHANGED <<type, cells, roots, at, val, lost, given>>

\* jsonParse returns a value if there is one and nothing follows it.
Return == /\ stack = <<>> /\ at \in {"got", "failed"} /\ dying = {}
          /\ at' = "app" /\ val' = NULL
          /\ \/ roots' = roots \cup ({val} \ {NULL}) /\ UNCHANGED dying
             \/ dying' = {val} \ {NULL} /\ UNCHANGED roots
          /\ UNCHANGED <<type, cells, stack, lost, given>>
-----------------------------------------------------------------------------
Application == \/ \E n \in JsonVal, t \in {"atom", "arr", "obj"} : AppCreate(n, t)
               \/ \E c, v \in JsonVal, x \in Name : AppGive(c, v, x)
               \/ \E r \in JsonVal : AppDelete(r)
               \/ AppParse

Parser == \/ \E x \in Name \cup {NULL} : ReadName(x)
          \/ \E n \in JsonVal : ParseAtom(n)
          \/ \E v \in JsonVal \cup {NULL}, kind \in {"arr", "obj"} : Enter(v, kind)
          \/ Put \/ PutRefused \/ PutCrashes
          \/ Comma \/ Close \/ Mistake \/ Unwind \/ Return

TreeNext == Application \/ Parser \/ JsonDelete

TreeSpec == TreeInit /\ [][TreeNext]_treeVars
-----------------------------------------------------------------------------
Cell == [name : Name \cup {NULL}, value : JsonVal]

TreeTypeOK == /\ type \in [JsonVal -> {"free", "atom", "arr", "obj"}]
              /\ cells \in [JsonVal -> Seq(Cell)]
              /\ {roots, dying, lost} \subseteq SUBSET JsonVal
              /\ at \in {"app", "name", "value", "got", "next", "failed", "crashed"}
              /\ stack \in Seq(Frame)
              /\ val \in JsonVal \cup {NULL}
              /\ given \in [JsonVal -> [Name -> JsonVal \cup {NULL}]]

Live    == {n \in JsonVal : type[n] # "free"}
Held    == {n \in JsonVal : \E m \in JsonVal : Holds(m, n)}
Stacked == {n \in JsonVal : \E i \in 1 .. Len(stack) : stack[i].node = n}
Passed  == {val} \ {NULL}
Tops    == roots \cup dying \cup lost \cup Stacked \cup Passed

\* A value has one owner: a cell, the application, the parser, a jsonDelete, or
\* nobody any more.
HeldOnce ==
  \A m, n \in JsonVal : \A i \in 1 .. Len(cells[m]), j \in 1 .. Len(cells[n]) :
    cells[m][i].value = cells[n][j].value => m = n /\ i = j
StackedOnce ==
  \A i, j \in 1 .. Len(stack) : stack[i].node = stack[j].node => i = j \/ stack[i].node = NULL
Apart == /\ roots \cap (dying \cup lost \cup Stacked \cup Passed) = {}
         /\ dying \cap (lost \cup Stacked \cup Passed) = {}
         /\ lost \cap (Stacked \cup Passed) = {} /\ Stacked \cap Passed = {}

OneOwner == Tops \cap Held = {} /\ HeldOnce /\ StackedOnce /\ Apart

\* Who owns a value never finds it freed, and what is not freed has an owner.
LiveIsOwned == Live = Held \cup Tops

\* No values own each other in a ring, out of everybody's reach.
Grounded == \A S \in SUBSET Live : S # {} => \E n \in S : \A m \in S : ~Holds(m, n)

\* jsonObjGet answers the value put last, which was not freed since.
LastPut == \A o \in JsonVal, x \in Name : type[o] = "obj" /\ o \notin dying => GetMember(o, x) = given[o][x]

\* What jsonDelete frees is freed once and used no more, and every value is
\* freed in the end by deleting what the application holds, but for those that
\* a put refused; and an object answers what was put into it last.
TreesKept == OneOwner /\ LiveIsOwned /\ Grounded /\ LastPut
-----------------------------------------------------------------------------
\* The rest of the inductive invariant.

FreeIsEmpty == \A n \in JsonVal : /\ type[n] = "free" => cells[n] = <<>>
                                  /\ type[n] # "obj" => \A x \in Name : given[n][x] = NULL

\* The members of an object have different names, and are what was put last.
Remembered == \A o \in JsonVal : type[o] = "obj" =>
             /\ \A i, j \in 1 .. Len(cells[o]) : cells[o][i].name = cells[o][j].name => i = j
             /\ o \notin dying => \A x \in Name :
                  /\ \A i \in MembersNamed(o, x) : given[o][x] = cells[o][i].value
                  /\ MembersNamed(o, x) = {} => given[o][x] = NULL

\* What jsonParse has at hand at each place.
Stage == /\ at = "got" => val # NULL
         /\ at \notin {"got", "crashed"} => val = NULL
         /\ at \in {"name", "next"} => stack # <<>>
         /\ at = "next" => Top.node # NULL

NodesTyped == \A i \in 1 .. Len(stack) : stack[i].node # NULL => type[stack[i].node] = stack[i].kind

TreeInv == /\ TreeTypeOK /\ OneOwner /\ LiveIsOwned /\ Grounded
           /\ FreeIsEmpty /\ Remembered /\ Stage /\ NodesTyped
=============================================================================
