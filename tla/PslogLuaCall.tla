----------------------------- MODULE PslogLuaCall -----------------------------
(***************************************************************************)
(* A method call of the Lua binding that takes fields, such as             *)
(* log:info(msg, ...) or log:with(...): how pslua_collect_fields turns Lua *)
(* values into the scratch array of the logger object, and what it leaves  *)
(* on the Lua stack so that the strings the fields point to stay alive     *)
(* until libpslog has read them. A value that is no scalar is converted by *)
(* tostring, which may run Lua code, and that code may log or fail.        *)
(*                                                                         *)
(* Lua itself is external: a value on the stack, or in a table or wrapper  *)
(* that is on the stack, is not collected. A metamethod does not change    *)
(* the table that is being logged.                                         *)
(***************************************************************************)
EXTENDS Integers, Sequences, FiniteSets

CONSTANTS
  Callers,        \* logger objects (pslua_logger_ud)
  Calls,          \* calls: the form of their fields and the entries
  InnerCalls,     \* calls made by a tostring metamethod
  MaxCalling,     \* bound: calls in progress at once
  Reentrant,      \* whether a metamethod may use an object in use
  FirstCapacity   \* the first capacity of a table's fields (8)

(***************************************************************************)
(* A call has the entries of its table in the order lua_next gives them,   *)
(* or its key/value pairs; "odd" pairs have one argument too many. Keys    *)
(* are strings, numbers or neither; values are scalars, strings, wrappers  *)
(* that hold a string, or objects for tostring.                            *)
(***************************************************************************)
Forms == {"table", "pairs", "odd"}
EntryKinds == [key : {"str", "num", "bad"}, value : {"scalar", "string", "wrapper", "object"}]

ASSUME LuaCallAssumption ==
  /\ \A c \in Calls \cup InnerCalls : c \in [form : Forms, entries : Seq(EntryKinds)]
  /\ MaxCalling \in Nat
  /\ Reentrant \in BOOLEAN
  /\ FirstCapacity \in Nat \ {0}

VARIABLES
  calling,   \* the calls in progress, the innermost last
  scratch    \* scratch_fields of each object: what the array holds, and how
             \* often it has been allocated, 0 being NULL

callVars == <<calling, scratch>>

\* A string or value of entry i of the call at depth d.
Key(d, i) == <<"key", d, i>>          \* the key of a table or an argument
KeyCopy(d, i) == <<"copy", d, i>>     \* its copy, a string after conversion
Val(d, i) == <<"value", d, i>>
Text(d, i) == <<"tostring", d, i>>
NIL == <<"nil", 0, 0>>

\* What a field points to that nobody has written.
Unset == <<NIL, NIL>>

CallInit ==
  /\ calling = <<>>
  /\ scratch = [o \in Callers |-> [fields |-> <<>>, moves |-> 0]]

Depth == Len(calling)
Top == calling[Depth]

\* lua_insert(L, -k): the top goes to the k-th place from the top.
Insert(s, k) ==
  LET n == Len(s)
  IN [j \in 1..n |-> IF j <= n - k THEN s[j] ELSE IF j = n - k + 1 THEN s[n] ELSE s[j - 1]]

Pop(s) == SubSeq(s, 1, Len(s) - 1)

-----------------------------------------------------------------------------
(* The call.                                                               *)

\* A C function starts with its arguments on the stack; pushnil begins the
\* iteration over a table.
NewCall(o, c) ==
  [obj |-> o, call |-> c, next |-> 1, at |-> "entry",
   stack |-> IF c.form = "table" THEN <<NIL>> ELSE <<>>,
   capacity |-> 0, array |-> 0, line |-> <<>>]

Start(o, c) ==
  /\ calling = <<>> /\ c \in Calls
  /\ calling' = <<NewCall(o, c)>>
  /\ UNCHANGED scratch

\* A tostring metamethod logs.
StartInner(o, c) ==
  /\ calling # <<>> /\ Depth < MaxCalling /\ Top.at = "tostring" /\ c \in InnerCalls
  /\ Reentrant \/ \A d \in DOMAIN calling : calling[d].obj # o
  /\ calling' = Append(calling, NewCall(o, c))
  /\ UNCHANGED scratch

\* Calls end down to depth d. Without a call in progress the contents of the
\* arrays are of no account.
Unwind(d, arrays) ==
  /\ calling' = SubSeq(calling, 1, d)
  /\ scratch' =
       IF d > 0 THEN arrays
       ELSE [o \in Callers |->
              [fields |-> [i \in DOMAIN arrays[o].fields |-> Unset],
               moves |-> IF arrays[o].moves = 0 THEN 0 ELSE 1]]

-----------------------------------------------------------------------------
(* The scratch array.                                                      *)

\* Mutant: a larger array is allocated and the fields collected so far are not
\* copied.
ReserveFresh(s, count) ==
  IF Len(s.fields) >= count THEN s
  ELSE [fields |-> [i \in 1..count |-> Unset], moves |-> s.moves + 1]

\* pslua_reserve_fields: an array that is large enough stays, another one is
\* reallocated, which moves what it holds.
Reserve(s, count) ==
  IF Len(s.fields) >= count THEN s
  ELSE [fields |-> [i \in 1..count |-> IF i <= Len(s.fields) THEN s.fields[i] ELSE Unset],
        moves |-> s.moves + 1]

\* pslua_ensure_fields_capacity: the capacity the call f asks for. It asks for one
\* entry more each time, so that the loop doubles it once at most.
CapacityFor(f) ==
  LET first == IF f.capacity = 0 THEN FirstCapacity ELSE f.capacity
  IN IF first < f.next THEN 2 * first ELSE first

\* The array for the next entry of f: looked at again for every entry of a table,
\* and once for all pairs.
NextArray(f, s) ==
  IF f.call.form = "table"
  THEN IF f.next <= f.capacity THEN s ELSE Reserve(s, CapacityFor(f))
  ELSE IF f.array = 0 THEN Reserve(s, Len(f.call.entries)) ELSE s

\* A field is written through the pointer the call holds.
Store(s, array, i, field) ==
  IF array # s.moves THEN s ELSE [s EXCEPT !.fields[i] = field]

\* The string a field's value points to, if any: its own, the one in a wrapper,
\* or the result of tostring.
ValueString(d, i, value) ==
  IF value = "scalar" THEN <<"none", d, i>>
  ELSE IF value = "object" THEN Text(d, i) ELSE Val(d, i)

\* A number is converted where it is: an argument in its place, the key of a
\* table in the copy made for it.
KeyString(d, f, i) ==
  IF f.call.form = "table" /\ f.call.entries[i].key = "num" THEN KeyCopy(d, i) ELSE Key(d, i)

Field(d, f, i) == <<KeyString(d, f, i), ValueString(d, i, f.call.entries[i].value)>>

-----------------------------------------------------------------------------
(* The entries.                                                            *)

More == Top.at = "entry" /\ Top.next <= Len(Top.call.entries)

Entry == Top.call.entries[Top.next]

\* The scratch arrays once the next entry has its place. The key of a table's
\* entry is looked at before that.
Reserved ==
  IF Top.call.form = "table" /\ Entry.key = "bad" THEN scratch
  ELSE [scratch EXCEPT ![Top.obj] = NextArray(Top, @)]

\* luaL_error for an odd number of arguments or a failed realloc, luaL_argcheck
\* for a key that is no string, an error in a metamethod: all unwind the calls up
\* to a protected one, outside the binding or in a metamethod.
RaiseError ==
  /\ calling # <<>>
  /\ \E d \in 0..Depth - 1 :
       \/ Top.call.form = "odd" /\ Unwind(d, scratch)
       \/ Top.at = "tostring" /\ Unwind(d, scratch)
       \/ /\ More /\ Top.call.form # "odd" /\ Reserved # scratch
          /\ Unwind(d, scratch)
       \/ More /\ Top.call.form # "odd" /\ Entry.key = "bad" /\ Unwind(d, Reserved)

\* The stack once lua_next has given entry i and its key has been read.
WithEntry(d, f) ==
  LET kv == Pop(f.stack) \o <<Key(d, f.next), Val(d, f.next)>>
  IN IF f.call.entries[f.next].key = "str" THEN kv ELSE Append(kv, KeyCopy(d, f.next))

\* What lua_insert and lua_pop leave of it, with extra strings made for the value.
AfterEntry(f, s, extra) ==
  LET str == f.call.entries[f.next].key = "str"
      t == IF extra # 0 THEN Insert(s, IF str THEN 3 ELSE 4) ELSE s
  IN Pop(IF str THEN t ELSE Insert(t, 3))

\* The next entry of f, up to the conversion of its value by tostring, with the
\* array s.
WithNext(d, f, s) ==
  LET i == f.next
      convert == f.call.entries[i].value = "object"
      given == IF f.call.form = "table" THEN WithEntry(d, f) ELSE f.stack
  IN [f EXCEPT !.array = IF f.call.form = "table" \/ f.array = 0 THEN s.moves ELSE f.array,
               !.capacity = IF f.call.form = "table" /\ i > f.capacity THEN CapacityFor(f)
                            ELSE f.capacity,
               !.stack = IF f.call.form = "table" /\ ~convert
                         THEN AfterEntry(f, given, 0) ELSE given,
               !.at = IF convert THEN "tostring" ELSE "entry",
               !.next = IF convert THEN i ELSE i + 1]

NextEntry ==
  LET s == NextArray(Top, scratch[Top.obj])
      f == WithNext(Depth, Top, s)
  IN /\ calling # <<>> /\ More
     /\ Top.call.form # "odd" /\ Entry.key # "bad"
     /\ calling' = [calling EXCEPT ![Depth] = f]
     /\ scratch' = [scratch EXCEPT ![Top.obj] =
          IF Entry.value = "object" THEN s
          ELSE Store(s, f.array, Top.next, Field(Depth, Top, Top.next))]

\* tostring has returned: its result is on the stack.
WithText(d, f) ==
  LET s == Append(f.stack, Text(d, f.next))
  IN [f EXCEPT !.stack = IF f.call.form = "table" THEN AfterEntry(f, s, 1) ELSE s,
               !.at = "entry",
               !.next = f.next + 1]

Converted ==
  /\ calling # <<>> /\ Top.at = "tostring"
  /\ calling' = [calling EXCEPT ![Depth] = WithText(Depth, Top)]
  /\ scratch' = [scratch EXCEPT ![Top.obj] =
                   Store(@, Top.array, Top.next, Field(Depth, Top, Top.next))]

\* What libpslog reads from the array of f.
LineOf(f, s) ==
  IF f.array = 0 THEN <<>>
  ELSE IF f.array # s.moves THEN [i \in DOMAIN f.call.entries |-> Unset]
  ELSE SubSeq(s.fields, 1, Len(f.call.entries))

\* All is collected, and lua_next has popped the last key: libpslog renders or
\* copies the fields of the array.
WithLine(f, s) ==
  [f EXCEPT !.stack = IF f.call.form = "table" THEN Pop(f.stack) ELSE f.stack,
            !.at = "emitted",
            !.line = LineOf(f, s)]

Emit ==
  /\ calling # <<>> /\ Top.at = "entry"
  /\ Top.call.form # "odd" /\ Top.next > Len(Top.call.entries)
  /\ calling' = [calling EXCEPT ![Depth] = WithLine(Top, scratch[Top.obj])]
  /\ UNCHANGED scratch

\* settop and return.
Return ==
  /\ calling # <<>> /\ Top.at = "emitted"
  /\ Unwind(Depth - 1, scratch)

CallNext ==
  \/ \E o \in Callers, c \in Calls : Start(o, c)
  \/ \E o \in Callers, c \in InnerCalls : StartInner(o, c)
  \/ RaiseError \/ NextEntry \/ Converted \/ Emit \/ Return

CallSpec == CallInit /\ [][CallNext]_callVars

-----------------------------------------------------------------------------
(* Properties.                                                             *)

\* The entries with a string that only the stack of the call keeps alive: the
\* result of tostring, and the copy of a number.
Texts(f) == {i \in DOMAIN f.call.entries : f.call.entries[i].value = "object"}
Copies(f) ==
  {i \in DOMAIN f.call.entries : f.call.form = "table" /\ f.call.entries[i].key = "num"}

\* v is among the k lowest slots of the stack s.
Among(s, k, v) == \E j \in 1..k : s[j] = v

(***************************************************************************)
(* Every string that a collected field points to and that nothing else     *)
(* keeps alive is on the stack of the call until the fields have been      *)
(* read, and lua_next finds the key of the last entry on top of the stack. *)
(* The lua_insert calls that arrange this move each string to a place of   *)
(* its own.                                                                *)
(***************************************************************************)
Anchored ==
  \A d \in DOMAIN calling :
    LET f == calling[d]
    IN /\ \A i \in 1..(f.next - 1) :
            /\ i \in Texts(f) => Among(f.stack, Len(f.stack), Text(d, i))
            /\ i \in Copies(f) => Among(f.stack, Len(f.stack), KeyCopy(d, i))
       /\ f.call.form = "table" /\ f.at = "entry" =>
            /\ f.stack # <<>>
            /\ f.stack[Len(f.stack)] = IF f.next = 1 THEN NIL ELSE Key(d, f.next - 1)

(***************************************************************************)
(* A call leaves at most two strings of an entry on the stack, and needs   *)
(* two more slots for the entry in hand. The code does not call            *)
(* luaL_checkstack, so it has the 20 slots of LUA_MINSTACK: nine entries   *)
(* with numbers for keys and objects for values are the most that fit.     *)
(***************************************************************************)
StackNeed ==
  \A d \in DOMAIN calling :
    LET f == calling[d]
    IN Len(f.stack) + (IF f.at = "tostring" THEN 1 ELSE 0)
         <= Cardinality(Texts(f)) + Cardinality(Copies(f)) + 2

(***************************************************************************)
(* No field is written or read outside the array, and none in an array     *)
(* that has been reallocated.                                              *)
(***************************************************************************)
ScratchInBounds ==
  \A d \in DOMAIN calling :
    LET f == calling[d]
        s == scratch[f.obj]
    IN f.array # 0 =>
         /\ f.array = s.moves
         /\ Len(s.fields) >= (IF f.at = "tostring" THEN f.next ELSE f.next - 1)

(***************************************************************************)
(* The line of a call has the fields of that call, in their order.         *)
(***************************************************************************)
FieldsOfOwnCall ==
  \A d \in DOMAIN calling :
    calling[d].at = "emitted" =>
      calling[d].line = [i \in DOMAIN calling[d].call.entries |-> Field(d, calling[d], i)]

(***************************************************************************)
(* The fields of a call: a line has the fields of its own call, in an      *)
(* array that is large enough; their strings are on the Lua stack until    *)
(* the line is rendered, at most two of an entry, with two more slots for  *)
(* the entry in hand.                                                      *)
(***************************************************************************)
CallsKeepFields == Anchored /\ StackNeed /\ ScratchInBounds /\ FieldsOfOwnCall

-----------------------------------------------------------------------------
(* The inductive invariant, per call in progress.                          *)

Strings == {"nil", "key", "copy", "value", "tostring", "none"} \X Nat \X Nat

Frames ==
  [obj : Callers, call : Calls \cup InnerCalls, next : Nat \ {0},
   at : {"entry", "tostring", "emitted"}, stack : Seq(Strings),
   capacity : Nat, array : Nat, line : Seq(Strings \X Strings)]

\* An array that holds fields has been allocated.
Arrays ==
  {s \in [fields : Seq(Strings \X Strings), moves : Nat] :
     Len(s.fields) > 0 => s.moves > 0}

CallTypeOK == calling \in Seq(Frames) /\ scratch \in [Callers -> Arrays]

\* Where a call is.
PlaceInv(f) ==
  /\ f.next <= Len(f.call.entries) + 1
  /\ f.at = "tostring" => f.next <= Len(f.call.entries)
  /\ f.at = "emitted" => f.next = Len(f.call.entries) + 1
  /\ f.call.form = "odd" => f.at = "entry" /\ f.next = 1
  /\ f.at = "tostring" =>
       f.call.entries[f.next].key # "bad" /\ f.call.entries[f.next].value = "object"

\* The array of a call is the object's, has room for the entry in hand and holds
\* the fields collected so far.
ArrayInv(d, f, s) ==
  /\ f.array = 0 => f.next = 1 /\ f.at # "tostring"
  /\ f.array # 0 => f.array = s.moves
  /\ f.array # 0 /\ f.call.form # "table" => Len(s.fields) >= Len(f.call.entries)
  /\ f.call.form = "table" =>
       /\ f.array = 0 => f.capacity = 0
       /\ f.array # 0 => 0 < f.capacity /\ f.capacity <= Len(s.fields)
       /\ f.capacity >= f.next - 1
       /\ f.at = "tostring" => f.capacity >= f.next
  /\ \A i \in 1..(f.next - 1) : s.fields[i] = Field(d, f, i)
  /\ f.at = "emitted" => f.line = [i \in DOMAIN f.call.entries |-> Field(d, f, i)]

\* How many strings a call has left at the bottom of its stack.
Kept(f) ==
  Cardinality({i \in Texts(f) : i < f.next}) + Cardinality({i \in Copies(f) : i < f.next})

\* The strings kept and, above them, what the iteration over a table needs.
StackInv(d, f) ==
  /\ \A i \in 1..(f.next - 1) :
       /\ i \in Texts(f) => Among(f.stack, Kept(f), Text(d, i))
       /\ i \in Copies(f) => Among(f.stack, Kept(f), KeyCopy(d, i))
  /\ f.call.form # "table" \/ f.at = "emitted" => Len(f.stack) = Kept(f)
  /\ f.call.form = "table" /\ f.at = "entry" =>
       /\ Len(f.stack) = Kept(f) + 1
       /\ f.stack[Kept(f) + 1] = IF f.next = 1 THEN NIL ELSE Key(d, f.next - 1)
  /\ f.call.form = "table" /\ f.at = "tostring" =>
       /\ f.stack[Kept(f) + 1] = Key(d, f.next)
       /\ f.stack[Kept(f) + 2] = Val(d, f.next)
       /\ IF f.next \in Copies(f)
          THEN Len(f.stack) = Kept(f) + 3 /\ f.stack[Kept(f) + 3] = KeyCopy(d, f.next)
          ELSE Len(f.stack) = Kept(f) + 2

\* A call in progress at depth d, with the array s of its object.
FrameInv(d, f, s) == PlaceInv(f) /\ ArrayInv(d, f, s) /\ StackInv(d, f)

\* Every call but the innermost waits for a metamethod, and has its own object.
NestingInv ==
  /\ \A d \in DOMAIN calling : d < Depth => calling[d].at = "tostring"
  /\ \A d, e \in DOMAIN calling : d # e => calling[d].obj # calling[e].obj

LuaCallInv ==
  /\ CallTypeOK /\ NestingInv
  /\ \A d \in DOMAIN calling : FrameInv(d, calling[d], scratch[calling[d].obj])
=============================================================================
