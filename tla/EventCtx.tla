------------------------------ MODULE EventCtx ------------------------------
(***************************************************************************)
(* One engine context on its way through Lua and back                      *)
(* (src/src/host/eventctx.cpp and eventctx.hpp).                           *)
(*                                                                         *)
(* push_event checks every pointer of the context, then copies its rows    *)
(* and its bit array into a fresh event table.  Handlers read and write    *)
(* the table, or call into the engine, which may change the context or     *)
(* invalidate handles.  read_back copies the writable rows and the bit     *)
(* array into the context, if the values fit.  The next slot of the chain  *)
(* gets the same context.                                                  *)
(*                                                                         *)
(* Rows are of the kinds of eventdefs.hpp:                                 *)
(*   value   FIELD_VALUE: a value in the context, read-only                *)
(*   podin   FIELD_POD_IN: behind a const pointer, read-only               *)
(*   handle  FIELD_HANDLE: an object, read-only                            *)
(*   number  FIELD_PTR of a numeric type, FIELD_PTR_COMP: behind a pointer *)
(*   flag    FIELD_PTR of bool: behind a pointer                           *)
(*   object  FIELD_PTR_HANDLE: an object behind a pointer                  *)
(*   inline  FIELD_RESULT: a bool in the context                           *)
(* and of those that an event checks or copies itself:                     *)
(*   elapsed a FIELD_VALUE whose event refuses an implausible time, Lo here *)
(*   state   a FIELD_PTR whose event refuses a null pointer                *)
(*   touch   an element of mouse_update's touch array, whose length the    *)
(*           host may not know                                             *)
(* One number type stands for all, and one bit array for the two of the    *)
(* keyboard and for the controller's buttons, which is two words.          *)
(***************************************************************************)
EXTENDS Integers, FiniteSets

CONSTANTS Rows,               \* the rows of the event
          Kinds,              \* the kinds a row may be of
          Lo, Hi,             \* the range of the number type
          LuaNumbers,         \* the numbers handlers assign
          Objects, NullObj,   \* engine objects, and nullptr
          WordBits, WordCount, \* the bit array: 32 bits to a word in the code
          BitMax,             \* kKeyMax or kButtonMax: the highest legal index
          BadBits,            \* indices handlers pass beyond the legal ones
          MaxSteps,           \* bound: statements the handlers run in a dispatch
          MaxDispatches       \* bound: slots the context is passed to

ASSUME EventCtxAssumption ==
  /\ Kinds \subseteq {"value", "podin", "handle", "number", "flag", "object", "inline",
                    "elapsed", "state", "touch"}
  /\ Lo \in Int /\ Hi \in Int /\ Lo <= 0 /\ 0 <= Hi /\ LuaNumbers \subseteq Int
  /\ NullObj \notin Objects
  /\ WordBits \in Nat \ {0} /\ WordCount \in Nat \ {0}
  /\ BitMax \in 0 .. WordBits * WordCount - 1 /\ BadBits \cap (0 .. BitMax) = {}
  /\ MaxSteps \in Nat /\ MaxDispatches \in Nat

VARIABLES
  ctx,      \* the rows: the kind, is the pointer null, good or wild, the value
  touchKnown, \* is g_touchCount set
  array,    \* the bit array: its pointer, and its words
  phase,    \* "engine", "handlers", or "disabled"
  event,    \* the event table: a Lua value for each row
  field,    \* the event table's field with the words
  epoch,    \* how often all handles were invalidated
  steps, dispatches,
  given,    \* history: the context push_event saw, or the engine wrote since
  assigned, \* history: the rows handlers assigned
  changed,  \* history: the rows and the array the engine changed meanwhile
  asked,    \* history: what set_... last asked of each bit
  rawWords, \* history: a handler reached around the methods of the bit array
  replaced  \* history: a handler replaced the table of the bit array: "no",
            \* by another "table", or by something else, so that it is "gone"

data    == <<ctx, touchKnown, array, event, field, epoch>>
history == <<given, assigned, changed, asked, rawWords, replaced>>
vars    == <<ctx, touchKnown, array, phase, event, field, epoch, steps, dispatches,
             given, assigned, changed, asked, rawWords, replaced>>

-----------------------------------------------------------------------------
(* Lua values.                                                             *)

LNil       == [type |-> "nil"]
LNum(n)    == [type |-> "number", num |-> n]
LStr(n)    == [type |-> "string", num |-> n]     \* a string that spells n
LBool(b)   == [type |-> "boolean", bool |-> b]
LTable     == [type |-> "table"]
LHandle(o, t, e) == [type |-> "userdata", obj |-> o, of |-> t, epoch |-> e]

IsNumber(v)  == v.type \in {"number", "string"}
ToNumber(v)  == IF IsNumber(v) THEN v.num ELSE 0
ToBoolean(v) == v # LNil /\ v # LBool(FALSE)
BoolCell(v)  == IF ToBoolean(v) THEN 1 ELSE 0    \* as a C bool holds it

ObjectTypes == {"row", "other"}   \* the type the row's handle has, or another
HandlesNow  == {LHandle(o, t, e) : o \in Objects, t \in ObjectTypes, e \in 0 .. epoch}
LuaValues   == {LNil, LTable} \cup {LBool(b) : b \in BOOLEAN}
               \cup {LNum(n) : n \in LuaNumbers} \cup {LStr(n) : n \in LuaNumbers}
               \cup HandlesNow

(* HandleTable's promise: a handle resolves until the next invalidate_all, *)
(* and only as the type it was acquired with.                              *)
ResolvesAnyEpoch(v) == v.type = "userdata" /\ v.of = "row"    \* a fault
Resolves(v) == v.type = "userdata" /\ v.of = "row" /\ v.epoch = epoch

-----------------------------------------------------------------------------
(* The words of the bit array.                                             *)

WordMax == 2 ^ WordBits - 1
Words   == [1 .. WordCount -> 0 .. WordMax]
WordOf(b) == (b \div WordBits) + 1
BitIn(word, b) == (word \div 2 ^ (b % WordBits)) % 2 = 1
OnlyBit(word, b, on) == IF on THEN 2 ^ (b % WordBits) ELSE 0   \* a fault
WithBit(word, b, on) ==
  CASE on /\ ~BitIn(word, b) -> word + 2 ^ (b % WordBits)
    [] ~on /\ BitIn(word, b) -> word - 2 ^ (b % WordBits)
    [] OTHER                 -> word

BelowHi(n, lo, hi) == n <= hi    \* a fault: the lower bound is forgotten
InRange(n, lo, hi) == lo <= n /\ n <= hi

(* A word slot of the event table, as to_word reads it.                    *)
ToWord(v, default) == IF InRange(ToNumber(v), 0, WordMax) THEN ToNumber(v) ELSE default

FieldTable(w) == [table |-> TRUE, word |-> w]
NoFieldTable  == [table |-> FALSE, word |-> [i \in 1 .. WordCount |-> LNil]]

BitGet(b) == field.table /\ BitIn(ToWord(field.word[WordOf(b)], 0), b)

-----------------------------------------------------------------------------
NumberKinds   == {"number", "state", "touch"}
PointerKinds  == NumberKinds \cup {"podin", "handle", "flag", "object"}   \* are checked
WritableKinds == NumberKinds \cup {"flag", "object", "inline"}            \* are read back

ValuesOf(kind) ==
  CASE kind \in NumberKinds \cup {"value", "podin", "elapsed"} -> Lo .. Hi
    [] kind \in {"flag", "inline"}           -> {0, 1}
    [] kind \in {"handle", "object"}         -> Objects \cup {NullObj}

Pointers == {"null", "good", "wild"}
KindOf(r) == ctx[r].kind
Cells == UNION {[kind : {k}, ptr : IF k \in PointerKinds THEN Pointers ELSE {"good"},
                 val : ValuesOf(k)] : k \in Kinds}

(* check_pointer_fields, and the event's own check.                        *)
Implausible ==
  \/ array.ptr = "wild"
  \/ \E r \in Rows : \/ ctx[r].ptr = "wild"
                     \/ KindOf(r) = "elapsed" /\ ctx[r].val = Lo
                     \/ KindOf(r) = "state" /\ ctx[r].ptr = "null"

Nothing == [b \in 0 .. BitMax |-> "nothing"]

Init ==
  /\ ctx \in [Rows -> Cells] /\ touchKnown \in BOOLEAN
  /\ array \in [ptr : Pointers, word : Words]
  /\ phase = "engine"
  /\ event = [r \in Rows |-> LNil] /\ field = NoFieldTable
  /\ epoch = 0 /\ steps = 0 /\ dispatches = 0
  /\ given = [ctx |-> ctx, word |-> array.word]
  /\ assigned = {} /\ changed = {} /\ asked = Nothing
  /\ rawWords = FALSE /\ replaced = "no"

-----------------------------------------------------------------------------
(* push_event.                                                             *)

NoArray(r) == KindOf(r) = "touch" /\ ~touchKnown
PushRow(r) ==
  LET cell == ctx[r] IN
    IF cell.ptr = "null" \/ NoArray(r) THEN LNil ELSE
    CASE KindOf(r) \in {"handle", "object"}   -> IF cell.val = NullObj THEN LNil
                                                 ELSE LHandle(cell.val, "row", epoch)
      [] KindOf(r) \in {"flag", "inline"}     -> LBool(cell.val = 1)
      [] OTHER                                -> LNum(cell.val)

(* copy_words_in: the words of a null array read as zero.                  *)
PushWords ==
  FieldTable([i \in 1 .. WordCount |-> LNum(IF array.ptr = "null" THEN 0 ELSE array.word[i])])

(* A context that cannot be one: the slot is disabled, nothing is read.    *)
Refuse ==
  /\ phase = "engine" /\ Implausible
  /\ phase' = "disabled"
  /\ UNCHANGED <<data, steps, dispatches, history>>

PushEvent ==
  /\ phase = "engine" /\ ~Implausible
  /\ dispatches < MaxDispatches
  /\ phase' = "handlers"
  /\ event' = [r \in Rows |-> PushRow(r)]
  /\ field' = PushWords
  /\ dispatches' = dispatches + 1 /\ steps' = 0
  /\ given' = [ctx |-> ctx, word |-> array.word]
  /\ assigned' = {} /\ changed' = {} /\ asked' = Nothing
  /\ rawWords' = FALSE /\ replaced' = "no"
  /\ UNCHANGED <<ctx, touchKnown, array, epoch>>

-----------------------------------------------------------------------------
(* A statement of a handler.                                               *)

Step == phase = "handlers" /\ steps < MaxSteps /\ steps' = steps + 1

Assign(r, v) ==
  /\ Step
  /\ event' = [event EXCEPT ![r] = v]
  /\ assigned' = assigned \cup {r}
  /\ UNCHANGED <<phase, ctx, touchKnown, array, field, epoch, dispatches, given, changed, asked,
                 rawWords, replaced>>

(* set_key_held and its like.  An index out of range raises, and a field   *)
(* that is no table any more is left alone.                                *)
BitSet(raw, on) ==
  /\ Step
  /\ IF raw \in 0 .. BitMax /\ field.table
     THEN /\ field' = [field EXCEPT !.word[WordOf(raw)] = LNum(WithBit(ToWord(@, 0), raw, on))]
          /\ asked' = [asked EXCEPT ![raw] = IF on THEN "on" ELSE "off"]
     ELSE UNCHANGED <<field, asked>>
  /\ UNCHANGED <<phase, ctx, touchKnown, array, event, epoch, dispatches, given, assigned, changed,
                 rawWords, replaced>>

(* e._keys_down[i] = v                                                     *)
AssignWord(i, v) ==
  /\ Step /\ field.table
  /\ field' = [field EXCEPT !.word[i] = v]
  /\ rawWords' = TRUE
  /\ UNCHANGED <<phase, ctx, touchKnown, array, event, epoch, dispatches, given, assigned, changed,
                 asked, replaced>>

(* e._keys_down = {}, or anything that is not a table: what was set before *)
(* is gone with the old table.                                             *)
ReplaceField ==
  /\ Step
  /\ \/ field' = NoFieldTable /\ replaced' = "gone"
     \/ field' = FieldTable(NoFieldTable.word) /\ replaced' = "table"
  /\ asked' = Nothing /\ rawWords' = FALSE
  /\ UNCHANGED <<phase, ctx, touchKnown, array, event, epoch, dispatches, given, assigned, changed>>

(* The handler calls into the engine, and that writes a cell of the        *)
(* context, or destroys a world.                                           *)
EngineWrites(r) ==
  /\ Step
  /\ ctx[r].ptr = "good"
  /\ \E v \in ValuesOf(KindOf(r)) :
       /\ ctx' = [ctx EXCEPT ![r].val = v]
       /\ given' = [given EXCEPT !.ctx[r].val = v]
  /\ changed' = changed \cup {r}
  /\ UNCHANGED <<phase, touchKnown, array, event, field, epoch, dispatches, assigned, asked,
                 rawWords, replaced>>

InvalidateAll ==
  /\ Step
  /\ epoch' = epoch + 1
  /\ UNCHANGED <<phase, ctx, touchKnown, array, event, field, dispatches, history>>

-----------------------------------------------------------------------------
(* read_back.                                                              *)

(* read_ok: does the value reach a row behind a pointer at all.            *)
ReadOk(kind, v) == IF kind = "flag" THEN v # LNil ELSE IsNumber(v)

(* What the ReadFn of a row makes of a Lua value, given what is there.     *)
ReadRow(r, v, old) ==
  CASE KindOf(r) \in NumberKinds ->
                               IF ~NoArray(r) /\ ReadOk("number", v) /\ InRange(ToNumber(v), Lo, Hi)
                               THEN ToNumber(v) ELSE old
    [] KindOf(r) = "flag"   -> IF ReadOk("flag", v) THEN BoolCell(v) ELSE old
    [] KindOf(r) = "inline" -> BoolCell(v)
    [] KindOf(r) = "object" -> IF v = LNil THEN NullObj
                               ELSE IF Resolves(v) THEN v.obj ELSE old
    [] OTHER                -> old

(* copy_words_out and read_controller: a word that does not fit is left    *)
(* alone, a field that is no table is skipped.                             *)
ReadWords ==
  IF array.ptr = "null" \/ ~field.table THEN array.word
  ELSE [i \in 1 .. WordCount |-> ToWord(field.word[i], array.word[i])]

ReadBack ==
  /\ phase = "handlers"
  /\ phase' = "engine"
  /\ ctx' = [r \in Rows |-> IF KindOf(r) \in WritableKinds /\ ctx[r].ptr # "null"
                            THEN [ctx[r] EXCEPT !.val = ReadRow(r, event[r], @)]
                            ELSE ctx[r]]
  /\ array' = [array EXCEPT !.word = ReadWords]
  /\ UNCHANGED <<touchKnown, event, field, epoch, steps, dispatches, history>>

-----------------------------------------------------------------------------
Next ==
  \/ Refuse \/ PushEvent \/ ReadBack \/ ReplaceField \/ InvalidateAll
  \/ \E r \in Rows : EngineWrites(r) \/ \E v \in LuaValues : Assign(r, v)
  \/ \E b \in (0 .. BitMax) \cup BadBits, on \in BOOLEAN : BitSet(b, on)
  \/ \E i \in 1 .. WordCount, v \in LuaValues : AssignWord(i, v)

Spec == Init /\ [][Next]_vars

-----------------------------------------------------------------------------
(* The engine's cells hold values of their C types, whatever Lua assigned. *)
TypeOK ==
  /\ ctx \in [Rows -> Cells] /\ touchKnown \in BOOLEAN
  /\ array.ptr \in Pointers /\ array.word \in Words
  /\ phase \in {"engine", "handlers", "disabled"}
  /\ field.table \in BOOLEAN
  /\ epoch \in Nat /\ steps \in 0 .. MaxSteps /\ dispatches \in 0 .. MaxDispatches
  /\ assigned \subseteq Rows /\ changed \subseteq Rows
  /\ asked \in [0 .. BitMax -> {"nothing", "on", "off"}]
  /\ rawWords \in BOOLEAN /\ replaced \in {"no", "table", "gone"}

(* What the engine finds in a row once its hook returns is what the event  *)
(* table says, if the row is writable and the value fits it at that        *)
(* moment, also where the engine wrote the row during the dispatch: the    *)
(* table's copy wins, assigned or not.  Else the engine's own last value   *)
(* stands.  So a row that neither assigned goes through Lua and back       *)
(* unchanged, also when its handle went stale on the way.                  *)
Fits(r, v) ==
  CASE KindOf(r) \in NumberKinds -> ~NoArray(r) /\ \E n \in Lo .. Hi : v \in {LNum(n), LStr(n)}
    [] KindOf(r) = "flag"   -> v # LNil
    [] KindOf(r) = "inline" -> TRUE
    [] KindOf(r) = "object" -> v = LNil \/ \E o \in Objects : v = LHandle(o, "row", epoch)
    [] OTHER                -> FALSE
Says(r, v, x) ==
  CASE KindOf(r) \in NumberKinds         -> v \in {LNum(x), LStr(x)}
    [] KindOf(r) \in {"flag", "inline"} -> (x = 1) = (v \notin {LNil, LBool(FALSE)})
    [] OTHER                            -> IF v = LNil THEN x = NullObj ELSE v.obj = x
RowsArrive ==
  phase = "engine" /\ dispatches > 0 =>
    \A r \in Rows :
      /\ IF ctx[r].ptr = "good" /\ Fits(r, event[r])
         THEN Says(r, event[r], ctx[r].val)
         ELSE ctx[r] = given.ctx[r]
      /\ r \notin assigned \cup changed => ctx[r] = given.ctx[r]

(* As long as handlers do not write the words themselves, each bit is what *)
(* they last set it to, and else what the engine gave: setting one never   *)
(* moves another, an index out of range touches none, and bits above the   *)
(* highest index survive.  Handlers see it at once, the engine when its    *)
(* hook returns.  A handler that replaces the field by anything but a      *)
(* table drops what was set, and the engine keeps its own.  Of another     *)
(* table in its place, whose absent words the code reads as zeros,         *)
(* docs/events.md:141 says something else; nothing is claimed there.       *)
ExpectedBit(b) ==
  IF b <= BitMax /\ asked[b] # "nothing" THEN asked[b] = "on"
  ELSE BitIn(given.word[WordOf(b)], b)
BitsAreIndependent ==
  ~rawWords /\ replaced # "table" /\ array.ptr = "good" =>
    \A b \in 0 .. WordBits * WordCount - 1 :
      /\ phase = "engine" => (BitIn(array.word[WordOf(b)], b) <=> ExpectedBit(b))
      /\ phase = "handlers" => (BitGet(b) <=> replaced = "no" /\ ExpectedBit(b))
=============================================================================
