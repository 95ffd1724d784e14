--------------------------- MODULE EventCtxProofs ---------------------------
(***************************************************************************)
(* Theorems about a context on its way through Lua, for any rows, any      *)
(* range of the numbers and any statements of the handlers.                *)
(***************************************************************************)
EXTENDS EventCtx, FiniteSetTheorems, TLAPS

AllKinds == {"value", "podin", "handle", "number", "flag", "object", "inline",
             "elapsed", "state", "touch"}

(* Every Lua value there is: those of LuaValues, with any number and any   *)
(* epoch.                                                                  *)
Numbers == [type : {"number", "string"}, num : Int]
Handles == [type : {"userdata"}, obj : Objects, of : ObjectTypes, epoch : Nat]
Plain   == [type : {"nil", "table"}] \cup [type : {"boolean"}, bool : BOOLEAN]
AnyValue == Numbers \cup Handles \cup Plain

LEMMA ValuesAre ==
  ASSUME epoch \in Nat
  PROVE  /\ LuaValues \subseteq AnyValue
         /\ \A n \in Int : LNum(n) \in AnyValue
         /\ \A b \in BOOLEAN : LBool(b) \in AnyValue
         /\ LNil \in AnyValue
         /\ \A o \in Objects, e \in 0 .. epoch : LHandle(o, "row", e) \in AnyValue
  <1>1. LNil \in AnyValue /\ LTable \in AnyValue
    BY DEF LNil, LTable, AnyValue, Plain
  <1>2. \A b \in BOOLEAN : LBool(b) \in AnyValue
    BY DEF LBool, AnyValue, Plain
  <1>3. \A n \in Int : LNum(n) \in AnyValue /\ LStr(n) \in AnyValue
    BY DEF LNum, LStr, AnyValue, Numbers
  <1>4. \A o \in Objects, t \in ObjectTypes, e \in 0 .. epoch : LHandle(o, t, e) \in AnyValue
    BY DEF LHandle, AnyValue, Handles
  <1>5. LuaValues \subseteq AnyValue
    BY <1>1, <1>2, <1>3, <1>4, EventCtxAssumption DEF LuaValues, HandlesNow
  <1>6. QED
    BY <1>1, <1>2, <1>3, <1>4, <1>5 DEF ObjectTypes

(* What a number spells fits exactly if it is in the range.                *)
LEMMA NumbersAre ==
  ASSUME NEW v \in AnyValue
  PROVE  /\ IsNumber(v) => v.num \in Int /\ v \in {LNum(v.num), LStr(v.num)}
         /\ \A n \in Int : v \in {LNum(n), LStr(n)} => IsNumber(v) /\ v.num = n
  <1>1. \A n \in Int : v \in {LNum(n), LStr(n)} => IsNumber(v) /\ v.num = n
    BY DEF LNum, LStr, IsNumber
  <1>2. CASE v \in Numbers
    <2>1. v.num \in Int /\ v \in {LNum(v.num), LStr(v.num)}
      BY <1>2 DEF Numbers, LNum, LStr
    <2>2. QED
      BY <1>1, <2>1
  <1>3. CASE v \notin Numbers
    <2>1. ~IsNumber(v)
      BY <1>3 DEF AnyValue, Handles, Plain, IsNumber
    <2>2. QED
      BY <1>1, <2>1
  <1>4. QED
    BY <1>2, <1>3

(* A cell keeps its kind and pointer, and its value fits the kind.         *)
LEMMA CellParts ==
  ASSUME NEW c \in Cells
  PROVE  /\ c.kind \in Kinds /\ c.kind \in AllKinds
         /\ c.ptr \in Pointers
         /\ c.kind \notin PointerKinds => c.ptr = "good"
         /\ c.val \in ValuesOf(c.kind)
         /\ \A v \in ValuesOf(c.kind) : [c EXCEPT !.val = v] \in Cells
         /\ [c EXCEPT !.val = c.val] = c
  <1>1. PICK k \in Kinds :
          c \in [kind : {k}, ptr : IF k \in PointerKinds THEN Pointers ELSE {"good"},
                 val : ValuesOf(k)]
    BY DEF Cells
  <1>2. k \in AllKinds
    BY EventCtxAssumption DEF AllKinds
  <1>3. /\ c.kind = k /\ c.ptr \in Pointers /\ c.val \in ValuesOf(k)
        /\ k \notin PointerKinds => c.ptr = "good"
        /\ [c EXCEPT !.val = c.val] = c
    BY <1>1 DEF Pointers
  <1>4. ASSUME NEW v \in ValuesOf(k) PROVE [c EXCEPT !.val = v] \in Cells
    <2>1. [c EXCEPT !.val = v]
            \in [kind : {k}, ptr : IF k \in PointerKinds THEN Pointers ELSE {"good"},
                 val : ValuesOf(k)]
      BY <1>1
    <2>2. QED
      BY <2>1 DEF Cells
  <1>5. QED
    BY <1>2, <1>3, <1>4

(* Reading a row back: a value that fits the row arrives, and nothing else *)
(* moves the row.                                                          *)
LEMMA ReadRowFits ==
  ASSUME NEW r \in Rows, NEW v \in AnyValue, ctx[r] \in Cells, NEW x,
         x = ReadRow(r, v, ctx[r].val)
  PROVE  /\ x \in ValuesOf(KindOf(r))
         /\ Fits(r, v) => Says(r, v, x)
         /\ ~Fits(r, v) => x = ctx[r].val
  <1> DEFINE old == ctx[r].val
             kind == KindOf(r)
  <1>1. kind \in AllKinds /\ old \in ValuesOf(kind)
    BY CellParts DEF KindOf
  <1>2. CASE kind \in NumberKinds
    <2>1. x = IF ~NoArray(r) /\ IsNumber(v) /\ Lo <= v.num /\ v.num <= Hi THEN v.num ELSE old
      BY <1>2 DEF ReadRow, NumberKinds, ReadOk, InRange, ToNumber
    <2>2. Fits(r, v) <=> ~NoArray(r) /\ \E n \in Lo .. Hi : v \in {LNum(n), LStr(n)}
      BY <1>2 DEF Fits, NumberKinds
    <2>3. Says(r, v, x) <=> v \in {LNum(x), LStr(x)}
      BY <1>2 DEF Says, NumberKinds
    <2>4. ValuesOf(kind) = Lo .. Hi
      BY <1>2 DEF ValuesOf, NumberKinds
    <2> HIDE DEF kind
    <2>5. CASE ~NoArray(r) /\ IsNumber(v) /\ Lo <= v.num /\ v.num <= Hi
      <3>1. v.num \in Lo .. Hi /\ x = v.num
        BY <2>1, <2>5, NumbersAre
      <3>2. QED
        BY <2>2, <2>3, <2>4, <2>5, <3>1, NumbersAre DEF kind
    <2>6. CASE ~(~NoArray(r) /\ IsNumber(v) /\ Lo <= v.num /\ v.num <= Hi)
      <3>1. x = old
        BY <2>1, <2>6
      <3>2. ~Fits(r, v)
        BY <2>2, <2>6, NumbersAre, EventCtxAssumption
      <3>3. QED
        BY <1>1, <3>1, <3>2 DEF kind
    <2>7. QED
      BY <2>5, <2>6
  <1>3. CASE kind = "flag" \/ kind = "inline"
    <2>1. BoolCell(v) \in {0, 1} /\ (BoolCell(v) = 1 <=> v \notin {LNil, LBool(FALSE)})
      <3> DEFINE False == LBool(FALSE)
      <3>1. BoolCell(v) = IF v # LNil /\ v # False THEN 1 ELSE 0
        BY DEF BoolCell, ToBoolean
      <3> HIDE DEF False
      <3>2. BoolCell(v) \in {0, 1} /\ (BoolCell(v) = 1 <=> v \notin {LNil, False})
        BY <3>1
      <3>3. QED
        BY <3>2 DEF False
    <2>2. Says(r, v, x) <=> (x = 1 <=> v \notin {LNil, LBool(FALSE)})
      BY <1>3 DEF Says, NumberKinds
    <2>3. ValuesOf(kind) = {0, 1}
      BY <1>3 DEF ValuesOf, NumberKinds
    <2>4. x = IF kind = "inline" \/ v # LNil THEN BoolCell(v) ELSE old
      BY <1>3 DEF ReadRow, NumberKinds, ReadOk
    <2>5. Fits(r, v) <=> kind = "inline" \/ v # LNil
      BY <1>3 DEF Fits, NumberKinds
    <2>6. QED
      BY <1>1, <2>1, <2>2, <2>3, <2>4, <2>5
  <1>4. CASE kind = "object"
    <2>1. x = IF v = LNil THEN NullObj ELSE IF Resolves(v) THEN v.obj ELSE old
      BY <1>4 DEF ReadRow, NumberKinds
    <2>2. Fits(r, v) <=> v = LNil \/ \E o \in Objects : v = LHandle(o, "row", epoch)
      BY <1>4 DEF Fits, NumberKinds
    <2>3. Says(r, v, x) <=> IF v = LNil THEN x = NullObj ELSE v.obj = x
      BY <1>4 DEF Says, NumberKinds
    <2>4. Resolves(v) => v.obj \in Objects /\ v = LHandle(v.obj, "row", epoch)
      BY DEF Resolves, AnyValue, Numbers, Handles, Plain, LHandle
    <2>5. \A o \in Objects : v = LHandle(o, "row", epoch) => Resolves(v) /\ v # LNil
      BY DEF Resolves, LHandle, LNil
    <2>6. ValuesOf(kind) = Objects \cup {NullObj}
      BY <1>4 DEF ValuesOf, NumberKinds
    <2> HIDE DEF kind
    <2>7. QED
      BY <1>1, <2>1, <2>2, <2>3, <2>4, <2>5, <2>6 DEF kind
  <1>5. CASE kind \in {"value", "podin", "handle", "elapsed"}
    <2>1. x = old /\ ~Fits(r, v)
      BY <1>5 DEF ReadRow, Fits, NumberKinds
    <2>2. QED
      BY <1>1, <2>1
  <1>6. QED
    BY <1>1, <1>2, <1>3, <1>4, <1>5 DEF AllKinds, NumberKinds

-----------------------------------------------------------------------------
(* During the handlers, the history has the context as it is; a row that   *)
(* neither the handlers nor the engine wrote stands in the event table as  *)
(* it was pushed, perhaps with a handle that went stale since.             *)
PushedAt(r, e) ==
  IF ctx[r].ptr = "null" \/ NoArray(r) THEN LNil
  ELSE IF KindOf(r) \in {"handle", "object"}
       THEN IF ctx[r].val = NullObj THEN LNil ELSE LHandle(ctx[r].val, "row", e)
  ELSE IF KindOf(r) \in {"flag", "inline"} THEN LBool(ctx[r].val = 1)
  ELSE LNum(ctx[r].val)

Handling ==
  phase = "handlers" =>
    /\ given.ctx = ctx
    /\ \A r \in Rows :
         /\ ctx[r].ptr # "wild"
         /\ r \notin assigned \cup changed => \E e \in 0 .. epoch : event[r] = PushedAt(r, e)

IInv ==
  /\ TypeOK
  /\ array \in [ptr : Pointers, word : Words]
  /\ event \in [Rows -> AnyValue]
  /\ field \in [table : BOOLEAN, word : [1 .. WordCount -> AnyValue]]
  /\ given \in [ctx : [Rows -> Cells], word : Words]
  /\ Handling /\ RowsArrive

LEMMA PushedFits ==
  ASSUME NEW r \in Rows, NEW e \in 0 .. epoch, epoch \in Nat, ctx[r] \in Cells
  PROVE  /\ PushedAt(r, e) \in AnyValue
         /\ ctx[r].ptr # "null" => ReadRow(r, PushedAt(r, e), ctx[r].val) = ctx[r].val
  <1> DEFINE cell == ctx[r]
             kind == KindOf(r)
  <1>1. kind \in AllKinds /\ cell.val \in ValuesOf(kind)
    BY CellParts DEF KindOf
  <1> USE ValuesAre, EventCtxAssumption
  <1>2. CASE cell.ptr = "null" \/ NoArray(r)
    <2>1. PushedAt(r, e) = LNil
      BY <1>2 DEF PushedAt
    <2>2. ASSUME NoArray(r) PROVE ReadRow(r, LNil, cell.val) = cell.val
      BY <2>2 DEF ReadRow, NoArray, NumberKinds
    <2>3. QED
      BY <1>2, <2>1, <2>2
  <1>3. CASE ~(cell.ptr = "null" \/ NoArray(r)) /\ kind \in {"handle", "object"}
    <2>1. cell.val \in Objects \cup {NullObj}
      BY <1>1, <1>3 DEF ValuesOf, NumberKinds
    <2>2. CASE cell.val = NullObj
      <3>1. PushedAt(r, e) = LNil
        BY <1>3, <2>2 DEF PushedAt
      <3>2. ReadRow(r, LNil, cell.val) = cell.val
        BY <1>3, <2>2 DEF ReadRow, NumberKinds
      <3>3. QED
        BY <3>1, <3>2
    <2>3. CASE cell.val \in Objects
      <3> DEFINE h == LHandle(cell.val, "row", e)
      <3>1. PushedAt(r, e) = h /\ h \in AnyValue
        BY <1>3, <2>3 DEF PushedAt
      <3>2. h.obj = cell.val /\ h # LNil
        BY DEF LHandle, LNil
      <3> HIDE DEF h
      <3>3. ReadRow(r, h, cell.val) = cell.val
        BY <1>3, <3>2 DEF ReadRow, NumberKinds
      <3>4. QED
        BY <3>1, <3>3
    <2>4. QED
      BY <2>1, <2>2, <2>3
  <1>4. CASE ~(cell.ptr = "null" \/ NoArray(r)) /\ kind \in {"flag", "inline"}
    <2>1. cell.val \in {0, 1}
      BY <1>1, <1>4 DEF ValuesOf, NumberKinds
    <2>2. PushedAt(r, e) = LBool(cell.val = 1) /\ LBool(cell.val = 1) \in AnyValue
      BY <1>4 DEF PushedAt
    <2>3. LBool(TRUE) # LNil /\ LBool(TRUE) # LBool(FALSE) /\ LBool(FALSE) # LNil
      BY DEF LBool, LNil
    <2>4. BoolCell(LBool(TRUE)) = 1 /\ BoolCell(LBool(FALSE)) = 0
      BY <2>3 DEF BoolCell, ToBoolean
    <2>5. \A v : v # LNil => ReadRow(r, v, cell.val) = BoolCell(v)
      BY <1>4 DEF ReadRow, NumberKinds, ReadOk
    <2>6. CASE cell.val = 1
      BY <2>2, <2>3, <2>4, <2>5, <2>6
    <2>7. CASE cell.val = 0
      BY <2>2, <2>3, <2>4, <2>5, <2>7
    <2>8. QED
      BY <2>1, <2>6, <2>7
  <1>5. CASE ~(cell.ptr = "null" \/ NoArray(r)) /\ kind \notin {"handle", "object", "flag", "inline"}
    <2>1. cell.val \in Lo .. Hi
      BY <1>1, <1>5 DEF ValuesOf, NumberKinds, AllKinds
    <2>2. PushedAt(r, e) = LNum(cell.val) /\ LNum(cell.val) \in AnyValue
      BY <1>5, <2>1 DEF PushedAt
    <2>3. IsNumber(LNum(cell.val)) /\ LNum(cell.val).num = cell.val
      BY DEF LNum, IsNumber
    <2>4. ReadRow(r, LNum(cell.val), cell.val) = cell.val
      BY <1>5, <2>3 DEF ReadRow, NumberKinds, ReadOk, ToNumber
    <2>5. QED
      BY <2>2, <2>4
  <1>6. QED
    BY <1>2, <1>3, <1>4, <1>5

-----------------------------------------------------------------------------
(* The words of the bit array.                                             *)

LEMMA WordMaxIsInt == WordMax \in Int /\ \A b \in Nat : 2 ^ (b % WordBits) \in Int
  BY EventCtxAssumption DEF WordMax

LEMMA WordOfFits ==
  ASSUME NEW b \in 0 .. WordBits * WordCount - 1
  PROVE  b \in Nat /\ WordOf(b) \in 1 .. WordCount
  <1>1. b \in Nat /\ b <= WordBits * WordCount - 1 /\ WordBits \in Nat \ {0} /\ WordCount \in Nat \ {0}
    BY EventCtxAssumption
  <1>2. b \div WordBits \in Nat /\ WordBits * (b \div WordBits) <= b
    BY <1>1
  <1>3. ASSUME b \div WordBits >= WordCount PROVE FALSE
    <2>1. WordBits * (b \div WordBits) >= WordBits * WordCount
      BY <1>1, <1>2, <1>3
    <2>2. WordBits * WordCount \in Int /\ WordBits * (b \div WordBits) \in Int
      BY <1>1, <1>2
    <2>3. QED
      BY <1>1, <1>2, <2>1, <2>2
  <1>4. QED
    BY <1>1, <1>2, <1>3 DEF WordOf

LEMMA ToWordFits ==
  ASSUME NEW v \in AnyValue, NEW w \in 0 .. WordMax
  PROVE  ToWord(v, w) \in 0 .. WordMax
  <1>1. ToNumber(v) \in Int
    BY NumbersAre DEF ToNumber
  <1>2. QED
    BY <1>1, WordMaxIsInt DEF ToWord, InRange

LEMMA NewWordIsNumber ==
  ASSUME NEW v \in AnyValue, NEW b \in Nat, NEW on
  PROVE  WithBit(ToWord(v, 0), b, on) \in Int
  <1>1. ToWord(v, 0) \in Int
    BY NumbersAre DEF ToWord, ToNumber, InRange
  <1>2. QED
    BY <1>1, WordMaxIsInt DEF WithBit

-----------------------------------------------------------------------------
LEMMA TypeInit == Init => IInv
  <1> SUFFICES ASSUME Init PROVE IInv
    OBVIOUS
  <1> USE EventCtxAssumption DEF Init
  <1>1. LNil \in AnyValue
    BY ValuesAre
  <1>2. event \in [Rows -> AnyValue]
    BY <1>1
  <1>3. field \in [table : BOOLEAN, word : [1 .. WordCount -> AnyValue]]
    BY <1>1 DEF NoFieldTable
  <1>4. asked \in [0 .. BitMax -> {"nothing", "on", "off"}]
    BY DEF Nothing
  <1>5. TypeOK
    <2>1. epoch \in Nat /\ steps \in 0 .. MaxSteps /\ dispatches \in 0 .. MaxDispatches
      OBVIOUS
    <2>2. /\ array.ptr \in Pointers /\ array.word \in Words
          /\ phase \in {"engine", "handlers", "disabled"}
          /\ field.table \in BOOLEAN
      BY <1>3
    <2>3. rawWords \in BOOLEAN /\ replaced \in {"no", "table", "gone"}
      OBVIOUS
    <2>4. QED
      BY <1>4, <2>1, <2>2, <2>3 DEF TypeOK
  <1>6. given \in [ctx : [Rows -> Cells], word : Words]
    OBVIOUS
  <1>7. Handling /\ RowsArrive
    BY DEF Handling, RowsArrive
  <1>8. QED
    BY <1>2, <1>3, <1>5, <1>6, <1>7 DEF IInv

LEMMA PushKeepsInv == ASSUME IInv, PushEvent PROVE IInv'
  <1> USE DEF IInv
  <1>1. /\ ~Implausible /\ dispatches < MaxDispatches /\ phase' = "handlers"
        /\ event' = [r \in Rows |-> PushRow(r)] /\ field' = PushWords
        /\ dispatches' = dispatches + 1 /\ steps' = 0
        /\ given' = [ctx |-> ctx, word |-> array.word]
        /\ assigned' = {} /\ changed' = {} /\ asked' = Nothing
        /\ rawWords' = FALSE /\ replaced' = "no"
        /\ UNCHANGED <<ctx, touchKnown, array, epoch>>
    BY DEF PushEvent
  <1>2. epoch \in Nat /\ epoch \in 0 .. epoch
    BY DEF TypeOK
  <1>3. ASSUME NEW r \in Rows
        PROVE  PushRow(r) = PushedAt(r, epoch) /\ PushRow(r) \in AnyValue /\ ctx[r].ptr # "wild"
    <2>1. PushRow(r) = PushedAt(r, epoch)
      BY DEF PushRow, PushedAt
    <2>2. ctx[r] \in Cells
      BY DEF TypeOK
    <2>3. QED
      BY <1>1, <1>2, <2>1, <2>2, PushedFits DEF Implausible
  <1>4. field' \in [table : BOOLEAN, word : [1 .. WordCount -> AnyValue]]
    <2> SUFFICES ASSUME NEW i \in 1 .. WordCount
                 PROVE  LNum(IF array.ptr = "null" THEN 0 ELSE array.word[i]) \in AnyValue
      BY <1>1 DEF PushWords, FieldTable
    <2>1. array.word[i] \in 0 .. WordMax
      BY DEF TypeOK, Words
    <2>2. array.word[i] \in Int
      BY <2>1, WordMaxIsInt
    <2>3. QED
      BY <1>2, <2>2, ValuesAre
  <1>5. given' \in [ctx : [Rows -> Cells], word : Words] /\ array' \in [ptr : Pointers, word : Words]
    BY <1>1 DEF TypeOK
  <1>6. event' \in [Rows -> AnyValue]
    BY <1>1, <1>3
  <1>7. TypeOK'
    <2>1. asked' \in [0 .. BitMax -> {"nothing", "on", "off"}]
      BY <1>1 DEF Nothing
    <2>2. dispatches' \in 0 .. MaxDispatches /\ steps' \in 0 .. MaxSteps
      BY <1>1, EventCtxAssumption DEF TypeOK
    <2>3. field'.table \in BOOLEAN /\ rawWords' \in BOOLEAN /\ replaced' \in {"no", "table", "gone"}
      BY <1>1, <1>4
    <2>4. QED
      BY <1>1, <2>1, <2>2, <2>3 DEF TypeOK
  <1>8. Handling'
    <2>1. given'.ctx = ctx'
      BY <1>1
    <2>2. ASSUME NEW r \in Rows PROVE event'[r] = PushedAt(r, epoch)'
      BY <1>1, <1>3, <2>2 DEF PushedAt, KindOf, NoArray
    <2>3. QED
      BY <1>1, <1>2, <1>3, <2>1, <2>2 DEF Handling
  <1>9. RowsArrive'
    BY <1>1 DEF RowsArrive
  <1>10. QED
    BY <1>4, <1>5, <1>6, <1>7, <1>8, <1>9

LEMMA ReadBackKeepsInv == ASSUME IInv, ReadBack PROVE IInv'
  <1> USE DEF IInv
  <1>1. /\ phase = "handlers" /\ phase' = "engine"
        /\ ctx' = [r \in Rows |-> IF KindOf(r) \in WritableKinds /\ ctx[r].ptr # "null"
                                  THEN [ctx[r] EXCEPT !.val = ReadRow(r, event[r], @)]
                                  ELSE ctx[r]]
        /\ array' = [array EXCEPT !.word = ReadWords]
        /\ UNCHANGED <<touchKnown, event, field, epoch, steps, dispatches, given, assigned,
                        changed, asked, rawWords, replaced>>
    BY DEF ReadBack, history
  <1>2. given.ctx = ctx /\ epoch \in Nat
    BY <1>1 DEF Handling, TypeOK
  <1>3. ASSUME NEW r \in Rows
        PROVE  /\ ctx'[r] \in Cells /\ ctx'[r].kind = ctx[r].kind /\ ctx'[r].ptr = ctx[r].ptr
               /\ IF ctx[r].ptr = "good" /\ Fits(r, event[r])
                  THEN Says(r, event[r], ctx'[r].val)
                  ELSE ctx'[r] = ctx[r]
               /\ r \notin assigned \cup changed => ctx'[r] = ctx[r]
    <2> DEFINE cell == ctx[r]
               x == ReadRow(r, event[r], cell.val)
    <2>1. cell \in Cells /\ event[r] \in AnyValue /\ cell.ptr # "wild"
      BY <1>1 DEF TypeOK, Handling
    <2>2. /\ x \in ValuesOf(cell.kind)
          /\ Fits(r, event[r]) => Says(r, event[r], x)
          /\ ~Fits(r, event[r]) => x = cell.val
      BY <2>1, ReadRowFits DEF KindOf
    <2>3. Fits(r, event[r]) => KindOf(r) \in WritableKinds
      BY <2>1, CellParts DEF Fits, WritableKinds, NumberKinds, KindOf, AllKinds
    <2>4. r \notin assigned \cup changed /\ cell.ptr # "null" => x = cell.val
      BY <1>1, <1>2, <2>1, PushedFits DEF Handling
    <2>5. ctx'[r] = IF KindOf(r) \in WritableKinds /\ cell.ptr # "null"
                    THEN [cell EXCEPT !.val = x] ELSE cell
      BY <1>1
    <2>6. /\ cell.ptr \in {"null", "good"}
          /\ [cell EXCEPT !.val = x] \in Cells /\ [cell EXCEPT !.val = cell.val] = cell
      BY <2>1, <2>2, CellParts DEF Pointers
    <2>7. [cell EXCEPT !.val = x].kind = cell.kind /\ [cell EXCEPT !.val = x].ptr = cell.ptr
          /\ [cell EXCEPT !.val = x].val = x
      <3>1. DOMAIN cell = {"kind", "ptr", "val"}
        BY <2>1 DEF Cells
      <3>2. QED
        BY <3>1
    <2> HIDE DEF cell, x
    <2>8. CASE KindOf(r) \in WritableKinds /\ cell.ptr # "null"
      <3>1. ctx'[r] = [cell EXCEPT !.val = x] /\ cell.ptr = "good"
        BY <2>5, <2>6, <2>8
      <3>2. x = cell.val => ctx'[r] = cell
        BY <2>6, <3>1
      <3>3. QED
        BY <2>2, <2>4, <2>6, <2>7, <2>8, <3>1, <3>2 DEF cell
    <2>9. CASE ~(KindOf(r) \in WritableKinds /\ cell.ptr # "null")
      <3>1. ctx'[r] = cell
        BY <2>5, <2>9
      <3>2. QED
        BY <2>1, <2>3, <2>9, <3>1 DEF cell
    <2>10. QED
      BY <2>8, <2>9
  <1>4. ReadWords \in Words
    <2>1. array.word \in [1 .. WordCount -> 0 .. WordMax] /\ Words = [1 .. WordCount -> 0 .. WordMax]
      BY DEF TypeOK, Words
    <2>2. ASSUME NEW i \in 1 .. WordCount PROVE ToWord(field.word[i], array.word[i]) \in 0 .. WordMax
      <3>1. field.word[i] \in AnyValue /\ array.word[i] \in 0 .. WordMax
        BY <2>1
      <3>2. QED
        BY <3>1, ToWordFits
    <2>3. QED
      BY <2>1, <2>2 DEF ReadWords
  <1>5. array' \in [ptr : Pointers, word : Words]
    BY <1>1, <1>4
  <1>6. ctx' \in [Rows -> Cells]
    BY <1>1, <1>3
  <1>7. TypeOK'
    BY <1>1, <1>5, <1>6 DEF TypeOK
  <1>8. Handling'
    BY <1>1 DEF Handling
  <1>9. RowsArrive'
    <2> SUFFICES ASSUME NEW r \in Rows
                 PROVE  /\ IF ctx'[r].ptr = "good" /\ Fits(r, event[r])'
                           THEN Says(r, event[r], ctx[r].val)'
                           ELSE ctx'[r] = ctx[r]
                        /\ r \notin assigned \cup changed => ctx'[r] = ctx[r]
      BY <1>1, <1>2 DEF RowsArrive
    <2>1. KindOf(r)' = KindOf(r) /\ NoArray(r)' = NoArray(r)
      BY <1>1, <1>3 DEF KindOf, NoArray
    <2>2. Fits(r, event[r])' = Fits(r, event[r])
      BY <1>1, <2>1 DEF Fits
    <2>3. Says(r, event[r], ctx[r].val)' = Says(r, event[r], ctx'[r].val)
      BY <1>1, <2>1 DEF Says
    <2>4. QED
      BY <1>3, <2>2, <2>3
  <1>10. QED
    BY <1>1, <1>5, <1>6, <1>7, <1>8, <1>9

LEMMA RefuseKeepsInv == ASSUME IInv, Refuse PROVE IInv'
  <1> USE DEF IInv
  <1>1. phase' = "disabled" /\ UNCHANGED <<data, steps, dispatches, history>>
    BY DEF Refuse
  <1>2. TypeOK'
    BY <1>1 DEF TypeOK, data, history
  <1>3. Handling' /\ RowsArrive'
    BY <1>1 DEF Handling, RowsArrive
  <1>4. QED
    BY <1>1, <1>2, <1>3 DEF data, history

(* A statement leaves the context alone, and does not return.              *)
LEMMA StatementKeepsRest ==
  ASSUME IInv, Step,
         UNCHANGED <<phase, ctx, touchKnown, array, dispatches, given>>,
         event' \in [Rows -> AnyValue],
         field' \in [table : BOOLEAN, word : [1 .. WordCount -> AnyValue]],
         epoch' \in Nat /\ epoch <= epoch',
         assigned \subseteq assigned' /\ assigned' \subseteq Rows, changed' = changed,
         asked' \in [0 .. BitMax -> {"nothing", "on", "off"}],
         rawWords' \in BOOLEAN /\ replaced' \in {"no", "table", "gone"},
         \A r \in Rows : r \notin assigned' => event'[r] = event[r]
  PROVE  IInv'
  <1> USE DEF IInv
  <1>1. phase = "handlers" /\ phase' = "handlers" /\ steps' \in 0 .. MaxSteps
    BY EventCtxAssumption DEF Step, TypeOK
  <1>2. TypeOK'
    BY <1>1 DEF TypeOK
  <1>3. Handling'
    <2> SUFFICES ASSUME NEW r \in Rows, r \notin assigned' \cup changed'
                 PROVE  \E e \in 0 .. epoch' : event'[r] = PushedAt(r, e)'
      BY <1>1 DEF Handling
    <2>1. PICK e \in 0 .. epoch : event[r] = PushedAt(r, e)
      BY <1>1 DEF Handling
    <2>2. e \in 0 .. epoch'
      BY DEF TypeOK
    <2>3. PushedAt(r, e)' = PushedAt(r, e)
      BY DEF PushedAt, KindOf, NoArray
    <2>4. QED
      BY <2>1, <2>2, <2>3
  <1>4. RowsArrive'
    BY <1>1 DEF RowsArrive
  <1>5. QED
    BY <1>2, <1>3, <1>4

LEMMA AssignKeepsInv == ASSUME NEW r \in Rows, NEW v \in LuaValues, IInv, Assign(r, v) PROVE IInv'
  <1>1. /\ Step /\ event' = [event EXCEPT ![r] = v] /\ assigned' = assigned \cup {r}
        /\ UNCHANGED <<phase, ctx, touchKnown, array, field, epoch, dispatches, given, changed,
                       asked, rawWords, replaced>>
    BY DEF Assign
  <1>2. v \in AnyValue /\ epoch \in Nat
    BY ValuesAre DEF IInv, TypeOK
  <1>3. event' \in [Rows -> AnyValue]
    BY <1>1, <1>2 DEF IInv
  <1>4. \A q \in Rows : q \notin assigned' => event'[q] = event[q]
    BY <1>1 DEF IInv
  <1>5. assigned \subseteq assigned' /\ assigned' \subseteq Rows
    BY <1>1 DEF IInv, TypeOK
  <1>6. /\ field' \in [table : BOOLEAN, word : [1 .. WordCount -> AnyValue]]
        /\ asked' \in [0 .. BitMax -> {"nothing", "on", "off"}]
        /\ rawWords' \in BOOLEAN /\ replaced' \in {"no", "table", "gone"}
    BY <1>1 DEF IInv, TypeOK
  <1>7. epoch' \in Nat /\ epoch <= epoch'
    BY <1>1, <1>2
  <1>8. QED
    BY <1>1, <1>3, <1>4, <1>5, <1>6, <1>7, StatementKeepsRest

(* What the methods and the assignments to the bits' field leave of it.    *)
LEMMA FieldKeepsInv ==
  ASSUME IInv, Step,
         UNCHANGED <<phase, ctx, touchKnown, array, event, epoch, dispatches, given, assigned, changed>>,
         field' \in [table : BOOLEAN, word : [1 .. WordCount -> AnyValue]],
         asked' \in [0 .. BitMax -> {"nothing", "on", "off"}],
         rawWords' \in BOOLEAN /\ replaced' \in {"no", "table", "gone"}
  PROVE  IInv'
  <1>1. event' \in [Rows -> AnyValue] /\ assigned' \subseteq Rows
    BY DEF IInv, TypeOK
  <1>2. epoch' \in Nat /\ epoch <= epoch'
    BY DEF IInv, TypeOK
  <1>3. QED
    BY <1>1, <1>2, StatementKeepsRest

LEMMA BitSetKeepsInv ==
  ASSUME NEW b \in (0 .. BitMax) \cup BadBits, NEW on \in BOOLEAN, IInv, BitSet(b, on)
  PROVE  IInv'
  <1>1. /\ Step
        /\ UNCHANGED <<phase, ctx, touchKnown, array, event, epoch, dispatches, given, assigned,
                       changed, rawWords, replaced>>
    BY DEF BitSet
  <1>2. CASE b \in 0 .. BitMax /\ field.table
    <2> DEFINE new == LNum(WithBit(ToWord(field.word[WordOf(b)], 0), b, on))
    <2>1. field' = [field EXCEPT !.word[WordOf(b)] = new]
      BY <1>2 DEF BitSet
    <2>2. asked' = [asked EXCEPT ![b] = IF on THEN "on" ELSE "off"]
      BY <1>2 DEF BitSet
    <2>3. b \in Nat /\ WordOf(b) \in 1 .. WordCount
      BY <1>2, EventCtxAssumption, WordOfFits
    <2>4. new \in AnyValue
      <3>1. field.word[WordOf(b)] \in AnyValue /\ epoch \in Nat
        BY <2>3 DEF IInv, TypeOK
      <3>2. QED
        BY <2>3, <3>1, NewWordIsNumber, ValuesAre
    <2> HIDE DEF new
    <2>5. field' \in [table : BOOLEAN, word : [1 .. WordCount -> AnyValue]]
      BY <2>1, <2>4 DEF IInv
    <2>6. /\ asked' \in [0 .. BitMax -> {"nothing", "on", "off"}]
          /\ rawWords' \in BOOLEAN /\ replaced' \in {"no", "table", "gone"}
      BY <1>1, <1>2, <2>2 DEF IInv, TypeOK
    <2>7. QED
      BY <1>1, <2>5, <2>6, FieldKeepsInv
  <1>3. CASE ~(b \in 0 .. BitMax /\ field.table)
    <2>1. UNCHANGED <<field, asked>>
      BY <1>3 DEF BitSet
    <2>2. /\ field' \in [table : BOOLEAN, word : [1 .. WordCount -> AnyValue]]
          /\ asked' \in [0 .. BitMax -> {"nothing", "on", "off"}]
          /\ rawWords' \in BOOLEAN /\ replaced' \in {"no", "table", "gone"}
      BY <1>1, <2>1 DEF IInv, TypeOK
    <2>3. QED
      BY <1>1, <2>2, FieldKeepsInv
  <1>4. QED
    BY <1>2, <1>3

LEMMA FieldWritesKeepInv ==
  ASSUME IInv, ReplaceField \/ \E i \in 1 .. WordCount, v \in LuaValues : AssignWord(i, v)
  PROVE  IInv'
  <1>1. CASE ReplaceField
    <2>1. LNil \in AnyValue
      BY ValuesAre DEF IInv, TypeOK
    <2>2. field' \in [table : BOOLEAN, word : [1 .. WordCount -> AnyValue]]
      <3>1. CASE field' = NoFieldTable
        BY <2>1, <3>1 DEF NoFieldTable
      <3>2. CASE field' = FieldTable(NoFieldTable.word)
        BY <2>1, <3>2 DEF FieldTable, NoFieldTable
      <3>3. QED
        BY <1>1, <3>1, <3>2 DEF ReplaceField
    <2>3. /\ asked' \in [0 .. BitMax -> {"nothing", "on", "off"}]
          /\ rawWords' \in BOOLEAN /\ replaced' \in {"no", "table", "gone"}
      BY <1>1 DEF ReplaceField, Nothing
    <2>4. /\ Step
          /\ UNCHANGED <<phase, ctx, touchKnown, array, event, epoch, dispatches, given, assigned, changed>>
      BY <1>1 DEF ReplaceField
    <2>5. QED
      BY <2>2, <2>3, <2>4, FieldKeepsInv
  <1>2. ASSUME NEW i \in 1 .. WordCount, NEW v \in LuaValues, AssignWord(i, v) PROVE IInv'
    <2>1. v \in AnyValue
      BY ValuesAre DEF IInv, TypeOK
    <2>2. field' \in [table : BOOLEAN, word : [1 .. WordCount -> AnyValue]]
      BY <1>2, <2>1 DEF AssignWord, IInv
    <2>3. /\ asked' \in [0 .. BitMax -> {"nothing", "on", "off"}]
          /\ rawWords' \in BOOLEAN /\ replaced' \in {"no", "table", "gone"}
      BY <1>2 DEF AssignWord, IInv, TypeOK
    <2>4. /\ Step
          /\ UNCHANGED <<phase, ctx, touchKnown, array, event, epoch, dispatches, given, assigned, changed>>
      BY <1>2 DEF AssignWord
    <2>5. QED
      BY <2>2, <2>3, <2>4, FieldKeepsInv
  <1>3. QED
    BY <1>1, <1>2

LEMMA InvalidateAllKeepsInv == ASSUME IInv, InvalidateAll PROVE IInv'
  <1>1. /\ Step /\ epoch' = epoch + 1
        /\ UNCHANGED <<phase, ctx, touchKnown, array, event, field, dispatches, given, assigned,
                       changed, asked, rawWords, replaced>>
    BY DEF InvalidateAll, history
  <1>2. /\ epoch' \in Nat /\ epoch <= epoch'
        /\ event' \in [Rows -> AnyValue] /\ assigned' \subseteq Rows
        /\ field' \in [table : BOOLEAN, word : [1 .. WordCount -> AnyValue]]
        /\ asked' \in [0 .. BitMax -> {"nothing", "on", "off"}]
        /\ rawWords' \in BOOLEAN /\ replaced' \in {"no", "table", "gone"}
    BY <1>1 DEF IInv, TypeOK
  <1>3. QED
    BY <1>1, <1>2, StatementKeepsRest

LEMMA EngineWritesKeepsInv == ASSUME NEW r \in Rows, IInv, EngineWrites(r) PROVE IInv'
  <1> USE DEF IInv
  <1>1. PICK v \in ValuesOf(KindOf(r)) :
          ctx' = [ctx EXCEPT ![r].val = v] /\ given' = [given EXCEPT !.ctx[r].val = v]
    BY DEF EngineWrites
  <1>2. /\ Step /\ changed' = changed \cup {r}
        /\ UNCHANGED <<phase, touchKnown, array, event, field, epoch, dispatches, assigned, asked,
                       rawWords, replaced>>
    BY DEF EngineWrites
  <1>3. phase = "handlers" /\ phase' = "handlers" /\ steps' \in 0 .. MaxSteps /\ given.ctx = ctx
    BY <1>2, EventCtxAssumption DEF Step, TypeOK, Handling
  <1>4. ctx[r] \in Cells /\ ctx \in [Rows -> Cells]
    BY DEF TypeOK
  <1>5. [ctx[r] EXCEPT !.val = v] \in Cells /\ [ctx[r] EXCEPT !.val = v].ptr = ctx[r].ptr
    <2>1. DOMAIN ctx[r] = {"kind", "ptr", "val"}
      BY <1>4 DEF Cells
    <2>2. [ctx[r] EXCEPT !.val = v].ptr = ctx[r].ptr
      BY <2>1
    <2>3. QED
      BY <1>4, <2>2, CellParts DEF KindOf
  <1>6. ctx' = [ctx EXCEPT ![r] = [ctx[r] EXCEPT !.val = v]]
    BY <1>1
  <1> DEFINE new == [ctx[r] EXCEPT !.val = v]
  <1>7. given'.ctx = [ctx EXCEPT ![r] = new] /\ given'.word = given.word
    BY <1>1, <1>3
  <1>8. given' = [ctx |-> given'.ctx, word |-> given'.word]
    BY <1>1
  <1>9. new \in Cells /\ new.ptr = ctx[r].ptr /\ ctx' = [ctx EXCEPT ![r] = new]
    BY <1>5, <1>6
  <1> HIDE DEF new
  <1>10. ctx' \in [Rows -> Cells] /\ given'.ctx = ctx'
    BY <1>4, <1>7, <1>9
  <1>11. given' \in [ctx : [Rows -> Cells], word : Words]
    BY <1>7, <1>8, <1>10
  <1>12. TypeOK'
    BY <1>2, <1>3, <1>10 DEF TypeOK
  <1>13. Handling'
    <2> SUFFICES ASSUME NEW q \in Rows
                 PROVE  /\ ctx'[q].ptr # "wild"
                        /\ q \notin assigned' \cup changed' => \E e \in 0 .. epoch' : event'[q] = PushedAt(q, e)'
      BY <1>10 DEF Handling
    <2>1. CASE q = r
      BY <1>2, <1>3, <1>4, <1>9, <2>1 DEF Handling
    <2>2. CASE q # r
      <3>1. ctx'[q] = ctx[q]
        BY <1>4, <1>9, <2>2
      <3>2. ASSUME NEW e \in 0 .. epoch PROVE PushedAt(q, e)' = PushedAt(q, e)
        BY <1>2, <3>1 DEF PushedAt, KindOf, NoArray
      <3>3. ctx[q].ptr # "wild" /\ (q \notin assigned \cup changed =>
                                      \E e \in 0 .. epoch : event[q] = PushedAt(q, e))
        BY <1>3 DEF Handling
      <3>4. QED
        BY <1>2, <3>1, <3>2, <3>3
    <2>3. QED
      BY <2>1, <2>2
  <1>14. RowsArrive'
    BY <1>3 DEF RowsArrive
  <1>15. QED
    BY <1>2, <1>11, <1>12, <1>13, <1>14

LEMMA InvNext == IInv /\ [Next]_vars => IInv'
  <1>1. ASSUME IInv, UNCHANGED vars PROVE IInv'
    <2> USE DEF IInv, vars
    <2>1. TypeOK'
      BY <1>1 DEF TypeOK
    <2>2. Handling'
      BY <1>1 DEF Handling, PushedAt, KindOf, NoArray
    <2>3. RowsArrive'
      BY <1>1 DEF RowsArrive, Fits, Says, KindOf, NoArray
    <2>4. QED
      BY <1>1, <2>1, <2>2, <2>3
  <1>2. QED
    BY <1>1, RefuseKeepsInv, PushKeepsInv, ReadBackKeepsInv, AssignKeepsInv, BitSetKeepsInv,
       FieldWritesKeepInv, EngineWritesKeepsInv, InvalidateAllKeepsInv DEF Next

-----------------------------------------------------------------------------
(* Powers of two, and numbers as rows of bits.                             *)

(* A power of two counts the subsets of a set; so it is positive, and that *)
(* of a sum is the product.                                                *)
LEMMA PowerCounts ==
  ASSUME NEW n \in Nat
  PROVE  /\ IsFiniteSet(SUBSET (1 .. n)) /\ Cardinality(SUBSET (1 .. n)) = 2 ^ n
         /\ 2 ^ n \in Nat \ {0}
  <1>1. IsFiniteSet(1 .. n) /\ Cardinality(1 .. n) = n
    BY FS_Interval
  <1>2. IsFiniteSet(SUBSET (1 .. n)) /\ Cardinality(SUBSET (1 .. n)) = 2 ^ n
    BY <1>1, FS_SUBSET
  <1>3. 2 ^ n \in Nat
    BY <1>2, FS_CardinalityType
  <1>4. SUBSET (1 .. n) # {}
    OBVIOUS
  <1>5. 2 ^ n # 0
    BY <1>2, <1>4, FS_EmptySet
  <1>6. QED
    BY <1>2, <1>3, <1>5

LEMMA PowerOfSum ==
  ASSUME NEW m \in Nat, NEW n \in Nat
  PROVE  2 ^ (m + n) = 2 ^ m * 2 ^ n
  <1> DEFINE S == 1 .. m
             T == (m + 1) .. (m + n)
             U == 1 .. (m + n)
             f == [p \in (SUBSET S) \X (SUBSET T) |-> p[1] \cup p[2]]
  <1>1. /\ IsFiniteSet(SUBSET S) /\ Cardinality(SUBSET S) = 2 ^ m
        /\ IsFiniteSet(SUBSET U) /\ Cardinality(SUBSET U) = 2 ^ (m + n)
    BY PowerCounts
  <1>2. IsFiniteSet(SUBSET T) /\ Cardinality(SUBSET T) = 2 ^ n
    <2>1. IsFiniteSet(T) /\ Cardinality(T) = n
      BY FS_Interval
    <2>2. QED
      BY <2>1, FS_SUBSET
  <1>3. /\ IsFiniteSet((SUBSET S) \X (SUBSET T))
        /\ Cardinality((SUBSET S) \X (SUBSET T)) = 2 ^ m * 2 ^ n
    <2> DEFINE A == SUBSET S
               B == SUBSET T
    <2>1. IsFiniteSet(A) /\ Cardinality(A) = 2 ^ m /\ IsFiniteSet(B) /\ Cardinality(B) = 2 ^ n
      BY <1>1, <1>2
    <2> HIDE DEF A, B
    <2>2. IsFiniteSet(A \X B) /\ Cardinality(A \X B) = Cardinality(A) * Cardinality(B)
      BY <2>1, FS_Product
    <2>3. Cardinality(A \X B) = 2 ^ m * 2 ^ n
      BY <2>1, <2>2, Zenon
    <2>4. QED
      BY <2>2, <2>3 DEF A, B
  <1>4. S \cap T = {} /\ S \cup T = U
    OBVIOUS
  <1> HIDE DEF S, T, U
  <1>5. f \in Bijection((SUBSET S) \X (SUBSET T), SUBSET U)
    <2>1. f \in [(SUBSET S) \X (SUBSET T) -> SUBSET U]
      BY <1>4
    <2>2. ASSUME NEW p \in (SUBSET S) \X (SUBSET T), NEW q \in (SUBSET S) \X (SUBSET T), f[p] = f[q]
          PROVE  p = q
      <3>1. p[1] \cup p[2] = q[1] \cup q[2]
        BY <2>2
      <3>2. p[1] \subseteq S /\ q[1] \subseteq S /\ p[2] \subseteq T /\ q[2] \subseteq T
        OBVIOUS
      <3>3. p[1] = q[1] /\ p[2] = q[2]
        BY <1>4, <3>1, <3>2
      <3>4. QED
        BY <3>3
    <2>3. ASSUME NEW A \in SUBSET U PROVE \E p \in (SUBSET S) \X (SUBSET T) : f[p] = A
      <3>1. <<A \cap S, A \cap T>> \in (SUBSET S) \X (SUBSET T)
        OBVIOUS
      <3>2. f[<<A \cap S, A \cap T>>] = A
        BY <1>4, <3>1
      <3>3. QED
        BY <3>1, <3>2
    <2> HIDE DEF f
    <2>4. QED
      BY <2>1, <2>2, <2>3 DEF Bijection, Injection, Surjection, IsInjective
  <1>6. ExistsBijection((SUBSET S) \X (SUBSET T), SUBSET U)
    BY <1>5 DEF ExistsBijection
  <1>7. QED
    BY <1>1, <1>3, <1>6, FS_Bijection
(* A quotient is the one number that leaves a remainder.                   *)
LEMMA Quotient ==
  ASSUME NEW a \in Int, NEW d \in Nat \ {0}
  PROVE  /\ a \div d \in Int
         /\ \E r \in 0 .. d - 1 : a = d * (a \div d) + r
         /\ \A q \in Int, r \in 0 .. d - 1 : a = d * q + r => a \div d = q
  <1>1. a \div d \in Int /\ a % d \in 0 .. d - 1
    OBVIOUS
  <1>2. a = d * (a \div d) + (a % d)
    OBVIOUS
  <1>3. ASSUME NEW q \in Int, NEW r \in 0 .. d - 1, a = d * q + r PROVE a \div d = q
    BY <1>3
  <1>4. QED
    BY <1>1, <1>2, <1>3

(* Dividing twice is dividing by the product.                              *)
LEMMA QuotientOfProduct ==
  ASSUME NEW a \in Int, NEW d \in Nat \ {0}, NEW k \in Nat \ {0}
  PROVE  a \div (d * k) = (a \div d) \div k
  <1>1. PICK r \in 0 .. d - 1 : a = d * (a \div d) + r
    BY Quotient
  <1> DEFINE s == a \div d
  <1>2. s \in Int /\ a = d * s + r
    BY <1>1, Quotient
  <1> HIDE DEF s
  <1>3. PICK t \in 0 .. k - 1 : s = k * (s \div k) + t
    BY <1>2, Quotient
  <1> DEFINE u == s \div k
  <1>4. u \in Int /\ s = k * u + t
    BY <1>2, <1>3, Quotient
  <1> HIDE DEF u
  <1>5. a = (d * k) * u + (d * t + r)
    BY <1>2, <1>4
  <1>6. d * k \in Nat \ {0} /\ d * t + r \in 0 .. (d * k) - 1
    <2>1. d * t \in Nat /\ d * k \in Nat /\ d * k > 0
      OBVIOUS
    <2>2. d * t <= d * (k - 1)
      OBVIOUS
    <2>3. d * (k - 1) = d * k - d
      OBVIOUS
    <2>4. QED
      BY <2>1, <2>2, <2>3
  <1>7. a \div (d * k) = u
    BY <1>4, <1>5, <1>6, Quotient
  <1>8. QED
    BY <1>7 DEF s, u

(* Setting a bit that is clear carries into no higher one.                 *)
LEMMA NoCarry ==
  ASSUME NEW w \in Int, NEW b \in Nat, NEW c \in Nat, b < c, (w \div 2 ^ b) % 2 = 0
  PROVE  (w + 2 ^ b) \div 2 ^ c = w \div 2 ^ c
  <1> DEFINE p == 2 ^ b
             k == 2 ^ (c - b - 1)
             q == w \div p
  <1>1. p \in Nat \ {0} /\ k \in Nat \ {0}
    <2>1. c - b - 1 \in Nat
      OBVIOUS
    <2>2. QED
      BY <2>1, PowerCounts
  <1>2. 2 ^ c = (2 * p) * k
    <2>1. b + 1 \in Nat /\ c - b - 1 \in Nat /\ (b + 1) + (c - b - 1) = c
      OBVIOUS
    <2>2. 2 ^ (b + 1) = p * 2 ^ 1
      BY PowerOfSum
    <2>3. 2 ^ 1 = 2
      OBVIOUS
    <2>4. 2 ^ c = 2 ^ (b + 1) * k
      BY <2>1, PowerOfSum
    <2>5. QED
      BY <1>1, <2>2, <2>3, <2>4
  <1>3. q \in Int /\ q % 2 = 0
    BY <1>1, Quotient
  <1>4. PICK r \in 0 .. p - 1 : w = p * q + r
    BY <1>1, Quotient
  <1> HIDE DEF p, k, q
  <1>5. PICK h \in Int : q = 2 * h
    BY <1>3, Quotient
  <1>6. w = (2 * p) * h + r /\ w + p = (2 * p) * h + (r + p)
    BY <1>1, <1>4, <1>5
  <1>7. 2 * p \in Nat \ {0} /\ r \in 0 .. (2 * p) - 1 /\ r + p \in 0 .. (2 * p) - 1
    BY <1>1
  <1>8. w \div (2 * p) = h
    BY <1>6, <1>7, Quotient
  <1>9. (w + p) \div (2 * p) = h
    BY <1>1, <1>6, <1>7, Quotient
  <1>10. w \div ((2 * p) * k) = h \div k
    BY <1>1, <1>7, <1>8, QuotientOfProduct
  <1>11. (w + p) \div ((2 * p) * k) = h \div k
    <2>1. w + p \in Int
      BY <1>1
    <2>2. (w + p) \div ((2 * p) * k) = ((w + p) \div (2 * p)) \div k
      BY <1>1, <1>7, <2>1, QuotientOfProduct
    <2>3. QED
      BY <1>9, <2>2
  <1>12. QED
    BY <1>2, <1>10, <1>11 DEF p

(* Adding a power of two leaves the bits below it alone.                   *)
LEMMA LowBitsStay ==
  ASSUME NEW w \in Int, NEW b \in Nat, NEW c \in Nat, c < b
  PROVE  ((w + 2 ^ b) \div 2 ^ c) % 2 = (w \div 2 ^ c) % 2
  <1> DEFINE p == 2 ^ c
             k == 2 ^ (b - c - 1)
             q == w \div p
  <1>1. p \in Nat \ {0} /\ k \in Nat \ {0}
    <2>1. b - c - 1 \in Nat
      OBVIOUS
    <2>2. QED
      BY <2>1, PowerCounts
  <1>2. 2 ^ b = p * (2 * k)
    <2>1. c + 1 \in Nat /\ b - c - 1 \in Nat /\ (c + 1) + (b - c - 1) = b
      OBVIOUS
    <2>2. 2 ^ (c + 1) = p * 2 ^ 1
      BY PowerOfSum
    <2>3. 2 ^ 1 = 2
      OBVIOUS
    <2>4. 2 ^ b = 2 ^ (c + 1) * k
      BY <2>1, PowerOfSum
    <2>5. QED
      BY <1>1, <2>2, <2>3, <2>4
  <1>3. q \in Int
    BY <1>1, Quotient
  <1>4. PICK r \in 0 .. p - 1 : w = p * q + r
    BY <1>1, Quotient
  <1> HIDE DEF p, k, q
  <1>5. w + p * (2 * k) = p * (q + 2 * k) + r
    BY <1>1, <1>3, <1>4
  <1>6. (w + p * (2 * k)) \div p = q + 2 * k
    <2>1. w + p * (2 * k) \in Int /\ q + 2 * k \in Int
      BY <1>1, <1>3
    <2>2. QED
      BY <1>1, <1>5, <2>1, Quotient
  <1>7. (q + 2 * k) % 2 = q % 2
    BY <1>1, <1>3
  <1>8. QED
    BY <1>2, <1>6, <1>7 DEF p, q

(* WithBit makes a bit of a word what it is told, leaves the others as they *)
(* are, and keeps the word in its width.                                   *)
LEMMA BitAdded ==
  ASSUME NEW w \in 0 .. WordMax, NEW p \in 0 .. WordBits - 1, (w \div 2 ^ p) % 2 = 0
  PROVE  /\ w + 2 ^ p \in 0 .. WordMax
         /\ ((w + 2 ^ p) \div 2 ^ p) % 2 = 1
         /\ \A q \in 0 .. WordBits - 1 :
              q # p => ((w + 2 ^ p) \div 2 ^ q) % 2 = (w \div 2 ^ q) % 2
  <1> DEFINE d == 2 ^ p
             M == 2 ^ WordBits
  <1>1. WordBits \in Nat \ {0} /\ p \in Nat
    BY EventCtxAssumption
  <1>2. d \in Nat \ {0} /\ M \in Nat \ {0} /\ WordMax = M - 1
    BY <1>1, PowerCounts DEF WordMax
  <1>3. w \in Int /\ 0 <= w /\ w < M
    BY <1>2
  <1>4. w + d \in 0 .. WordMax
    <2>1. (w + d) \div M = w \div M
      BY <1>1, <1>3, NoCarry
    <2> HIDE DEF d, M
    <2>2. w \div M = 0
      <3>1. w = M * 0 + w /\ w \in 0 .. M - 1
        BY <1>2, <1>3
      <3>2. QED
        BY <1>2, <1>3, <3>1, Quotient
    <2>3. w + d \in Int
      BY <1>2, <1>3
    <2>4. PICK r \in 0 .. M - 1 : w + d = M * ((w + d) \div M) + r
      BY <1>2, <2>3, Quotient
    <2>5. w + d = r
      BY <1>2, <2>1, <2>2, <2>4
    <2>6. QED
      BY <1>2, <2>4, <2>5
  <1>5. ((w + d) \div d) % 2 = 1
    <2> DEFINE h == w \div d
    <2>1. h \in Int /\ h % 2 = 0
      BY <1>2, <1>3, Quotient
    <2>2. PICK r \in 0 .. d - 1 : w = d * h + r
      BY <1>2, <1>3, Quotient
    <2> HIDE DEF d, h
    <2>3. w + d = d * (h + 1) + r /\ w + d \in Int /\ h + 1 \in Int
      BY <1>2, <1>3, <2>1, <2>2
    <2>4. (w + d) \div d = h + 1
      BY <1>2, <2>3, Quotient
    <2>5. QED
      BY <2>1, <2>4
  <1>6. ASSUME NEW q \in 0 .. WordBits - 1, q # p
        PROVE  ((w + d) \div 2 ^ q) % 2 = (w \div 2 ^ q) % 2
    <2>1. q \in Nat
      BY <1>1
    <2>2. CASE p < q
      BY <1>1, <1>3, <2>1, <2>2, NoCarry
    <2>3. CASE q < p
      BY <1>1, <1>3, <2>1, <2>3, LowBitsStay
    <2>4. QED
      BY <1>1, <1>6, <2>1, <2>2, <2>3
  <1>7. QED
    BY <1>4, <1>5, <1>6

LEMMA BitTaken ==
  ASSUME NEW w \in 0 .. WordMax, NEW p \in 0 .. WordBits - 1, (w \div 2 ^ p) % 2 = 1
  PROVE  /\ w - 2 ^ p \in 0 .. WordMax
         /\ ((w - 2 ^ p) \div 2 ^ p) % 2 = 0
         /\ \A q \in 0 .. WordBits - 1 :
              q # p => ((w - 2 ^ p) \div 2 ^ q) % 2 = (w \div 2 ^ q) % 2
  <1> DEFINE d == 2 ^ p
             v == w - d
             h == w \div d
  <1>1. p \in Nat /\ d \in Nat \ {0}
    <2>1. p \in Nat
      BY EventCtxAssumption
    <2>2. QED
      BY <2>1, PowerCounts
  <1>2. w \in Int /\ 0 <= w /\ w <= WordMax /\ WordMax \in Int
    BY WordMaxIsInt
  <1>3. h \in Int /\ h % 2 = 1
    BY <1>1, <1>2, Quotient
  <1>4. PICK r \in 0 .. d - 1 : w = d * h + r
    BY <1>1, <1>2, Quotient
  <1>5. v \in 0 .. WordMax /\ (v \div d) % 2 = 0 /\ v + d = w
    <2> HIDE DEF d, h
    <2>1. h >= 1
      <3>1. ASSUME h <= 0 PROVE FALSE
        <4>1. h <= -1
          BY <1>3, <3>1
        <4>2. d * h <= d * (-1)
          BY <1>1, <1>3, <4>1
        <4>3. d * h \in Int /\ d * (-1) = -d
          BY <1>1, <1>3
        <4>4. QED
          BY <1>1, <1>2, <1>4, <4>2, <4>3
      <3>2. QED
        BY <1>3, <3>1
    <2>2. d * h >= d * 1 /\ d * h \in Int
      BY <1>1, <1>3, <2>1
    <2>3. v \in Int /\ 0 <= v /\ v <= WordMax /\ v + d = w
      BY <1>1, <1>2, <1>4, <2>2
    <2>4. v = d * (h - 1) + r /\ h - 1 \in Int
      BY <1>1, <1>3, <1>4
    <2> HIDE DEF v
    <2>5. v \div d = h - 1
      BY <1>1, <2>3, <2>4, Quotient
    <2>6. QED
      BY <1>2, <1>3, <2>3, <2>5
  <1> HIDE DEF v
  <1>6. \A q \in 0 .. WordBits - 1 :
          q # p => ((v + d) \div 2 ^ q) % 2 = (v \div 2 ^ q) % 2
    BY <1>5, BitAdded
  <1>7. QED
    BY <1>5, <1>6 DEF v

LEMMA WithBitSetsOne ==
  ASSUME NEW w \in 0 .. WordMax, NEW b \in Nat, NEW on \in BOOLEAN
  PROVE  /\ WithBit(w, b, on) \in 0 .. WordMax
         /\ BitIn(WithBit(w, b, on), b) <=> on
         /\ \A c \in Nat : c % WordBits # b % WordBits =>
              (BitIn(WithBit(w, b, on), c) <=> BitIn(w, c))
  <1> DEFINE p == b % WordBits
  <1>1. \A c \in Nat : c % WordBits \in 0 .. WordBits - 1
    BY EventCtxAssumption
  <1>2. p \in 0 .. WordBits - 1
    BY <1>1
  <1>3. w \div 2 ^ p \in Int
    <2>1. w \in Int /\ p \in Nat
      BY <1>2, WordMaxIsInt, EventCtxAssumption
    <2>2. 2 ^ p \in Nat \ {0}
      BY <2>1, PowerCounts
    <2>3. QED
      BY <2>1, <2>2, Quotient
  <1>4. CASE on /\ ~BitIn(w, b)
    <2>1. WithBit(w, b, on) = w + 2 ^ p
      BY <1>4 DEF WithBit
    <2>2. (w \div 2 ^ p) % 2 = 0
      BY <1>3, <1>4 DEF BitIn
    <2> DEFINE v == w + 2 ^ p
    <2>3. /\ v \in 0 .. WordMax /\ (v \div 2 ^ p) % 2 = 1
          /\ \A q \in 0 .. WordBits - 1 : q # p => (v \div 2 ^ q) % 2 = (w \div 2 ^ q) % 2
      BY <1>2, <2>2, BitAdded
    <2> HIDE DEF v
    <2>4. BitIn(v, b) <=> on
      BY <1>4, <2>3 DEF BitIn
    <2>5. \A c \in Nat : c % WordBits # p => (BitIn(v, c) <=> BitIn(w, c))
      BY <1>1, <2>3 DEF BitIn
    <2>6. QED
      BY <2>1, <2>3, <2>4, <2>5 DEF v
  <1>5. CASE ~on /\ BitIn(w, b)
    <2>1. WithBit(w, b, on) = w - 2 ^ p
      BY <1>5 DEF WithBit
    <2>2. (w \div 2 ^ p) % 2 = 1
      BY <1>5 DEF BitIn
    <2> DEFINE v == w - 2 ^ p
    <2>3. /\ v \in 0 .. WordMax /\ (v \div 2 ^ p) % 2 = 0
          /\ \A q \in 0 .. WordBits - 1 : q # p => (v \div 2 ^ q) % 2 = (w \div 2 ^ q) % 2
      BY <1>2, <2>2, BitTaken
    <2> HIDE DEF v
    <2>4. BitIn(v, b) <=> on
      BY <1>5, <2>3 DEF BitIn
    <2>5. \A c \in Nat : c % WordBits # p => (BitIn(v, c) <=> BitIn(w, c))
      BY <1>1, <2>3 DEF BitIn
    <2>6. QED
      BY <2>1, <2>3, <2>4, <2>5 DEF v
  <1>6. CASE on <=> BitIn(w, b)
    BY <1>6 DEF WithBit
  <1>7. QED
    BY <1>4, <1>5, <1>6

(* Two bits of one word are at different places of it.                     *)
LEMMA PlacesDiffer ==
  ASSUME NEW b \in Nat, NEW c \in Nat, b # c, WordOf(b) = WordOf(c)
  PROVE  b % WordBits # c % WordBits
  <1>1. WordBits \in Nat \ {0}
    BY EventCtxAssumption
  <1>2. b = WordBits * (b \div WordBits) + (b % WordBits)
    BY <1>1
  <1>3. c = WordBits * (c \div WordBits) + (c % WordBits)
    BY <1>1
  <1>4. b \div WordBits = c \div WordBits
    <2>1. b \div WordBits \in Int /\ c \div WordBits \in Int
      BY <1>1
    <2>2. QED
      BY <2>1 DEF WordOf
  <1>5. QED
    BY <1>2, <1>3, <1>4

-----------------------------------------------------------------------------
(* While handlers run, the engine's words are as they were given, and the  *)
(* field's slots hold words, unless a handler wrote one itself; so that    *)
(* reading a slot with either default gives the same.                      *)
WordsHold ==
  phase = "handlers" /\ array.ptr = "good" =>
    /\ array.word = given.word
    /\ field.table <=> replaced # "gone"
    /\ replaced = "gone" => asked = Nothing
    /\ ~rawWords => \A i \in 1 .. WordCount : ToNumber(field.word[i]) \in 0 .. WordMax

BitsInv == WordsHold /\ BitsAreIndependent

LEMMA BitsInit == Init => BitsInv
  <1> SUFFICES ASSUME Init PROVE BitsAreIndependent
    BY DEF BitsInv, WordsHold, Init
  <1>1. phase = "engine" /\ given.word = array.word /\ asked = Nothing /\ replaced = "no"
    BY DEF Init
  <1>2. \A b \in 0 .. WordBits * WordCount - 1 : b <= BitMax => asked[b] = "nothing"
    BY <1>1, EventCtxAssumption DEF Nothing
  <1>3. QED
    BY <1>1, <1>2 DEF BitsAreIndependent, ExpectedBit

LEMMA PushKeepsBits == ASSUME IInv, PushEvent PROVE BitsInv'
  <1>1. /\ phase' = "handlers" /\ field' = PushWords
        /\ given' = [ctx |-> ctx, word |-> array.word]
        /\ asked' = Nothing /\ rawWords' = FALSE /\ replaced' = "no" /\ array' = array
    BY DEF PushEvent
  <1> SUFFICES ASSUME array.ptr = "good" PROVE BitsInv'
    BY <1>1 DEF BitsInv, WordsHold, BitsAreIndependent
  <1>2. /\ field'.table /\ array'.word = given'.word
        /\ \A i \in 1 .. WordCount : /\ field'.word[i] = LNum(array.word[i])
                                     /\ array.word[i] \in 0 .. WordMax
    BY <1>1 DEF IInv, TypeOK, Words, PushWords, FieldTable
  <1>3. \A n : ToNumber(LNum(n)) = n
    BY DEF ToNumber, IsNumber, LNum
  <1>4. \A i \in 1 .. WordCount : /\ ToNumber(field'.word[i]) \in 0 .. WordMax
                                  /\ ToWord(field'.word[i], 0) = given'.word[i]
    BY <1>1, <1>2, <1>3, WordMaxIsInt DEF ToWord, InRange
  <1>5. WordsHold'
    BY <1>1, <1>2, <1>4 DEF WordsHold
  <1>6. BitsAreIndependent'
    <2> SUFFICES ASSUME NEW b \in 0 .. WordBits * WordCount - 1
                 PROVE  BitGet(b)' <=> ExpectedBit(b)'
      BY <1>1 DEF BitsAreIndependent
    <2>1. WordOf(b) \in 1 .. WordCount
      BY WordOfFits
    <2>2. BitGet(b)' <=> BitIn(given'.word[WordOf(b)], b)
      BY <1>2, <1>4, <2>1 DEF BitGet
    <2>3. b <= BitMax => asked'[b] = "nothing"
      BY <1>1, EventCtxAssumption DEF Nothing
    <2>4. ExpectedBit(b)' <=> BitIn(given'.word[WordOf(b)], b)
      BY <1>1, <2>3 DEF ExpectedBit
    <2>5. QED
      BY <2>2, <2>4
  <1>7. QED
    BY <1>5, <1>6 DEF BitsInv

LEMMA ReadBackKeepsBits == ASSUME IInv, BitsInv, ReadBack PROVE BitsInv'
  <1>1. /\ phase = "handlers" /\ phase' = "engine" /\ array' = [array EXCEPT !.word = ReadWords]
        /\ UNCHANGED <<field, given, asked, rawWords, replaced>>
    BY DEF ReadBack, history
  <1>2. array'.word = ReadWords /\ array'.ptr = array.ptr
    BY <1>1 DEF IInv
  <1> SUFFICES ASSUME ~rawWords, replaced # "table", array.ptr = "good", NEW b \in 0 .. WordBits * WordCount - 1
               PROVE  BitIn(array'.word[WordOf(b)], b) <=> ExpectedBit(b)'
    BY <1>1, <1>2 DEF BitsInv, WordsHold, BitsAreIndependent
  <1> DEFINE i == WordOf(b)
  <1>3. b \in Nat /\ i \in 1 .. WordCount
    BY WordOfFits
  <1> HIDE DEF i
  <1>4. /\ array.word = given.word /\ (field.table <=> replaced # "gone")
        /\ replaced = "gone" => asked = Nothing
        /\ ToNumber(field.word[i]) \in 0 .. WordMax
        /\ BitGet(b) <=> replaced = "no" /\ ExpectedBit(b)
        /\ replaced \in {"no", "gone"}
    BY <1>1, <1>3 DEF BitsInv, WordsHold, BitsAreIndependent, IInv, TypeOK
  <1>5. ExpectedBit(b)' <=> ExpectedBit(b)
    BY <1>1 DEF ExpectedBit
  <1>6. CASE field.table
    <2>1. array'.word[i] = ToWord(field.word[i], array.word[i])
      BY <1>2, <1>3, <1>6 DEF ReadWords
    <2>2. ToWord(field.word[i], array.word[i]) = ToWord(field.word[i], 0)
      BY <1>4, WordMaxIsInt DEF ToWord, InRange
    <2>3. BitGet(b) <=> BitIn(ToWord(field.word[i], 0), b)
      BY <1>6 DEF BitGet, i
    <2>4. QED
      BY <1>4, <1>5, <1>6, <2>1, <2>2, <2>3 DEF i
  <1>7. CASE ~field.table
    <2>1. array'.word[i] = given.word[i] /\ replaced = "gone" /\ asked = Nothing
      BY <1>2, <1>4, <1>7 DEF ReadWords
    <2>2. b <= BitMax => asked[b] = "nothing"
      BY <1>3, <2>1, EventCtxAssumption DEF Nothing
    <2>3. ExpectedBit(b) <=> BitIn(given.word[i], b)
      BY <2>1, <2>2 DEF ExpectedBit, i
    <2>4. QED
      BY <1>5, <2>1, <2>3 DEF i
  <1>8. QED
    BY <1>6, <1>7

(* Setting one bit: the others of its word, and the other words, stay.     *)
LEMMA BitSetKeepsBits ==
  ASSUME NEW b \in (0 .. BitMax) \cup BadBits, NEW on \in BOOLEAN, IInv, BitsInv, BitSet(b, on)
  PROVE  BitsInv'
  <1>1. /\ phase = "handlers" /\ phase' = "handlers"
        /\ UNCHANGED <<array, given, rawWords, replaced>>
    BY DEF BitSet, Step
  <1>2. CASE ~(b \in 0 .. BitMax /\ field.table)
    <2>1. UNCHANGED <<field, asked>>
      BY <1>2 DEF BitSet
    <2>2. QED
      BY <1>1, <2>1 DEF BitsInv, WordsHold, BitsAreIndependent, BitGet, ExpectedBit
  <1>3. CASE b \in 0 .. BitMax /\ field.table
    <2> DEFINE i == WordOf(b)
               old == ToWord(field.word[i], 0)
               new == WithBit(old, b, on)
    <2>1. /\ field' = [field EXCEPT !.word[i] = LNum(new)]
          /\ asked' = [asked EXCEPT ![b] = IF on THEN "on" ELSE "off"]
      BY <1>3 DEF BitSet
    <2>2. b \in 0 .. WordBits * WordCount - 1 /\ b \in Nat /\ i \in 1 .. WordCount
      BY <1>3, EventCtxAssumption, WordOfFits
    <2>3. old \in 0 .. WordMax
      <3>1. field.word[i] \in AnyValue
        BY <2>2 DEF IInv
      <3>2. 0 \in 0 .. WordMax
        <4>1. 2 ^ WordBits \in Nat \ {0}
          BY EventCtxAssumption, PowerCounts
        <4>2. QED
          BY <4>1 DEF WordMax
      <3>3. QED
        BY <3>1, <3>2, ToWordFits
    <2> HIDE DEF old
    <2>4. /\ new \in 0 .. WordMax /\ (BitIn(new, b) <=> on)
          /\ \A c \in Nat : c % WordBits # b % WordBits => (BitIn(new, c) <=> BitIn(old, c))
      BY <2>2, <2>3, WithBitSetsOne
    <2> HIDE DEF new, i
    <2>5. ToNumber(LNum(new)) = new /\ ToWord(LNum(new), 0) = new
      BY <2>4, WordMaxIsInt DEF ToWord, ToNumber, IsNumber, LNum, InRange
    <2>6. /\ field'.table = field.table /\ field'.word[i] = LNum(new)
          /\ \A k \in 1 .. WordCount : k # i => field'.word[k] = field.word[k]
      BY <2>1, <2>2 DEF IInv
    <2>7. /\ asked'[b] = IF on THEN "on" ELSE "off"
          /\ \A c \in 0 .. BitMax : c # b => asked'[c] = asked[c]
      BY <1>3, <2>1 DEF IInv, TypeOK
    <2> SUFFICES ASSUME array.ptr = "good" PROVE BitsInv'
      BY <1>1 DEF BitsInv, WordsHold, BitsAreIndependent
    <2>8. WordsHold'
      <3>1. replaced # "gone"
        BY <1>1, <1>3 DEF BitsInv, WordsHold
      <3>2. ASSUME ~rawWords, NEW k \in 1 .. WordCount PROVE ToNumber(field'.word[k]) \in 0 .. WordMax
        BY <1>1, <2>4, <2>5, <2>6, <3>2 DEF BitsInv, WordsHold
      <3>3. QED
        BY <1>1, <2>6, <3>1, <3>2 DEF BitsInv, WordsHold
    <2>9. ASSUME ~rawWords, replaced # "table", NEW c \in 0 .. WordBits * WordCount - 1
          PROVE  BitGet(c)' <=> replaced = "no" /\ ExpectedBit(c)'
      <3>1. c \in Nat /\ WordOf(c) \in 1 .. WordCount
        BY WordOfFits
      <3>2. (BitGet(c) <=> ExpectedBit(c)) /\ replaced = "no"
        BY <1>1, <1>3, <2>9 DEF BitsInv, WordsHold, BitsAreIndependent, IInv, TypeOK
      <3>3. CASE c = b
        <4>1. BitGet(c)' <=> on
          BY <1>3, <2>4, <2>5, <2>6, <3>3 DEF BitGet, i
        <4>2. ExpectedBit(c)' <=> on
          BY <1>3, <2>7, <3>3 DEF ExpectedBit
        <4>3. QED
          BY <3>2, <4>1, <4>2
      <3>4. CASE c # b
        <4>1. ExpectedBit(c)' <=> ExpectedBit(c)
          BY <1>1, <2>7, <3>1, <3>4, EventCtxAssumption DEF ExpectedBit
        <4>2. BitGet(c)' <=> BitGet(c)
          <5>1. CASE WordOf(c) = i
            <6>1. c % WordBits # b % WordBits
              BY <2>2, <3>1, <3>4, <5>1, PlacesDiffer DEF i
            <6>2. BitIn(new, c) <=> BitIn(old, c)
              BY <2>4, <3>1, <6>1
            <6>3. QED
              BY <1>3, <2>5, <2>6, <5>1, <6>2 DEF BitGet, old
          <5>2. CASE WordOf(c) # i
            BY <2>6, <3>1, <5>2 DEF BitGet
          <5>3. QED
            BY <5>1, <5>2
        <4>3. QED
          BY <3>2, <4>1, <4>2
      <3>5. QED
        BY <3>3, <3>4
    <2>10. QED
      BY <1>1, <2>8, <2>9 DEF BitsInv, BitsAreIndependent
  <1>4. QED
    BY <1>2, <1>3

LEMMA FieldWritesKeepBits ==
  ASSUME IInv, BitsInv, ReplaceField \/ \E i \in 1 .. WordCount, v \in LuaValues : AssignWord(i, v)
  PROVE  BitsInv'
  <1>1. CASE ReplaceField
    <2>1. /\ phase = "handlers" /\ phase' = "handlers" /\ asked' = Nothing /\ rawWords' = FALSE
          /\ UNCHANGED <<array, given>>
          /\ \/ field' = NoFieldTable /\ replaced' = "gone"
             \/ field' = FieldTable(NoFieldTable.word) /\ replaced' = "table"
      BY <1>1 DEF ReplaceField, Step
    <2>2. /\ field'.table <=> replaced' # "gone"
          /\ \A i \in 1 .. WordCount : field'.word[i] = LNil
      <3>1. /\ NoFieldTable.table = FALSE /\ FieldTable(NoFieldTable.word).table = TRUE
            /\ FieldTable(NoFieldTable.word).word = NoFieldTable.word
        BY DEF NoFieldTable, FieldTable
      <3>2. \A i \in 1 .. WordCount : NoFieldTable.word[i] = LNil
        BY DEF NoFieldTable
      <3>3. CASE field' = NoFieldTable /\ replaced' = "gone"
        BY <3>1, <3>2, <3>3
      <3>4. CASE field' = FieldTable(NoFieldTable.word) /\ replaced' = "table"
        BY <3>1, <3>2, <3>4
      <3>5. QED
        BY <2>1, <3>3, <3>4
    <2>3. 0 \in 0 .. WordMax /\ ToNumber(LNil) = 0 /\ ToWord(LNil, 0) = 0
      <3>1. 2 ^ WordBits \in Nat \ {0}
        BY EventCtxAssumption, PowerCounts
      <3>2. ToNumber(LNil) = 0
        BY DEF ToNumber, IsNumber, LNil
      <3>3. QED
        BY <3>1, <3>2 DEF WordMax, ToWord
    <2> SUFFICES ASSUME array.ptr = "good" PROVE BitsInv'
      BY <2>1 DEF BitsInv, WordsHold, BitsAreIndependent
    <2>4. WordsHold'
      BY <2>1, <2>2, <2>3 DEF BitsInv, WordsHold
    <2>5. ASSUME replaced' # "table", NEW b \in 0 .. WordBits * WordCount - 1
          PROVE  BitGet(b)' <=> replaced' = "no" /\ ExpectedBit(b)'
      BY <2>1, <2>2, <2>5 DEF BitGet
    <2>6. QED
      BY <2>1, <2>4, <2>5 DEF BitsInv, BitsAreIndependent
  <1>2. ASSUME NEW i \in 1 .. WordCount, NEW v \in LuaValues, AssignWord(i, v) PROVE BitsInv'
    <2>1. /\ phase = "handlers" /\ phase' = "handlers" /\ field.table /\ rawWords' = TRUE
          /\ field' = [field EXCEPT !.word[i] = v] /\ UNCHANGED <<array, given, asked, replaced>>
      BY <1>2 DEF AssignWord, Step
    <2>2. field'.table = field.table
      BY <2>1 DEF IInv
    <2>3. QED
      BY <2>1, <2>2 DEF BitsInv, WordsHold, BitsAreIndependent
  <1>3. QED
    BY <1>1, <1>2

LEMMA BitsNext == IInv /\ BitsInv /\ [Next]_vars => BitsInv'
  <1> SUFFICES ASSUME IInv, BitsInv, [Next]_vars PROVE BitsInv'
    OBVIOUS
  <1>1. ASSUME UNCHANGED <<array, phase, field, asked, rawWords, replaced>>, given'.word = given.word
        PROVE  BitsInv'
    BY <1>1 DEF BitsInv, WordsHold, BitsAreIndependent, BitGet, ExpectedBit
  <1>2. CASE Refuse
    <2>1. phase' = "disabled"
      BY <1>2 DEF Refuse
    <2>2. QED
      BY <2>1 DEF BitsInv, WordsHold, BitsAreIndependent
  <1>3. ASSUME NEW r \in Rows, EngineWrites(r) PROVE BitsInv'
    <2>1. given'.word = given.word
      BY <1>3 DEF EngineWrites, IInv
    <2>2. QED
      BY <1>1, <1>3, <2>1 DEF EngineWrites, Step
  <1>4. ASSUME NEW r \in Rows, NEW v \in LuaValues, Assign(r, v) PROVE BitsInv'
    BY <1>1, <1>4 DEF Assign, Step
  <1>5. CASE InvalidateAll
    BY <1>1, <1>5 DEF InvalidateAll, Step, history
  <1>6. CASE UNCHANGED vars
    BY <1>1, <1>6 DEF vars
  <1>7. QED
    BY <1>2, <1>3, <1>4, <1>5, <1>6, PushKeepsBits, ReadBackKeepsBits, BitSetKeepsBits,
       FieldWritesKeepBits DEF Next

-----------------------------------------------------------------------------
(* What relates the context, the event table and their history is kept by  *)
(* every step.                                                             *)
THEOREM EventCtxInvariant == Spec => []IInv
  BY TypeInit, InvNext, PTL DEF Spec

(* Whatever handlers assign, the cells of the engine and the words of the  *)
(* bit array hold values of their C types.                                 *)
THEOREM EventCtxTypeCorrect == Spec => []TypeOK
  <1>1. IInv => TypeOK
    BY DEF IInv
  <1>2. QED
    BY <1>1, EventCtxInvariant, PTL

(* What the engine finds in a row is what the event table says if that     *)
(* fits, and else what the engine had; for any rows and any number type.   *)
THEOREM RowsAlwaysArrive == Spec => []RowsArrive
  <1>1. IInv => RowsArrive
    BY DEF IInv
  <1>2. QED
    BY <1>1, EventCtxInvariant, PTL

(* Each bit of the array is what handlers last set it to, and else what    *)
(* the engine gave, for any number of words of any width: no set_... moves *)
(* another bit, as long as no handler writes the words around the methods. *)
THEOREM BitsNeverMix == Spec => []BitsAreIndependent
  <1>1. Init => IInv /\ BitsInv
    BY TypeInit, BitsInit
  <1>2. IInv /\ BitsInv /\ [Next]_vars => IInv' /\ BitsInv'
    BY InvNext, BitsNext
  <1>3. BitsInv => BitsAreIndependent
    BY DEF BitsInv
  <1>4. QED
    BY <1>1, <1>2, <1>3, PTL DEF Spec
=============================================================================
