------------------------------ MODULE Marshal ------------------------------
(***************************************************************************)
(* One value on its way from Lua to C (Storage::read and the check_        *)
(* functions of src/src/bridge/marshal.hpp) and back (push_return of       *)
(* invoke.hpp, Storage::push).                                             *)
(*                                                                         *)
(* Floating-point numbers are counted in halves, so that fractions exist:  *)
(* a Lua number is an integer n that stands for n/2 and has at most        *)
(* DoubleBits significant bits.  C integers keep their width.  Casts that  *)
(* C++ leaves undefined are those of x86-64, for which the host is built.  *)
(* Infinities and NaN are left out.                                        *)
(***************************************************************************)
EXTENDS Classify, FiniteSets

CONSTANTS DoubleBits, FloatBits,        \* significant bits: 53 and 24 in the code
          WideBits, IntBits, ByteBits,  \* widths: 64, 32 and 8 in the code
          EightDigits,                  \* a number that is spelled with 8 characters
          NullObj                       \* nullptr

ASSUME MarshalAssumption ==
  /\ FloatBits \in Nat /\ DoubleBits \in Nat /\ WideBits \in Nat
  /\ 0 < FloatBits /\ FloatBits <= DoubleBits
  /\ 0 < ByteBits /\ ByteBits < IntBits /\ IntBits < DoubleBits /\ DoubleBits < WideBits
  /\ IntBits \in Nat /\ ByteBits \in Nat
  /\ EightDigits \in Int

-----------------------------------------------------------------------------
(* Numbers.                                                                *)

Abs(n) == IF n < 0 THEN -n ELSE n
Whole(n) == IF n >= 0 THEN n \div 2 ELSE -((-n) \div 2)    \* towards zero, from halves

(* The nearest number with that many significant bits, ties to even.       *)
Unit(bits, n) ==
  2 ^ (CHOOSE e \in 0 .. WideBits + 1 :
         Abs(n) < 2 ^ (bits + e) /\ (e = 0 \/ 2 ^ (bits + e - 1) <= Abs(n)))
RoundTo(bits, n) ==
  LET u == Unit(bits, n)
      q == Abs(n) \div u
      r == Abs(n) % u
      up == 2 * r > u \/ (2 * r = u /\ q % 2 = 1)
      m == (IF up THEN q + 1 ELSE q) * u
  IN  IF n < 0 THEN -m ELSE m
Double(v) == RoundTo(DoubleBits, 2 * v)    \* (lua_Number)v, in halves

Wrap(v, bits)   == v % 2 ^ bits
Signed(v, bits) == IF Wrap(v, bits) < 2 ^ (bits - 1) THEN Wrap(v, bits)
                   ELSE Wrap(v, bits) - 2 ^ bits
Indefinite == -(2 ^ (WideBits - 1))        \* cvttsd2si beyond its range

(* lua_tointeger, then the cast to the parameter's type.                   *)
ToInteger(n) == IF Whole(n) \in Indefinite .. -Indefinite - 1 THEN Whole(n) ELSE Indefinite
Narrow(base, v) ==
  CASE base = "int"  -> Signed(v, IntBits)
    [] base = "uint" -> Wrap(v, IntBits)
    [] base = "byte" -> Wrap(v, ByteBits)
    [] base = "char" -> Signed(v, ByteBits)

(* (int64_t)n and (uint64_t)n                                              *)
ToUnsigned(n) ==
  IF Whole(n) >= 0
  THEN IF Whole(n) < 2 ^ WideBits THEN Whole(n) ELSE 0
  ELSE IF Whole(n) < Indefinite THEN -Indefinite ELSE Wrap(Whole(n), WideBits)
ToWide(base, n) == IF base = "int64" THEN ToInteger(n) ELSE ToUnsigned(n)

-----------------------------------------------------------------------------
(* Lua values.  A string is a text, or the digits that spell a number.     *)

LNone      == [type |-> "none"]        \* no argument at this position
LNil       == [type |-> "nil"]
LTable     == [type |-> "table"]
LBool(b)   == [type |-> "boolean", bool |-> b]
LNum(n)    == [type |-> "number", num |-> n]
LStr(s)    == [type |-> "string", str |-> s]
LHandle(o, t, e) == [type |-> "userdata", obj |-> o, of |-> t, epoch |-> e]    \* of: the C type

Text(name) == [text |-> name, num |-> 0]
Digits(n)  == [text |-> "digits", num |-> n]

IsNumber(v) == v.type = "number" \/ (v.type = "string" /\ v.str.text = "digits")
ToNumber(v) == IF v.type = "number" THEN v.num ELSE v.str.num
IsString(v) == v.type \in {"string", "number"}
ToStr(v)    == IF v.type = "string" THEN v.str ELSE Digits(v.num)

(* What a C function makes of a string that has a NUL inside.              *)
CView(s) == IF s = Text("withNul") THEN Text("cut") ELSE s
IsEightBytes(s) == s \in {Text("id"), Digits(EightDigits)}

(* The Lua stack at index i: arguments end, and what follows is none.      *)
ArgAt(args, i) == IF i \in DOMAIN args THEN args[i] ELSE LNone

-----------------------------------------------------------------------------
(* Storage::read.                                                          *)

Fails      == [ok |-> FALSE]
Reads(val) == [ok |-> TRUE, val |-> val]

CheckWide(base, v) ==
  IF IsNumber(v) /\ Double(ToWide(base, ToNumber(v))) = ToNumber(v)
  THEN Reads(ToWide(base, ToNumber(v))) ELSE Fails

(* A field: of bytes, by way of a 32-bit integer, or a float.              *)
ToByte(n) == IF Whole(n) \in -(2 ^ (IntBits - 1)) .. 2 ^ (IntBits - 1) - 1
             THEN Wrap(Whole(n), ByteBits) ELSE 0
Element(base, n) == IF base = "color" THEN ToByte(n) ELSE RoundTo(FloatBits, n)
CheckPod(base, args, argn) ==
  IF \A i \in 0 .. PodCount - 1 : IsNumber(ArgAt(args, argn + i))
  THEN Reads([i \in 1 .. PodCount |-> Element(base, ToNumber(ArgAt(args, argn + i - 1)))])
  ELSE Fails

(* resolve keeps HandleTable's promise: a handle names its object until    *)
(* all of them are invalidated.  The metatable tells the type, and X* and  *)
(* const X* are two.                                                       *)
CheckHandle(t, v, epoch) ==
  CASE v.type \in {"none", "nil"} -> Reads(NullObj)
    [] v.type = "userdata" /\ v.of = t /\ v.epoch = epoch -> Reads(v.obj)
    [] OTHER -> Fails

(* What the parameter's Storage holds, and whether reading it raised.      *)
Read(t, args, argn, epoch) ==
  LET v == ArgAt(args, argn) IN
    IF t.base = "rtti" THEN IF IsString(v) /\ IsEightBytes(ToStr(v)) THEN Reads(ToStr(v)) ELSE Fails
    ELSE IF t.base = "stringref" THEN IF IsString(v) THEN Reads(ToStr(v)) ELSE Fails
    ELSE
    CASE Kind(t) = "PodOut"   -> Reads("out")
      [] Kind(t) = "Boolean"  -> IF v.type = "boolean" THEN Reads(v.bool) ELSE Fails
      [] Kind(t) = "Number"   -> IF IsNumber(v) THEN Reads(RoundTo(FloatBits, ToNumber(v))) ELSE Fails
      [] Kind(t) = "Integer"  -> IF IsNumber(v) THEN Reads(Narrow(t.base, ToInteger(ToNumber(v)))) ELSE Fails
      [] Kind(t) = "Wide"     -> CheckWide(t.base, v)
      [] Kind(t) = "CString"  -> IF IsString(v) THEN Reads(CView(ToStr(v))) ELSE Fails
      [] Kind(t) \in {"Pod", "PodIn"} -> CheckPod(t.base, args, argn)
      [] Kind(t) = "Handle"   -> CheckHandle(t, v, epoch)

(* A fault: an out-parameter takes an argument.                            *)
ConsumesAny(t) == Width(t)
(* How far read moves argn.                                                *)
Consumes(t) == CASE t.base \notin NoTraits /\ Kind(t) = "PodOut"           -> 0
                 [] t.base \notin NoTraits /\ Kind(t) \in {"Pod", "PodIn"} -> PodCount
                 [] OTHER                                                 -> 1

-----------------------------------------------------------------------------
(* push_return and Storage::push.                                          *)

NullStr == Text("null")    \* a null char*
NullPod == <<>>            \* a null pointer to an aggregate
(* A fault: the 64-bit value is pushed rounded.                            *)
PushWideRounded(base, v) == Reads(<<LNum(Double(v))>>)
PushWide(base, v) == IF ToWide(base, Double(v)) = v THEN Reads(<<LNum(Double(v))>>) ELSE Fails

PushPod(base, v) ==
  [i \in 1 .. PodCount |-> IF base = "color" THEN LNum(Double(v[i])) ELSE LNum(v[i])]
(* A fault: of a string reference, what comes before the first NUL.        *)
PushStringCut(s)    == IF s = NullStr THEN LNil ELSE LStr(CView(s))
PushString(s)       == IF s = NullStr THEN LNil ELSE LStr(s)
PushHandle(t, o, epoch) == IF o = NullObj THEN LNil ELSE LHandle(o, t, epoch)

PushReturn(t, v, epoch) ==
  IF t.base \in NoTraits THEN Reads(<<PushString(v)>>) ELSE
  CASE Kind(t) = "Boolean"                -> Reads(<<LBool(v)>>)
    [] Kind(t) = "Number"                 -> Reads(<<LNum(v)>>)
    [] Kind(t) = "Integer"                -> Reads(<<LNum(Double(v))>>)
    [] Kind(t) = "Wide"                   -> PushWide(t.base, v)
    [] ReturnKind(t) \in {"CString", "OwnedCString"} -> Reads(<<PushString(v)>>)
    [] Kind(t) \in {"Pod", "PodIn"}       -> Reads(IF v = NullPod THEN <<LNil>> ELSE PushPod(t.base, v))
    [] Kind(t) = "Handle"                 -> Reads(<<PushHandle(t, v, epoch)>>)

(* An out-parameter, as the sequence of its fields: an aggregate, or a     *)
(* scalar as one number, a bool as 0 or 1.                                 *)
PushOut(t, fields) ==
  CASE t.base \in {"vec", "color"} -> PushPod(t.base, fields)
    [] t.base = "float"            -> <<LNum(fields[1])>>
    [] OTHER                       -> <<LNum(Double(fields[1]))>>
=============================================================================
