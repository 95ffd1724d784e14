------------------------------ MODULE MCInvoke ------------------------------
(* An instance of Invoke for TLC.                                          *)
EXTENDS Invoke

Handles == {Pointer("entity"), Pointer("world"), ConstPointer("entity")}
Params ==
  {Value(b) : b \in {"bool", "int", "uint", "byte", "int64", "uint64", "float", "vec", "color", "rtti",
                     "stringref"}}
  \cup {ConstPointer("char"), ConstPointer("vec")} \cup Handles
  \cup {Pointer(b) : b \in {"bool", "int", "float", "vec"}}
Rets ==
  {Value(b) : b \in {"bool", "int", "uint", "int64", "uint64", "float", "vec", "color", "rtti", "stringref"}}
  \cup {Void, ConstPointer("char"), Pointer("char"), ConstPointer("vec"), Pointer("entity")}
NoRule == {[ret |-> Pointer("void"), params |-> <<>>],
           [ret |-> Void, params |-> <<CType("entity", 2, FALSE), Pointer("int")>>]}

Numbers == {-2 * 2 ^ IntBits, -3, -2, 0, 1, 2, 2 * 2 ^ ByteBits, 2 * 2 ^ IntBits + 2,
            2 * Indefinite, 2 * Indefinite - 2 * 2 ^ (WideBits - DoubleBits), -2 * Indefinite,
            2 * 2 ^ WideBits - 2 * 2 ^ (WideBits - DoubleBits), 2 * 2 ^ WideBits}
OneArg == {LNum(n) : n \in {Double(m \div 2) : m \in Numbers} \cup {1, -3}}
          \cup {LNil, LTable, LBool(FALSE), LBool(TRUE)}
          \cup {LStr(s) : s \in {Text("text"), Text("id"), Text("withNul"), Digits(3)}}
          \cup {LHandle(o, t, e) : o \in Objects, t \in Handles, e \in 0 .. MaxEpoch}
Few == {LNum(2), LNum(-3), LStr(Text("id")), LBool(TRUE), LNil} \cup {LHandle(o, Pointer("entity"), 0) : o \in Objects}
TwoArgs == [1 .. 2 -> Few]
ManyArgs == {<<LNum(2), LNum(-3), v>> : v \in Few} \cup {<<LNum(2), LNum(4), LNum(6), LNum(8)>>}

Sig(r, ps) == [ret |-> r, params |-> ps]
CallsOf(sigs, lists) == [sig : sigs, args : lists]

(* Any two parameters, and any result before or after out-parameters.      *)
MCCalls ==
  CallsOf({Sig(Void, <<p>>) : p \in Params}, {<<>>} \cup {<<v>> : v \in OneArg} \cup TwoArgs)
  \cup CallsOf({Sig(Void, <<p, q>>) : p \in Params, q \in Params}, {<<>>} \cup TwoArgs \cup ManyArgs)
  \cup CallsOf({Sig(r, <<>>) : r \in Rets} \cup {Sig(r, <<Pointer("float")>>) : r \in Rets}
                \cup {Sig(r, <<Pointer("vec"), Value("int"), Pointer("bool")>>) : r \in Rets},
               {<<>>, <<LNum(2)>>})
  \cup CallsOf({Sig(Void, ps) : ps \in {<<Pointer("uint64")>>, <<Pointer("int64")>>}}
                \cup {Sig(Value("uint64"), <<Pointer("int64"), Value("int64")>>),
                      Sig(ConstPointer("entity"), <<ConstPointer("entity"), Pointer("entity")>>)},
               {<<>>, <<LNum(2)>>, <<LNum(-4)>>})
  \cup CallsOf(NoRule, {<<>>})

(* One number.                                                             *)
MCNumberCalls == CallsOf({Sig(Void, <<Value("float")>>)}, {<<>>} \cup {<<v>> : v \in OneArg})

MCFloats == {0, -3}
=============================================================================
