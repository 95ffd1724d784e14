---------------------------- MODULE InvokeProofs ----------------------------
(***************************************************************************)
(* Proofs about Invoke, for every signature, argument list, width and      *)
(* bound: the state is well typed, arguments pair up with parameters, a    *)
(* failure leaves nothing behind, and values arrive: those of Lua at the   *)
(* engine, those of the engine at Lua, and from there at the engine again. *)
(***************************************************************************)
EXTENDS Invoke, FiniteSetTheorems, WellFoundedInduction, SequenceTheorems, TLAPS

-----------------------------------------------------------------------------
(* Sequences of anything.                                                  *)

IsSeq(s) == \E S : s \in Seq(S)

LEMMA AppendIsSeq ==
  ASSUME NEW s, IsSeq(s), NEW x
  PROVE  /\ IsSeq(Append(s, x)) /\ Len(Append(s, x)) = Len(s) + 1 /\ Len(s) \in Nat
         /\ \A i \in 1 .. Len(s) : Append(s, x)[i] = s[i]
         /\ Append(s, x)[Len(s) + 1] = x
         /\ DOMAIN Append(s, x) = 1 .. Len(s) + 1 /\ DOMAIN s = 1 .. Len(s)
<1>1. PICK S : s \in Seq(S) BY DEF IsSeq
<1>2. s \in Seq(S \cup {x}) BY <1>1
<1>3. Append(s, x) \in Seq(S \cup {x}) BY <1>2
<1>4. QED BY <1>1, <1>2, <1>3 DEF IsSeq

LEMMA EmptyIsSeq == IsSeq(<<>>) /\ Len(<<>>) = 0 /\ DOMAIN <<>> = {}
<1>1. <<>> \in Seq({}) OBVIOUS
<1>2. QED BY <1>1 DEF IsSeq

-----------------------------------------------------------------------------
(* The types.                                                              *)

ParamTypes == CTypes \ {Void}

LEMMA VoidType == Void \in CTypes /\ ReturnKind(Void) = "Void"
BY DEF Void, Value, CType, CTypes, Bases, ReturnKind, Pointer, Kind, ValueKind, CharLike, Classes, Wides

LEMMA OwnedIsCharPointer ==
  ASSUME NEW t \in CTypes, ReturnKind(t) = "OwnedCString"
  PROVE  t = Pointer("char")
<1>1. t.base \in Bases /\ t.stars \in {0, 1, 2} /\ t.const \in BOOLEAN
  BY DEF CTypes
<1>2. ValueKind(t.base) # "OwnedCString"
  BY DEF ValueKind, Wides
<1>3. PointerKind(t.base, t.const) # "OwnedCString"
  BY <1>1 DEF PointerKind, Bases, Scalars, Wides, CharLike, Classes, Incomplete
<1>4. QED BY <1>1, <1>2, <1>3 DEF ReturnKind, Kind

LEMMA AsParamType ==
  ASSUME NEW t \in ParamTypes
  PROVE  AsParam(t) \in ParamTypes
<1> USE DEF ParamTypes
<1>1. CASE ReturnKind(t) = "OwnedCString"
  <2>1. ConstPointer("char") \in CTypes /\ ConstPointer("char") # Void
    BY DEF ConstPointer, CType, CTypes, Bases, CharLike, Void, Value
  <2>2. t = Pointer("char") BY <1>1, OwnedIsCharPointer
  <2>3. Kind(t) \notin {"PodOut", "PodIn"}
    BY <2>2 DEF Kind, PointerKind, Pointer, CType, CharLike, Scalars, Wides, Classes, Incomplete
  <2>4. QED BY <1>1, <2>1, <2>3 DEF AsParam
<1>2. CASE ReturnKind(t) # "OwnedCString" /\ Kind(t) \in {"PodOut", "PodIn"}
  <2>1. t.base # "void"
    BY <1>2 DEF Kind, ValueKind, PointerKind, CTypes, Bases, Scalars, Wides, CharLike, Classes, Incomplete
  <2>2. Value(t.base) \in CTypes /\ Value(t.base) # Void BY <2>1 DEF Value, CType, CTypes, Void
  <2>3. QED BY <1>2, <2>2 DEF AsParam
<1>3. CASE ReturnKind(t) # "OwnedCString" /\ Kind(t) \notin {"PodOut", "PodIn"}
  BY <1>3 DEF AsParam
<1>4. QED BY <1>1, <1>2, <1>3

LEMMA SingleSig ==
  ASSUME NEW t \in ParamTypes
  PROVE  [ret |-> Void, params |-> <<t>>] \in Sigs
BY VoidType DEF Sigs, ParamTypes

(* Reading a parameter moves on by as many arguments as the reference says *)
(* it takes, in every signature that has a binding and builds.             *)
LEMMA ConsumesWhatIsDescribed ==
  ASSUME NEW s \in Sigs, Supported(s), Builds(s), NEW i \in DOMAIN s.params
  PROVE  /\ Consumes(s.params[i]) = ArgWidth(s.params[i])
         /\ Consumes(s.params[i]) \in Nat
<1> DEFINE t == s.params[i]
<1> SUFFICES Consumes(t) = ArgWidth(t) /\ Consumes(t) \in Nat  OBVIOUS
<1>1. t \in CTypes BY DEF Sigs
<1>2. Kind(t) # "Unsupported" /\ ~(Kind(t) = "PodOut" /\ t.base \in NoTraits)
  BY DEF Supported, Builds
<1>3. t.base \in Bases /\ t.stars \in {0, 1, 2} /\ t.const \in BOOLEAN
  BY <1>1 DEF CTypes
<1> HIDE DEF t
<1>4. CASE t.base \in NoTraits
  BY <1>2, <1>4 DEF Consumes, ArgWidth, Width, IsOut, NoTraits
<1>5. CASE t.base \in {"vec", "color"}
  <2>1. Kind(t) \in {"Pod", "PodIn", "PodOut"}
    BY <1>2, <1>3, <1>5 DEF Kind, ValueKind, PointerKind, Classes, Scalars, Wides, CharLike, Incomplete
  <2>2. QED BY <1>5, <2>1, PodAssumption DEF Consumes, ArgWidth, Width, IsOut, NoTraits
<1>6. CASE t.base \notin NoTraits \cup {"vec", "color"}
  <2>1. t.base \notin Classes BY <1>6 DEF Classes, NoTraits
  <2>2. Kind(t) \notin {"Pod", "PodIn"}
    BY <1>3, <2>1 DEF Kind, ValueKind, PointerKind, Bases, Classes, Scalars, Wides, CharLike, Incomplete
  <2>3. QED BY <1>6, <2>2 DEF Consumes, ArgWidth, Width, IsOut
<1>7. QED BY <1>4, <1>5, <1>6
-----------------------------------------------------------------------------
(* The inductive invariant.                                                *)

TypeInv ==
  /\ phase \in Phases /\ sig \in Sigs
  /\ argn \in Nat \ {0} /\ pushed \in 0 .. Len(sig.params)
  /\ IsSeq(held) /\ IsSeq(at) /\ Len(held) <= Len(sig.params) /\ Len(at) = Len(held)
  /\ IsSeq(gave) /\ \A k \in DOMAIN gave : gave[k].type \in ParamTypes
  /\ reached => ret \in Returns(sig.ret) /\ \A i \in DOMAIN sig.params : outs[i] \in Writes(sig.params[i])
  /\ epoch \in 0 .. MaxEpoch /\ calls \in 0 .. MaxCalls
  /\ hasFree \in BOOLEAN /\ reached \in BOOLEAN

(* So far each parameter was read where its predecessor's arguments end,   *)
(* and argn is where the last one's end.                                   *)
PairInv ==
  /\ phase \in {"reading", "calling", "pushing"} => Supported(sig) /\ Builds(sig)
  /\ phase = "calling" => Len(at) = Len(sig.params)
  /\ \A i \in DOMAIN at : i = 1 => at[i] = 1
  /\ \A i \in DOMAIN at : i > 1 => at[i] = at[i - 1] + ArgWidth(sig.params[i - 1])
  /\ Len(at) = 0 => argn = 1
  /\ Len(at) > 0 => argn = at[Len(at)] + ArgWidth(sig.params[Len(at)])

(* The only string not freed yet is one that waits to be pushed, and each  *)
(* stems from another call.                                                *)
OwnsString == ReturnKind(sig.ret) = "OwnedCString"
ToFree     == phase = "pushing" /\ OwnsString /\ ret # NullStr
OwnInv ==
  /\ owned \in Nat /\ owned <= calls
  /\ phase \in {"reading", "calling"} /\ OwnsString => owned < calls
  /\ ToFree => owned > 0
  /\ hasFree => owned = (IF ToFree THEN 1 ELSE 0)
  /\ phase \in {"lua", "reading", "calling", "unavailable"} => ~reached
  /\ phase \in {"pushing", "outs"} => reached
  /\ phase = "raised" /\ reached => ReturnKind(sig.ret) = "Wide" /\ Double(ret) # 2 * ret

IInv == TypeInv /\ PairInv /\ OwnInv

(* Halves, back to the integer.                                            *)
LEMMA WholeOfHalves ==
  ASSUME NEW v \in Int
  PROVE  Whole(2 * v) = v
<1>1. CASE v >= 0 BY <1>1 DEF Whole
<1>2. CASE v < 0
  <2>1. ~(2 * v >= 0) /\ -(2 * v) = 2 * (-v) /\ (2 * (-v)) \div 2 = -v BY <1>2
  <2>2. QED BY <2>1 DEF Whole
<1>3. QED BY <1>1, <1>2

(* The 64-bit values, and how the number that is one is read.              *)
WideValues(b) == IF b = "int64" THEN Indefinite .. -Indefinite - 1 ELSE 0 .. 2 ^ WideBits - 1

LEMMA WideReads ==
  ASSUME NEW b \in Wides, NEW v \in WideValues(b)
  PROVE  v \in Int /\ ToWide(b, 2 * v) = v
<1>1. CASE b = "int64"
  <2>1. v \in Indefinite .. -Indefinite - 1 BY <1>1 DEF WideValues
  <2>2. v \in Int BY <2>1
  <2>3. Whole(2 * v) = v BY <2>2, WholeOfHalves
  <2>4. QED BY <1>1, <2>1, <2>2, <2>3 DEF ToWide, ToInteger
<1>2. CASE b # "int64"
  <2>1. v \in 0 .. 2 ^ WideBits - 1 BY <1>2 DEF WideValues
  <2>2. v \in Int BY <2>1
  <2>3. Whole(2 * v) = v BY <2>2, WholeOfHalves
  <2>4. QED BY <1>2, <2>1, <2>2, <2>3, MarshalAssumption DEF ToWide, ToUnsigned
<1>3. QED BY <1>1, <1>2

(* A push only fails for a 64-bit value that a Lua number does not hold.   *)
LEMMA OnlyWideFails ==
  ASSUME NEW s \in Sigs, Supported(s), s.ret # Void, NEW e,
         NEW v \in Returns(s.ret), ~PushReturn(s.ret, v, e).ok
  PROVE  ReturnKind(s.ret) = "Wide" /\ Double(v) # 2 * v
<1> DEFINE t == s.ret
<1> SUFFICES ReturnKind(t) = "Wide" /\ Double(v) # 2 * v  OBVIOUS
<1>1. t \in CTypes /\ t # Void /\ v \in Returns(t) /\ ~PushReturn(t, v, e).ok
  BY DEF Sigs
<1>2. ReturnKind(t) \notin {"Unsupported", "PodOut", "Callback", "Opaque", "ByteBuffer"}
  BY DEF Supported
<1> HIDE DEF t
<1>3. t.base \in Bases /\ t.stars \in {0, 1, 2} /\ t.const \in BOOLEAN
  BY <1>1 DEF CTypes
<1>4. \A x : Reads(x).ok = TRUE BY DEF Reads
<1>5. t.base \notin NoTraits BY <1>1, <1>4 DEF PushReturn
<1>6. t # Pointer("char")
  <2> SUFFICES ASSUME t = Pointer("char") PROVE FALSE  OBVIOUS
  <2>1. Kind(t) = "ByteBuffer"
    BY DEF Kind, PointerKind, Pointer, CType, CharLike, Classes, Incomplete, Scalars, Wides
  <2>2. ReturnKind(t) = "OwnedCString" BY DEF ReturnKind
  <2>3. PushReturn(t, v, e) = Reads(<<PushString(v)>>)
    BY <1>5, <2>1, <2>2 DEF PushReturn
  <2>4. QED BY <1>1, <1>4, <2>3
<1>7. Kind(t) = "Wide"
  <2>1. CASE t.stars = 0
    <3>1. Kind(t) \in {"Void", "Boolean", "Number", "Wide", "Integer", "Pod", "Unsupported"}
      BY <2>1 DEF Kind, ValueKind, Wides
    <3>2. Kind(t) # "Void"
      BY <1>1, <1>3, <2>1 DEF Kind, ValueKind, CTypes, Void, Value, CType, CharLike, Classes, Wides
    <3>3. QED BY <1>1, <1>2, <1>4, <1>5, <1>6, <3>1, <3>2 DEF PushReturn, ReturnKind
  <2>2. CASE t.stars = 1
    <3>1. Kind(t) \in {"CString", "Opaque", "Callback", "Handle", "ByteBuffer", "PodIn", "PodOut"}
      BY <1>3, <2>2 DEF Kind, PointerKind, Bases, Scalars, Wides, CharLike, Classes, Incomplete
    <3>2. QED BY <1>1, <1>2, <1>4, <1>5, <1>6, <3>1 DEF PushReturn, ReturnKind
  <2>3. CASE t.stars = 2
    BY <1>2, <1>6, <2>3 DEF Kind, ReturnKind
  <2>4. QED BY <1>3, <2>1, <2>2, <2>3
<1>8. t.base \in Wides /\ t.stars = 0
  BY <1>3, <1>7 DEF Kind, ValueKind, PointerKind, Bases, Scalars, Wides, CharLike, Classes, Incomplete
<1>9. v \in WideValues(t.base)
  BY <1>1, <1>7, <1>8 DEF Returns, ValuesOf, Void, Value, CType, Incomplete, Wides, WideValues
<1>10. ~PushWide(t.base, v).ok
  <2>1. ReturnKind(t) = "Wide" BY <1>6, <1>7 DEF ReturnKind
  <2>2. PushReturn(t, v, e) = PushWide(t.base, v) BY <1>5, <1>7, <2>1 DEF PushReturn
  <2>3. QED BY <1>1, <2>2
<1>11. ToWide(t.base, Double(v)) # v
  BY <1>4, <1>10 DEF PushWide
<1>12. ToWide(t.base, 2 * v) = v
  BY <1>8, <1>9, WideReads
<1>14. QED BY <1>6, <1>7, <1>11, <1>12 DEF ReturnKind

-----------------------------------------------------------------------------
(* Each step preserves it.                                                 *)

LEMMA InitInv == Init => IInv
<1> SUFFICES ASSUME Init PROVE IInv  OBVIOUS
<1>1. NoSig \in Sigs /\ NoSig.params = <<>> /\ NoSig.ret = Void
  BY VoidType DEF NoSig, Sigs
<1>2. TypeInv
  <2>1. Len(sig.params) = 0 /\ sig \in Sigs BY <1>1, EmptyIsSeq DEF Init
  <2>2. IsSeq(held) /\ IsSeq(at) /\ IsSeq(gave) /\ Len(held) = 0 /\ Len(at) = 0 /\ DOMAIN gave = {}
    BY EmptyIsSeq DEF Init
  <2>3. phase \in Phases /\ argn \in Nat \ {0} /\ pushed \in 0 .. Len(sig.params)
    BY <2>1 DEF Init, Phases
  <2>4. \A k \in DOMAIN gave : gave[k].type \in ParamTypes BY <2>2
  <2>5. epoch \in 0 .. MaxEpoch /\ calls \in 0 .. MaxCalls BY InvokeAssumption DEF Init
  <2>6. ~reached /\ reached \in BOOLEAN /\ hasFree \in BOOLEAN BY DEF Init
  <2>7. Len(held) <= Len(sig.params) /\ Len(at) = Len(held) BY <2>1, <2>2
  <2>8. QED BY <2>1, <2>2, <2>3, <2>4, <2>5, <2>6, <2>7, Zenon DEF TypeInv
<1>3. PairInv
  BY EmptyIsSeq DEF Init, PairInv
<1>4. OwnInv
  BY InvokeAssumption DEF Init, OwnInv, ToFree
<1>5. QED BY <1>2, <1>3, <1>4 DEF IInv

(* A call that begins, and may come to own a string only if it is counted. *)
LEMMA EnterInv ==
  ASSUME IInv, phase \in {"lua", "returned"}, NEW s \in Sigs, NEW a, NEW on, Enter(s, a, on),
         calls' \in calls .. MaxCalls,
         ReturnKind(s.ret) = "OwnedCString" => owned < calls'
  PROVE  IInv'
<1> USE DEF IInv
<1>1. TypeInv'
  <2>1. sig' \in Sigs /\ Len(sig'.params) \in Nat BY DEF Enter, Sigs
  <2>2. IsSeq(held') /\ IsSeq(at') /\ IsSeq(gave') /\ Len(held') = 0 /\ Len(at') = 0 /\ DOMAIN gave' = {}
    BY EmptyIsSeq DEF Enter
  <2>3. phase' \in Phases /\ argn' \in Nat \ {0} /\ pushed' \in 0 .. Len(sig'.params)
    BY <2>1 DEF Enter, Phases
  <2>4. calls' \in 0 .. MaxCalls BY DEF TypeInv
  <2>5. \A k \in DOMAIN gave' : gave'[k].type \in ParamTypes BY <2>2
  <2>6. epoch' \in 0 .. MaxEpoch /\ hasFree' \in BOOLEAN /\ ~reached' /\ reached' \in BOOLEAN
    BY DEF TypeInv, Enter
  <2>7. Len(held') <= Len(sig'.params) /\ Len(at') = Len(held') BY <2>1, <2>2
  <2>8. QED BY <2>1, <2>2, <2>3, <2>4, <2>5, <2>6, <2>7, Zenon DEF TypeInv
<1>2. PairInv'
  <2>1. Len(at') = 0 /\ DOMAIN at' = {} /\ phase' \in {"reading", "unavailable"} /\ argn' = 1
    BY EmptyIsSeq DEF Enter
  <2>2. sig' = s /\ Supported(s) /\ Builds(s) BY DEF Enter
  <2>3. QED BY <2>1, <2>2 DEF PairInv
<1>3. ~ToFree /\ ~ToFree'
  BY DEF Enter, ToFree
<1>4. OwnInv'
  <2>1. calls \in Nat /\ calls' \in Nat /\ calls <= calls' BY DEF TypeInv
  <2>2. QED BY <1>3, <2>1 DEF OwnInv, Enter, OwnsString
<1>5. QED BY <1>1, <1>2, <1>4

LEMMA CallInv ==
  ASSUME IInv, NEW c \in Calls, phase = "lua", Call(c.sig, c.args)
  PROVE  IInv'
<1>1. calls \in 0 .. MaxCalls /\ owned \in Nat /\ owned <= calls BY DEF IInv, TypeInv, OwnInv
<1>2. calls' = calls + 1 /\ calls < MaxCalls BY DEF Call
<1>3. calls' \in calls .. MaxCalls /\ owned < calls' BY <1>1, <1>2, InvokeAssumption
<1>5. c.sig \in Sigs BY InvokeAssumption DEF Sigs
<1>6. QED BY <1>3, <1>5, EnterInv DEF Call

LEMMA PassOnInv ==
  ASSUME IInv, NEW k \in DOMAIN gave, PassOn(k)
  PROVE  IInv'
<1> DEFINE t == gave[k].type
           s == [ret |-> Void, params |-> <<AsParam(t)>>]
<1>1. t \in ParamTypes BY DEF IInv, TypeInv
<1>2. s \in Sigs BY <1>1, AsParamType, SingleSig
<1>3. calls' = calls /\ calls \in 0 .. MaxCalls BY DEF PassOn, IInv, TypeInv
<1>4. calls' \in calls .. MaxCalls BY <1>3, InvokeAssumption
<1>5. ReturnKind(s.ret) # "OwnedCString" BY VoidType
<1>6. \E a, on : Enter(s, a, on) BY DEF PassOn
<1>7. QED BY <1>2, <1>4, <1>5, <1>6, EnterInv DEF PassOn

LEMMA GoOnInv ==
  ASSUME IInv, GoOn
  PROVE  IInv'
<1> USE DEF IInv
<1>1. NoSig \in Sigs /\ Len(NoSig.params) = 0
  BY VoidType, EmptyIsSeq DEF NoSig, Sigs
<1>2. TypeInv'
  <2>1. sig' \in Sigs /\ Len(sig'.params) = 0 BY <1>1 DEF GoOn
  <2>2. IsSeq(held') /\ IsSeq(at') /\ IsSeq(gave') /\ Len(held') = 0 /\ Len(at') = 0 /\ DOMAIN gave' = {}
    BY EmptyIsSeq DEF GoOn
  <2>3. phase' \in Phases /\ argn' \in Nat \ {0} /\ pushed' \in 0 .. Len(sig'.params)
    BY <2>1 DEF GoOn, Phases
  <2>5. \A k \in DOMAIN gave' : gave'[k].type \in ParamTypes BY <2>2
  <2>6. /\ epoch' \in 0 .. MaxEpoch /\ calls' \in 0 .. MaxCalls /\ hasFree' \in BOOLEAN
        /\ ~reached' /\ reached' \in BOOLEAN
    BY DEF TypeInv, GoOn
  <2>7. Len(held') <= Len(sig'.params) /\ Len(at') = Len(held') BY <2>1, <2>2
  <2>8. QED BY <2>1, <2>2, <2>3, <2>5, <2>6, <2>7, Zenon DEF TypeInv
<1>3. PairInv'
  BY EmptyIsSeq DEF PairInv, GoOn
<1>4. ~ToFree /\ ~ToFree'
  BY DEF GoOn, ToFree
<1>5. OwnInv'
  BY <1>4 DEF OwnInv, GoOn
<1>6. QED BY <1>2, <1>3, <1>5

LEMMA WorldDestroyedInv ==
  ASSUME IInv, WorldDestroyed
  PROVE  IInv'
<1> USE DEF IInv, pushes
<1>1. epoch' \in 0 .. MaxEpoch
  BY InvokeAssumption DEF TypeInv, WorldDestroyed
<1>2. TypeInv' BY <1>1 DEF TypeInv, WorldDestroyed
<1>3. PairInv' BY DEF PairInv, WorldDestroyed
<1>4. OwnInv' BY DEF OwnInv, WorldDestroyed, ToFree, OwnsString
<1>5. QED BY <1>2, <1>3, <1>4

LEMMA ReadParamInv ==
  ASSUME IInv, ReadParam
  PROVE  IInv'
<1> USE DEF IInv
<1> DEFINE n == Len(held)
           t == sig.params[n + 1]
           r == Read(t, args, argn, epoch)
<1>1. /\ phase = "reading" /\ n < Len(sig.params)
      /\ sig' = sig /\ args' = args /\ epoch' = epoch /\ owned' = owned /\ ret' = ret /\ outs' = outs
      /\ reached' = reached /\ pushed' = pushed /\ gave' = gave /\ calls' = calls /\ hasFree' = hasFree
  BY DEF ReadParam, engine, pushes
<1>2. /\ sig \in Sigs /\ Len(sig.params) \in Nat /\ n \in Nat /\ IsSeq(held) /\ IsSeq(at)
      /\ Len(at) = n /\ DOMAIN sig.params = 1 .. Len(sig.params)
  BY AppendIsSeq DEF TypeInv, Sigs
<1>3. Consumes(t) = ArgWidth(t) /\ Consumes(t) \in Nat
  <2>1. n + 1 \in DOMAIN sig.params BY <1>1, <1>2
  <2>2. Supported(sig) /\ Builds(sig) BY <1>1 DEF PairInv
  <2>3. QED BY <1>2, <2>1, <2>2, ConsumesWhatIsDescribed
<1>4. CASE r.ok
  <2>1. /\ held' = Append(held, r.val) /\ at' = Append(at, argn)
        /\ argn' = argn + Consumes(t) /\ phase' = phase
    BY <1>4 DEF ReadParam
  <2>2. /\ IsSeq(held') /\ IsSeq(at') /\ Len(held') = n + 1 /\ Len(at') = n + 1
        /\ \A i \in 1 .. n : at'[i] = at[i]
        /\ at'[n + 1] = argn /\ DOMAIN at' = 1 .. n + 1 /\ DOMAIN at = 1 .. n
    BY <1>2, <2>1, AppendIsSeq
  <2>3. argn \in Nat \ {0} /\ argn' \in Nat \ {0}
    BY <1>3, <2>1 DEF TypeInv
  <2>4. TypeInv'
    BY <1>1, <1>2, <2>1, <2>2, <2>3 DEF TypeInv
  <2>5. PairInv'
    <3>1. \A i \in DOMAIN at' : i = 1 => at'[i] = 1
      BY <1>2, <2>2 DEF PairInv
    <3>2. ASSUME NEW i \in DOMAIN at', i > 1
          PROVE  at'[i] = at'[i - 1] + ArgWidth(sig.params[i - 1])
      <4>1. CASE i \in 1 .. n
        BY <1>2, <2>2, <3>2, <4>1 DEF PairInv
      <4>2. CASE i = n + 1
        <5>1. n > 0 /\ n \in 1 .. n /\ i - 1 = n BY <1>2, <3>2, <4>2
        <5>2. argn = at[n] + ArgWidth(sig.params[n]) BY <1>2, <5>1 DEF PairInv
        <5>3. QED BY <2>2, <4>2, <5>1, <5>2
      <4>3. QED BY <1>2, <2>2, <4>1, <4>2
    <3>3. argn' = at'[Len(at')] + ArgWidth(sig.params[Len(at')])
      BY <1>3, <2>1, <2>2
    <3>4. Len(at') > 0 BY <1>2, <2>2
    <3>5. QED BY <1>1, <2>1, <3>1, <3>2, <3>3, <3>4 DEF PairInv
  <2>6. OwnInv'
    BY <1>1, <2>1 DEF OwnInv, ToFree, OwnsString
  <2>7. QED BY <2>4, <2>5, <2>6
<1>5. CASE ~r.ok
  <2>1. phase' = "raised" /\ held' = held /\ at' = at /\ argn' = argn
    BY <1>5 DEF ReadParam
  <2>2. TypeInv' BY <1>1, <2>1 DEF TypeInv, Phases
  <2>3. PairInv' BY <1>1, <2>1 DEF PairInv
  <2>4. ~reached /\ ~ToFree /\ ~ToFree' BY <1>1, <2>1 DEF OwnInv, ToFree
  <2>5. OwnInv' BY <1>1, <2>1, <2>4 DEF OwnInv
  <2>6. QED BY <2>2, <2>3, <2>5
<1>6. QED BY <1>4, <1>5

LEMMA ReadsDoneInv ==
  ASSUME IInv, ReadsDone
  PROVE  IInv'
<1> USE DEF IInv, engine, pushes
<1>1. TypeInv' BY DEF TypeInv, ReadsDone, Phases
<1>2. PairInv' BY DEF PairInv, TypeInv, ReadsDone
<1>3. OwnInv' BY DEF OwnInv, ReadsDone, ToFree, OwnsString
<1>4. QED BY <1>1, <1>2, <1>3

LEMMA CallEngineInv ==
  ASSUME IInv, CallEngine
  PROVE  IInv'
<1> USE DEF IInv, pushes
<1>1. /\ ret' \in Returns(sig.ret) /\ \A i \in DOMAIN sig.params : outs'[i] \in Writes(sig.params[i])
      /\ epoch' \in 0 .. MaxEpoch
  BY InvokeAssumption DEF CallEngine, TypeInv
<1>2. /\ phase = "calling" /\ phase' = "pushing" /\ sig' = sig /\ args' = args /\ argn' = argn
      /\ held' = held /\ at' = at /\ pushed' = pushed /\ gave' = gave /\ calls' = calls
      /\ hasFree' = hasFree /\ reached' = TRUE
      /\ owned' = IF OwnsString /\ ret' # NullStr THEN owned + 1 ELSE owned
  BY DEF CallEngine, OwnsString
<1>3. TypeInv'
  BY <1>1, <1>2 DEF TypeInv, Phases
<1>4. PairInv'
  BY <1>2 DEF PairInv
<1>5. ~ToFree /\ (ToFree' <=> OwnsString /\ ret' # NullStr) /\ (OwnsString' <=> OwnsString)
  BY <1>2 DEF ToFree, OwnsString
<1>6. OwnInv'
  <2>1. owned \in Nat /\ calls \in Nat BY DEF OwnInv, TypeInv
  <2>2. QED BY <1>2, <1>5, <2>1 DEF OwnInv
<1>7. QED BY <1>3, <1>4, <1>6

(* What is given to Lua is of a type of the signature.                     *)
LEMMA GaveInv ==
  ASSUME TypeInv, NEW t \in ParamTypes, NEW v, Gave(t, v)
  PROVE  IsSeq(gave') /\ \A k \in DOMAIN gave' : gave'[k].type \in ParamTypes
<1> DEFINE g == [type |-> t, val |-> v, from |-> Len(results) + 1]
<1>1. gave' = Append(gave, g) BY DEF Gave
<1>2. g.type \in ParamTypes OBVIOUS
<1> HIDE DEF g
<1>3. /\ IsSeq(gave') /\ DOMAIN gave' = 1 .. Len(gave) + 1 /\ DOMAIN gave = 1 .. Len(gave)
      /\ Len(gave) \in Nat /\ gave'[Len(gave) + 1] = g
      /\ \A i \in 1 .. Len(gave) : gave'[i] = gave[i]
  BY <1>1, AppendIsSeq DEF TypeInv
<1>4. ASSUME NEW k \in DOMAIN gave' PROVE gave'[k].type \in ParamTypes
  <2>1. CASE k \in 1 .. Len(gave) BY <1>3, <2>1 DEF TypeInv
  <2>2. CASE k = Len(gave) + 1 BY <1>2, <1>3, <2>2
  <2>3. QED BY <1>3, <2>1, <2>2
<1>5. QED BY <1>3, <1>4

LEMMA PushReturnValueInv ==
  ASSUME IInv, PushReturnValue
  PROVE  IInv'
<1> USE DEF IInv
<1> DEFINE r == PushReturn(sig.ret, ret, epoch)
<1>1. /\ phase = "pushing" /\ sig' = sig /\ args' = args /\ argn' = argn /\ held' = held /\ at' = at
      /\ ret' = ret /\ outs' = outs /\ pushed' = pushed /\ epoch' = epoch /\ calls' = calls
      /\ hasFree' = hasFree /\ reached' = reached
  BY DEF PushReturnValue
<1>2. reached /\ ret \in Returns(sig.ret) /\ Supported(sig) /\ sig \in Sigs /\ sig.ret \in CTypes
  BY <1>1 DEF OwnInv, PairInv, TypeInv, Sigs
<1>3. owned \in Nat /\ owned <= calls /\ calls \in Nat BY DEF OwnInv, TypeInv
<1>4. CASE sig.ret = Void
  <2>1. phase' = "outs" /\ gave' = gave /\ owned' = owned BY <1>4 DEF PushReturnValue
  <2>2. ~OwnsString BY <1>4, VoidType DEF OwnsString
  <2>3. ~ToFree /\ ~ToFree' BY <1>1, <2>1, <2>2 DEF ToFree
  <2>4. TypeInv' BY <1>1, <2>1 DEF TypeInv, Phases
  <2>5. PairInv' BY <1>1, <2>1 DEF PairInv
  <2>6. OwnInv' BY <1>1, <2>1, <2>3 DEF OwnInv
  <2>7. QED BY <2>4, <2>5, <2>6
<1>5. CASE sig.ret # Void /\ r.ok
  <2>1. phase' = "outs" /\ Gave(sig.ret, ret) /\ owned' = Freed BY <1>5 DEF PushReturnValue
  <2>2. TypeInv'
    <3>1. IsSeq(gave') /\ \A k \in DOMAIN gave' : gave'[k].type \in ParamTypes
      BY <1>2, <1>5, <2>1, GaveInv DEF ParamTypes
    <3>2. QED BY <1>1, <2>1, <3>1 DEF TypeInv, Phases
  <2>3. PairInv' BY <1>1, <2>1 DEF PairInv
  <2>4. OwnInv'
    <3>1. owned' = IF ToFree /\ hasFree THEN owned - 1 ELSE owned
      BY <1>1, <2>1 DEF Freed, ToFree, OwnsString
    <3>2. ToFree => owned > 0 BY DEF OwnInv
    <3>3. hasFree => owned = (IF ToFree THEN 1 ELSE 0) BY DEF OwnInv
    <3>4. owned' \in Nat /\ owned' <= calls /\ (hasFree => owned' = 0)
      BY <1>3, <3>1, <3>2, <3>3
    <3>5. ~ToFree' BY <2>1 DEF ToFree
    <3>6. QED BY <1>1, <2>1, <3>4, <3>5 DEF OwnInv
  <2>5. QED BY <2>2, <2>3, <2>4
<1>6. CASE sig.ret # Void /\ ~r.ok
  <2>1. phase' = "raised" /\ gave' = gave /\ owned' = owned BY <1>6 DEF PushReturnValue
  <2>2. ReturnKind(sig.ret) = "Wide" /\ Double(ret) # 2 * ret
    BY <1>2, <1>6, OnlyWideFails
  <2>3. ~ToFree /\ ~ToFree' BY <1>1, <2>1, <2>2 DEF ToFree, OwnsString
  <2>4. TypeInv' BY <1>1, <2>1 DEF TypeInv, Phases
  <2>5. PairInv' BY <1>1, <2>1 DEF PairInv
  <2>6. OwnInv' BY <1>1, <1>2, <2>1, <2>2, <2>3 DEF OwnInv
  <2>7. QED BY <2>4, <2>5, <2>6
<1>7. QED BY <1>4, <1>5, <1>6

LEMMA PushParamInv ==
  ASSUME IInv, PushParam
  PROVE  IInv'
<1> USE DEF IInv
<1> DEFINE t == sig.params[pushed + 1]
<1>1. /\ phase = "outs" /\ phase' = phase /\ sig' = sig /\ args' = args /\ argn' = argn /\ held' = held
      /\ at' = at /\ ret' = ret /\ outs' = outs /\ epoch' = epoch /\ owned' = owned /\ calls' = calls
      /\ hasFree' = hasFree /\ reached' = reached
      /\ pushed < Len(sig.params) /\ pushed' = pushed + 1
  BY DEF PushParam, engine
<1>2. Len(sig.params) \in Nat /\ pushed \in Nat BY DEF TypeInv, Sigs
<1>3. pushed' \in 0 .. Len(sig.params) /\ pushed + 1 \in 1 .. Len(sig.params) BY <1>1, <1>2
<1>4. t \in ParamTypes BY <1>3 DEF TypeInv, Sigs, ParamTypes
<1>5. IsSeq(gave') /\ \A k \in DOMAIN gave' : gave'[k].type \in ParamTypes
  <2>1. CASE IsOut(t)
    <3>1. Gave(t, OutValue(t, outs[pushed + 1])) BY <2>1 DEF PushParam
    <3>2. QED BY <1>4, <3>1, GaveInv
  <2>2. CASE ~IsOut(t)
    <3>1. gave' = gave BY <2>2 DEF PushParam
    <3>2. QED BY <3>1 DEF TypeInv
  <2>3. QED BY <2>1, <2>2
<1>6. TypeInv' BY <1>1, <1>3, <1>5 DEF TypeInv
<1>7. PairInv' BY <1>1 DEF PairInv
<1>8. ~ToFree /\ ~ToFree' BY <1>1 DEF ToFree
<1>9. OwnInv' BY <1>1, <1>8 DEF OwnInv
<1>10. QED BY <1>6, <1>7, <1>9

LEMMA ReturnInv ==
  ASSUME IInv, Return
  PROVE  IInv'
<1> USE DEF IInv, engine, pushes
<1>1. TypeInv' BY DEF TypeInv, Return, Phases
<1>2. PairInv' BY DEF PairInv, Return
<1>3. OwnInv' BY DEF OwnInv, Return, ToFree
<1>4. QED BY <1>1, <1>2, <1>3

(* The inductive invariant: how far the reads have come, and which string  *)
(* of the host is still to be freed (Invoker::run, push_return).           *)
THEOREM InvokeInvariant == Spec => []IInv
<1>1. Init => IInv BY InitInv
<1>2. IInv /\ [Next]_vars => IInv'
  <2> SUFFICES ASSUME IInv, [Next]_vars PROVE IInv'  OBVIOUS
  <2>1. CASE phase = "lua" /\ \E c \in Calls : Call(c.sig, c.args)  BY <2>1, CallInv
  <2>2. CASE phase = "returned" /\ \E k \in DOMAIN gave : PassOn(k)  BY <2>2, PassOnInv
  <2>3. CASE GoOn             BY <2>3, GoOnInv
  <2>4. CASE WorldDestroyed   BY <2>4, WorldDestroyedInv
  <2>5. CASE ReadParam        BY <2>5, ReadParamInv
  <2>6. CASE ReadsDone        BY <2>6, ReadsDoneInv
  <2>7. CASE CallEngine       BY <2>7, CallEngineInv
  <2>8. CASE PushReturnValue  BY <2>8, PushReturnValueInv
  <2>9. CASE PushParam        BY <2>9, PushParamInv
  <2>10. CASE Return          BY <2>10, ReturnInv
  <2>11. CASE UNCHANGED vars
    <3>1. TypeInv' BY <2>11 DEF IInv, TypeInv, vars
    <3>2. PairInv' BY <2>11 DEF IInv, PairInv, vars
    <3>3. OwnInv' BY <2>11 DEF IInv, OwnInv, ToFree, OwnsString, vars
    <3>4. QED BY <3>1, <3>2, <3>3 DEF IInv
  <2>12. QED BY <2>1, <2>2, <2>3, <2>4, <2>5, <2>6, <2>7, <2>8, <2>9, <2>10, <2>11 DEF Next
<1>3. QED BY <1>1, <1>2, PTL DEF Spec

-----------------------------------------------------------------------------
(* A wrapped call is well typed; in particular no string is freed twice,   *)
(* or freed when there is none (push_return's OwnedCString).               *)
THEOREM InvokeTypeCorrect == Spec => []TypeOK
<1>1. IInv => TypeOK
  <2> SUFFICES ASSUME IInv PROVE TypeOK  OBVIOUS
  <2>1. sig.ret \in CTypes /\ sig.params \in Seq(CTypes) BY DEF IInv, TypeInv, Sigs
  <2>2. owned \in 0 .. MaxCalls BY InvokeAssumption DEF IInv, TypeInv, OwnInv
  <2>3. QED BY <2>1, <2>2 DEF IInv, TypeInv, TypeOK
<1>2. QED BY <1>1, InvokeInvariant, PTL

(* For every signature that has a binding, each parameter is read where    *)
(* the published signature puts its argument (the comma fold of run()).    *)
THEOREM ArgumentsAlwaysPairUp == Spec => []ArgumentsPairUp
<1>1. IInv => ArgumentsPairUp
  BY DEF IInv, TypeInv, PairInv, ArgumentsPairUp
<1>2. QED BY <1>1, InvokeInvariant, PTL

(* A call leaves no string behind, and raises after it reached the engine  *)
(* only for a result too wide for Lua (push_return, push_wide).            *)
THEOREM FailuresAreClean == Spec => []CleanFailure
<1>1. IInv => CleanFailure
  BY DEF IInv, OwnInv, ToFree, CleanFailure
<1>2. QED BY <1>1, InvokeInvariant, PTL

-----------------------------------------------------------------------------
(* Powers of two.                                                          *)

(* Induction up to a bound, on a set.                                      *)
LEMMA UpToN ==
  ASSUME NEW N \in Nat, NEW S, 0 \in S, \A n \in 1 .. N : n - 1 \in S => n \in S
  PROVE  0 .. N \subseteq S
  <1> DEFINE R == OpToRel(<, Nat)
             Out == (0 .. N) \ S
  <1> SUFFICES ASSUME Out # {} PROVE FALSE
    OBVIOUS
  <1>1. IsWellFoundedOn(R, Nat)
    BY NatLessThanWellFounded
  <1>2. \A x \in Nat : \A y \in Nat : <<x, y>> \in R <=> x < y
    BY Zenon DEF OpToRel
  <1> HIDE DEF R
  <1>3. Out \in SUBSET Nat
    OBVIOUS
  <1> HIDE DEF Out
  <1>4. PICK m \in Out : \A n \in Out : ~(<<n, m>> \in R)
    BY <1>1, <1>3, WFMin, Zenon
  <1>5. \A n \in Out : ~(n < m)
    BY <1>2, <1>3, <1>4, Zenon
  <1>6. m \in 1 .. N /\ m - 1 \in 0 .. N /\ m \notin S
    BY DEF Out
  <1>7. m - 1 \notin Out
    BY <1>5, <1>6
  <1>8. QED
    BY <1>6, <1>7 DEF Out

(* A power of two counts the subsets of a set; so it is positive, and that *)
(* of a sum is the product.                                                *)
LEMMA PowerCounts ==
  ASSUME NEW n \in Nat
  PROVE  /\ IsFiniteSet(SUBSET (1 .. n)) /\ Cardinality(SUBSET (1 .. n)) = 2 ^ n
         /\ 2 ^ n \in Nat \ {0}
  <1>1. IsFiniteSet(1 .. n) /\ Cardinality(1 .. n) = n
    BY FS_Interval
  <1>2. IsFiniteSet(SUBSET (1 .. n)) /\ Cardinality(SUBSET (1 .. n)) = 2 ^ n
    BY <1>1, FS_SUBSET
  <1>3. 2 ^ n \in Nat
    BY <1>2, FS_CardinalityType
  <1>4. SUBSET (1 .. n) # {}
    OBVIOUS
  <1>5. 2 ^ n # 0
    BY <1>2, <1>4, FS_EmptySet
  <1>6. QED
    BY <1>2, <1>3, <1>5

LEMMA PowerOfSum ==
  ASSUME NEW m \in Nat, NEW n \in Nat
  PROVE  2 ^ (m + n) = 2 ^ m * 2 ^ n
  <1> DEFINE S == 1 .. m
             T == (m + 1) .. (m + n)
             U == 1 .. (m + n)
             f == [p \in (SUBSET S) \X (SUBSET T) |-> p[1] \cup p[2]]
  <1>1. /\ IsFiniteSet(SUBSET S) /\ Cardinality(SUBSET S) = 2 ^ m
        /\ IsFiniteSet(SUBSET U) /\ Cardinality(SUBSET U) = 2 ^ (m + n)
    BY PowerCounts
  <1>2. IsFiniteSet(SUBSET T) /\ Cardinality(SUBSET T) = 2 ^ n
    <2>1. IsFiniteSet(T) /\ Cardinality(T) = n
      BY FS_Interval
    <2>2. QED
      BY <2>1, FS_SUBSET
  <1>3. /\ IsFiniteSet((SUBSET S) \X (SUBSET T))
        /\ Cardinality((SUBSET S) \X (SUBSET T)) = 2 ^ m * 2 ^ n
    <2> DEFINE A == SUBSET S
               B == SUBSET T
    <2>1. IsFiniteSet(A) /\ Cardinality(A) = 2 ^ m /\ IsFiniteSet(B) /\ Cardinality(B) = 2 ^ n
      BY <1>1, <1>2
    <2> HIDE DEF A, B
    <2>2. IsFiniteSet(A \X B) /\ Cardinality(A \X B) = Cardinality(A) * Cardinality(B)
      BY <2>1, FS_Product
    <2>3. Cardinality(A \X B) = 2 ^ m * 2 ^ n
      BY <2>1, <2>2, Zenon
    <2>4. QED
      BY <2>2, <2>3 DEF A, B
  <1>4. S \cap T = {} /\ S \cup T = U
    OBVIOUS
  <1> HIDE DEF S, T, U
  <1>5. f \in Bijection((SUBSET S) \X (SUBSET T), SUBSET U)
    <2>1. f \in [(SUBSET S) \X (SUBSET T) -> SUBSET U]
      BY <1>4
    <2>2. ASSUME NEW p \in (SUBSET S) \X (SUBSET T), NEW q \in (SUBSET S) \X (SUBSET T), f[p] = f[q]
          PROVE  p = q
      <3>1. p[1] \cup p[2] = q[1] \cup q[2]
        BY <2>2
      <3>2. p[1] \subseteq S /\ q[1] \subseteq S /\ p[2] \subseteq T /\ q[2] \subseteq T
        OBVIOUS
      <3>3. p[1] = q[1] /\ p[2] = q[2]
        BY <1>4, <3>1, <3>2
      <3>4. QED
        BY <3>3
    <2>3. ASSUME NEW A \in SUBSET U PROVE \E p \in (SUBSET S) \X (SUBSET T) : f[p] = A
      <3>1. <<A \cap S, A \cap T>> \in (SUBSET S) \X (SUBSET T)
        OBVIOUS
      <3>2. f[<<A \cap S, A \cap T>>] = A
        BY <1>4, <3>1
      <3>3. QED
        BY <3>1, <3>2
    <2> HIDE DEF f
    <2>4. QED
      BY <2>1, <2>2, <2>3 DEF Bijection, Injection, Surjection, IsInjective
  <1>6. ExistsBijection((SUBSET S) \X (SUBSET T), SUBSET U)
    BY <1>5 DEF ExistsBijection
  <1>7. QED
    BY <1>1, <1>3, <1>6, FS_Bijection

-----------------------------------------------------------------------------
(* Rounding.                                                               *)

(* Doubling and order.                                                     *)
LEMMA PowersAre ==
  /\ 2 ^ 0 = 1
  /\ \A n \in Nat : 2 ^ n \in Nat \ {0} /\ 2 ^ (n + 1) = 2 * 2 ^ n
  /\ \A m, n \in Nat : m <= n => 2 ^ m <= 2 ^ n
<1>1. 2 ^ 0 = 1 /\ 2 ^ 1 = 2 OBVIOUS
<1>2. \A n \in Nat : 2 ^ n \in Nat \ {0} BY PowerCounts
<1>3. ASSUME NEW n \in Nat PROVE 2 ^ (n + 1) = 2 * 2 ^ n
  <2>1. 2 ^ (n + 1) = 2 ^ n * 2 ^ 1 BY PowerOfSum
  <2>2. QED BY <1>1, <1>2, <2>1
<1>4. ASSUME NEW m \in Nat, NEW n \in Nat, m <= n PROVE 2 ^ m <= 2 ^ n
  <2>1. n - m \in Nat /\ m + (n - m) = n BY <1>4
  <2>2. 2 ^ n = 2 ^ m * 2 ^ (n - m) BY <2>1, PowerOfSum
  <2> DEFINE a == 2 ^ m
             b == 2 ^ (n - m)
  <2>3. a \in Nat \ {0} /\ b \in Nat \ {0} /\ 2 ^ n = a * b BY <1>2, <2>1, <2>2
  <2> HIDE DEF a, b
  <2>4. a <= a * b BY <2>3
  <2>5. QED BY <2>3, <2>4 DEF a
<1>5. QED BY <1>1, <1>2, <1>3, <1>4

(* The unit of the last significant bit, of a number that is not beyond    *)
(* all of them: the least power of two that leaves few enough.             *)
HasUnit(bits, n, e) ==
  /\ e \in 0 .. WideBits + 1 /\ Abs(n) < 2 ^ (bits + e)
  /\ e = 0 \/ 2 ^ (bits + e - 1) <= Abs(n)

LEMMA UnitExists ==
  ASSUME NEW bits \in Nat \ {0}, NEW n \in Nat, n < 2 ^ (bits + WideBits + 1)
  PROVE  \E e \in Nat : HasUnit(bits, n, e) /\ Unit(bits, n) = 2 ^ e
<1> DEFINE N == WideBits + 1
           S == {k \in 0 .. N : n < 2 ^ (bits + k) => \E e : HasUnit(bits, n, e)}
<1>1. N \in Nat /\ Abs(n) = n BY MarshalAssumption DEF Abs
<1>2. 0 \in S BY <1>1 DEF HasUnit
<1>3. ASSUME NEW k \in 1 .. N, k - 1 \in S PROVE k \in S
  <2>1. CASE n < 2 ^ (bits + (k - 1)) BY <1>3, <2>1
  <2>2. CASE ~(n < 2 ^ (bits + (k - 1)))
    <3>1. bits + (k - 1) = bits + k - 1 /\ bits + k - 1 \in Nat BY <1>1
    <3>2. 2 ^ (bits + k - 1) \in Nat BY <3>1, PowersAre
    <3>3. 2 ^ (bits + k - 1) <= n BY <2>2, <3>1, <3>2
    <3>4. QED BY <1>1, <3>3 DEF HasUnit
  <2>3. QED BY <2>1, <2>2
<1> HIDE DEF S
<1>4. N \in S
  <2>1. 0 .. N \subseteq S BY <1>1, <1>2, <1>3, UpToN
  <2>2. QED BY <1>1, <2>1
<1>5. bits + N = bits + WideBits + 1 BY MarshalAssumption
<1>6. \E e : HasUnit(bits, n, e) BY <1>4, <1>5 DEF S
<1> DEFINE e == CHOOSE x \in 0 .. WideBits + 1 :
                  Abs(n) < 2 ^ (bits + x) /\ (x = 0 \/ 2 ^ (bits + x - 1) <= Abs(n))
<1>7. HasUnit(bits, n, e) BY <1>6 DEF HasUnit
<1>8. e \in Nat /\ Unit(bits, n) = 2 ^ e BY <1>7, MarshalAssumption DEF HasUnit, Unit
<1>9. QED BY <1>7, <1>8

(* What has few enough bits is not rounded.                                *)
LEMMA FewBitsStay ==
  ASSUME NEW bits \in Nat \ {0}, NEW n \in Int, Abs(n) < 2 ^ bits
  PROVE  RoundTo(bits, n) = n
<1> DEFINE P(x) == Abs(n) < 2 ^ (bits + x) /\ (x = 0 \/ 2 ^ (bits + x - 1) <= Abs(n))
<1>1. Abs(n) \in Nat /\ 0 \in 0 .. WideBits + 1 BY MarshalAssumption DEF Abs
<1>2. P(0) BY <1>1
<1>3. ASSUME NEW x \in 0 .. WideBits + 1, P(x) PROVE x = 0
  <2> SUFFICES ASSUME x # 0 PROVE FALSE OBVIOUS
  <2>1. bits + x - 1 \in Nat /\ bits <= bits + x - 1 BY MarshalAssumption
  <2>2. 2 ^ bits <= 2 ^ (bits + x - 1) BY <2>1, PowersAre
  <2>3. 2 ^ bits \in Nat /\ 2 ^ (bits + x - 1) \in Nat BY <2>1, PowersAre
  <2>4. QED BY <1>1, <1>3, <2>2, <2>3
<1>4. (CHOOSE x \in 0 .. WideBits + 1 : P(x)) = 0
  BY <1>1, <1>2, <1>3
<1>5. Unit(bits, n) = 1 BY <1>4, PowersAre DEF Unit
<1>6. Abs(n) \div 1 = Abs(n) /\ Abs(n) % 1 = 0 BY <1>1
<1>7. QED BY <1>1, <1>5, <1>6 DEF RoundTo, Abs

(* Rounding an even number leaves it even, and its sign.                   *)
LEMMA EvenStaysEven ==
  ASSUME NEW bits \in Nat \ {0}, NEW k \in Nat, 2 * k < 2 ^ (bits + WideBits + 1)
  PROVE  \E j \in Nat : RoundTo(bits, 2 * k) = 2 * j
<1> DEFINE n == 2 * k
           u == Unit(bits, n)
           q == n \div u
           r == n % u
           up == 2 * r > u \/ (2 * r = u /\ q % 2 = 1)
           m == IF up THEN q + 1 ELSE q
<1>1. n \in Nat /\ Abs(n) = n BY DEF Abs
<1>2. PICK e \in Nat : u = 2 ^ e
  BY <1>1, UnitExists
<1>3. u \in Nat \ {0} BY <1>2, PowersAre
<1>4. RoundTo(bits, 2 * k) = m * u BY <1>1 DEF RoundTo
<1> HIDE DEF n, u
<1>5. q \in Nat /\ r \in Nat BY <1>1, <1>3
<1>6. m \in Nat BY <1>5
<1>7. CASE e = 0
  <2>1. u = 1 BY <1>2, <1>7, PowersAre
  <2>2. q = n /\ r = 0 BY <1>1, <2>1
  <2>3. m * u = n BY <1>1, <2>1, <2>2
  <2>4. QED BY <1>4, <2>3 DEF n
<1>8. CASE e # 0
  <2>1. e - 1 \in Nat /\ (e - 1) + 1 = e BY <1>8
  <2>2. u = 2 * 2 ^ (e - 1) /\ 2 ^ (e - 1) \in Nat BY <1>2, <2>1, PowersAre
  <2> HIDE DEF m
  <2>3. m * u = 2 * (m * 2 ^ (e - 1)) /\ m * 2 ^ (e - 1) \in Nat BY <1>6, <2>2
  <2>4. QED BY <1>4, <2>3
<1>9. QED BY <1>7, <1>8

(* The sign is put aside.                                                  *)
LEMMA RoundsBothWays ==
  ASSUME NEW bits \in Nat \ {0}, NEW n \in Nat \ {0}
  PROVE  RoundTo(bits, -n) = -RoundTo(bits, n)
<1>1. Abs(-n) = n /\ Abs(n) = n BY DEF Abs
<1>2. Unit(bits, -n) = Unit(bits, n) BY <1>1 DEF Unit
<1>3. -n < 0 /\ ~(n < 0) OBVIOUS
<1>4. QED BY <1>1, <1>2, <1>3 DEF RoundTo

(* A 64-bit value as a Lua number.                                         *)
LEMMA InReach ==
  ASSUME NEW v \in 0 .. 2 ^ WideBits
  PROVE  v \in Nat /\ 2 * v < 2 ^ (DoubleBits + WideBits + 1) /\ DoubleBits \in Nat \ {0}
<1>1. /\ DoubleBits \in Nat \ {0} /\ WideBits \in Nat
      /\ WideBits + 1 <= DoubleBits + WideBits + 1 /\ DoubleBits + WideBits + 1 \in Nat
      /\ WideBits + 1 \in Nat /\ WideBits + 2 \in Nat /\ WideBits + 2 <= DoubleBits + WideBits + 1
  BY MarshalAssumption
<1>2. 2 ^ WideBits \in Nat \ {0} /\ 2 ^ (WideBits + 1) = 2 * 2 ^ WideBits
      /\ 2 ^ (WideBits + 2) = 2 * 2 ^ (WideBits + 1)
  <2>1. WideBits + 2 = (WideBits + 1) + 1 BY <1>1
  <2>2. QED BY <1>1, <2>1, PowersAre
<1>3. 2 ^ (WideBits + 2) <= 2 ^ (DoubleBits + WideBits + 1) BY <1>1, PowersAre
<1>4. 2 ^ (DoubleBits + WideBits + 1) \in Nat BY <1>1, PowersAre
<1>5. QED BY <1>1, <1>2, <1>3, <1>4

LEMMA WideIsEven ==
  ASSUME NEW v \in Int, v \in -(2 ^ WideBits) .. 2 ^ WideBits
  PROVE  \E j \in Int : Double(v) = 2 * j /\ (v >= 0 => j \in Nat)
<1>1. 2 ^ WideBits \in Nat BY MarshalAssumption, PowersAre
<1>2. CASE v >= 0
  <2>1. v \in 0 .. 2 ^ WideBits BY <1>1, <1>2
  <2>2. \E j \in Nat : Double(v) = 2 * j BY <2>1, InReach, EvenStaysEven DEF Double
  <2>3. QED BY <2>2
<1>3. CASE v < 0
  <2> DEFINE k == -v
  <2>1. k \in 0 .. 2 ^ WideBits BY <1>1, <1>3
  <2>2. k \in Nat /\ 2 * k \in Nat \ {0} /\ 2 * v = -(2 * k) /\ DoubleBits \in Nat \ {0} BY <1>3, <2>1, InReach
  <2>3. PICK j \in Nat : RoundTo(DoubleBits, 2 * k) = 2 * j BY <2>1, InReach, EvenStaysEven
  <2>4. RoundTo(DoubleBits, 2 * v) = -(2 * j) BY <2>2, <2>3, RoundsBothWays
  <2>5. Double(v) = 2 * (-j) /\ -j \in Int BY <2>3, <2>4 DEF Double
  <2>6. QED BY <1>3, <2>5
<1>4. QED BY <1>2, <1>3

(* The least one, which is what is out of the signed ones' range becomes,  *)
(* is a power of two, and is not rounded.                                  *)
LEMMA LeastStays == Indefinite \in Int /\ Double(Indefinite) = 2 * Indefinite
<1> DEFINE N == 2 ^ WideBits
           d == DoubleBits
<1>1. /\ WideBits \in Nat /\ WideBits - 1 \in Nat /\ (WideBits - 1) + 1 = WideBits
      /\ d \in Nat \ {0} /\ N \in Nat \ {0} /\ 2 ^ (WideBits - 1) \in Nat \ {0} /\ N = 2 * 2 ^ (WideBits - 1)
  <2>1. WideBits \in Nat /\ WideBits - 1 \in Nat /\ (WideBits - 1) + 1 = WideBits /\ d \in Nat \ {0}
    BY MarshalAssumption
  <2>2. QED BY <2>1, PowersAre
<1>2. Indefinite \in Int /\ 2 * Indefinite = -N BY <1>1 DEF Indefinite
<1>3. N < 2 ^ (d + WideBits + 1)
  <2>1. 2 ^ (WideBits - 1) \in 0 .. N BY <1>1
  <2>2. QED BY <1>1, <2>1, InReach
<1> HIDE DEF N
<1>4. PICK e \in Nat : HasUnit(d, N, e) /\ Unit(d, N) = 2 ^ e BY <1>1, <1>3, UnitExists
<1>5. Abs(N) = N BY <1>1 DEF Abs
<1>6. e <= WideBits
  <2> SUFFICES ASSUME e > WideBits PROVE FALSE BY <1>1
  <2>1. d + e - 1 \in Nat /\ WideBits + 1 \in Nat /\ WideBits + 1 <= d + e - 1 /\ e # 0 BY <1>1
  <2>2. 2 ^ (WideBits + 1) <= 2 ^ (d + e - 1) /\ 2 ^ (WideBits + 1) = 2 * N BY <1>1, <2>1, PowersAre DEF N
  <2>3. 2 ^ (d + e - 1) <= N BY <1>4, <1>5, <2>1 DEF HasUnit
  <2>4. 2 ^ (d + e - 1) \in Nat BY <2>1, PowersAre
  <2>5. QED BY <1>1, <2>2, <2>3, <2>4
<1> DEFINE u == 2 ^ e
           m == 2 ^ (WideBits - e)
<1>7. u \in Nat \ {0} /\ m \in Nat \ {0} /\ N = m * u
  <2>1. WideBits - e \in Nat /\ (WideBits - e) + e = WideBits BY <1>1, <1>6
  <2>2. QED BY <2>1, PowersAre, PowerOfSum DEF N
<1> HIDE DEF u, m
<1>8. N \div u = m /\ N % u = 0 BY <1>7
<1>9. Unit(d, N) = u BY <1>4 DEF u
<1>10. RoundTo(d, N) = N
  <2>1. ~(2 * 0 > u) /\ ~(2 * 0 = u) /\ ~(N < 0) BY <1>1, <1>7
  <2>2. QED BY <1>5, <1>7, <1>8, <1>9, <2>1 DEF RoundTo
<1>11. RoundTo(d, -N) = -N BY <1>1, <1>10, RoundsBothWays
<1>12. QED BY <1>2, <1>11 DEF Double

-----------------------------------------------------------------------------
(* Conversions of numbers.                                                 *)

(* How the widths compare.                                                 *)
LEMMA WidthsAre ==
  /\ 2 ^ IntBits \in Nat \ {0} /\ 2 ^ ByteBits \in Nat \ {0} /\ 2 ^ WideBits \in Nat \ {0}
  /\ 2 ^ (IntBits - 1) \in Nat \ {0} /\ 2 ^ (ByteBits - 1) \in Nat \ {0} /\ 2 ^ (WideBits - 1) \in Nat \ {0}
  /\ 2 ^ IntBits = 2 * 2 ^ (IntBits - 1) /\ 2 ^ ByteBits = 2 * 2 ^ (ByteBits - 1)
  /\ 2 ^ WideBits = 2 * 2 ^ (WideBits - 1)
  /\ 2 ^ ByteBits <= 2 ^ (IntBits - 1) /\ 2 ^ IntBits <= 2 ^ (WideBits - 1)
  /\ 2 * 2 ^ IntBits <= 2 ^ DoubleBits /\ 2 ^ DoubleBits \in Nat
<1> DEFINE i == IntBits - 1
           b == ByteBits - 1
           w == WideBits - 1
<1>1. /\ i \in Nat /\ b \in Nat /\ w \in Nat /\ DoubleBits \in Nat
      /\ i + 1 = IntBits /\ b + 1 = ByteBits /\ w + 1 = WideBits
      /\ ByteBits <= i /\ IntBits <= w /\ IntBits + 1 <= DoubleBits
      /\ IntBits \in Nat /\ ByteBits \in Nat /\ WideBits \in Nat /\ IntBits + 1 \in Nat
  BY MarshalAssumption
<1>2. 2 ^ IntBits = 2 * 2 ^ i /\ 2 ^ ByteBits = 2 * 2 ^ b /\ 2 ^ WideBits = 2 * 2 ^ w
  BY <1>1, PowersAre
<1>3. 2 ^ (IntBits + 1) = 2 * 2 ^ IntBits BY <1>1, PowersAre
<1>4. 2 ^ ByteBits <= 2 ^ i /\ 2 ^ IntBits <= 2 ^ w /\ 2 ^ (IntBits + 1) <= 2 ^ DoubleBits
  BY <1>1, PowersAre
<1>5. QED BY <1>1, <1>2, <1>3, <1>4, PowersAre

(* An integer of at most 32 bits goes through a Lua number unharmed.       *)
Small == {v \in Int : -(2 ^ IntBits) < v /\ v < 2 ^ IntBits}
LEMMA SmallStays ==
  ASSUME NEW v \in Small
  PROVE  v \in Int /\ Double(v) = 2 * v /\ ToInteger(2 * v) = v
<1>1. /\ v \in Int /\ 2 ^ IntBits \in Nat /\ -(2 ^ IntBits) < v /\ v < 2 ^ IntBits
      /\ DoubleBits \in Nat \ {0}
  BY WidthsAre, MarshalAssumption DEF Small
<1>2. Abs(2 * v) < 2 ^ DoubleBits BY <1>1, WidthsAre DEF Abs
<1>3. Double(v) = 2 * v BY <1>1, <1>2, FewBitsStay DEF Double
<1>4. Whole(2 * v) = v BY <1>1, WholeOfHalves
<1>5. v \in Indefinite .. -Indefinite - 1 BY <1>1, WidthsAre DEF Indefinite
<1>6. QED BY <1>1, <1>3, <1>4, <1>5 DEF ToInteger

(* A remainder by a power of two, of a number within reach.                *)
LEMMA WrapStays ==
  ASSUME NEW v \in Int, NEW bits \in Nat, 2 ^ bits \in Nat \ {0}
  PROVE  /\ Wrap(v, bits) \in 0 .. 2 ^ bits - 1
         /\ v \in 0 .. 2 ^ bits - 1 => Wrap(v, bits) = v
         /\ v \in -(2 ^ bits) .. -1 => Wrap(v, bits) = v + 2 ^ bits
<1> DEFINE p == 2 ^ bits
<1>1. p \in Nat \ {0} /\ Wrap(v, bits) = v % p BY DEF Wrap
<1> SUFFICES /\ v % p \in 0 .. p - 1
             /\ v \in 0 .. p - 1 => v % p = v
             /\ v \in -p .. -1 => v % p = v + p
  BY <1>1
<1> HIDE DEF p
<1>2. v % p \in 0 .. p - 1 BY <1>1
<1>3. v \in 0 .. p - 1 => v % p = v BY <1>1
<1>4. v \in -p .. -1 => v % p = v + p BY <1>1
<1>5. QED BY <1>2, <1>3, <1>4

LEMMA SignedStays ==
  ASSUME NEW bits \in Nat \ {0}, NEW v \in -(2 ^ (bits - 1)) .. 2 ^ (bits - 1) - 1
  PROVE  Signed(v, bits) = v
<1>1. bits - 1 \in Nat /\ (bits - 1) + 1 = bits OBVIOUS
<1>2. 2 ^ (bits - 1) \in Nat \ {0} /\ 2 ^ bits = 2 * 2 ^ (bits - 1) /\ v \in Int
  BY <1>1, PowersAre
<1>3. 2 ^ bits \in Nat \ {0} BY <1>2
<1>4. CASE v >= 0
  <2>1. v \in 0 .. 2 ^ bits - 1 BY <1>2, <1>4
  <2>2. Wrap(v, bits) = v BY <1>2, <1>3, <2>1, WrapStays
  <2>3. QED BY <1>2, <2>2 DEF Signed
<1>5. CASE v < 0
  <2>1. v \in -(2 ^ bits) .. -1 BY <1>2, <1>5
  <2>2. Wrap(v, bits) = v + 2 ^ bits BY <1>2, <1>3, <2>1, WrapStays
  <2>3. QED BY <1>2, <2>2 DEF Signed
<1>6. QED BY <1>2, <1>4, <1>5

(* What comes of a number that is an integer.                              *)
LEMMA WideOfHalves ==
  ASSUME NEW b \in Wides, NEW j \in Int
  PROVE  /\ j \in WideValues(b) => ToWide(b, 2 * j) = j
         /\ j \notin WideValues(b) /\ b = "int64" => ToWide(b, 2 * j) = Indefinite
         /\ j \notin WideValues(b) /\ b = "uint64" /\ j >= 0 => ToWide(b, 2 * j) = 0
<1>1. Whole(2 * j) = j BY WholeOfHalves
<1>2. j \in WideValues(b) => ToWide(b, 2 * j) = j BY WideReads
<1>3. ASSUME j \notin WideValues(b), b = "int64" PROVE ToWide(b, 2 * j) = Indefinite
  BY <1>1, <1>3 DEF ToWide, ToInteger, WideValues
<1>4. ASSUME j \notin WideValues(b), b = "uint64", j >= 0 PROVE ToWide(b, 2 * j) = 0
  <2>1. ~(j < 2 ^ WideBits) BY <1>4, WidthsAre DEF WideValues
  <2>2. QED BY <1>1, <1>4, <2>1 DEF ToWide, ToUnsigned
<1>5. QED BY <1>2, <1>3, <1>4

LEMMA WideRange ==
  ASSUME NEW b \in Wides
  PROVE  /\ \A v \in WideValues(b) : v \in Int /\ v \in -(2 ^ WideBits) .. 2 ^ WideBits
         /\ \A n \in Int : ToWide(b, n) \in Int /\ ToWide(b, n) \in -(2 ^ WideBits) .. 2 ^ WideBits
         /\ \A n \in Int : b = "uint64" => ToWide(b, n) >= 0
<1>1. /\ 2 ^ WideBits \in Nat \ {0} /\ 2 ^ (WideBits - 1) \in Nat \ {0}
      /\ 2 ^ WideBits = 2 * 2 ^ (WideBits - 1) /\ WideBits \in Nat
  BY WidthsAre, MarshalAssumption
<1>2. ASSUME NEW v \in WideValues(b) PROVE v \in Int /\ v \in -(2 ^ WideBits) .. 2 ^ WideBits
  BY <1>1 DEF WideValues, Indefinite
<1>3. ASSUME NEW n \in Int
      PROVE  /\ ToWide(b, n) \in Int /\ ToWide(b, n) \in -(2 ^ WideBits) .. 2 ^ WideBits
             /\ b = "uint64" => ToWide(b, n) >= 0
  <2>1. Whole(n) \in Int BY DEF Whole
  <2>2. CASE b = "int64"
    BY <1>1, <2>1, <2>2 DEF ToWide, ToInteger, Indefinite
  <2>3. CASE b # "int64"
    <3>1. Wrap(Whole(n), WideBits) \in 0 .. 2 ^ WideBits - 1 BY <1>1, <2>1, WrapStays
    <3>2. QED BY <1>1, <2>1, <2>3, <3>1 DEF ToWide, ToUnsigned, Indefinite
  <2>4. QED BY <2>2, <2>3
<1>4. QED BY <1>2, <1>3

(* What an argument of 64 bits is accepted as is exactly the number.       *)
LEMMA WideIsExact ==
  ASSUME NEW b \in Wides, NEW n \in Int, Double(ToWide(b, n)) = n
  PROVE  ToWide(b, n) \in WideValues(b) /\ n = 2 * ToWide(b, n)
<1> DEFINE c == ToWide(b, n)
<1>1. c \in Int /\ c \in -(2 ^ WideBits) .. 2 ^ WideBits /\ (b = "uint64" => c >= 0) BY WideRange
<1>2. PICK j \in Int : n = 2 * j /\ (c >= 0 => j \in Nat) BY <1>1, WideIsEven
<1>3. CASE j \in WideValues(b) BY <1>2, <1>3, WideOfHalves
<1>4. CASE j \notin WideValues(b) /\ b = "int64"
  <2>1. c = Indefinite BY <1>2, <1>4, WideOfHalves
  <2>2. n = 2 * Indefinite BY <2>1, LeastStays
  <2>3. j = Indefinite BY <1>2, <2>2, LeastStays
  <2>4. Indefinite \in WideValues(b) BY <1>4, WidthsAre DEF WideValues, Indefinite
  <2>5. QED BY <1>4, <2>3, <2>4
<1>5. CASE j \notin WideValues(b) /\ b = "uint64"
  <2>1. j >= 0 BY <1>1, <1>2, <1>5
  <2>2. c = 0 BY <1>2, <1>5, <2>1, WideOfHalves
  <2>3. Double(0) = 0
    <3>1. 0 \in Small BY WidthsAre DEF Small
    <3>2. QED BY <3>1, SmallStays
  <2>4. j = 0 BY <1>2, <2>2, <2>3
  <2>5. 0 \in WideValues(b) BY <1>5, WidthsAre DEF WideValues
  <2>6. QED BY <1>5, <2>4, <2>5
<1>6. QED BY <1>3, <1>4, <1>5 DEF Wides

(* A 64-bit result is pushed only if it is not rounded, and is then taken  *)
(* as an argument.                                                         *)
LEMMA WideGoesRound ==
  ASSUME NEW b \in Wides, NEW v \in WideValues(b)
  PROVE  /\ v \in Int /\ ToWide(b, 2 * v) = v /\ Double(v) \in Int
         /\ ToWide(b, Double(v)) = v => Double(v) = 2 * v
<1>1. v \in Int /\ v \in -(2 ^ WideBits) .. 2 ^ WideBits /\ (b = "uint64" => v >= 0)
  <2>1. b = "uint64" => v >= 0 BY WidthsAre DEF WideValues
  <2>2. QED BY <2>1, WideRange
<1>2. PICK j \in Int : Double(v) = 2 * j /\ (v >= 0 => j \in Nat) BY <1>1, WideIsEven
<1>3. ASSUME ToWide(b, Double(v)) = v PROVE Double(v) = 2 * v
  <2>1. CASE j \in WideValues(b) BY <1>2, <1>3, <2>1, WideOfHalves
  <2>2. CASE j \notin WideValues(b) /\ b = "int64"
    <3>1. v = Indefinite BY <1>2, <1>3, <2>2, WideOfHalves
    <3>2. QED BY <3>1, LeastStays
  <2>3. CASE j \notin WideValues(b) /\ b = "uint64"
    <3>1. v = 0 BY <1>1, <1>2, <1>3, <2>3, WideOfHalves
    <3>2. 0 \in Small BY WidthsAre DEF Small
    <3>3. QED BY <3>1, <3>2, SmallStays
  <2>4. QED BY <2>1, <2>2, <2>3 DEF Wides
<1>4. Double(v) \in Int BY <1>2
<1>5. QED BY <1>1, <1>3, <1>4, WideReads

-----------------------------------------------------------------------------
(* What is read (Storage::read).                                           *)

AreLua(vals) == \A i \in DOMAIN vals : IsLuaValue(vals[i])

(* What was read so far is what Lua passed there.                          *)
HeldInv ==
  /\ AreLua(args)
  /\ phase \in {"reading", "calling"} =>
       \A i \in DOMAIN held : ~IsOut(sig.params[i]) => Meant(sig.params[i], at[i], held[i])

(* A parameter that has a binding, and is not an out-parameter.            *)
IsInput(t) ==
  /\ t \in ParamTypes /\ ~IsOut(t)
  /\ Kind(t) \notin {"Unsupported", "Callback", "Opaque", "ByteBuffer"}

LEMMA InputKinds ==
  ASSUME NEW t, IsInput(t)
  PROVE  /\ Kind(t) \in {"Boolean", "Number", "Integer", "Wide", "CString", "Handle", "Pod", "PodIn"}
         /\ t.base \in NoTraits => Kind(t) \in {"Pod", "PodIn"}
<1>1. t.base \in Bases /\ t.stars \in {0, 1, 2} /\ t # Void /\ t \in CTypes
  BY DEF IsInput, ParamTypes, CTypes
<1>2. t.base # "void" \/ t.stars # 0
  BY <1>1 DEF CTypes, Void, Value, CType
<1>3. Kind(t) # "Void"
  BY <1>1, <1>2 DEF Kind, ValueKind, PointerKind, Bases, Scalars, Wides, CharLike, Classes, Incomplete
<1>4. Kind(t) \in {"Boolean", "Number", "Integer", "Wide", "CString", "Handle", "Pod", "PodIn",
                   "Void", "Unsupported", "Callback", "Opaque", "ByteBuffer", "PodOut"}
  BY <1>1 DEF Kind, ValueKind, PointerKind, Bases, Scalars, Wides, CharLike, Classes, Incomplete
<1>5. t.base \in NoTraits => Kind(t) \in {"Pod", "PodIn", "PodOut", "Unsupported"}
  BY <1>1 DEF Kind, ValueKind, PointerKind, NoTraits, Scalars, Wides, CharLike, Classes, Incomplete
<1>6. QED BY <1>3, <1>4, <1>5 DEF IsInput, IsOut

LEMMA ArgIsLua ==
  ASSUME NEW vals, AreLua(vals), NEW p
  PROVE  ArgAt(vals, p) = LNone \/ IsLuaValue(ArgAt(vals, p))
BY DEF AreLua, ArgAt

LEMMA LuaNumber ==
  ASSUME NEW v, v = LNone \/ IsLuaValue(v), IsNumber(v)
  PROVE  ToNumber(v) \in Int
<1>1. v # LNone BY DEF LNone, IsNumber
<1>2. CASE v.type = "number" BY <1>1, <1>2 DEF IsLuaValue, ToNumber
<1>3. CASE v.type = "string" BY <1>1, <1>3 DEF IsLuaValue, ToNumber
<1>4. QED BY <1>2, <1>3 DEF IsNumber

(* What the engine may give of each type.                                  *)
LEMMA ValuesTable ==
  ASSUME NEW t
  PROVE  /\ t.base = "rtti" => ValuesOf(t) = {Text("id")}
         /\ t.base = "stringref" => ValuesOf(t) = {Text("withNul"), NullStr}
         /\ t.base = "char" /\ t.stars = 1 => ValuesOf(t) = Strings \cup {NullStr}
         /\ t.base = "char" /\ t.stars = 0 => ValuesOf(t) = -(2 ^ (ByteBits - 1)) .. 2 ^ (ByteBits - 1) - 1
         /\ t.base = "bool" => ValuesOf(t) = BOOLEAN
         /\ t.base = "float" => ValuesOf(t) = Floats
         /\ t.base \in Wides => ValuesOf(t) = WideValues(t.base)
         /\ t.base = "int" => ValuesOf(t) = -(2 ^ (IntBits - 1)) .. 2 ^ (IntBits - 1) - 1
         /\ t.base = "uint" => ValuesOf(t) = 0 .. 2 ^ IntBits - 1
         /\ t.base = "byte" => ValuesOf(t) = 0 .. 2 ^ ByteBits - 1
         /\ t.base = "vec" => ValuesOf(t) = [1 .. PodCount -> Floats]
         /\ t.base = "color" => ValuesOf(t) = [1 .. PodCount -> 0 .. 2 ^ ByteBits - 1]
         /\ t.base \in Incomplete => ValuesOf(t) = Objects \cup {NullObj}
<1>1. t.base # "void" => t # Void BY DEF Void, Value, CType
<1>2. QED BY <1>1 DEF ValuesOf, Incomplete, Wides, WideValues

(* What Storage::read makes of an argument is what Lua meant by it.        *)
LEMMA ReadIsMeant ==
  ASSUME NEW t, IsInput(t), AreLua(args), NEW p \in Int, Read(t, args, p, epoch).ok
  PROVE  Meant(t, p, Read(t, args, p, epoch).val)
<1> DEFINE v == ArgAt(args, p)
           r == Read(t, args, p, epoch)
<1>1. v = LNone \/ IsLuaValue(v) BY ArgIsLua
<1>2. \A x : Reads(x).ok = TRUE /\ Reads(x).val = x BY DEF Reads
<1>3. Fails.ok = FALSE BY DEF Fails
<1>4. r.ok OBVIOUS
<1>15. t.base \in NoTraits => Kind(t) \in {"Pod", "PodIn"} BY InputKinds
<1> HIDE DEF v
<1>5. CASE t.base = "rtti"
  <2>1. r = IF IsString(v) /\ IsEightBytes(ToStr(v)) THEN Reads(ToStr(v)) ELSE Fails
    BY <1>5 DEF Read, v
  <2>2. IsString(v) /\ IsEightBytes(ToStr(v)) /\ r.val = ToStr(v) BY <1>2, <1>3, <1>4, <2>1
  <2>3. QED BY <1>5, <1>15, <2>2 DEF Meant, v, NoTraits
<1>6. CASE t.base = "stringref"
  <2>1. r = IF IsString(v) THEN Reads(ToStr(v)) ELSE Fails BY <1>6 DEF Read, v
  <2>2. IsString(v) /\ r.val = ToStr(v) BY <1>2, <1>3, <1>4, <2>1
  <2>3. QED BY <1>6, <1>15, <2>2 DEF Meant, v, NoTraits
<1> DEFINE Plain == t.base \notin NoTraits
<1>7. CASE Plain /\ Kind(t) = "Boolean"
  <2>1. r = IF v.type = "boolean" THEN Reads(v.bool) ELSE Fails BY <1>7 DEF Read, v, NoTraits
  <2>2. v.type = "boolean" /\ r.val = v.bool BY <1>2, <1>3, <1>4, <2>1
  <2>3. v = LBool(v.bool) BY <1>1, <2>2 DEF IsLuaValue, LNone
  <2>4. QED BY <1>7, <2>2, <2>3 DEF Meant, v, NoTraits
<1>8. CASE Plain /\ Kind(t) = "Number"
  <2>1. r = IF IsNumber(v) THEN Reads(RoundTo(FloatBits, ToNumber(v))) ELSE Fails
    BY <1>8 DEF Read, v, NoTraits
  <2>2. IsNumber(v) /\ r.val = RoundTo(FloatBits, ToNumber(v)) BY <1>2, <1>3, <1>4, <2>1
  <2>3. QED BY <1>8, <2>2 DEF Meant, v, NoTraits
<1>9. CASE Plain /\ Kind(t) = "Integer"
  <2>1. r = IF IsNumber(v) THEN Reads(Narrow(t.base, ToInteger(ToNumber(v)))) ELSE Fails
    BY <1>9 DEF Read, v, NoTraits
  <2>2. IsNumber(v) /\ r.val = Narrow(t.base, ToInteger(ToNumber(v))) BY <1>2, <1>3, <1>4, <2>1
  <2>3. QED BY <1>9, <2>2 DEF Meant, v, NoTraits
<1>10. CASE Plain /\ Kind(t) = "Wide"
  <2>1. r = CheckWide(t.base, v) BY <1>10 DEF Read, v, NoTraits
  <2>2. /\ IsNumber(v) /\ Double(ToWide(t.base, ToNumber(v))) = ToNumber(v)
        /\ r.val = ToWide(t.base, ToNumber(v))
    BY <1>2, <1>3, <1>4, <2>1 DEF CheckWide
  <2>3. ToNumber(v) \in Int BY <1>1, <2>2, LuaNumber
  <2>4. t.base \in Wides
    <3>1. t.base \in Bases /\ t.stars \in {0, 1, 2} /\ t.const \in BOOLEAN
      BY DEF IsInput, ParamTypes, CTypes
    <3>2. QED BY <1>10, <3>1
          DEF Kind, ValueKind, PointerKind, Bases, Scalars, Wides, CharLike, Classes, Incomplete
  <2>5. r.val \in WideValues(t.base) /\ ToNumber(v) = 2 * r.val BY <2>2, <2>3, <2>4, WideIsExact
  <2>6. r.val \in ValuesOf(t) BY <2>4, <2>5, ValuesTable
  <2>7. QED BY <1>10, <2>2, <2>5, <2>6 DEF Meant, v, NoTraits
<1>11. CASE Plain /\ Kind(t) = "CString"
  <2>1. r = IF IsString(v) THEN Reads(CView(ToStr(v))) ELSE Fails BY <1>11 DEF Read, v, NoTraits
  <2>2. IsString(v) /\ r.val = CView(ToStr(v)) BY <1>2, <1>3, <1>4, <2>1
  <2>3. QED BY <1>11, <2>2 DEF Meant, v, NoTraits
<1>12. CASE Plain /\ Kind(t) = "Handle"
  <2>1. r = CheckHandle(t, v, epoch) BY <1>12 DEF Read, v, NoTraits
  <2>2. CASE v.type \in {"none", "nil"}
    <3>1. r = Reads(NullObj) BY <2>1, <2>2 DEF CheckHandle
    <3>2. QED BY <1>2, <1>12, <2>2, <3>1 DEF Meant, v, NoTraits
  <2>3. CASE v.type \notin {"none", "nil"}
    <3>1. v.type = "userdata" /\ v.of = t /\ v.epoch = epoch /\ r.val = v.obj
      BY <1>2, <1>3, <1>4, <2>1, <2>3 DEF CheckHandle
    <3>2. v.obj \in Objects /\ v = LHandle(v.obj, v.of, v.epoch)
      BY <1>1, <3>1 DEF IsLuaValue, LNone
    <3>3. r.val # NullObj /\ v = LHandle(r.val, t, epoch) BY <3>1, <3>2, InvokeAssumption
    <3>4. QED BY <1>12, <3>3 DEF Meant, v, NoTraits
  <2>4. QED BY <2>2, <2>3
<1>13. CASE Plain /\ Kind(t) \in {"Pod", "PodIn"}
  <2>1. r = CheckPod(t.base, args, p) BY <1>13 DEF Read, NoTraits
  <2>2. /\ \A i \in 0 .. PodCount - 1 : IsNumber(ArgAt(args, p + i))
        /\ r.val = [i \in 1 .. PodCount |-> Element(t.base, ToNumber(ArgAt(args, p + i - 1)))]
    BY <1>2, <1>3, <1>4, <2>1 DEF CheckPod
  <2>3. ASSUME NEW i \in 1 .. PodCount
        PROVE  /\ IsNumber(ArgAt(args, p + i - 1))
               /\ r.val[i] = Element(t.base, ToNumber(ArgAt(args, p + i - 1)))
    <3>1. i - 1 \in 0 .. PodCount - 1 /\ p + (i - 1) = p + i - 1 BY PodAssumption
    <3>2. QED BY <2>2, <3>1
  <2>4. QED BY <1>13, <2>3 DEF Meant, NoTraits
<1>14. QED BY <1>5, <1>6, <1>7, <1>8, <1>9, <1>10, <1>11, <1>12, <1>13, InputKinds DEF NoTraits

-----------------------------------------------------------------------------
(* What is pushed (push_return, Storage::push).                            *)

(* A type that a binding gives to Lua, as a result or an out-parameter,    *)
(* and the values that the engine gives of it.                             *)
IsResult(t) ==
  /\ t \in ParamTypes
  /\ \/ IsOut(t) /\ t.base \notin NoTraits
     \/ /\ ReturnKind(t) \notin {"Unsupported", "PodOut", "Callback", "Opaque", "ByteBuffer"}
        /\ ~(ReturnKind(t) = "PodIn" /\ t.base \in NoTraits)
GivenValues(t) ==
  IF IsOut(t) THEN {OutValue(t, fields) : fields \in Writes(t)} ELSE Returns(t)

(* Given, of any Lua values and at any time.                               *)
Shown(vals, g, p, e) ==
  /\ IsText(g.type) => vals[p] = (IF g.val = NullStr THEN LNil ELSE LStr(g.val))
  /\ g.type = Value("bool") => vals[p] = LBool(g.val)
  /\ ~IsText(g.type) /\ g.type # Value("bool") =>
       /\ g.type.base = "float" => vals[p] = LNum(g.val)
       /\ g.type.base \in Incomplete =>
            vals[p] = (IF g.val = NullObj THEN LNil ELSE LHandle(g.val, g.type, e))
       /\ g.type.base \in {"vec", "color"} =>
            IF IsNull(g.type, g.val) THEN vals[p] = LNil
            ELSE \A i \in 1 .. PodCount :
                   vals[p + i - 1] = LNum(IF g.type.base = "vec" THEN g.val[i] ELSE 2 * g.val[i])
       /\ g.type.base \notin {"float", "vec", "color"} \cup Incomplete =>
            vals[p] = LNum(IF g.type \in WideOuts THEN Double(g.val) ELSE 2 * g.val)

(* What Lua was given so far: a result of 64 bits only if it is exact.     *)
Giving(g) ==
  /\ IsResult(g.type) /\ g.val \in GivenValues(g.type)
  /\ g.type \in {Value(b) : b \in Wides} => Double(g.val) = 2 * g.val
Types(gv)  == [k \in DOMAIN gv |-> gv[k].type]
AllGiven(gv, vals, e) ==
  /\ \A k \in DOMAIN gv :
       /\ Giving(gv[k]) /\ (k > 1 => IsOut(gv[k].type))
       /\ gv[k].from = IF k = 1 THEN 1 ELSE gv[k - 1].from + Span(gv[k - 1])
       /\ gv[k].from \in Nat \ {0} /\ gv[k].from + Span(gv[k]) - 1 <= Len(vals)
       /\ Shown(vals, gv[k], gv[k].from, e)
  /\ Len(vals) = IF gv = <<>> THEN 0 ELSE gv[Len(gv)].from + Span(gv[Len(gv)]) - 1
GivenInv ==
  /\ phase \notin {"outs", "returned"} => gave = <<>> /\ results = <<>> /\ pushed = 0
  /\ IsSeq(results) /\ AreLua(results)
  /\ phase = "outs" => Supported(sig) /\ Builds(sig)
  /\ phase \in {"outs", "returned"} => Types(gave) = Returned(sig) \o OutsUpTo(sig.params)[pushed]
  /\ \E e \in 0 .. epoch : (phase = "outs" => e = epoch) /\ AllGiven(gave, results, e)

(* What is passed on is on its way.                                        *)
PassedInv ==
  passed # Nobody =>
    LET g == passed[1] IN
      /\ Giving(g) /\ ~IsNull(g.type, g.val)
      /\ sig = [ret |-> Void, params |-> <<AsParam(g.type)>>]
      /\ DOMAIN args = 1 .. Span(g) /\ \E e \in Nat : Shown(args, g, 1, e)
      /\ phase \in {"reading", "calling"} => held = <<>> \/ held = <<g.val>> \/ IsRounded(g)
      /\ phase = "raised"  =>
           \/ g.type = Pointer("bool") \/ IsRounded(g)
           \/ IsText(g.type) /\ g.val = NullStr
           \/ Kind(g.type) = "Handle" /\ args[1].epoch # epoch

(* The types that Lua is given.                                            *)
Shape(t) ==
  \/ t \in {Value(b) : b \in Scalars \cup CharLike \cup Classes}
  \/ t \in {Pointer("char"), ConstPointer("char")}
  \/ t \in {ConstPointer("vec"), ConstPointer("color")}
  \/ t.stars = 1 /\ t.base \in Incomplete
  \/ t \in {Pointer(b) : b \in Scalars \cup {"vec", "color"}}

LEMMA ResultShapes ==
  ASSUME NEW t, IsResult(t)
  PROVE  Shape(t)
<1>1. /\ t = [base |-> t.base, stars |-> t.stars, const |-> t.const]
      /\ t.base \in Bases /\ t.stars \in {0, 1, 2} /\ t.const \in BOOLEAN
      /\ (t.const => t.stars # 0) /\ t # Void
  BY DEF IsResult, ParamTypes, CTypes
<1>2. t = CType(t.base, t.stars, t.const) BY <1>1 DEF CType
<1>3. CASE t.stars = 0
  <2>1. t = Value(t.base) BY <1>1, <1>2, <1>3 DEF Value, CType
  <2>2. t.base # "void" BY <1>1, <2>1 DEF Void
  <2>3. Kind(t) = ValueKind(t.base) /\ ReturnKind(t) = Kind(t)
    BY <1>1, <1>3 DEF Kind, ReturnKind, Pointer, CType
  <2>4. ValueKind(t.base) \notin {"Unsupported", "PodOut"}
    <3>1. ValueKind(t.base) # "PodOut" BY DEF ValueKind, Wides
    <3>2. QED BY <2>3, <3>1 DEF IsResult, IsOut
  <2>5. t.base \notin {"function"} \cup Incomplete
    BY <2>4 DEF ValueKind, Incomplete, CharLike, Classes, Wides
  <2>6. QED BY <1>1, <2>1, <2>2, <2>5 DEF Shape, Bases
<1>4. CASE t.stars = 1
  <2>1. t = IF t.const THEN ConstPointer(t.base) ELSE Pointer(t.base)
    BY <1>1, <1>2, <1>4 DEF ConstPointer, Pointer, CType
  <2>2. Kind(t) = PointerKind(t.base, t.const) BY <1>4 DEF Kind
  <2>3. CASE t.base \in Incomplete BY <1>4, <2>3 DEF Shape
  <2>4. CASE t.base = "char" BY <2>1, <2>4 DEF Shape
  <2>5. CASE t.base \in {"vec", "color"}
    <3>1. t \in {ConstPointer("vec"), ConstPointer("color"), Pointer("vec"), Pointer("color")}
      BY <2>1, <2>5
    <3>2. QED BY <3>1 DEF Shape
  <2>6. CASE t.base \in Scalars
    <3>1. CASE t.const
      <4>1. PointerKind(t.base, t.const) = "ByteBuffer"
        BY <2>6, <3>1 DEF PointerKind, Scalars, Wides, CharLike, Classes, Incomplete
      <4>2. ReturnKind(t) = Kind(t) BY <2>6 DEF ReturnKind, Pointer, CType, Scalars, Wides
      <4>3. QED BY <2>2, <4>1, <4>2 DEF IsResult, IsOut
    <3>2. CASE ~t.const BY <1>1, <2>1, <2>6, <3>2 DEF Shape
    <3>3. QED BY <1>1, <3>1, <3>2
  <2>7. CASE t.base \in {"void", "function", "byte"}
    <3>1. Kind(t) \in {"Opaque", "Callback", "ByteBuffer"}
      BY <1>1, <2>2, <2>7 DEF PointerKind, Scalars, Wides, CharLike, Classes, Incomplete
    <3>2. ReturnKind(t) = Kind(t) BY <2>7 DEF ReturnKind, Pointer, CType
    <3>3. QED BY <3>1, <3>2 DEF IsResult, IsOut
  <2>8. CASE t.base \in NoTraits
    <3>1. Kind(t) \in {"PodIn", "PodOut"}
      BY <1>1, <2>2, <2>8 DEF PointerKind, NoTraits, Scalars, Wides, CharLike, Classes, Incomplete
    <3>2. ReturnKind(t) = Kind(t) BY <2>8 DEF ReturnKind, Pointer, CType, NoTraits
    <3>3. QED BY <2>8, <3>1, <3>2 DEF IsResult, IsOut
  <2>9. QED
    BY <1>1, <2>3, <2>4, <2>5, <2>6, <2>7, <2>8 DEF Bases, CharLike, Classes, NoTraits
<1>5. CASE t.stars = 2
  <2>1. Kind(t) = "Unsupported" BY <1>5 DEF Kind
  <2>2. ReturnKind(t) = "Unsupported" BY <1>5, <2>1 DEF ReturnKind, Pointer, CType
  <2>3. QED BY <2>1, <2>2 DEF IsResult, IsOut
<1>6. QED BY <1>1, <1>3, <1>4, <1>5

(* Their kinds.                                                            *)
LEMMA KindsOfResults ==
  /\ \A b \in Scalars \cup CharLike \cup Classes :
       Kind(Value(b)) = ValueKind(b) /\ ReturnKind(Value(b)) = ValueKind(b) /\ ~IsOut(Value(b))
  /\ Kind(Pointer("char")) = "ByteBuffer" /\ ReturnKind(Pointer("char")) = "OwnedCString"
  /\ Kind(ConstPointer("char")) = "CString" /\ ReturnKind(ConstPointer("char")) = "CString"
  /\ \A b \in {"vec", "color"} : Kind(ConstPointer(b)) = "PodIn" /\ ReturnKind(ConstPointer(b)) = "PodIn"
  /\ \A t : t.stars = 1 /\ t.base \in Incomplete => Kind(t) = "Handle" /\ ReturnKind(t) = "Handle"
  /\ \A b \in Scalars \cup {"vec", "color"} :
       Kind(Pointer(b)) = "PodOut" /\ ReturnKind(Pointer(b)) = "PodOut" /\ IsOut(Pointer(b))
<1>1. ASSUME NEW b \in Scalars \cup CharLike \cup Classes
      PROVE  Kind(Value(b)) = ValueKind(b) /\ ReturnKind(Value(b)) = ValueKind(b) /\ ~IsOut(Value(b))
  <2>1. Kind(Value(b)) = ValueKind(b) BY DEF Kind, Value, CType
  <2>2. ReturnKind(Value(b)) = Kind(Value(b)) BY DEF ReturnKind, Value, Pointer, CType
  <2>3. ValueKind(b) # "PodOut" BY DEF ValueKind, Wides
  <2>4. QED BY <2>1, <2>2, <2>3 DEF IsOut
<1>2. Kind(Pointer("char")) = "ByteBuffer" /\ ReturnKind(Pointer("char")) = "OwnedCString"
  BY DEF Kind, ReturnKind, PointerKind, Pointer, CType, CharLike, Classes, Incomplete, Scalars, Wides
<1>3. Kind(ConstPointer("char")) = "CString"
  BY DEF Kind, PointerKind, ConstPointer, CType, CharLike, Classes, Incomplete, Scalars, Wides
<1>4. \A b : ReturnKind(ConstPointer(b)) = Kind(ConstPointer(b))
  BY DEF ReturnKind, ConstPointer, Pointer, CType
<1>5. \A b \in {"vec", "color"} : Kind(ConstPointer(b)) = "PodIn"
  BY DEF Kind, PointerKind, ConstPointer, CType, CharLike, Classes, Incomplete, Scalars, Wides
<1>6. ASSUME NEW t, t.stars = 1, t.base \in Incomplete
      PROVE  Kind(t) = "Handle" /\ ReturnKind(t) = "Handle"
  <2>1. Kind(t) = "Handle"
    BY <1>6 DEF Kind, PointerKind, CharLike, Classes, Incomplete, Scalars, Wides
  <2>2. t # Pointer("char") BY <1>6 DEF Pointer, CType, Incomplete
  <2>3. QED BY <2>1, <2>2 DEF ReturnKind
<1>7. ASSUME NEW b \in Scalars \cup {"vec", "color"}
      PROVE  Kind(Pointer(b)) = "PodOut" /\ ReturnKind(Pointer(b)) = "PodOut" /\ IsOut(Pointer(b))
  <2>1. Kind(Pointer(b)) = "PodOut"
    BY DEF Kind, PointerKind, Pointer, CType, CharLike, Classes, Incomplete, Scalars, Wides
  <2>2. Pointer(b) # Pointer("char") BY DEF Pointer, CType, Scalars, Wides
  <2>3. QED BY <2>1, <2>2 DEF ReturnKind, IsOut
<1>8. QED BY <1>1, <1>2, <1>3, <1>4, <1>5, <1>6, <1>7

LEMMA IntegersAreSmall ==
  /\ -(2 ^ (ByteBits - 1)) .. 2 ^ (ByteBits - 1) - 1 \subseteq Small
  /\ -(2 ^ (IntBits - 1)) .. 2 ^ (IntBits - 1) - 1 \subseteq Small
  /\ 0 .. 2 ^ IntBits - 1 \subseteq Small
  /\ 0 .. 2 ^ ByteBits - 1 \subseteq Small
  /\ {0, 1} \subseteq Small
BY WidthsAre DEF Small

(* Values of Lua, and sequences of them.                                   *)
LEMMA LuaValues ==
  /\ IsLuaValue(LNil)
  /\ \A b \in BOOLEAN : IsLuaValue(LBool(b))
  /\ \A n \in Int : IsLuaValue(LNum(n))
  /\ \A s : s.num \in Int => IsLuaValue(LStr(s))
  /\ \A o \in Objects : \A t, e : IsLuaValue(LHandle(o, t, e))
BY DEF IsLuaValue, LNil, LBool, LNum, LStr, LHandle

LuaSeq(s, n) == IsSeq(s) /\ Len(s) = n /\ DOMAIN s = 1 .. n /\ AreLua(s)

LEMMA OneValue ==
  ASSUME NEW x, IsLuaValue(x)
  PROVE  LuaSeq(<<x>>, 1) /\ <<x>>[1] = x
<1>1. <<x>> \in Seq({x}) /\ Len(<<x>>) = 1 /\ DOMAIN <<x>> = 1 .. 1 /\ <<x>>[1] = x OBVIOUS
<1>2. IsSeq(<<x>>) BY <1>1 DEF IsSeq
<1>3. AreLua(<<x>>)
  <2> SUFFICES ASSUME NEW i \in DOMAIN <<x>> PROVE IsLuaValue(<<x>>[i]) BY DEF AreLua
  <2>1. i = 1 BY <1>1
  <2>2. QED BY <1>1, <2>1
<1>4. QED BY <1>1, <1>2, <1>3 DEF LuaSeq

LEMMA FieldValues ==
  ASSUME NEW f, f = [i \in 1 .. PodCount |-> f[i]], \A i \in 1 .. PodCount : IsLuaValue(f[i])
  PROVE  LuaSeq(f, PodCount)
<1> DEFINE S == {f[i] : i \in 1 .. PodCount}
<1>1. f \in [1 .. PodCount -> S] OBVIOUS
<1>2. f \in Seq(S) /\ Len(f) = PodCount /\ DOMAIN f = 1 .. PodCount BY <1>1, PodAssumption
<1>3. QED BY <1>2 DEF LuaSeq, IsSeq, AreLua

(* An aggregate goes to Lua as its fields.                                 *)
LEMMA FieldsArePushed ==
  ASSUME NEW b \in {"vec", "color"}, NEW v \in ValuesOf(Value(b))
  PROVE  /\ LuaSeq(PushPod(b, v), PodCount) /\ v # NullPod
         /\ \A i \in 1 .. PodCount : PushPod(b, v)[i] = LNum(IF b = "vec" THEN v[i] ELSE 2 * v[i])
<1>1. v # NullPod
  <2>1. DOMAIN v = 1 .. PodCount BY ValuesTable DEF Value, CType
  <2>2. 1 \in DOMAIN v BY <2>1, PodAssumption
  <2>3. QED BY <2>2 DEF NullPod
<1>2. ASSUME NEW i \in 1 .. PodCount
      PROVE  /\ PushPod(b, v)[i] = LNum(IF b = "vec" THEN v[i] ELSE 2 * v[i])
             /\ IsLuaValue(PushPod(b, v)[i])
  <2>1. CASE b = "vec"
    <3>1. v \in [1 .. PodCount -> Floats] BY <2>1, ValuesTable DEF Value, CType
    <3>2. v[i] \in Int BY <3>1, InvokeAssumption
    <3>3. PushPod(b, v)[i] = LNum(v[i]) BY <2>1 DEF PushPod
    <3>4. IsLuaValue(LNum(v[i])) BY <3>2, LuaValues
    <3>5. QED BY <2>1, <3>3, <3>4
  <2>2. CASE b = "color"
    <3>0. v \in [1 .. PodCount -> 0 .. 2 ^ ByteBits - 1] BY <2>2, ValuesTable DEF Value, CType
    <3>1. v[i] \in 0 .. 2 ^ ByteBits - 1 BY <3>0
    <3>2. v[i] \in Int /\ Double(v[i]) = 2 * v[i] BY <3>1, IntegersAreSmall, SmallStays
    <3>3. PushPod(b, v)[i] = LNum(Double(v[i])) BY <2>2 DEF PushPod
    <3>4. 2 * v[i] \in Int BY <3>2
    <3>5. QED BY <2>2, <3>2, <3>3, <3>4, LuaValues
  <2>3. QED BY <2>1, <2>2
<1>3. PushPod(b, v) = [i \in 1 .. PodCount |-> PushPod(b, v)[i]] BY DEF PushPod
<1>4. LuaSeq(PushPod(b, v), PodCount)
  <2> DEFINE f == PushPod(b, v)
  <2>1. f = [i \in 1 .. PodCount |-> f[i]] /\ \A i \in 1 .. PodCount : IsLuaValue(f[i]) BY <1>2, <1>3
  <2> HIDE DEF f
  <2>2. LuaSeq(f, PodCount) BY <2>1, FieldValues
  <2>3. QED BY <2>2 DEF f
<1>5. QED BY <1>1, <1>2, <1>4

Puts(r, g, e) ==
  LuaSeq(r, Span(g)) /\ Shown(r, g, 1, e)

(* Those of one value: how many there are, and what is shown.              *)
LEMMA PutsOne ==
  ASSUME NEW g, NEW e, NEW x, IsLuaValue(x), Span(g) = 1,
         Shown(<<x>>, g, 1, e)
  PROVE  Puts(<<x>>, g, e)
BY OneValue DEF Puts

LEMMA PutsFields ==
  ASSUME NEW g, NEW e, g.type.base \in {"vec", "color"}, g.val \in ValuesOf(Value(g.type.base)),
         g.type \in {Value(g.type.base), ConstPointer(g.type.base), Pointer(g.type.base)}
  PROVE  Puts(PushPod(g.type.base, g.val), g, e)
<1> DEFINE b == g.type.base
           f == PushPod(b, g.val)
<1>1. /\ LuaSeq(f, PodCount) /\ g.val # NullPod
      /\ \A i \in 1 .. PodCount : f[i] = LNum(IF b = "vec" THEN g.val[i] ELSE 2 * g.val[i])
  BY FieldsArePushed
<1>2. ~IsNull(g.type, g.val) BY <1>1 DEF IsNull
<1>3. Span(g) = PodCount BY <1>2 DEF Span, Width
<1> HIDE DEF f
<1>4. ~IsText(g.type)
  <2>1. ReturnKind(g.type) \in {"Pod", "PodIn", "PodOut"}
    BY KindsOfResults DEF ValueKind, Classes, CharLike, Wides
  <2>2. QED BY <2>1 DEF IsText, NoTraits
<1>5. g.type \notin {Value("bool")} \cup WideOuts /\ b # "float" /\ b \notin Incomplete
  BY DEF Value, Pointer, CType, Incomplete, Wides, WideOuts
<1>6. \A i \in 1 .. PodCount : f[1 + i - 1] = LNum(IF b = "vec" THEN g.val[i] ELSE 2 * g.val[i])
  <2>1. \A i \in 1 .. PodCount : 1 + i - 1 = i BY PodAssumption
  <2>2. QED BY <1>1, <2>1
<1>7. Shown(f, g, 1, e)
  BY <1>2, <1>4, <1>5, <1>6 DEF Shown
<1>8. QED BY <1>1, <1>3, <1>7 DEF Puts, f

LEMMA SpansOne ==
  ASSUME NEW g, g.type.base \notin {"vec", "color"} \/ IsNull(g.type, g.val)
  PROVE  Span(g) = 1
BY DEF Span, Width

(* Which results are shown as text, and which are not.                     *)
Texts == {Value("rtti"), Value("stringref"), Pointer("char"), ConstPointer("char")}
LEMMA TextTypes ==
  ASSUME NEW t, Shape(t)
  PROVE  IsText(t) <=> t \in Texts
<1>1. ASSUME NEW b \in Scalars \cup CharLike \cup Classes
      PROVE  IsText(Value(b)) <=> Value(b) \in Texts
  <2>1. ReturnKind(Value(b)) \notin {"CString", "OwnedCString"} BY KindsOfResults DEF ValueKind, Wides
  <2>2. Value(b).base = b /\ Value(b).stars = 0 BY DEF Value, CType
  <2>3. Value(b) \in Texts <=> b \in NoTraits
    <3>1. CASE b \in NoTraits BY <3>1 DEF NoTraits, Texts
    <3>2. CASE b \notin NoTraits
      <4>1. Value(b) # Value("rtti") /\ Value(b) # Value("stringref")
        BY <2>2, <3>2 DEF NoTraits, Value, CType
      <4>2. \A c : Pointer(c).stars = 1 /\ ConstPointer(c).stars = 1 BY DEF Pointer, ConstPointer, CType
      <4>3. QED BY <2>2, <3>2, <4>1, <4>2 DEF Texts
    <3>3. QED BY <3>1, <3>2
  <2>4. QED BY <2>1, <2>2, <2>3 DEF IsText
<1>2. IsText(Pointer("char")) /\ IsText(ConstPointer("char")) BY KindsOfResults DEF IsText
<1>3. ASSUME NEW b \in {"vec", "color"} PROVE ~IsText(ConstPointer(b)) /\ ConstPointer(b) \notin Texts
  BY KindsOfResults DEF IsText, NoTraits, Texts, Value, Pointer, ConstPointer, CType
<1>4. ASSUME t.stars = 1, t.base \in Incomplete PROVE ~IsText(t) /\ t \notin Texts
  BY <1>4, KindsOfResults DEF IsText, NoTraits, Texts, Incomplete, Value, Pointer, ConstPointer, CType
<1>5. ASSUME NEW b \in Scalars \cup {"vec", "color"} PROVE ~IsText(Pointer(b)) /\ Pointer(b) \notin Texts
  BY KindsOfResults DEF IsText, NoTraits, Texts, Scalars, Wides, Value, Pointer, ConstPointer, CType
<1>6. QED BY <1>1, <1>2, <1>3, <1>4, <1>5 DEF Shape, Texts

(* A string, or none.                                                      *)
LEMMA PutsString ==
  ASSUME NEW g, NEW e, g.type \in Texts, g.val = NullStr \/ g.val.num \in Int
  PROVE  Puts(<<PushString(g.val)>>, g, e)
<1> DEFINE x == PushString(g.val)
<1>1. IsLuaValue(x) BY LuaValues DEF PushString
<1>2. <<x>>[1] = (IF g.val = NullStr THEN LNil ELSE LStr(g.val)) BY DEF PushString
<1>3. /\ g.type \notin {Value("bool")} \cup WideOuts
      /\ g.type.base \notin {"vec", "color", "float"} \cup Incomplete
  BY DEF Texts, Value, Pointer, ConstPointer, CType, Incomplete, Wides, WideOuts
<1>4. Span(g) = 1 BY <1>3, SpansOne
<1>5. IsText(g.type)
  <2>1. Shape(g.type) BY DEF Texts, Shape, Classes
  <2>2. QED BY <2>1, TextTypes
<1> HIDE DEF x
<1>6. Shown(<<x>>, g, 1, e) BY <1>2, <1>3, <1>5 DEF Shown
<1>7. QED BY <1>1, <1>4, <1>6, PutsOne DEF x

(* A number.                                                               *)
LEMMA PutsNumber ==
  ASSUME NEW g, NEW e, Shape(g.type), g.type # Value("bool"),
         g.type.base \in {"int", "uint", "byte", "bool"} \cup Wides \/ g.type = Value("char"),
         g.val \in Int, Double(g.val) \in Int,
         g.type \notin WideOuts => Double(g.val) = 2 * g.val
  PROVE  Puts(<<LNum(Double(g.val))>>, g, e)
<1> DEFINE x == LNum(Double(g.val))
<1>1. IsLuaValue(x) BY LuaValues
<1>2. <<x>>[1] = LNum(Double(g.val)) OBVIOUS
<1>3. g.type.base \notin {"vec", "color", "float"} \cup Incomplete
  BY DEF Value, CType, Incomplete, Wides
<1>4. Span(g) = 1 BY <1>3, SpansOne
<1>5. ~IsText(g.type)
  <2>1. g.type \notin Texts BY DEF Texts, Value, Pointer, ConstPointer, CType, Wides
  <2>2. QED BY <2>1, TextTypes
<1> HIDE DEF x
<1>6. Shown(<<x>>, g, 1, e) BY <1>2, <1>3, <1>5 DEF Shown
<1>7. QED BY <1>1, <1>4, <1>6, PutsOne DEF x

(* push_return, of every type that has a binding.                          *)
LEMMA ReturnIsShown ==
  ASSUME NEW g, IsResult(g.type), ~IsOut(g.type), g.val \in Returns(g.type), NEW e,
         PushReturn(g.type, g.val, e).ok
  PROVE  Puts(PushReturn(g.type, g.val, e).val, g, e)
<1> DEFINE t == g.type
           v == g.val
           r == PushReturn(t, v, e)
<1>1. Shape(t) BY ResultShapes
<1>2. \A x : Reads(x).ok = TRUE /\ Reads(x).val = x BY DEF Reads
<1>3. Kind(t) # "PodIn" => v \in ValuesOf(t) BY DEF Returns
<1>4. CASE t \in Texts
  <2>1. r = Reads(<<PushString(v)>>)
    <3>1. CASE t.base \in NoTraits BY <3>1 DEF PushReturn
    <3>2. CASE t = Pointer("char")
      <4>1. t.base \notin NoTraits BY <3>2 DEF NoTraits, Pointer, CType
      <4>2. QED BY <3>2, <4>1, KindsOfResults DEF PushReturn
    <3>3. CASE t = ConstPointer("char")
      <4>1. t.base \notin NoTraits BY <3>3 DEF NoTraits, ConstPointer, CType
      <4>2. QED BY <3>3, <4>1, KindsOfResults DEF PushReturn
    <3>4. QED BY <1>4, <3>1, <3>2, <3>3 DEF Texts, NoTraits, Value, CType
  <2>2. Kind(t) # "PodIn" BY <1>4, KindsOfResults DEF Texts, Classes, ValueKind, Wides
  <2>3. v = NullStr \/ v.num \in Int
    <3>1. t.base \in NoTraits \/ (t.base = "char" /\ t.stars = 1)
      BY <1>4 DEF Texts, Value, Pointer, ConstPointer, CType, NoTraits
    <3>2. v \in {Text("id"), Text("withNul"), NullStr} \cup Strings
      BY <1>3, <2>2, <3>1, ValuesTable DEF NoTraits
    <3>3. QED BY <3>2 DEF Strings, Text, NullStr
  <2>4. QED BY <1>2, <1>4, <2>1, <2>3, PutsString
<1> DEFINE Plain(b) == t = Value(b) /\ t.base = b /\ t.base \notin NoTraits /\ t.stars = 0
                       /\ Kind(t) = ValueKind(b) /\ ReturnKind(t) = ValueKind(b)
<1>5. ASSUME NEW b \in (Scalars \cup CharLike \cup Classes) \ NoTraits, t = Value(b) PROVE Plain(b)
  BY <1>5, KindsOfResults DEF Value, CType
<1>6. CASE t = Value("bool")
  <2>1. Plain("bool") /\ Kind(t) = "Boolean" BY <1>5, <1>6 DEF Scalars, Wides, NoTraits, ValueKind, CharLike, Classes
  <2>2. r = Reads(<<LBool(v)>>) BY <2>1 DEF PushReturn
  <2>3. v \in BOOLEAN BY <1>3, <2>1, ValuesTable
  <2>4. IsLuaValue(LBool(v)) BY <2>3, LuaValues
  <2>5. ~IsText(t)
    <3>1. t \notin Texts BY <1>6 DEF Texts, Value, Pointer, ConstPointer, CType
    <3>2. QED BY <1>1, <3>1, TextTypes
  <2>6. t.base \notin {"float", "vec", "color"} \cup Incomplete /\ t \notin WideOuts
    BY <2>1 DEF Incomplete, Pointer, CType, Wides, WideOuts
  <2>7. Shown(<<LBool(v)>>, g, 1, e) BY <1>6, <2>5, <2>6 DEF Shown
  <2>8. Span(g) = 1 BY <2>6, SpansOne
  <2>9. QED BY <1>2, <2>2, <2>4, <2>7, <2>8, PutsOne
<1>7. CASE t = Value("float")
  <2>1. Plain("float") /\ Kind(t) = "Number" BY <1>5, <1>7 DEF Scalars, Wides, NoTraits, ValueKind, CharLike, Classes
  <2>2. r = Reads(<<LNum(v)>>) BY <2>1 DEF PushReturn
  <2>3. v \in Int BY <1>3, <2>1, ValuesTable, InvokeAssumption
  <2>4. IsLuaValue(LNum(v)) BY <2>3, LuaValues
  <2>5. ~IsText(t)
    <3>1. t \notin Texts BY <1>7 DEF Texts, Value, Pointer, ConstPointer, CType
    <3>2. QED BY <1>1, <3>1, TextTypes
  <2>6. t.base \notin {"vec", "color"} \cup Incomplete /\ t \notin {Value("bool")} \cup WideOuts
    BY <2>1 DEF Incomplete, Pointer, Value, CType, Wides, WideOuts
  <2>7. Shown(<<LNum(v)>>, g, 1, e) BY <2>1, <2>5, <2>6 DEF Shown
  <2>8. Span(g) = 1 BY <2>6, SpansOne
  <2>9. QED BY <1>2, <2>2, <2>4, <2>7, <2>8, PutsOne
<1>8. CASE t \in {Value(b) : b \in Wides}
  <2>0. PICK b \in Wides : t = Value(b) BY <1>8
  <2>1. Plain(b) /\ Kind(t) = "Wide"
    BY <1>5, <2>0 DEF Scalars, Wides, NoTraits, ValueKind, CharLike, Classes
  <2>2. r = PushWide(b, v) BY <2>1 DEF PushReturn
  <2>3. v \in WideValues(b) BY <1>3, <2>1, ValuesTable
  <2>4. ToWide(b, Double(v)) = v /\ r = Reads(<<LNum(Double(v))>>) BY <1>2, <2>2 DEF PushWide, Fails
  <2>5. Double(v) = 2 * v /\ Double(v) \in Int /\ v \in Int BY <2>3, <2>4, WideGoesRound
  <2>6. t # Value("bool") BY <2>1 DEF Value, CType, Wides
  <2>7. QED BY <1>1, <1>2, <2>1, <2>4, <2>5, <2>6, PutsNumber
<1>9. CASE t \in {Value("int"), Value("uint"), Value("char"), Value("byte")}
  <2>1. PICK b \in {"int", "uint", "char", "byte"} : t = Value(b) BY <1>9
  <2>2. Plain(b) /\ Kind(t) = "Integer" BY <1>5, <2>1 DEF Scalars, Wides, NoTraits, ValueKind, CharLike, Classes
  <2>3. r = Reads(<<LNum(Double(v))>>) BY <2>2 DEF PushReturn
  <2>4. v \in Small
    <3>1. v \in ValuesOf(t) /\ t.base = b /\ t.stars = 0 BY <1>3, <2>2
    <3>2. \/ v \in -(2 ^ (ByteBits - 1)) .. 2 ^ (ByteBits - 1) - 1
          \/ v \in -(2 ^ (IntBits - 1)) .. 2 ^ (IntBits - 1) - 1
          \/ v \in 0 .. 2 ^ IntBits - 1 \/ v \in 0 .. 2 ^ ByteBits - 1
      BY <2>1, <3>1, ValuesTable
    <3>3. QED BY <3>2, IntegersAreSmall
  <2>5. v \in Int /\ Double(v) = 2 * v /\ Double(v) \in Int BY <2>4, SmallStays
  <2>6. t # Value("bool") BY <2>1 DEF Value, CType
  <2>7. QED BY <1>1, <1>2, <2>1, <2>2, <2>3, <2>5, <2>6, PutsNumber
<1>10. CASE t \in {Value("vec"), Value("color")}
  <2>1. PICK b \in {"vec", "color"} : t = Value(b) BY <1>10
  <2>2. Plain(b) /\ Kind(t) = "Pod" BY <1>5, <2>1 DEF Scalars, Wides, NoTraits, ValueKind, CharLike, Classes
  <2>3. v \in ValuesOf(Value(b)) BY <1>3, <2>1, <2>2
  <2>4. v # NullPod BY <2>3, FieldsArePushed
  <2>5. r = Reads(PushPod(b, v)) BY <2>2, <2>4 DEF PushReturn
  <2>6. QED BY <1>2, <2>1, <2>2, <2>3, <2>5, PutsFields
<1>11. CASE t \in {ConstPointer("vec"), ConstPointer("color")}
  <2>1. PICK b \in {"vec", "color"} : t = ConstPointer(b) BY <1>11
  <2>2. /\ t.base = b /\ t.base \notin NoTraits /\ Kind(t) = "PodIn" /\ ReturnKind(t) = "PodIn"
        /\ t \notin {Value("bool")} \cup WideOuts /\ t.base # "float" /\ t.base \notin Incomplete
    <3>1. t.base = b BY <2>1 DEF ConstPointer, CType
    <3>2. Kind(t) = "PodIn" /\ ReturnKind(t) = "PodIn" BY <2>1, KindsOfResults
    <3>3. t.base # "bool" /\ t.base # "float" /\ t.base \notin Incomplete \cup NoTraits \cup Wides
      BY <3>1 DEF Incomplete, NoTraits, Wides
    <3>4. QED BY <3>1, <3>2, <3>3 DEF Value, Pointer, CType, WideOuts
  <2>3. r = Reads(IF v = NullPod THEN <<LNil>> ELSE PushPod(b, v)) BY <2>2 DEF PushReturn
  <2>4. CASE v = NullPod
    <3>1. IsNull(t, v) BY <2>2, <2>4 DEF IsNull
    <3>2. Span(g) = 1 BY <3>1, SpansOne
    <3>3. ~IsText(t) BY <2>2 DEF IsText
    <3>4. Shown(<<LNil>>, g, 1, e) BY <2>2, <3>1, <3>3 DEF Shown
    <3>5. QED BY <1>2, <2>3, <2>4, <3>2, <3>4, LuaValues, PutsOne
  <2>5. CASE v # NullPod
    <3>1. v \in ValuesOf(t) BY <2>5 DEF Returns
    <3>2. ValuesOf(t) = ValuesOf(Value(b)) BY <2>2, ValuesTable DEF Value, CType
    <3>3. QED BY <1>2, <2>1, <2>2, <2>3, <2>5, <3>1, <3>2, PutsFields
  <2>6. QED BY <2>4, <2>5
<1>12. CASE t.stars = 1 /\ t.base \in Incomplete
  <2>1. Kind(t) = "Handle" /\ ReturnKind(t) = "Handle" /\ t.base \notin NoTraits
    BY <1>12, KindsOfResults DEF Incomplete, NoTraits
  <2>2. r = Reads(<<PushHandle(t, v, e)>>) BY <2>1 DEF PushReturn
  <2>3. v \in Objects \cup {NullObj} BY <1>3, <1>12, <2>1, ValuesTable
  <2> DEFINE x == PushHandle(t, v, e)
  <2>4. IsLuaValue(x) BY <2>3, LuaValues DEF PushHandle
  <2>5. x = (IF v = NullObj THEN LNil ELSE LHandle(v, t, e)) BY DEF PushHandle
  <2> HIDE DEF x
  <2>6. ~IsText(t) BY <2>1 DEF IsText
  <2>7. /\ t \notin {Value("bool")} \cup WideOuts /\ t.base \notin {"float", "vec", "color"}
    BY <1>12 DEF Value, Pointer, CType, Incomplete, Wides, WideOuts
  <2>8. Shown(<<x>>, g, 1, e) BY <1>12, <2>5, <2>6, <2>7 DEF Shown
  <2>9. Span(g) = 1 BY <2>7, SpansOne
  <2>10. QED BY <1>2, <2>2, <2>4, <2>8, <2>9, PutsOne DEF x
<1>13. CASE t \in {Pointer(b) : b \in Scalars \cup {"vec", "color"}}
  BY <1>13, KindsOfResults
<1>14. QED
  BY <1>1, <1>4, <1>6, <1>7, <1>8, <1>9, <1>10, <1>11, <1>12, <1>13
     DEF Shape, Texts, Scalars, Wides, CharLike, Classes

(* Storage::push, of every out-parameter that builds.                      *)
LEMMA OutIsShown ==
  ASSUME NEW g, IsResult(g.type), IsOut(g.type), NEW f \in Writes(g.type),
         g.val = OutValue(g.type, f), NEW e
  PROVE  Puts(PushOut(g.type, f), g, e)
<1> DEFINE t == g.type
           v == g.val
<1>1. Shape(t) BY ResultShapes
<1>2. PICK b \in Scalars \cup {"vec", "color"} : t = Pointer(b)
  <2>1. ASSUME NEW c \in {"vec", "color"}, t = ConstPointer(c) PROVE FALSE
    BY <2>1, KindsOfResults DEF IsOut
  <2>2. \A c \in Scalars \cup CharLike \cup Classes : t # Value(c) BY KindsOfResults
  <2>3. t \notin {Pointer("char"), ConstPointer("char")} BY KindsOfResults DEF IsOut
  <2>4. ~(t.stars = 1 /\ t.base \in Incomplete) BY KindsOfResults DEF IsOut
  <2>5. QED BY <1>1, <2>1, <2>2, <2>3, <2>4 DEF Shape
<1>3. t.base = b /\ t.stars = 1 /\ t # Value("bool") BY <1>2 DEF Pointer, Value, CType
<1>4. CASE b \in {"vec", "color"}
  <2>1. Writes(t) = ValuesOf(t) /\ v = f /\ PushOut(t, f) = PushPod(b, f)
    BY <1>3, <1>4 DEF Writes, OutValue, PushOut
  <2>2. ValuesOf(t) = ValuesOf(Value(b)) BY <1>3, <1>4, ValuesTable DEF Value, CType
  <2>3. QED BY <1>2, <1>3, <1>4, <2>1, <2>2, PutsFields
<1>5. CASE b = "float"
  <2>1. Writes(t) = {<<x>> : x \in Floats} BY <1>3, <1>5, ValuesTable DEF Writes
  <2>2. PICK x \in Floats : f = <<x>> BY <2>1
  <2>3. v = x /\ PushOut(t, f) = <<LNum(x)>> BY <1>3, <1>5, <2>2 DEF OutValue, PushOut
  <2>4. IsLuaValue(LNum(x)) BY InvokeAssumption, LuaValues
  <2>5. ~IsText(t)
    <3>1. t \notin Texts BY <1>3, <1>5 DEF Texts, Value, Pointer, ConstPointer, CType
    <3>2. QED BY <1>1, <3>1, TextTypes
  <2>6. t.base \notin Incomplete \cup {"vec", "color"} /\ t \notin WideOuts
    BY <1>3, <1>5 DEF Incomplete, Pointer, CType, Wides, WideOuts
  <2>7. Shown(<<LNum(x)>>, g, 1, e) BY <1>3, <1>5, <2>3, <2>5, <2>6 DEF Shown
  <2>8. Span(g) = 1 BY <1>3, <1>5, SpansOne
  <2>9. QED BY <2>3, <2>4, <2>7, <2>8, PutsOne
<1>6. CASE b \in {"bool", "int", "uint"} \cup Wides
  <2>1. PICK x \in Int : /\ f = <<x>>
                         /\ b = "bool" => x \in {0, 1}
                         /\ b # "bool" => x \in ValuesOf(t)
    <3>1. CASE b = "bool" BY <1>3, <3>1 DEF Writes
    <3>2. CASE b # "bool"
      <4>1. Writes(t) = {<<x>> : x \in ValuesOf(t)} BY <1>3, <1>6, <3>2 DEF Writes, Wides
      <4>2. CASE b \in Wides
        <5>1. ValuesOf(t) = WideValues(b) BY <1>3, <4>2, ValuesTable
        <5>2. ValuesOf(t) \subseteq Int BY <4>2, <5>1, WideRange
        <5>3. QED BY <3>2, <4>1, <5>2
      <4>3. CASE b \in {"int", "uint"}
        <5>1. ValuesOf(t) \in {-(2 ^ (IntBits - 1)) .. 2 ^ (IntBits - 1) - 1, 0 .. 2 ^ IntBits - 1}
          BY <1>3, <4>3, ValuesTable
        <5>2. \A a, c \in Int : a .. c \subseteq Int OBVIOUS
        <5>3. 2 ^ (IntBits - 1) \in Int /\ 2 ^ IntBits \in Int BY WidthsAre
        <5>4. ValuesOf(t) \subseteq Int BY <5>1, <5>2, <5>3
        <5>5. QED BY <3>2, <4>1, <5>4
      <4>4. QED BY <1>6, <3>2, <4>2, <4>3
    <3>3. QED BY <3>1, <3>2
  <2>2. v = x /\ PushOut(t, f) = <<LNum(Double(x))>> BY <1>3, <1>6, <2>1 DEF OutValue, PushOut, Wides
  <2>3. CASE b \in Wides
    <3>1. x \in WideValues(b)
      <4>1. b # "bool" BY <2>3 DEF Wides
      <4>2. QED BY <1>3, <2>1, <2>3, <4>1, ValuesTable
    <3>2. Double(x) \in Int /\ t \in WideOuts BY <1>2, <2>3, <3>1, WideGoesRound DEF WideOuts
    <3>3. QED BY <1>1, <1>2, <1>3, <2>2, <2>3, <3>2, PutsNumber
  <2>4. CASE b \notin Wides
    <3>1. x \in Small BY <1>3, <1>6, <2>1, <2>4, ValuesTable, IntegersAreSmall
    <3>2. Double(x) = 2 * x /\ Double(x) \in Int BY <3>1, SmallStays
    <3>3. QED BY <1>1, <1>3, <1>6, <2>2, <3>2, PutsNumber
  <2>5. QED BY <2>3, <2>4
<1>7. QED BY <1>4, <1>5, <1>6 DEF Scalars, Wides

LEMMA SpanCounts ==
  ASSUME NEW g
  PROVE  /\ Span(g) \in Nat \ {0}
         /\ g.type.base \in {"vec", "color"} /\ ~IsNull(g.type, g.val) => Span(g) = PodCount
BY PodAssumption DEF Span, Width

(* What is shown moves with the values.                                    *)
LEMMA ShownElsewhere ==
  ASSUME NEW vals, NEW more, NEW g, NEW e, NEW p \in Int, NEW q \in Int, Shown(vals, g, p, e),
         \A i \in 0 .. Span(g) - 1 : more[q + i] = vals[p + i]
  PROVE  Shown(more, g, q, e)
<1>1. more[q] = vals[p]
  <2>1. 0 \in 0 .. Span(g) - 1 /\ q + 0 = q /\ p + 0 = p BY SpanCounts
  <2>2. QED BY <2>1
<1>2. ASSUME g.type.base \in {"vec", "color"}, ~IsNull(g.type, g.val), NEW i \in 1 .. PodCount
      PROVE  more[q + i - 1] = vals[p + i - 1]
  <2>1. i - 1 \in 0 .. Span(g) - 1 BY <1>2, SpanCounts, PodAssumption
  <2>2. q + (i - 1) = q + i - 1 /\ p + (i - 1) = p + i - 1 BY PodAssumption
  <2>3. QED BY <2>1, <2>2
<1>3. QED BY <1>1, <1>2 DEF Shown

(* The list of out-parameters, by how many parameters were looked at.      *)
OutsAre(outsOf, params, m) ==
  /\ outsOf = [n \in 0 .. m |-> outsOf[n]]
  /\ \A n \in 0 .. m :
       outsOf[n] = IF n = 0 THEN <<>>
                   ELSE IF IsOut(params[n]) THEN Append(outsOf[n - 1], params[n]) ELSE outsOf[n - 1]

LEMMA OutsAreListed ==
  ASSUME NEW params, Len(params) \in Nat
  PROVE  OutsAre(OutsUpTo(params), params, Len(params))
<1> DEFINE N == Len(params)
           S == {m \in 0 .. N : \E outsOf : OutsAre(outsOf, params, m)}
<1>1. 0 \in S
  <2> DEFINE first == [n \in 0 .. 0 |-> <<>>]
  <2>1. OutsAre(first, params, 0) BY DEF OutsAre
  <2>2. QED BY <2>1
<1>2. ASSUME NEW m \in 1 .. N, m - 1 \in S PROVE m \in S
  <2>1. PICK before : OutsAre(before, params, m - 1) BY <1>2
  <2> DEFINE last  == IF IsOut(params[m]) THEN Append(before[m - 1], params[m]) ELSE before[m - 1]
             after == [n \in 0 .. m |-> IF n = m THEN last ELSE before[n]]
  <2>2. \A n \in 0 .. m : n < m => n \in 0 .. m - 1 /\ after[n] = before[n] OBVIOUS
  <2>3. after[m] = last /\ after = [n \in 0 .. m |-> after[n]] OBVIOUS
  <2> HIDE DEF after
  <2>4. ASSUME NEW n \in 0 .. m
        PROVE  after[n] = IF n = 0 THEN <<>>
                          ELSE IF IsOut(params[n]) THEN Append(after[n - 1], params[n]) ELSE after[n - 1]
    <3>1. CASE n = m
      <4>1. m - 1 \in 0 .. m /\ m - 1 < m /\ n # 0 BY <3>1
      <4>2. QED BY <2>2, <2>3, <3>1, <4>1
    <3>2. CASE n # m
      <4>1. n < m /\ n \in 0 .. m - 1 /\ after[n] = before[n] BY <2>2, <3>2
      <4>2. n # 0 => n - 1 \in 0 .. m /\ n - 1 < m /\ after[n - 1] = before[n - 1] BY <2>2, <3>2
      <4>3. QED BY <2>1, <4>1, <4>2 DEF OutsAre
    <3>3. QED BY <3>1, <3>2
  <2>5. OutsAre(after, params, m) BY <2>3, <2>4 DEF OutsAre
  <2>6. QED BY <2>5
<1> HIDE DEF S
<1>3. N \in S
  <2>1. 0 .. N \subseteq S BY <1>1, <1>2, UpToN
  <2>2. QED BY <2>1
<1>4. PICK outsOf : OutsAre(outsOf, params, N) BY <1>3 DEF S
<1> DEFINE Def(f) == f = [n \in 0 .. Len(params) |->
                           IF n = 0 THEN <<>>
                           ELSE IF IsOut(params[n]) THEN Append(f[n - 1], params[n]) ELSE f[n - 1]]
<1>5. Def(outsOf) BY <1>4 DEF OutsAre
<1>6. OutsUpTo(params) = CHOOSE f : Def(f) BY DEF OutsUpTo
<1>7. Def(CHOOSE f : Def(f)) BY <1>5
<1>8. Def(OutsUpTo(params)) BY <1>6, <1>7
<1>9. QED BY <1>8 DEF OutsAre

LEMMA ListsAreTypes ==
  ASSUME NEW N \in Nat, NEW params, \A n \in 1 .. N : params[n] \in ParamTypes,
         NEW f, OutsAre(f, params, N)
  PROVE  \A n \in 0 .. N : f[n] \in Seq(ParamTypes)
<1> DEFINE S == {n \in 0 .. N : f[n] \in Seq(ParamTypes)}
<1>1. 0 \in S
  <2>1. 0 \in 0 .. N OBVIOUS
  <2>2. f[0] = <<>> BY <2>1, Zenon DEF OutsAre
  <2>3. <<>> \in Seq(ParamTypes) BY EmptySeq
  <2>4. QED BY <2>1, <2>2, <2>3
<1>2. ASSUME NEW n \in 1 .. N, n - 1 \in S PROVE n \in S
  <2>1. n \in 0 .. N /\ n # 0 OBVIOUS
  <2>2. f[n] = IF IsOut(params[n]) THEN Append(f[n - 1], params[n]) ELSE f[n - 1]
    BY <2>1 DEF OutsAre
  <2>3. f[n - 1] \in Seq(ParamTypes) /\ params[n] \in ParamTypes BY <1>2
  <2>4. Append(f[n - 1], params[n]) \in Seq(ParamTypes) BY <2>3
  <2>5. QED BY <2>1, <2>2, <2>3, <2>4
<1> HIDE DEF S
<1>3. 0 .. N \subseteq S BY <1>1, <1>2, UpToN
<1>4. QED BY <1>3 DEF S

LEMMA OutsAreTypes ==
  ASSUME NEW params \in Seq(ParamTypes)
  PROVE  /\ \A n \in 0 .. Len(params) : OutsUpTo(params)[n] \in Seq(ParamTypes)
         /\ OutsUpTo(params)[0] = <<>>
         /\ \A n \in 1 .. Len(params) :
              OutsUpTo(params)[n] = IF IsOut(params[n]) THEN Append(OutsUpTo(params)[n - 1], params[n])
                                    ELSE OutsUpTo(params)[n - 1]
<1>1. PICK N : N = Len(params) OBVIOUS
<1>2. PICK f : f = OutsUpTo(params) OBVIOUS
<1>3. N \in Nat /\ \A n \in 1 .. N : params[n] \in ParamTypes BY <1>1
<1>4. OutsAre(f, params, N) BY <1>1, <1>2, <1>3, OutsAreListed
<1>5. \A n \in 0 .. N : f[n] \in Seq(ParamTypes) BY <1>3, <1>4, ListsAreTypes
<1>6. f[0] = <<>>
  <2>1. 0 \in 0 .. N BY <1>3
  <2>2. QED BY <1>4, <2>1, Zenon DEF OutsAre
<1>7. ASSUME NEW n \in 1 .. N
      PROVE  f[n] = IF IsOut(params[n]) THEN Append(f[n - 1], params[n]) ELSE f[n - 1]
  <2>1. n \in 0 .. N /\ n # 0 BY <1>3
  <2>2. QED BY <1>4, <2>1 DEF OutsAre
<1>8. QED BY <1>1, <1>2, <1>5, <1>6, <1>7

-----------------------------------------------------------------------------
(* The arguments, on their way to the engine.                              *)

(* A call begins with nothing read.                                        *)
LEMMA InitHeld == Init => HeldInv
BY EmptyIsSeq DEF Init, HeldInv, AreLua

LEMMA EnterHeld ==
  ASSUME NEW s, NEW a, NEW on, Enter(s, a, on), AreLua(a)
  PROVE  HeldInv'
<1>1. args' = a /\ DOMAIN held' = {} BY EmptyIsSeq DEF Enter
<1>2. AreLua(args)' BY <1>1 DEF AreLua
<1>3. QED BY <1>1, <1>2 DEF HeldInv

LEMMA CallHeld ==
  ASSUME NEW c \in Calls, Call(c.sig, c.args)
  PROVE  HeldInv'
<1>1. AreLua(c.args) BY InvokeAssumption DEF AreLua
<1>2. QED BY <1>1, EnterHeld DEF Call

LEMMA GoOnHeld ==
  ASSUME GoOn
  PROVE  HeldInv'
<1>1. DOMAIN held' = {} /\ DOMAIN args' = {} BY EmptyIsSeq DEF GoOn
<1>2. QED BY <1>1 DEF HeldInv, AreLua

(* The parameter that is read next is one that the binding reads.          *)
LEMMA ReadsInput ==
  ASSUME NEW s \in Sigs, Supported(s), NEW i \in DOMAIN s.params, ~IsOut(s.params[i])
  PROVE  IsInput(s.params[i])
<1>1. s.params[i] \in ParamTypes BY DEF Sigs, ParamTypes
<1>2. QED BY <1>1 DEF IsInput, Supported

(* One more parameter is read, as Lua meant it.                            *)
LEMMA ReadParamHeld ==
  ASSUME IInv, HeldInv, ReadParam
  PROVE  HeldInv'
<1> USE DEF IInv
<1> DEFINE n == Len(held)
           t == sig.params[n + 1]
           r == Read(t, args, argn, epoch)
<1>1. /\ phase = "reading" /\ n < Len(sig.params) /\ sig' = sig /\ args' = args /\ epoch' = epoch
  BY DEF ReadParam, engine
<1>2. AreLua(args)' BY <1>1 DEF HeldInv, AreLua
<1>3. CASE ~r.ok
  <2>1. phase' = "raised" BY <1>3 DEF ReadParam
  <2>2. QED BY <1>2, <2>1 DEF HeldInv
<1>4. CASE r.ok
  <2>1. /\ held' = Append(held, r.val) /\ at' = Append(at, argn)
    BY <1>4 DEF ReadParam
  <2>2. /\ n \in Nat /\ Len(at) = n /\ IsSeq(held) /\ IsSeq(at) /\ argn \in Int /\ Len(sig.params) \in Nat
        /\ DOMAIN sig.params = 1 .. Len(sig.params)
    BY AppendIsSeq DEF TypeInv, Sigs
  <2>3. /\ DOMAIN held = 1 .. n /\ DOMAIN held' = 1 .. n + 1
        /\ \A i \in 1 .. n : held'[i] = held[i] /\ at'[i] = at[i]
        /\ held'[n + 1] = r.val /\ at'[n + 1] = argn
    BY <2>1, <2>2, AppendIsSeq
  <2>4. ASSUME NEW i \in DOMAIN held', ~IsOut(sig.params[i])
        PROVE  Meant(sig.params[i], at[i], held[i])'
    <3>1. CASE i \in 1 .. n
      <4>1. Meant(sig.params[i], at[i], held[i]) BY <1>1, <2>3, <2>4, <3>1 DEF HeldInv
      <4>2. held'[i] = held[i] /\ at'[i] = at[i] BY <2>3, <3>1
      <4>3. Meant(sig.params[i], at'[i], held'[i]) BY <4>1, <4>2
      <4>4. QED BY <1>1, <4>3 DEF Meant
    <3>2. CASE i = n + 1
      <4>1. n + 1 \in DOMAIN sig.params BY <1>1, <2>2
      <4>2. IsInput(t)
        <5>1. sig \in Sigs /\ Supported(sig) BY <1>1 DEF TypeInv, PairInv
        <5>2. QED BY <2>4, <3>2, <4>1, <5>1, ReadsInput
      <4>3. AreLua(args) /\ argn \in Int BY <2>2 DEF HeldInv
      <4>4. Meant(t, argn, r.val) BY <1>4, <4>2, <4>3, ReadIsMeant, Zenon
      <4>5. held'[i] = r.val /\ at'[i] = argn /\ sig'.params[i] = t BY <1>1, <2>3, <3>2
      <4>6. QED BY <1>1, <4>4, <4>5 DEF Meant
    <3>3. QED BY <2>2, <2>3, <3>1, <3>2
  <2>5. QED BY <1>1, <1>2, <2>4 DEF HeldInv
<1>5. QED BY <1>3, <1>4

(* Nothing else touches what was read until the engine is called.          *)
LEMMA OthersHeld ==
  ASSUME IInv, HeldInv, \/ WorldDestroyed \/ ReadsDone \/ CallEngine \/ PushReturnValue
                        \/ PushParam \/ Return \/ UNCHANGED vars
  PROVE  HeldInv'
<1>1. args' = args
  BY DEF WorldDestroyed, ReadsDone, CallEngine, PushReturnValue, PushParam, Return, vars
<1>2. AreLua(args)' BY <1>1 DEF HeldInv, AreLua
<1>3. CASE ReadsDone \/ UNCHANGED vars
  <2>1. /\ sig' = sig /\ held' = held /\ at' = at /\ epoch' = epoch
        /\ phase' \in {"reading", "calling"} => phase \in {"reading", "calling"}
    BY <1>3 DEF ReadsDone, engine, vars
  <2>2. ASSUME phase' \in {"reading", "calling"}, NEW i \in DOMAIN held, ~IsOut(sig.params[i])
        PROVE  Meant(sig.params[i], at[i], held[i])'
    <3>1. Meant(sig.params[i], at[i], held[i]) BY <2>1, <2>2 DEF HeldInv
    <3>2. QED BY <1>1, <2>1, <3>1 DEF Meant
  <2>3. QED BY <1>2, <2>1, <2>2 DEF HeldInv
<1>4. CASE \/ WorldDestroyed \/ CallEngine \/ PushReturnValue \/ PushParam \/ Return
  <2>1. phase' \notin {"reading", "calling"}
    BY <1>4 DEF WorldDestroyed, CallEngine, PushReturnValue, PushParam, Return
  <2>2. QED BY <1>2, <2>1 DEF HeldInv
<1>5. QED BY <1>3, <1>4

-----------------------------------------------------------------------------
(* The results, on their way to Lua.                                       *)

(* Values after values.                                                    *)
LEMMA ConcatIsSeq ==
  ASSUME NEW s, IsSeq(s), NEW u, IsSeq(u), NEW c, c = s \o u, NEW a, a = Len(s), NEW b, b = Len(u)
  PROVE  /\ IsSeq(c) /\ Len(c) = a + b /\ a \in Nat /\ b \in Nat
         /\ DOMAIN s = 1 .. a /\ DOMAIN u = 1 .. b /\ DOMAIN c = 1 .. a + b
         /\ \A i \in 1 .. a : c[i] = s[i]
         /\ \A i \in 1 .. b : c[a + i] = u[i]
<1>1. PICK S : s \in Seq(S) BY DEF IsSeq
<1>2. PICK U : u \in Seq(U) BY DEF IsSeq
<1>3. s \in Seq(S \cup U) /\ u \in Seq(S \cup U) BY <1>1, <1>2
<1>4. c \in Seq(S \cup U) BY <1>3
<1>5. QED BY <1>3, <1>4 DEF IsSeq

LEMMA ListOf ==
  ASSUME NEW n \in Nat, NEW T, NEW f \in [1 .. n -> T]
  PROVE  f \in Seq(T) /\ Len(f) = n
OBVIOUS

LEMMA LuaAndMore ==
  ASSUME NEW s, IsSeq(s), AreLua(s), NEW u, IsSeq(u), AreLua(u)
  PROVE  AreLua(s \o u)
<1>1. PICK c : c = s \o u OBVIOUS
<1>2. PICK a, b : a = Len(s) /\ b = Len(u) OBVIOUS
<1>3. /\ DOMAIN c = 1 .. a + b /\ DOMAIN s = 1 .. a /\ DOMAIN u = 1 .. b /\ a \in Nat /\ b \in Nat
      /\ \A i \in 1 .. a : c[i] = s[i]
      /\ \A i \in 1 .. b : c[a + i] = u[i]
  BY <1>1, <1>2, ConcatIsSeq
<1>4. ASSUME NEW i \in DOMAIN c PROVE IsLuaValue(c[i])
  <2>1. CASE i \in 1 .. a BY <1>3, <2>1 DEF AreLua
  <2>2. CASE i \notin 1 .. a
    <3>1. i - a \in 1 .. b /\ i = a + (i - a) BY <1>3, <2>2
    <3>2. c[i] = u[i - a] /\ i - a \in DOMAIN u BY <1>3, <3>1
    <3>3. QED BY <3>2 DEF AreLua
  <2>3. QED BY <2>1, <2>2
<1>5. QED BY <1>1, <1>4 DEF AreLua

(* One value more, after the others.                                       *)
LEMMA OneMore ==
  ASSUME NEW gv, IsSeq(gv), NEW vals, IsSeq(vals), NEW e, AllGiven(gv, vals, e),
         NEW g, Giving(g), g.from = Len(vals) + 1, gv # <<>> => IsOut(g.type),
         NEW r, Puts(r, g, e)
  PROVE  /\ AllGiven(Append(gv, g), vals \o r, e)
         /\ Types(Append(gv, g)) = Append(Types(gv), g.type)
<1>1. PICK n : n = Len(gv) OBVIOUS
<1>2. PICK gw : gw = Append(gv, g) OBVIOUS
<1>3. PICK more : more = vals \o r OBVIOUS
<1>4. /\ n \in Nat /\ DOMAIN gv = 1 .. n /\ DOMAIN gw = 1 .. n + 1 /\ Len(gw) = n + 1 /\ IsSeq(gw)
      /\ \A k \in 1 .. n : gw[k] = gv[k]
      /\ gw[n + 1] = g
  BY <1>1, <1>2, AppendIsSeq
<1>5. PICK m : m = Len(vals) OBVIOUS
<1>6. PICK w : w = Span(g) OBVIOUS
<1>7. /\ m \in Nat /\ w \in Nat \ {0} /\ IsSeq(r) /\ Len(r) = w /\ Len(more) = m + w
      /\ \A i \in 1 .. m : more[i] = vals[i]
      /\ \A i \in 1 .. w : more[m + i] = r[i]
  <2>1. w \in Nat \ {0} BY <1>6, SpanCounts
  <2>2. IsSeq(r) /\ Len(r) = w BY <1>6 DEF Puts, LuaSeq
  <2>3. /\ Len(more) = m + w /\ m \in Nat
        /\ \A i \in 1 .. m : more[i] = vals[i]
        /\ \A i \in 1 .. w : more[m + i] = r[i]
    <3>1. w = Len(r) /\ m = Len(vals) /\ more = vals \o r BY <1>3, <1>5, <2>2
    <3>2. IsSeq(vals) /\ IsSeq(r) BY <2>2
    <3>3. QED BY <3>1, <3>2, ConcatIsSeq
  <2>4. QED BY <2>1, <2>2, <2>3
<1>8. gv = <<>> <=> n = 0
  <2>1. gv = <<>> => n = 0 BY <1>1, EmptyIsSeq
  <2>2. n = 0 => gv = <<>>
    <3>1. PICK S : gv \in Seq(S) BY DEF IsSeq
    <3>2. QED BY <1>1, <3>1, EmptySeq
  <2>3. QED BY <2>1, <2>2
<1>9. ASSUME NEW k \in 1 .. n
      PROVE  /\ Giving(gv[k]) /\ (k > 1 => IsOut(gv[k].type))
             /\ gv[k].from = IF k = 1 THEN 1 ELSE gv[k - 1].from + Span(gv[k - 1])
             /\ gv[k].from \in Nat \ {0} /\ gv[k].from + Span(gv[k]) - 1 <= m
             /\ Shown(vals, gv[k], gv[k].from, e)
  BY <1>4, <1>5 DEF AllGiven
<1>10. m = IF n = 0 THEN 0 ELSE gv[n].from + Span(gv[n]) - 1
  BY <1>1, <1>5, <1>8 DEF AllGiven
<1>11. ASSUME NEW k \in DOMAIN gw
       PROVE  /\ Giving(gw[k]) /\ (k > 1 => IsOut(gw[k].type))
              /\ gw[k].from = IF k = 1 THEN 1 ELSE gw[k - 1].from + Span(gw[k - 1])
              /\ gw[k].from \in Nat \ {0} /\ gw[k].from + Span(gw[k]) - 1 <= Len(more)
              /\ Shown(more, gw[k], gw[k].from, e)
  <2>1. CASE k \in 1 .. n
    <3>1. gw[k] = gv[k] /\ (k # 1 => gw[k - 1] = gv[k - 1]) BY <1>4, <2>1
    <3>2. Shown(more, gv[k], gv[k].from, e)
      <4>1. PICK p : p = gv[k].from OBVIOUS
      <4>2. p \in Nat \ {0} /\ p + Span(gv[k]) - 1 <= m /\ Shown(vals, gv[k], p, e) BY <1>9, <2>1, <4>1
      <4>3. ASSUME NEW i \in 0 .. Span(gv[k]) - 1 PROVE more[p + i] = vals[p + i]
        <5>1. Span(gv[k]) \in Nat BY SpanCounts
        <5>2. p + i \in 1 .. m BY <1>7, <4>2, <5>1
        <5>3. QED BY <1>7, <5>2
      <4>4. p \in Int BY <4>2
      <4>5. Shown(more, gv[k], p, e) BY <4>2, <4>3, <4>4, ShownElsewhere
      <4>6. QED BY <4>1, <4>5
    <3>3. gv[k].from + Span(gv[k]) - 1 <= Len(more)
      <4>1. gv[k].from + Span(gv[k]) - 1 \in Int BY <1>9, <2>1, SpanCounts
      <4>2. QED BY <1>7, <1>9, <2>1, <4>1
    <3>4. QED BY <1>9, <2>1, <3>1, <3>2, <3>3
  <2>2. CASE k = n + 1
    <3>1. gw[k] = g /\ g.from = m + 1 BY <1>4, <1>5, <2>2
    <3>2. k > 1 => IsOut(g.type) BY <1>4, <1>8, <2>2
    <3>3. m + 1 = IF k = 1 THEN 1 ELSE gw[k - 1].from + Span(gw[k - 1])
      <4>1. CASE n = 0 BY <1>10, <2>2, <4>1
      <4>2. CASE n # 0
        <5>1. n \in 1 .. n /\ k - 1 = n /\ k # 1 BY <1>4, <2>2, <4>2
        <5>2. gw[n] = gv[n] BY <1>4, <5>1
        <5>3. gv[n].from \in Nat /\ Span(gv[n]) \in Nat BY <1>9, <5>1, SpanCounts
        <5>4. QED BY <1>10, <4>2, <5>1, <5>2, <5>3
      <4>3. QED BY <4>1, <4>2
    <3>4. Shown(more, g, m + 1, e)
      <4>1. Shown(r, g, 1, e) BY DEF Puts
      <4>2. \A i \in 0 .. w - 1 : more[(m + 1) + i] = r[1 + i]
        <5> SUFFICES ASSUME NEW i \in 0 .. w - 1 PROVE more[(m + 1) + i] = r[1 + i]  OBVIOUS
        <5>1. 1 + i \in 1 .. w /\ (m + 1) + i = m + (1 + i) BY <1>7
        <5>2. QED BY <1>7, <5>1
      <4>3. m + 1 \in Int /\ 1 \in Int BY <1>7
      <4>4. QED BY <1>6, <4>1, <4>2, <4>3, ShownElsewhere
    <3>5. m + 1 \in Nat \ {0} /\ m + 1 + w - 1 <= Len(more) BY <1>7
    <3>6. QED BY <1>6, <3>1, <3>2, <3>3, <3>4, <3>5
  <2>3. QED BY <1>4, <2>1, <2>2
<1>12. gw # <<>> /\ Len(more) = gw[Len(gw)].from + Span(gw[Len(gw)]) - 1
  <2>1. gw # <<>> BY <1>4, EmptyIsSeq
  <2>2. gw[Len(gw)] = g /\ g.from = m + 1 BY <1>4, <1>5
  <2>3. m + w = (m + 1) + w - 1 BY <1>7
  <2>4. QED BY <1>6, <1>7, <2>1, <2>2, <2>3
<1>13. AllGiven(gw, more, e) BY <1>11, <1>12 DEF AllGiven
<1>14. Types(gw) = Append(Types(gv), g.type)
  <2> DEFINE T == {gw[k].type : k \in 1 .. n + 1}
             tv == [k \in 1 .. n |-> gv[k].type]
             tw == [k \in 1 .. n + 1 |-> gw[k].type]
  <2>1. Types(gv) = tv /\ Types(gw) = tw BY <1>4 DEF Types
  <2>2. \A k \in 1 .. n : gv[k].type \in T
    <3> SUFFICES ASSUME NEW k \in 1 .. n PROVE gv[k].type \in T  OBVIOUS
    <3>1. k \in 1 .. n + 1 /\ gw[k] = gv[k] BY <1>4
    <3>2. QED BY <3>1
  <2>3. g.type \in T
    <3>1. n + 1 \in 1 .. n + 1 BY <1>4
    <3>2. QED BY <1>4, <3>1
  <2>4. \A k \in 1 .. n : tw[k] = tv[k] /\ tw[n + 1] = g.type
    BY <1>4
  <2>5. tw[n + 1] = g.type
    <3>1. n + 1 \in 1 .. n + 1 BY <1>4
    <3>2. QED BY <1>4, <3>1
  <2> HIDE DEF T
  <2>6. tv \in [1 .. n -> T] BY <2>2
  <2>7. tv \in Seq(T) /\ Len(tv) = n
    <3> HIDE DEF tv
    <3>1. n \in Nat BY <1>4
    <3>2. QED BY <2>6, <3>1, ListOf
  <2>8. tw \in [1 .. n + 1 -> T]
    <3>1. \A k \in 1 .. n + 1 : gw[k].type \in T BY DEF T
    <3>2. QED BY <3>1
  <2> HIDE DEF tw, tv
  <2>9. tw \in Seq(T) /\ Len(tw) = n + 1
    <3>1. n + 1 \in Nat BY <1>4
    <3>2. QED BY <2>8, <3>1, ListOf
  <2>10. /\ Append(tv, g.type) \in Seq(T) /\ Len(Append(tv, g.type)) = n + 1
         /\ \A k \in 1 .. n : Append(tv, g.type)[k] = tv[k]
         /\ Append(tv, g.type)[n + 1] = g.type
    BY <1>4, <2>3, <2>7
  <2>11. tw = Append(tv, g.type)
    <3>1. \A k \in 1 .. n + 1 : tw[k] = Append(tv, g.type)[k]
      BY <1>4, <2>4, <2>5, <2>10
    <3>2. QED BY <2>9, <2>10, <3>1, SeqEqual
  <2>12. QED BY <2>1, <2>11
<1>15. QED BY <1>2, <1>3, <1>13, <1>14

(* Nothing is given yet.                                                   *)
LEMMA NothingGiven ==
  ASSUME NEW e
  PROVE  /\ AllGiven(<<>>, <<>>, e) /\ Types(<<>>) = <<>>
         /\ IsSeq(<<>>) /\ AreLua(<<>>)
BY EmptyIsSeq DEF AllGiven, Types, AreLua

LEMMA InitGiven == Init => GivenInv
<1> SUFFICES ASSUME Init PROVE GivenInv  OBVIOUS
<1>1. AllGiven(gave, results, epoch) /\ epoch \in 0 .. epoch BY NothingGiven DEF Init
<1>2. QED BY <1>1, NothingGiven DEF Init, GivenInv

LEMMA NoneGivenYet ==
  ASSUME IInv, phase' \notin {"outs", "returned"}, epoch' \in Nat,
         gave' = <<>>, results' = <<>>, pushed' = 0
  PROVE  GivenInv'
<1>1. AllGiven(gave', results', epoch') /\ epoch' \in 0 .. epoch' BY NothingGiven
<1>2. IsSeq(results)' /\ AreLua(results)' BY NothingGiven DEF IsSeq, AreLua
<1>3. QED BY <1>1, <1>2 DEF GivenInv

LEMMA EpochType ==
  ASSUME IInv
  PROVE  epoch \in Nat
BY InvokeAssumption DEF IInv, TypeInv

LEMMA EnterGiven ==
  ASSUME IInv, NEW s, NEW a, NEW on, Enter(s, a, on)
  PROVE  GivenInv'
<1>1. epoch' \in Nat BY EpochType DEF Enter
<1>2. QED BY <1>1, NoneGivenYet DEF Enter

LEMMA BeginsGiven ==
  ASSUME IInv, GivenInv, GoOn \/ ReadParam \/ ReadsDone \/ CallEngine
  PROVE  GivenInv'
<1>1. phase' \notin {"outs", "returned"}
  BY DEF GoOn, ReadParam, ReadsDone, CallEngine
<1>2. gave' = <<>> /\ results' = <<>> /\ pushed' = 0
  BY DEF GivenInv, GoOn, ReadParam, ReadsDone, CallEngine, pushes
<1>3. epoch' \in Nat BY EpochType DEF GoOn, ReadParam, ReadsDone, CallEngine, engine
<1>4. QED BY <1>1, <1>2, <1>3, NoneGivenYet

(* A world that is destroyed between two calls, or nothing that concerns   *)
(* the results.                                                            *)
LEMMA StaysGiven ==
  ASSUME IInv, GivenInv, WorldDestroyed \/ Return \/ UNCHANGED vars
  PROVE  GivenInv'
<1>1. /\ gave' = gave /\ results' = results /\ pushed' = pushed /\ sig' = sig
      /\ phase' \in {"outs", "returned"} <=> phase \in {"outs", "returned"}
      /\ phase' = "outs" => phase = "outs" /\ epoch' = epoch
      /\ epoch \in Nat /\ epoch' \in Nat /\ epoch <= epoch'
  BY EpochType DEF WorldDestroyed, Return, vars, engine, pushes
<1>2. PICK e \in 0 .. epoch : (phase = "outs" => e = epoch) /\ AllGiven(gave, results, e) BY DEF GivenInv
<1>3. e \in 0 .. epoch' /\ (phase' = "outs" => e = epoch') BY <1>1, <1>2
<1>4. AllGiven(gave', results', e) BY <1>1, <1>2
<1>5. IsSeq(results') /\ AreLua(results') BY <1>1 DEF GivenInv
<1>6. (phase' = "outs" => Supported(sig') /\ Builds(sig')) BY <1>1 DEF GivenInv
<1>7. phase' \in {"outs", "returned"} => Types(gave') = Returned(sig') \o OutsUpTo(sig'.params)[pushed']
  BY <1>1 DEF GivenInv
<1>8. phase' \notin {"outs", "returned"} => gave' = <<>> /\ results' = <<>> /\ pushed' = 0
  BY <1>1 DEF GivenInv
<1>9. QED BY <1>3, <1>4, <1>5, <1>6, <1>7, <1>8, Zenon DEF GivenInv

(* One value more, of the type that comes next.                            *)
LEMMA GivesMore ==
  ASSUME IInv, GivenInv, NEW t, NEW v, NEW r,
         LET g == [type |-> t, val |-> v, from |-> Len(results) + 1]
         IN  Giving(g) /\ Puts(r, g, epoch),
         gave # <<>> => phase = "outs" /\ IsOut(t),
         gave = <<>> => results = <<>>,
         Gave(t, v), results' = results \o r, epoch' = epoch
  PROVE  /\ IsSeq(results') /\ AreLua(results')
         /\ Types(gave') = Append(Types(gave), t)
         /\ \E e \in 0 .. epoch' : e = epoch' /\ AllGiven(gave', results', e)
<1>1. PICK g : g = [type |-> t, val |-> v, from |-> Len(results) + 1] OBVIOUS
<1>2. Giving(g) /\ Puts(r, g, epoch) /\ g.type = t /\ g.from = Len(results) + 1 /\ gave' = Append(gave, g)
  BY <1>1 DEF Gave
<1>3. IsSeq(gave) /\ IsSeq(results) /\ AreLua(results) BY DEF IInv, TypeInv, GivenInv
<1>4. AllGiven(gave, results, epoch)
  <2>1. CASE gave = <<>> BY <2>1, NothingGiven
  <2>2. CASE gave # <<>> BY <2>2 DEF GivenInv
  <2>3. QED BY <2>1, <2>2
<1>5. gave # <<>> => IsOut(g.type) BY <1>2
<1>6. AllGiven(gave', results', epoch) /\ Types(gave') = Append(Types(gave), t)
  BY <1>2, <1>3, <1>4, <1>5, OneMore
<1>7. IsSeq(r) /\ AreLua(r) BY <1>2 DEF Puts, LuaSeq
<1>8. IsSeq(results') /\ AreLua(results') BY <1>3, <1>7, ConcatIsSeq, LuaAndMore
<1>9. epoch' \in 0 .. epoch' BY EpochType
<1>10. QED BY <1>6, <1>8, <1>9

(* What the signature makes a result, or an out-parameter.                 *)
LEMMA BindingResults ==
  ASSUME NEW s \in Sigs, Supported(s), Builds(s)
  PROVE  /\ s.ret # Void => IsResult(s.ret) /\ ~IsOut(s.ret)
         /\ \A i \in DOMAIN s.params : IsOut(s.params[i]) => IsResult(s.params[i])
<1>1. ASSUME s.ret # Void PROVE IsResult(s.ret) /\ ~IsOut(s.ret)
  <2>1. s.ret \in ParamTypes BY <1>1 DEF Sigs, ParamTypes
  <2>2. IsResult(s.ret) BY <2>1 DEF IsResult, Supported, Builds
  <2>3. ReturnKind(s.ret) # "PodOut" BY DEF Supported
  <2>4. s.ret = Pointer("char") => ~IsOut(s.ret) BY KindsOfResults DEF IsOut
  <2>5. QED BY <2>2, <2>3, <2>4 DEF ReturnKind, IsOut
<1>2. ASSUME NEW i \in DOMAIN s.params, IsOut(s.params[i]) PROVE IsResult(s.params[i])
  <2>1. s.params[i] \in ParamTypes BY DEF Sigs, ParamTypes
  <2>2. QED BY <1>2, <2>1 DEF IsResult, Builds, IsOut
<1>3. QED BY <1>1, <1>2

(* push_return, and then Storage::push of one parameter after the other,   *)
(* build the described list.                                               *)
LEMMA PushReturnValueGiven ==
  ASSUME IInv, GivenInv, PushReturnValue
  PROVE  GivenInv'
<1> DEFINE r == PushReturn(sig.ret, ret, epoch)
<1>1. /\ phase = "pushing" /\ sig' = sig /\ pushed' = 0 /\ epoch' = epoch
      /\ gave = <<>> /\ results = <<>> /\ pushed = 0
  BY DEF PushReturnValue, GivenInv
<1>2. reached /\ ret \in Returns(sig.ret) /\ Supported(sig) /\ Builds(sig) /\ sig \in Sigs
  BY <1>1 DEF IInv, OwnInv, PairInv, TypeInv
<1>3. OutsUpTo(sig.params)[0] = <<>>
  <2>1. sig.params \in Seq(ParamTypes) BY <1>2 DEF Sigs, ParamTypes
  <2>2. QED BY <2>1, OutsAreTypes
<1>4. CASE sig.ret = Void
  <2>1. phase' = "outs" /\ gave' = <<>> /\ results' = <<>> BY <1>1, <1>4 DEF PushReturnValue
  <2>2. AllGiven(gave', results', epoch') /\ epoch' \in 0 .. epoch' BY <1>1, <2>1, NothingGiven, EpochType
  <2>3. Types(gave') = <<>> BY <2>1, NothingGiven
  <2>4. Returned(sig) \o OutsUpTo(sig.params)[0] = <<>>
    <3>1. <<>> \o <<>> = <<>> OBVIOUS
    <3>2. QED BY <1>3, <1>4, <3>1 DEF Returned
  <2>5. IsSeq(results') /\ AreLua(results') BY <2>1, NothingGiven
  <2>6. QED BY <1>1, <1>2, <2>1, <2>2, <2>3, <2>4, <2>5 DEF GivenInv
<1>5. CASE sig.ret # Void /\ r.ok
  <2>1. phase' = "outs" /\ results' = r.val /\ Gave(sig.ret, ret) BY <1>5 DEF PushReturnValue
  <2>2. IsResult(sig.ret) /\ ~IsOut(sig.ret) BY <1>2, <1>5, BindingResults
  <2>3. PICK g : g = [type |-> sig.ret, val |-> ret, from |-> Len(results) + 1] OBVIOUS
  <2>4. g.type = sig.ret /\ g.val = ret BY <2>3
  <2>5. Giving(g)
    <3>1. ASSUME NEW b \in Wides, sig.ret = Value(b) PROVE Double(ret) = 2 * ret
      <4>1. b \in Scalars /\ ValueKind(b) = "Wide" BY DEF Scalars, Wides, ValueKind, CharLike, Classes
      <4>2. Kind(sig.ret) = "Wide" /\ ReturnKind(sig.ret) = "Wide" BY <3>1, <4>1, KindsOfResults
      <4>3. sig.ret.base = b /\ b \notin NoTraits BY <3>1 DEF Value, CType, NoTraits, Wides
      <4>4. PushReturn(sig.ret, ret, epoch) = PushWide(b, ret) BY <4>2, <4>3 DEF PushReturn
      <4>5. ret \in WideValues(b) BY <1>2, <4>2, <4>3, ValuesTable DEF Returns
      <4>6. ToWide(b, Double(ret)) = ret BY <1>5, <4>4 DEF PushWide, Fails
      <4>7. QED BY <4>5, <4>6, WideGoesRound
    <3>2. QED BY <1>2, <2>2, <2>4, <3>1 DEF Giving, GivenValues
  <2>6. Puts(r.val, g, epoch) BY <1>2, <1>5, <2>2, <2>4, ReturnIsShown
  <2>7. results' = results \o r.val
    <3>1. PICK S : r.val \in Seq(S) BY <2>6 DEF Puts, LuaSeq, IsSeq
    <3>2. QED BY <1>1, <2>1, <3>1, ConcatEmptySeq
  <2>8. /\ IsSeq(results') /\ AreLua(results')
        /\ Types(gave') = Append(Types(gave), sig.ret)
        /\ \E e \in 0 .. epoch' : e = epoch' /\ AllGiven(gave', results', e)
    BY <1>1, <2>1, <2>3, <2>5, <2>6, <2>7, GivesMore
  <2>9. Types(gave') = Returned(sig) \o OutsUpTo(sig.params)[0]
    <3>1. Types(gave') = Append(<<>>, sig.ret) BY <1>1, <2>8, NothingGiven
    <3>2. Append(<<>>, sig.ret) = <<sig.ret>> /\ <<sig.ret>> \o <<>> = <<sig.ret>> OBVIOUS
    <3>3. QED BY <1>3, <1>5, <3>1, <3>2 DEF Returned
  <2>10. QED BY <1>1, <1>2, <2>1, <2>8, <2>9 DEF GivenInv
<1>6. CASE sig.ret # Void /\ ~r.ok
  <2>1. phase' = "raised" /\ gave' = <<>> /\ results' = <<>> BY <1>1, <1>6 DEF PushReturnValue
  <2>2. QED BY <1>1, <2>1, NoneGivenYet, EpochType
<1>7. QED BY <1>4, <1>5, <1>6

LEMMA PushParamGiven ==
  ASSUME IInv, GivenInv, PushParam
  PROVE  GivenInv'
<1>1. PICK n : n = pushed + 1 OBVIOUS
<1>2. PICK t : t = sig.params[n] OBVIOUS
<1>3. /\ phase = "outs" /\ phase' = "outs" /\ sig' = sig /\ epoch' = epoch /\ pushed' = n
      /\ pushed < Len(sig.params)
  BY <1>1 DEF PushParam, engine
<1>4. /\ sig \in Sigs /\ Supported(sig) /\ Builds(sig) /\ sig.params \in Seq(ParamTypes)
      /\ pushed \in Nat /\ Len(sig.params) \in Nat /\ DOMAIN sig.params = 1 .. Len(sig.params)
  <2>1. sig \in Sigs /\ pushed \in 0 .. Len(sig.params) BY DEF IInv, TypeInv
  <2>2. Supported(sig) /\ Builds(sig) BY <1>3 DEF GivenInv
  <2>3. QED BY <2>1, <2>2 DEF Sigs, ParamTypes
<1>5. n \in 1 .. Len(sig.params) /\ pushed = n - 1 BY <1>1, <1>3, <1>4
<1>6. OutsUpTo(sig.params)[n] = IF IsOut(t) THEN Append(OutsUpTo(sig.params)[pushed], t)
                                ELSE OutsUpTo(sig.params)[pushed]
  BY <1>2, <1>4, <1>5, OutsAreTypes
<1>7. Types(gave) = Returned(sig) \o OutsUpTo(sig.params)[pushed] BY <1>3 DEF GivenInv
<1>8. CASE ~IsOut(t)
  <2>1. gave' = gave /\ results' = results BY <1>1, <1>2, <1>8 DEF PushParam
  <2>2. Types(gave') = Returned(sig) \o OutsUpTo(sig.params)[n] BY <1>6, <1>7, <1>8, <2>1
  <2>3. \E e \in 0 .. epoch' : e = epoch' /\ AllGiven(gave', results', e)
    BY <1>3, <2>1 DEF GivenInv
  <2>4. IsSeq(results') /\ AreLua(results') BY <2>1 DEF GivenInv
  <2>5. QED BY <1>3, <1>4, <2>2, <2>3, <2>4 DEF GivenInv
<1>9. CASE IsOut(t)
  <2>1. PICK f : f = outs[n] OBVIOUS
  <2>2. results' = results \o PushOut(t, f) /\ Gave(t, OutValue(t, f))
    BY <1>1, <1>2, <1>9, <2>1 DEF PushParam
  <2>3. PICK v : v = OutValue(t, f) OBVIOUS
  <2>4. PICK g : g = [type |-> t, val |-> v, from |-> Len(results) + 1] OBVIOUS
  <2>5. g.type = t /\ g.val = v BY <2>4
  <2>6. f \in Writes(t)
    <3>1. reached BY <1>3 DEF IInv, OwnInv
    <3>2. n \in DOMAIN sig.params BY <1>4, <1>5
    <3>3. QED BY <1>2, <2>1, <3>1, <3>2 DEF IInv, TypeInv
  <2>7. IsResult(t)
    <3>1. n \in DOMAIN sig.params BY <1>4, <1>5
    <3>2. QED BY <1>2, <1>4, <1>9, <3>1, BindingResults
  <2>8. Giving(g)
    <3>1. t \notin {Value(b) : b \in Wides} BY <1>9, KindsOfResults DEF Scalars
    <3>2. QED BY <1>9, <2>3, <2>5, <2>6, <2>7, <3>1 DEF Giving, GivenValues
  <2>9. Puts(PushOut(t, f), g, epoch) BY <1>9, <2>3, <2>5, <2>6, <2>7, OutIsShown
  <2>10. gave = <<>> => results = <<>>
    <3>1. gave = <<>> => Len(results) = 0 BY DEF GivenInv, AllGiven
    <3>2. PICK S : results \in Seq(S) BY DEF GivenInv, IsSeq
    <3>3. QED BY <3>1, <3>2, EmptySeq
  <2>11. /\ IsSeq(results') /\ AreLua(results')
         /\ Types(gave') = Append(Types(gave), t)
         /\ \E e \in 0 .. epoch' : e = epoch' /\ AllGiven(gave', results', e)
    BY <1>3, <1>9, <2>2, <2>3, <2>4, <2>8, <2>9, <2>10, GivesMore
  <2>12. Types(gave') = Returned(sig) \o OutsUpTo(sig.params)[n]
    <3>1. PICK a, b : a = Returned(sig) /\ b = OutsUpTo(sig.params)[pushed] OBVIOUS
    <3>2. a \in Seq(ParamTypes)
      <4>1. sig.ret # Void => sig.ret \in ParamTypes BY <1>4 DEF Sigs, ParamTypes
      <4>2. QED BY <3>1, <4>1 DEF Returned
    <3>3. b \in Seq(ParamTypes)
      <4>1. pushed \in 0 .. Len(sig.params) BY <1>3, <1>4
      <4>2. QED BY <1>4, <3>1, <4>1, OutsAreTypes
    <3>4. t \in ParamTypes BY <2>7 DEF IsResult
    <3>5. Append(a \o b, t) = a \o Append(b, t)
      <4>1. PICK S : S = ParamTypes OBVIOUS
      <4>2. a \in Seq(S) /\ b \in Seq(S) /\ t \in S BY <3>2, <3>3, <3>4, <4>1
      <4>3. <<t>> \in Seq(S) /\ a \o b \in Seq(S) BY <4>2
      <4>4. (a \o b) \o <<t>> = a \o (b \o <<t>>) BY <4>2, <4>3, ConcatAssociative
      <4>5. QED BY <4>2, <4>3, <4>4, AppendIsConcat
    <3>6. QED BY <1>6, <1>7, <1>9, <2>11, <3>1, <3>5
  <2>13. QED BY <1>3, <1>4, <2>11, <2>12 DEF GivenInv
<1>10. QED BY <1>8, <1>9

(* When the last parameter was looked at, they are what was described.     *)
LEMMA GivenIsDescribed ==
  ASSUME IInv, GivenInv
  PROVE  ResultsArrive
<1> SUFFICES ASSUME phase = "outs", pushed = Len(sig.params)
             PROVE  /\ [k \in DOMAIN gave |-> gave[k].type] = Described(sig)
                    /\ \A k \in DOMAIN gave :
                         /\ gave[k].from = IF k = 1 THEN 1 ELSE gave[k - 1].from + Span(gave[k - 1])
                         /\ Given(gave[k].type, gave[k].from, gave[k].val)
                    /\ Len(results) = IF gave = <<>> THEN 0 ELSE gave[Len(gave)].from + Span(gave[Len(gave)]) - 1
  BY DEF ResultsArrive
<1>1. AllGiven(gave, results, epoch) BY DEF GivenInv
<1>2. [k \in DOMAIN gave |-> gave[k].type] = Described(sig) BY DEF GivenInv, Types, Described
<1>3. ASSUME NEW k \in DOMAIN gave
      PROVE  Given(gave[k].type, gave[k].from, gave[k].val)
  <2>1. Shown(results, gave[k], gave[k].from, epoch) BY <1>1 DEF AllGiven
  <2>2. PICK t, c, p : t = gave[k].type /\ c = gave[k].val /\ p = gave[k].from OBVIOUS
  <2>3. Shape(t) /\ (IsText(t) <=> t \in Texts)
    <3>1. Giving(gave[k]) BY <1>1 DEF AllGiven
    <3>2. QED BY <2>2, <3>1, ResultShapes, TextTypes DEF Giving
  <2>4. CASE IsText(t)
    <3>1. /\ t \notin {Value("bool")} \cup WideOuts
          /\ t.base \notin {"vec", "color", "float"} \cup Incomplete
      BY <2>3, <2>4 DEF Texts, Value, Pointer, ConstPointer, CType, Incomplete, Wides, WideOuts
    <3>2. QED BY <2>1, <2>2, <2>4, <3>1 DEF Shown, Given
  <2>5. CASE ~IsText(t) /\ t = Value("bool")
    <3>1. t \notin WideOuts /\ t.base \notin {"vec", "color", "float"} \cup Incomplete
      BY <2>5 DEF Value, Pointer, CType, Incomplete, Wides, WideOuts
    <3>2. QED BY <2>1, <2>2, <2>5, <3>1 DEF Shown, Given
  <2>6. CASE ~IsText(t) /\ t # Value("bool")
    <3>1. t.base \in {"vec", "color", "float"} \cup Incomplete => t \notin WideOuts
      BY DEF Pointer, CType, Incomplete, Wides, WideOuts
    <3>2. "float" \notin Incomplete /\ "vec" \notin Incomplete /\ "color" \notin Incomplete BY DEF Incomplete
    <3>3. QED BY <2>1, <2>2, <2>6, <3>1, <3>2 DEF Shown, Given
  <2>7. QED BY <2>4, <2>5, <2>6
<1>4. QED BY <1>1, <1>2, <1>3 DEF AllGiven

-----------------------------------------------------------------------------
(* What is passed on.                                                      *)

(* The parameter type of each result.                                      *)
LEMMA ParamsOfResults ==
  /\ \A b \in Scalars \cup CharLike \cup Classes : AsParam(Value(b)) = Value(b)
  /\ AsParam(Pointer("char")) = ConstPointer("char")
  /\ AsParam(ConstPointer("char")) = ConstPointer("char")
  /\ \A b \in {"vec", "color"} : AsParam(ConstPointer(b)) = Value(b)
  /\ \A t : t.stars = 1 /\ t.base \in Incomplete => AsParam(t) = t
  /\ \A b \in Scalars \cup {"vec", "color"} : AsParam(Pointer(b)) = Value(b)
<1>1. \A b : Value(b).base = b /\ Pointer(b).base = b /\ ConstPointer(b).base = b
  BY DEF Value, Pointer, ConstPointer, CType
<1>2. ASSUME NEW b \in Scalars \cup CharLike \cup Classes PROVE AsParam(Value(b)) = Value(b)
  <2>1. ValueKind(b) \notin {"OwnedCString", "PodOut", "PodIn"} BY DEF ValueKind, Wides
  <2>2. Kind(Value(b)) \notin {"PodOut", "PodIn"} /\ ReturnKind(Value(b)) # "OwnedCString"
    BY <2>1, KindsOfResults
  <2>3. QED BY <2>2 DEF AsParam
<1>3. AsParam(Pointer("char")) = ConstPointer("char") BY KindsOfResults DEF AsParam
<1>4. AsParam(ConstPointer("char")) = ConstPointer("char") BY KindsOfResults DEF AsParam
<1>5. ASSUME NEW b \in {"vec", "color"} PROVE AsParam(ConstPointer(b)) = Value(b)
  <2>1. Kind(ConstPointer(b)) = "PodIn" /\ ReturnKind(ConstPointer(b)) = "PodIn" BY KindsOfResults
  <2>2. QED BY <1>1, <2>1 DEF AsParam
<1>6. ASSUME NEW t, t.stars = 1, t.base \in Incomplete PROVE AsParam(t) = t
  <2>1. Kind(t) = "Handle" /\ ReturnKind(t) = "Handle" BY <1>6, KindsOfResults
  <2>2. QED BY <2>1 DEF AsParam
<1>7. ASSUME NEW b \in Scalars \cup {"vec", "color"} PROVE AsParam(Pointer(b)) = Value(b)
  <2>1. Kind(Pointer(b)) = "PodOut" /\ ReturnKind(Pointer(b)) = "PodOut" BY KindsOfResults
  <2>2. QED BY <1>1, <2>1 DEF AsParam
<1>8. QED BY <1>2, <1>3, <1>4, <1>5, <1>6, <1>7

(* Reading a number as a parameter of each scalar type.                    *)
LEMMA ReadsNumber ==
  ASSUME NEW vals, 1 \in DOMAIN vals, NEW n, vals[1] = LNum(n), NEW e
  PROVE  /\ ~Read(Value("bool"), vals, 1, e).ok
         /\ Read(Value("float"), vals, 1, e) = Reads(RoundTo(FloatBits, n))
         /\ \A b \in Wides : Read(Value(b), vals, 1, e) = CheckWide(b, LNum(n))
         /\ \A b \in {"int", "uint"} \cup CharLike :
              Read(Value(b), vals, 1, e) = Reads(Narrow(b, ToInteger(n)))
<1>1. ArgAt(vals, 1) = LNum(n) BY DEF ArgAt
<1>2. IsNumber(LNum(n)) /\ ToNumber(LNum(n)) = n /\ LNum(n).type = "number" BY DEF IsNumber, ToNumber, LNum
<1>3. \A b \in Scalars \cup CharLike :
        Value(b).base = b /\ Value(b).base \notin NoTraits /\ Kind(Value(b)) = ValueKind(b)
  BY KindsOfResults DEF Value, CType, NoTraits, Scalars, Wides, CharLike
<1>4. Read(Value("bool"), vals, 1, e) = Fails
  <2>1. Kind(Value("bool")) = "Boolean" /\ Value("bool").base = "bool"
    BY <1>3 DEF Scalars, Wides, ValueKind, CharLike, Classes
  <2>2. QED BY <1>1, <1>2, <2>1 DEF Read
<1>5. Read(Value("float"), vals, 1, e) = Reads(RoundTo(FloatBits, n))
  <2>1. Kind(Value("float")) = "Number" /\ Value("float").base = "float"
    BY <1>3 DEF Scalars, Wides, ValueKind, CharLike, Classes
  <2>2. QED BY <1>1, <1>2, <2>1 DEF Read
<1>6. ASSUME NEW b \in Wides PROVE Read(Value(b), vals, 1, e) = CheckWide(b, LNum(n))
  <2>1. Kind(Value(b)) = "Wide" /\ Value(b).base = b /\ b \notin {"rtti", "stringref"}
    BY <1>3 DEF Scalars, Wides, ValueKind, CharLike, Classes
  <2>2. QED BY <1>1, <2>1 DEF Read
<1>7. ASSUME NEW b \in {"int", "uint"} \cup CharLike
      PROVE  Read(Value(b), vals, 1, e) = Reads(Narrow(b, ToInteger(n)))
  <2>1. Kind(Value(b)) = "Integer" /\ Value(b).base = b /\ b \notin {"rtti", "stringref"}
    BY <1>3 DEF Scalars, Wides, ValueKind, CharLike, Classes
  <2>2. QED BY <1>1, <1>2, <2>1 DEF Read
<1>8. Fails.ok = FALSE BY DEF Fails
<1>9. QED BY <1>4, <1>5, <1>6, <1>7, <1>8

(* An integer type's values are narrowed to themselves.                    *)
LEMMA NarrowStays ==
  /\ \A v \in -(2 ^ (IntBits - 1)) .. 2 ^ (IntBits - 1) - 1 : Narrow("int", v) = v
  /\ \A v \in 0 .. 2 ^ IntBits - 1 : Narrow("uint", v) = v
  /\ \A v \in 0 .. 2 ^ ByteBits - 1 : Narrow("byte", v) = v
  /\ \A v \in -(2 ^ (ByteBits - 1)) .. 2 ^ (ByteBits - 1) - 1 : Narrow("char", v) = v
<1>1. IntBits \in Nat \ {0} /\ ByteBits \in Nat \ {0} BY MarshalAssumption
<1>2. ASSUME NEW v \in -(2 ^ (IntBits - 1)) .. 2 ^ (IntBits - 1) - 1 PROVE Narrow("int", v) = v
  BY <1>1, SignedStays DEF Narrow
<1>3. ASSUME NEW v \in -(2 ^ (ByteBits - 1)) .. 2 ^ (ByteBits - 1) - 1 PROVE Narrow("char", v) = v
  BY <1>1, SignedStays DEF Narrow
<1>4. ASSUME NEW bits \in Nat, 2 ^ bits \in Nat \ {0}, NEW v \in 0 .. 2 ^ bits - 1
      PROVE  Wrap(v, bits) = v
  <2>1. v \in Int BY <1>4
  <2>2. QED BY <1>4, <2>1, WrapStays
<1>5. ASSUME NEW v \in 0 .. 2 ^ IntBits - 1 PROVE Narrow("uint", v) = v
  BY <1>1, <1>4, WidthsAre DEF Narrow
<1>6. ASSUME NEW v \in 0 .. 2 ^ ByteBits - 1 PROVE Narrow("byte", v) = v
  BY <1>1, <1>4, WidthsAre DEF Narrow
<1>7. QED BY <1>2, <1>3, <1>5, <1>6

(* A field of a color is read as the byte it was.                          *)
LEMMA ByteStays ==
  ASSUME NEW v \in 0 .. 2 ^ ByteBits - 1
  PROVE  ToByte(2 * v) = v
<1>1. v \in Int /\ v >= 0 /\ v < 2 ^ ByteBits BY WidthsAre
<1>2. Whole(2 * v) = v BY <1>1, WholeOfHalves
<1>3. v \in -(2 ^ (IntBits - 1)) .. 2 ^ (IntBits - 1) - 1 BY <1>1, WidthsAre
<1>4. Wrap(v, ByteBits) = v
  <2>1. ByteBits \in Nat BY MarshalAssumption
  <2>2. QED BY <1>1, <2>1, WidthsAre, WrapStays
<1>5. QED BY <1>2, <1>3, <1>4 DEF ToByte

(* An aggregate is read as it was pushed.                                  *)
LEMMA FieldsAreRead ==
  ASSUME NEW b \in {"vec", "color"}, NEW v \in ValuesOf(Value(b)), NEW vals, DOMAIN vals = 1 .. PodCount,
         \A i \in 1 .. PodCount : vals[1 + i - 1] = LNum(IF b = "vec" THEN v[i] ELSE 2 * v[i]), NEW e
  PROVE  Read(Value(b), vals, 1, e) = Reads(v)
<1>1. Kind(Value(b)) = "Pod" /\ Value(b).base = b /\ b \notin {"rtti", "stringref"}
  <2>1. ValueKind(b) = "Pod" BY DEF ValueKind, Classes, CharLike, Wides
  <2>2. b \in Classes BY DEF Classes
  <2>3. Value(b).base = b BY DEF Value, CType
  <2>4. QED BY <2>1, <2>2, <2>3, KindsOfResults
<1>2. Read(Value(b), vals, 1, e) = CheckPod(b, vals, 1) BY <1>1 DEF Read
<1>3. ASSUME NEW i \in 1 .. PodCount
      PROVE  ArgAt(vals, 1 + i - 1) = LNum(IF b = "vec" THEN v[i] ELSE 2 * v[i])
  <2>1. 1 + i - 1 = i BY PodAssumption
  <2>2. QED BY <2>1 DEF ArgAt
<1>4. \A i \in 0 .. PodCount - 1 : IsNumber(ArgAt(vals, 1 + i))
  <2> SUFFICES ASSUME NEW i \in 0 .. PodCount - 1 PROVE IsNumber(ArgAt(vals, 1 + i))  OBVIOUS
  <2>1. i + 1 \in 1 .. PodCount /\ 1 + (i + 1) - 1 = 1 + i BY PodAssumption
  <2>2. QED BY <1>3, <2>1 DEF IsNumber, LNum
<1>5. ASSUME NEW i \in 1 .. PodCount
      PROVE  Element(b, ToNumber(ArgAt(vals, 1 + i - 1))) = v[i]
  <2>1. \A n : ToNumber(LNum(n)) = n BY DEF ToNumber, LNum
  <2>2. CASE b = "vec"
    <3>1. v \in [1 .. PodCount -> Floats] BY <2>2, ValuesTable DEF Value, CType
    <3>2. v[i] \in Floats BY <3>1
    <3>3. RoundTo(FloatBits, v[i]) = v[i] BY <3>2, InvokeAssumption
    <3>4. ToNumber(ArgAt(vals, 1 + i - 1)) = v[i] BY <1>3, <2>1, <2>2
    <3>5. QED BY <2>2, <3>3, <3>4 DEF Element
  <2>3. CASE b = "color"
    <3>1. v \in [1 .. PodCount -> 0 .. 2 ^ ByteBits - 1] BY <2>3, ValuesTable DEF Value, CType
    <3>2. v[i] \in 0 .. 2 ^ ByteBits - 1 BY <3>1
    <3>3. ToByte(2 * v[i]) = v[i] BY <3>2, ByteStays
    <3>4. ToNumber(ArgAt(vals, 1 + i - 1)) = 2 * v[i] BY <1>3, <2>1, <2>3
    <3>5. QED BY <2>3, <3>3, <3>4 DEF Element
  <2>4. QED BY <2>2, <2>3
<1>6. v = [i \in 1 .. PodCount |-> v[i]]
  <2>1. v \in [1 .. PodCount -> Floats] \/ v \in [1 .. PodCount -> 0 .. 2 ^ ByteBits - 1]
    BY ValuesTable DEF Value, CType
  <2>2. QED BY <2>1
<1>7. [i \in 1 .. PodCount |-> Element(b, ToNumber(ArgAt(vals, 1 + i - 1)))] = v BY <1>5, <1>6
<1>8. QED BY <1>2, <1>4, <1>7 DEF CheckPod

(* A value of a scalar or an aggregate, whatever way it came to Lua.       *)
LEMMA GivenScalars ==
  ASSUME NEW g, Giving(g), ~IsNull(g.type, g.val),
         NEW b, \/ b \in (Scalars \cup CharLike \cup Classes) \ NoTraits /\ g.type = Value(b)
                \/ b \in (Scalars \ {"bool"}) \cup {"vec", "color"} /\ g.type = Pointer(b)
                \/ b \in {"vec", "color"} /\ g.type = ConstPointer(b)
  PROVE  g.val \in ValuesOf(Value(b))
<1> DEFINE t == g.type
           v == g.val
<1>1. v \in GivenValues(t) BY DEF Giving
<1>2. Value(b).base = b /\ Pointer(b).base = b /\ ConstPointer(b).base = b
      /\ Value(b).stars = 0 /\ Pointer(b).stars = 1
  BY DEF Value, Pointer, ConstPointer, CType
<1>3. CASE b \in (Scalars \cup CharLike \cup Classes) \ NoTraits /\ t = Value(b)
  <2>1. ~IsOut(t) /\ Kind(t) # "PodIn" BY <1>3, KindsOfResults DEF ValueKind, Wides
  <2>2. QED BY <1>1, <1>3, <2>1 DEF GivenValues, Returns
<1>4. CASE b \in (Scalars \ {"bool"}) \cup {"vec", "color"} /\ t = Pointer(b)
  <2>1. IsOut(t) BY <1>4, KindsOfResults
  <2>2. PICK f \in Writes(t) : v = OutValue(t, f) BY <1>1, <2>1 DEF GivenValues
  <2>3. ValuesOf(t) = ValuesOf(Value(b))
    <3>1. PICK u : u = Value(b) OBVIOUS
    <3>2. t.base = b /\ u.base = b /\ b \in {"float", "int", "uint", "vec", "color"} \cup Wides
      BY <1>2, <1>4, <3>1 DEF Scalars
    <3>3. ValuesOf(t) = ValuesOf(u) BY <3>2, ValuesTable
    <3>4. QED BY <3>1, <3>3
  <2>4. CASE b \in {"vec", "color"}
    <3>1. Writes(t) = ValuesOf(t) /\ v = f BY <1>2, <1>4, <2>1, <2>2, <2>4 DEF Writes, OutValue
    <3>2. QED BY <2>2, <2>3, <3>1
  <2>5. CASE b \notin {"vec", "color"}
    <3>1. Writes(t) = {<<x>> : x \in ValuesOf(t)} BY <1>2, <1>4, <2>1, <2>5 DEF Writes
    <3>2. PICK x \in ValuesOf(t) : f = <<x>> BY <2>2, <3>1
    <3>3. v = x BY <1>2, <1>4, <2>2, <2>5, <3>2 DEF OutValue
    <3>4. QED BY <2>3, <3>3
  <2>6. QED BY <2>4, <2>5
<1>5. CASE b \in {"vec", "color"} /\ t = ConstPointer(b)
  <2>1. Kind(t) = "PodIn" /\ ~IsOut(t) BY <1>5, KindsOfResults DEF IsOut
  <2>2. v \in ValuesOf(t) BY <1>1, <2>1 DEF GivenValues, Returns, IsNull
  <2>3. ValuesOf(t) = ValuesOf(Value(b)) BY <1>2, <1>5, ValuesTable
  <2>4. QED BY <2>2, <2>3
<1>6. QED BY <1>3, <1>4, <1>5

(* What becomes of a value that is passed on: it arrives, or the call      *)
(* raises for one of the known reasons.                                    *)
Arrives(g, r, v, e) ==
  /\ r.ok => r.val = g.val \/ IsRounded(g)
  /\ ~r.ok => \/ g.type = Pointer("bool") \/ IsRounded(g)
              \/ IsText(g.type) /\ g.val = NullStr
              \/ Kind(g.type) = "Handle" /\ v.epoch # e

LEMMA TextArrives ==
  ASSUME NEW g, Giving(g), g.type \in Texts, NEW vals, 1 \in DOMAIN vals,
         NEW e, Shown(vals, g, 1, e), NEW now
  PROVE  Arrives(g, Read(AsParam(g.type), vals, 1, now), vals[1], now)
<1> DEFINE t == g.type
           v == g.val
           r == Read(AsParam(t), vals, 1, now)
<1>1. IsText(t)
  <2>1. Shape(t) BY DEF Texts, Shape, Classes
  <2>2. QED BY <2>1, TextTypes
<1>2. ArgAt(vals, 1) = (IF v = NullStr THEN LNil ELSE LStr(v)) BY <1>1 DEF Shown, ArgAt
<1>3. /\ ~IsString(LNil) /\ IsString(LStr(v)) /\ ToStr(LStr(v)) = v
      /\ Reads(v).ok = TRUE /\ Reads(v).val = v /\ Fails.ok = FALSE
  BY DEF IsString, LNil, LStr, ToStr, Reads, Fails
<1>4. Kind(t) # "PodIn" /\ ~IsOut(t) BY KindsOfResults DEF Texts, Classes, ValueKind, IsOut, Wides
<1>5. v \in ValuesOf(t) BY <1>4 DEF Giving, GivenValues, Returns
<1>6. r = IF v = NullStr THEN Fails ELSE Reads(v)
  <2>1. CASE t = Value("rtti")
    <3>1. AsParam(t) = t /\ t.base = "rtti" BY <2>1, ParamsOfResults DEF Classes, Value, CType
    <3>2. v = Text("id") BY <1>5, <3>1, ValuesTable
    <3>3. v # NullStr /\ IsEightBytes(v) BY <3>2 DEF NullStr, Text, IsEightBytes
    <3>4. QED BY <1>2, <1>3, <3>1, <3>3 DEF Read
  <2>2. CASE t = Value("stringref")
    <3>1. AsParam(t) = t /\ t.base = "stringref" BY <2>2, ParamsOfResults DEF Classes, Value, CType
    <3>2. QED BY <1>2, <1>3, <3>1 DEF Read
  <2>3. CASE t \in {Pointer("char"), ConstPointer("char")}
    <3>1. AsParam(t) = ConstPointer("char") BY <2>3, ParamsOfResults
    <3>2. Kind(ConstPointer("char")) = "CString" /\ ConstPointer("char").base = "char"
      BY KindsOfResults DEF ConstPointer, CType
    <3>3. r = IF IsString(ArgAt(vals, 1)) THEN Reads(CView(ToStr(ArgAt(vals, 1)))) ELSE Fails
      BY <3>1, <3>2 DEF Read
    <3>4. t.base = "char" /\ t.stars = 1 BY <2>3 DEF Pointer, ConstPointer, CType
    <3>5. v \in Strings \cup {NullStr} BY <1>5, <3>4, ValuesTable
    <3>6. v # Text("withNul") BY <3>5 DEF Strings, NullStr, Text
    <3>7. CView(v) = v BY <3>6 DEF CView
    <3>8. QED BY <1>2, <1>3, <3>3, <3>7
  <2>4. QED BY <2>1, <2>2, <2>3 DEF Texts
<1>7. CASE v = NullStr BY <1>1, <1>3, <1>6, <1>7 DEF Arrives
<1>8. CASE v # NullStr BY <1>3, <1>6, <1>8 DEF Arrives
<1>9. QED BY <1>7, <1>8

LEMMA HandleArrives ==
  ASSUME NEW g, Giving(g), g.type.stars = 1, g.type.base \in Incomplete, NEW vals, 1 \in DOMAIN vals,
         NEW e, Shown(vals, g, 1, e), NEW now
  PROVE  Arrives(g, Read(AsParam(g.type), vals, 1, now), vals[1], now)
<1> DEFINE t == g.type
           v == g.val
           r == Read(AsParam(t), vals, 1, now)
<1>1. Kind(t) = "Handle" /\ ReturnKind(t) = "Handle" /\ AsParam(t) = t BY KindsOfResults, ParamsOfResults
<1>2. t.base \notin {"rtti", "stringref", "float", "bool"} BY DEF Incomplete
<1>3. ~IsText(t) /\ t # Value("bool") BY <1>1, <1>2 DEF IsText, NoTraits, Value, CType
<1>4. vals[1] = (IF v = NullObj THEN LNil ELSE LHandle(v, t, e)) BY <1>2, <1>3 DEF Shown
<1>5. r = CheckHandle(t, vals[1], now) BY <1>1, <1>2 DEF Read, ArgAt
<1>6. Reads(v).ok = TRUE /\ Reads(v).val = v BY DEF Reads
<1>7. CASE v = NullObj
  <2>1. r = Reads(NullObj) BY <1>4, <1>5, <1>7 DEF CheckHandle, LNil
  <2>2. QED BY <1>6, <1>7, <2>1 DEF Arrives
<1>8. CASE v # NullObj
  <2>1. /\ vals[1].type = "userdata" /\ vals[1].of = t /\ vals[1].epoch = e /\ vals[1].obj = v
    BY <1>4, <1>8 DEF LHandle
  <2>2. CASE e = now
    <3>1. r = Reads(v) BY <1>5, <2>1, <2>2 DEF CheckHandle
    <3>2. QED BY <1>6, <3>1 DEF Arrives
  <2>3. CASE e # now
    <3>1. ~r.ok BY <1>5, <2>1, <2>3 DEF CheckHandle, Fails
    <3>2. QED BY <1>1, <2>1, <2>3, <3>1 DEF Arrives
  <2>4. QED BY <2>2, <2>3
<1>9. QED BY <1>7, <1>8

LEMMA FieldsArrive ==
  ASSUME NEW g, Giving(g), ~IsNull(g.type, g.val), NEW b \in {"vec", "color"},
         g.type \in {Value(b), ConstPointer(b), Pointer(b)}, NEW vals, DOMAIN vals = 1 .. Span(g),
         NEW e, Shown(vals, g, 1, e), NEW now
  PROVE  Arrives(g, Read(AsParam(g.type), vals, 1, now), vals[1], now)
<1> DEFINE t == g.type
           v == g.val
<1>1. t.base = b BY DEF Value, Pointer, ConstPointer, CType
<1>2. AsParam(t) = Value(b) BY ParamsOfResults DEF Classes
<1>3. v \in ValuesOf(Value(b))
  <2>1. b \in (Scalars \cup CharLike \cup Classes) \ NoTraits BY DEF Classes, NoTraits
  <2>2. QED BY <2>1, GivenScalars
<1>4. Span(g) = PodCount BY <1>1, SpanCounts
<1>5. ~IsText(t)
  <2>1. ReturnKind(t) \in {"Pod", "PodIn", "PodOut"} BY KindsOfResults DEF ValueKind, Classes, CharLike, Wides
  <2>2. QED BY <1>1, <2>1 DEF IsText, NoTraits
<1>6. t.base \notin {"bool", "float"} \cup Incomplete BY <1>1 DEF Incomplete
<1>7. t # Value("bool") BY <1>6 DEF Value, CType
<1>8. \A i \in 1 .. PodCount : vals[1 + i - 1] = LNum(IF b = "vec" THEN v[i] ELSE 2 * v[i])
  BY <1>1, <1>5, <1>6, <1>7 DEF Shown
<1>9. Read(Value(b), vals, 1, now) = Reads(v)
  <2>1. PICK c : c = v OBVIOUS
  <2>2. c \in ValuesOf(Value(b)) /\ DOMAIN vals = 1 .. PodCount BY <1>3, <1>4, <2>1
  <2>3. \A i \in 1 .. PodCount : vals[1 + i - 1] = LNum(IF b = "vec" THEN c[i] ELSE 2 * c[i])
    BY <1>8, <2>1
  <2>4. Read(Value(b), vals, 1, now) = Reads(c) BY <2>2, <2>3, FieldsAreRead, Zenon
  <2>5. QED BY <2>1, <2>4
<1>10. QED BY <1>2, <1>9 DEF Arrives, Reads

(* A number, or a boolean.                                                 *)
LEMMA NumberArrives ==
  ASSUME NEW g, Giving(g), Shape(g.type),
         NEW b, \/ b \in Scalars /\ g.type \in {Value(b), Pointer(b)}
                \/ b \in CharLike /\ g.type = Value(b),
         NEW vals, 1 \in DOMAIN vals, NEW e, Shown(vals, g, 1, e), NEW now
  PROVE  Arrives(g, Read(AsParam(g.type), vals, 1, now), vals[1], now)
<1> DEFINE t == g.type
           v == g.val
           r == Read(AsParam(t), vals, 1, now)
<1>1. t.base = b /\ b \in Scalars \cup CharLike BY DEF Value, Pointer, CType
<1>2. AsParam(t) = Value(b) BY ParamsOfResults
<1>3. ~IsText(t)
  <2>1. t \notin Texts BY DEF Texts, Value, Pointer, ConstPointer, CType, Scalars, Wides, CharLike
  <2>2. QED BY <2>1, TextTypes
<1>4. b \notin {"vec", "color"} \cup Incomplete \cup NoTraits
  BY <1>1 DEF Scalars, Wides, CharLike, Incomplete, NoTraits
<1>5. ~IsNull(t, v)
  <2>1. Kind(t) # "PodIn" BY KindsOfResults DEF ValueKind, Wides
  <2>2. QED BY <2>1 DEF IsNull
<1>6. b # "bool" => v \in ValuesOf(Value(b)) BY <1>1, <1>4, <1>5, GivenScalars
<1>7. Reads(v).ok = TRUE /\ Reads(v).val = v BY DEF Reads
<1>8. CASE t = Value("bool")
  <2>1. vals[1] = LBool(v) BY <1>3, <1>8 DEF Shown
  <2>2. b = "bool" /\ Kind(Value("bool")) = "Boolean" /\ Value("bool").base = "bool"
    <3>1. ValueKind("bool") = "Boolean" /\ "bool" \in Scalars BY DEF ValueKind, Scalars, Wides, CharLike, Classes
    <3>2. b = "bool" BY <1>1, <1>8 DEF Value, CType
    <3>3. QED BY <3>1, <3>2, KindsOfResults DEF Value, CType
  <2>3. r = Reads(v)
    <3>1. ArgAt(vals, 1) = LBool(v) /\ LBool(v).type = "boolean" /\ LBool(v).bool = v
      BY <2>1 DEF ArgAt, LBool
    <3>2. QED BY <1>2, <2>2, <3>1 DEF Read
  <2>4. QED BY <1>7, <2>3 DEF Arrives
<1>9. CASE t = Pointer("bool")
  <2>1. b = "bool" BY <1>1, <1>9 DEF Pointer, CType
  <2>2. vals[1] = LNum(2 * v)
    <3>1. t.base = "bool" /\ t # Value("bool") BY <1>1, <1>9, <2>1 DEF Pointer, Value, CType
    <3>2. t \notin WideOuts BY <3>1 DEF WideOuts, Wides, Pointer, CType
    <3>3. QED BY <1>3, <1>4, <2>1, <3>1, <3>2 DEF Shown
  <2>3. ~r.ok BY <1>2, <2>1, <2>2, ReadsNumber
  <2>4. QED BY <1>9, <2>3 DEF Arrives
<1>10. CASE b = "float"
  <2>1. vals[1] = LNum(v) BY <1>1, <1>3, <1>4, <1>10 DEF Shown, Value, CType
  <2>2. v \in Floats BY <1>6, <1>10, ValuesTable DEF Value, CType
  <2>3. r = Reads(v) BY <1>2, <1>10, <2>1, <2>2, ReadsNumber, InvokeAssumption
  <2>4. QED BY <1>7, <2>3 DEF Arrives
<1>11. CASE b \in Wides
  <2>0. b # "bool" /\ Value(b).base = b BY <1>11 DEF Wides, Value, CType
  <2>1. v \in WideValues(b) BY <1>6, <1>11, <2>0, ValuesTable
  <2>2. ToWide(b, 2 * v) = v BY <1>11, <2>1, WideGoesRound
  <2>3. CASE IsRounded(g) BY <2>3 DEF Arrives
  <2>4. CASE ~IsRounded(g)
    <3>1. Double(v) = 2 * v
      <4>1. t \in {Value(b), Pointer(b)} BY <1>1, <1>11 DEF Wides, CharLike
      <4>2. QED BY <1>11, <2>4, <4>1 DEF IsRounded, Giving, WideOuts
    <3>2. t.base # "float" /\ t # Value("bool") BY <1>1, <1>11 DEF Value, CType, Wides
    <3>3. vals[1] = LNum(2 * v) BY <1>1, <1>3, <1>4, <3>1, <3>2 DEF Shown
    <3>4. r = CheckWide(b, LNum(2 * v)) BY <1>2, <1>11, <3>3, ReadsNumber
    <3>5. IsNumber(LNum(2 * v)) /\ ToNumber(LNum(2 * v)) = 2 * v BY DEF IsNumber, ToNumber, LNum
    <3>6. r = Reads(v) BY <2>2, <3>1, <3>4, <3>5 DEF CheckWide
    <3>7. QED BY <1>7, <3>6 DEF Arrives
  <2>5. QED BY <2>3, <2>4
<1>12. CASE b \in {"int", "uint"} \cup CharLike
  <2>1. t.base # "float" /\ t # Value("bool") /\ t \notin WideOuts
    BY <1>1, <1>12 DEF Value, Pointer, CType, CharLike, Wides, WideOuts
  <2>2. vals[1] = LNum(2 * v) BY <1>1, <1>3, <1>4, <2>1 DEF Shown
  <2>3. r = Reads(Narrow(b, ToInteger(2 * v))) BY <1>2, <1>12, <2>2, ReadsNumber
  <2>4. Value(b).base = b /\ Value(b).stars = 0 /\ b # "bool" BY <1>12 DEF Value, CType, CharLike
  <2>5. v \in Small /\ Narrow(b, v) = v
    <3>1. CASE b = "int"
      <4>1. v \in -(2 ^ (IntBits - 1)) .. 2 ^ (IntBits - 1) - 1 BY <1>6, <2>4, <3>1, ValuesTable
      <4>2. QED BY <3>1, <4>1, NarrowStays, IntegersAreSmall
    <3>2. CASE b = "uint"
      <4>1. v \in 0 .. 2 ^ IntBits - 1 BY <1>6, <2>4, <3>2, ValuesTable
      <4>2. QED BY <3>2, <4>1, NarrowStays, IntegersAreSmall
    <3>3. CASE b = "byte"
      <4>1. v \in 0 .. 2 ^ ByteBits - 1 BY <1>6, <2>4, <3>3, ValuesTable
      <4>2. QED BY <3>3, <4>1, NarrowStays, IntegersAreSmall
    <3>4. CASE b = "char"
      <4>1. v \in -(2 ^ (ByteBits - 1)) .. 2 ^ (ByteBits - 1) - 1 BY <1>6, <2>4, <3>4, ValuesTable
      <4>2. QED BY <3>4, <4>1, NarrowStays, IntegersAreSmall
    <3>5. QED BY <1>12, <3>1, <3>2, <3>3, <3>4 DEF CharLike
  <2>6. ToInteger(2 * v) = v BY <2>5, SmallStays
  <2>7. r = Reads(v) BY <2>3, <2>5, <2>6
  <2>8. QED BY <1>7, <2>7 DEF Arrives
<1>13. QED BY <1>1, <1>8, <1>9, <1>10, <1>11, <1>12 DEF Scalars, Wides, CharLike

(* Whatever Lua was given, unless it is a null aggregate.                  *)
LEMMA PassedRead ==
  ASSUME NEW g, Giving(g), ~IsNull(g.type, g.val), NEW vals, DOMAIN vals = 1 .. Span(g),
         NEW e, Shown(vals, g, 1, e), NEW now
  PROVE  Arrives(g, Read(AsParam(g.type), vals, 1, now), vals[1], now)
<1>1. Shape(g.type) BY ResultShapes DEF Giving
<1>2. 1 \in DOMAIN vals BY SpanCounts
<1>3. CASE g.type \in Texts BY <1>2, <1>3, TextArrives
<1>4. CASE g.type.stars = 1 /\ g.type.base \in Incomplete BY <1>2, <1>4, HandleArrives
<1>5. ASSUME NEW b \in {"vec", "color"}, g.type \in {Value(b), ConstPointer(b), Pointer(b)}
      PROVE  Arrives(g, Read(AsParam(g.type), vals, 1, now), vals[1], now)
  BY <1>5, FieldsArrive
<1>6. ASSUME NEW b, \/ b \in Scalars /\ g.type \in {Value(b), Pointer(b)}
                    \/ b \in CharLike /\ g.type = Value(b)
      PROVE  Arrives(g, Read(AsParam(g.type), vals, 1, now), vals[1], now)
  BY <1>1, <1>2, <1>6, NumberArrives
<1>7. Classes = {"vec", "color", "rtti", "stringref"} BY DEF Classes
<1>8. g.type \in {Value(b) : b \in Classes} => \/ g.type \in Texts
                                               \/ \E b \in {"vec", "color"} : g.type = Value(b)
  BY <1>7 DEF Texts
<1>9. QED BY <1>1, <1>3, <1>4, <1>5, <1>6, <1>8 DEF Shape, Texts

LEMMA NobodyPassed == (Init => PassedInv) /\ (GoOn => PassedInv')
BY DEF Init, GoOn, PassedInv

LEMMA CallPassed ==
  ASSUME NEW c \in Calls, Call(c.sig, c.args)
  PROVE  PassedInv'
BY DEF Call, Enter, PassedInv

LEMMA PartOf ==
  ASSUME NEW s, IsSeq(s), NEW p \in Nat \ {0}, NEW w \in Nat \ {0}, p + w - 1 <= Len(s),
         NEW part, part = SubSeq(s, p, p + w - 1)
  PROVE  /\ DOMAIN part = 1 .. w /\ DOMAIN s = 1 .. Len(s)
         /\ \A i \in 1 .. w : part[i] = s[p + i - 1] /\ p + i - 1 \in 1 .. Len(s)
<1>1. PICK S : s \in Seq(S) BY DEF IsSeq
<1>2. PICK n : n = p + w - 1 OBVIOUS
<1>3. PICK m : m = Len(s) OBVIOUS
<1>4. /\ m \in Nat /\ DOMAIN s = 1 .. m /\ \A i \in 1 .. m : s[i] \in S
  BY <1>1, <1>3, LenProperties, ElementOfSeq
<1>5. n \in Int /\ p \in Int /\ p <= n /\ n <= m /\ n - p + 1 = w BY <1>2, <1>3
<1>6. \A i \in p .. n : s[i] \in S
  <2>1. \A i \in p .. n : i \in 1 .. m BY <1>4, <1>5
  <2>2. QED BY <1>4, <2>1
<1>7. part \in Seq(S) /\ Len(part) = w /\ \A i \in 1 .. w : part[i] = s[p + i - 1]
  <2>1. /\ SubSeq(s, p, n) \in Seq(S)
        /\ Len(SubSeq(s, p, n)) = IF p <= n THEN n - p + 1 ELSE 0
        /\ \A i \in 1 .. n - p + 1 : SubSeq(s, p, n)[i] = s[p + i - 1]
    BY <1>5, <1>6, SubSeqProperties
  <2>2. QED BY <1>2, <1>5, <2>1
<1>8. DOMAIN part = 1 .. w BY <1>7
<1>9. \A i \in 1 .. w : p + i - 1 \in 1 .. m BY <1>4, <1>5
<1>10. QED BY <1>3, <1>4, <1>7, <1>8, <1>9

(* What is passed on is what was shown, at its place.                      *)
LEMMA PassOnArrives ==
  ASSUME IInv, GivenInv, NEW k \in DOMAIN gave, PassOn(k)
  PROVE  HeldInv' /\ PassedInv' /\ GivenInv'
<1>1. PICK g : g = gave[k] OBVIOUS
<1>2. PICK p : p = g.from OBVIOUS
<1>3. PICK e \in 0 .. epoch : AllGiven(gave, results, e) BY DEF GivenInv
<1>4. /\ Giving(g) /\ (k > 1 => IsOut(g.type)) /\ p \in Nat \ {0} /\ p + Span(g) - 1 <= Len(results)
      /\ Shown(results, g, p, e)
  BY <1>1, <1>2, <1>3 DEF AllGiven
<1>5. ~IsNull(g.type, g.val)
  <2>1. k \in Nat \ {0}
    <3>1. IsSeq(gave) BY DEF IInv, TypeInv
    <3>2. Len(gave) \in Nat /\ DOMAIN gave = 1 .. Len(gave) BY <3>1, AppendIsSeq
    <3>3. QED BY <3>2
  <2>2. CASE k = 1 BY <1>1, <2>2 DEF PassOn, IsNull
  <2>3. CASE k > 1 BY <1>4, <2>3 DEF IsNull, IsOut
  <2>4. QED BY <2>1, <2>2, <2>3
<1>6. PICK w : w = Span(g) OBVIOUS
<1>7. w \in Nat \ {0} /\ Width(g.type) = w BY <1>5, <1>6, SpanCounts DEF Span
<1>8. PICK a : a = SubSeq(results, p, p + w - 1) OBVIOUS
<1>9. PICK s : s = [ret |-> Void, params |-> <<AsParam(g.type)>>] OBVIOUS
<1>10. Enter(s, a, <<g>>) BY <1>1, <1>2, <1>7, <1>8, <1>9 DEF PassOn
<1>11. PICK m : m = Len(results) OBVIOUS
<1>12. IsSeq(results) /\ AreLua(results) BY DEF GivenInv
<1>13. /\ DOMAIN a = 1 .. w /\ DOMAIN results = 1 .. m
       /\ \A i \in 1 .. w : a[i] = results[p + i - 1] /\ p + i - 1 \in 1 .. m
  BY <1>4, <1>6, <1>7, <1>8, <1>11, <1>12, PartOf
<1>14. AreLua(a) BY <1>12, <1>13 DEF AreLua
<1>15. HeldInv' BY <1>10, <1>14, EnterHeld
<1>16. GivenInv' BY <1>10, EnterGiven
<1>17. Shown(a, g, 1, e)
  <2>1. ASSUME NEW i \in 0 .. w - 1 PROVE a[1 + i] = results[p + i]
    <3>1. 1 + i \in 1 .. w /\ p + (1 + i) - 1 = p + i BY <1>4, <1>7
    <3>2. QED BY <1>13, <3>1
  <2>2. p \in Int /\ 1 \in Int BY <1>4
  <2>3. QED BY <1>4, <1>6, <2>1, <2>2, ShownElsewhere
<1>18. /\ passed' = <<g>> /\ sig' = s /\ args' = a /\ held' = <<>>
       /\ phase' \in {"reading", "unavailable"}
  BY <1>10 DEF Enter
<1>19. passed'[1] = g BY <1>18
<1>20. e \in Nat BY <1>3, EpochType
<1>21. PassedInv'
  BY <1>4, <1>5, <1>6, <1>9, <1>13, <1>17, <1>18, <1>19, <1>20 DEF PassedInv
<1>22. QED BY <1>15, <1>16, <1>21

LEMMA ReadParamPassed ==
  ASSUME IInv, PassedInv, ReadParam
  PROVE  PassedInv'
<1> SUFFICES ASSUME passed # Nobody PROVE PassedInv'  BY DEF ReadParam, PassedInv
<1>1. PICK g : g = passed[1] OBVIOUS
<1>2. PICK e \in Nat : Shown(args, g, 1, e) BY <1>1 DEF PassedInv
<1>3. PICK r : r = Read(AsParam(g.type), args, 1, epoch) OBVIOUS
<1>4. /\ Giving(g) /\ ~IsNull(g.type, g.val) /\ DOMAIN args = 1 .. Span(g)
      /\ sig = [ret |-> Void, params |-> <<AsParam(g.type)>>]
  BY <1>1 DEF PassedInv
<1>5. /\ phase = "reading" /\ Len(held) < Len(sig.params)
      /\ sig' = sig /\ args' = args /\ epoch' = epoch /\ passed' = passed
  BY DEF ReadParam, engine
<1>6. sig.params = <<AsParam(g.type)>> /\ Len(sig.params) = 1 /\ sig.params[1] = AsParam(g.type) BY <1>4
<1>7. Len(held) = 0 /\ held = <<>> /\ argn = 1
  <2>1. IsSeq(held) /\ Len(held) \in Nat /\ Len(at) = Len(held) BY AppendIsSeq DEF IInv, TypeInv
  <2>2. Len(held) = 0 BY <1>5, <1>6, <2>1
  <2>3. PICK S : held \in Seq(S) BY <2>1 DEF IsSeq
  <2>4. held = <<>> BY <2>2, <2>3, EmptySeq
  <2>5. argn = 1 BY <2>1, <2>2 DEF IInv, PairInv
  <2>6. QED BY <2>2, <2>4, <2>5
<1>8. Arrives(g, r, args[1], epoch) BY <1>2, <1>3, <1>4, PassedRead
<1>9. sig.params[Len(held) + 1] = AsParam(g.type) BY <1>6, <1>7
<1>10. CASE r.ok
  <2>1. held' = Append(held, r.val) /\ phase' = "reading" BY <1>3, <1>5, <1>7, <1>9, <1>10 DEF ReadParam
  <2>2. held' = <<r.val>> BY <1>7, <2>1
  <2>3. held' = <<g.val>> \/ IsRounded(g) BY <1>8, <1>10, <2>2 DEF Arrives
  <2>4. QED BY <1>1, <1>2, <1>4, <1>5, <2>1, <2>3 DEF PassedInv
<1>11. CASE ~r.ok
  <2>1. phase' = "raised" BY <1>3, <1>7, <1>9, <1>11 DEF ReadParam
  <2>2. \/ g.type = Pointer("bool") \/ IsRounded(g)
        \/ IsText(g.type) /\ g.val = NullStr
        \/ Kind(g.type) = "Handle" /\ args[1].epoch # epoch
    BY <1>8, <1>11 DEF Arrives
  <2>3. QED BY <1>1, <1>2, <1>4, <1>5, <2>1, <2>2 DEF PassedInv
<1>12. QED BY <1>10, <1>11

LEMMA OthersPassed ==
  ASSUME IInv, PassedInv, \/ WorldDestroyed \/ ReadsDone \/ CallEngine \/ PushReturnValue
                          \/ PushParam \/ Return \/ UNCHANGED vars
  PROVE  PassedInv'
<1>1. passed' = passed /\ sig' = sig /\ args' = args
  BY DEF WorldDestroyed, ReadsDone, CallEngine, PushReturnValue, PushParam, Return, vars
<1> SUFFICES ASSUME passed # Nobody PROVE PassedInv'  BY <1>1 DEF PassedInv
<1>2. sig.ret = Void BY DEF PassedInv
<1>3. CASE ReadsDone \/ UNCHANGED vars
  <2>1. /\ held' = held /\ epoch' = epoch
        /\ phase' \in {"reading", "calling"} => phase \in {"reading", "calling"}
        /\ phase' = "raised" => phase = "raised"
    BY <1>3 DEF ReadsDone, engine, vars
  <2>2. QED BY <1>1, <2>1 DEF PassedInv
<1>4. CASE WorldDestroyed \/ CallEngine \/ PushReturnValue \/ PushParam \/ Return
  <2>1. phase' \notin {"reading", "calling", "raised"}
    BY <1>2, <1>4 DEF WorldDestroyed, CallEngine, PushReturnValue, PushParam, Return
  <2>2. QED BY <1>1, <2>1 DEF PassedInv
<1>5. QED BY <1>3, <1>4

-----------------------------------------------------------------------------
(* The theorems about values.                                              *)

ArrivalInv == IInv /\ HeldInv /\ GivenInv /\ PassedInv

(* The inductive invariant: what was read is what Lua meant, what Lua was  *)
(* given shows the engine's values at the places that the signature gives  *)
(* them, and a value that is passed on is still that value.                *)
THEOREM ValuesInvariant == Spec => []ArrivalInv
<1>1. Init => ArrivalInv
  BY InitInv, InitHeld, InitGiven, NobodyPassed DEF ArrivalInv
<1>2. ArrivalInv /\ IInv' /\ [Next]_vars => ArrivalInv'
  <2> SUFFICES ASSUME ArrivalInv, IInv', [Next]_vars PROVE HeldInv' /\ GivenInv' /\ PassedInv'
    BY DEF ArrivalInv
  <2> USE DEF ArrivalInv
  <2>1. CASE phase = "lua" /\ \E c \in Calls : Call(c.sig, c.args)
    <3>1. PICK c \in Calls : Call(c.sig, c.args) BY <2>1
    <3>2. GivenInv' BY <3>1, EnterGiven DEF Call
    <3>3. QED BY <3>1, <3>2, CallHeld, CallPassed
  <2>2. CASE phase = "returned" /\ \E k \in DOMAIN gave : PassOn(k)  BY <2>2, PassOnArrives
  <2>3. CASE GoOn             BY <2>3, GoOnHeld, BeginsGiven, NobodyPassed
  <2>4. CASE WorldDestroyed   BY <2>4, OthersHeld, StaysGiven, OthersPassed
  <2>5. CASE ReadParam        BY <2>5, ReadParamHeld, BeginsGiven, ReadParamPassed
  <2>6. CASE ReadsDone        BY <2>6, OthersHeld, BeginsGiven, OthersPassed
  <2>7. CASE CallEngine       BY <2>7, OthersHeld, BeginsGiven, OthersPassed
  <2>8. CASE PushReturnValue  BY <2>8, OthersHeld, PushReturnValueGiven, OthersPassed
  <2>9. CASE PushParam        BY <2>9, OthersHeld, PushParamGiven, OthersPassed
  <2>10. CASE Return          BY <2>10, OthersHeld, StaysGiven, OthersPassed
  <2>11. CASE UNCHANGED vars  BY <2>11, OthersHeld, StaysGiven, OthersPassed
  <2>12. QED BY <2>1, <2>2, <2>3, <2>4, <2>5, <2>6, <2>7, <2>8, <2>9, <2>10, <2>11 DEF Next
<1>3. QED BY <1>1, <1>2, InvokeInvariant, PTL DEF Spec

(* Of every signature that has a binding, each parameter holds what Lua    *)
(* passed at its place (Storage::read, Invoker::run).                      *)
THEOREM ArgumentsAlwaysArrive == Spec => []ArgumentsArrive
<1>1. ArrivalInv => ArgumentsArrive
  <2> SUFFICES ASSUME ArrivalInv PROVE ArgumentsArrive  OBVIOUS
  <2>1. ArgumentsPairUp BY DEF ArrivalInv, IInv, TypeInv, PairInv, ArgumentsPairUp
  <2>2. ASSUME phase = "calling" PROVE DOMAIN sig.params = DOMAIN held
    <3>1. IsSeq(held) /\ Len(held) = Len(sig.params) /\ sig \in Sigs
      BY <2>2 DEF ArrivalInv, IInv, TypeInv, PairInv
    <3>2. DOMAIN held = 1 .. Len(held) BY <3>1, AppendIsSeq
    <3>3. QED BY <3>1, <3>2 DEF Sigs
  <2>3. QED BY <2>1, <2>2 DEF ArrivalInv, HeldInv, ArgumentsArrive
<1>2. QED BY <1>1, ValuesInvariant, PTL

(* What run() gives Lua is the return value and then the out-parameters,   *)
(* each whole, exact and at its described place (push_return and           *)
(* Storage::push).                                                         *)
THEOREM ResultsAlwaysArrive == Spec => []ResultsArrive
<1>1. ArrivalInv => ResultsArrive BY GivenIsDescribed DEF ArrivalInv
<1>2. QED BY <1>1, ValuesInvariant, PTL

(* A value that the engine gave and Lua passes on comes back to the engine *)
(* as it was, for every type and width (push_return, then Storage::read).  *)
THEOREM ValuesComeBack == Spec => []RoundTrip
<1>1. ArrivalInv => RoundTrip
  <2> SUFFICES ASSUME ArrivalInv, passed # Nobody PROVE RoundTrip  BY DEF RoundTrip
  <2>1. PICK g : g = passed[1] OBVIOUS
  <2>2. ASSUME phase = "calling" PROVE held # <<>>
    <3>1. Len(held) = Len(sig.params) BY <2>2 DEF ArrivalInv, IInv, TypeInv, PairInv
    <3>2. sig.params = <<AsParam(g.type)>> BY <2>1 DEF ArrivalInv, PassedInv
    <3>3. Len(held) = 1 BY <3>1, <3>2
    <3>4. QED BY <3>3, EmptyIsSeq
  <2>3. QED BY <2>1, <2>2 DEF ArrivalInv, PassedInv, RoundTrip
<1>2. QED BY <1>1, ValuesInvariant, PTL
=============================================================================
