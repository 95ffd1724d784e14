------------------------------- MODULE Invoke -------------------------------
(***************************************************************************)
(* A call of an API function from Lua: wrap, Invoker::run and push_return  *)
(* (src/src/bridge/invoke.hpp).                                            *)
(*                                                                         *)
(* The parameters are read from the Lua stack from left to right, the      *)
(* engine is called, its return value is pushed, and then each             *)
(* out-parameter, in declaration order.  Any of the reads may raise, and   *)
(* so may the push of a 64-bit value, after the engine has done its part.  *)
(* Inside the call the engine may raise hooks, and with them destroy a     *)
(* world and invalidate every handle.                                      *)
(*                                                                         *)
(* A mod may pass what it got on to another function, by the positions the *)
(* reference gives (PassOn).                                               *)
(***************************************************************************)
EXTENDS Marshal

CONSTANTS Calls,      \* signatures of MinaModAPI's members, with arguments
          Objects,    \* engine objects
          Floats,     \* values of the C type float, in halves
          MaxEpoch,   \* bound: how often the handles are invalidated
          MaxCalls    \* bound: calls from Lua, each with what it passes on

(* C has no parameter of type void, and a handle is never null.            *)
Sigs == [ret : CTypes, params : Seq(CTypes \ {Void})]
IsLuaValue(v) ==
  CASE v.type = "boolean"  -> v.bool \in BOOLEAN /\ v = LBool(v.bool)
    [] v.type = "number"   -> v.num \in Int /\ v = LNum(v.num)
    [] v.type = "string"   -> v.str.num \in Int /\ v = LStr(v.str)
    [] v.type = "userdata" -> v.obj \in Objects /\ v = LHandle(v.obj, v.of, v.epoch)
    [] OTHER               -> v \in {LNil, LTable}

ASSUME InvokeAssumption ==
  /\ \A c \in Calls : c.sig \in Sigs /\ \A i \in DOMAIN c.args : IsLuaValue(c.args[i])
  /\ NullObj \notin Objects /\ MaxEpoch \in Nat /\ MaxCalls \in Nat
  /\ \A n \in Floats : n \in Int /\ RoundTo(FloatBits, n) = n

VARIABLES
  phase,     \* "lua", "reading", "calling", "pushing", "outs", "returned",
             \* "raised", or "unavailable": the game has no such function
  sig, args, \* the function, and the arguments Lua passed
  argn,      \* the Lua stack index run() has come to
  held,      \* the Storage objects read so far
  ret, outs, \* what the engine returned, and what it wrote into each Storage
  pushed,    \* how many parameters were asked for an out-value
  results,   \* the Lua values pushed
  epoch,     \* how often all handles were invalidated
  owned,     \* host-allocated strings that are not freed
  calls,     \* how many calls Lua made, those that pass something on aside
  hasFree,   \* does the game provide Free
  at,        \* history: argn when each parameter was read
  gave,      \* history: each value pushed, its type, and its first position
  reached,   \* history: the engine was called
  passed     \* history: the value that is passed on, and its type

vars == <<phase, sig, args, argn, held, ret, outs, pushed, results, epoch, owned, calls,
          hasFree, at, gave, reached, passed>>
engine == <<epoch, owned, ret, outs, reached>>
pushes == <<pushed, results, gave>>

NoSig  == [ret |-> Void, params |-> <<>>]
Nobody == <<>>    \* nothing is passed on

Init ==
  /\ phase = "lua" /\ sig = NoSig /\ args = <<>>
  /\ argn = 1 /\ held = <<>> /\ ret = "nothing" /\ outs = <<>>
  /\ pushed = 0 /\ results = <<>>
  /\ epoch = 0 /\ owned = 0 /\ calls = 0
  /\ hasFree \in BOOLEAN
  /\ at = <<>> /\ gave = <<>> /\ reached = FALSE /\ passed = Nobody

-----------------------------------------------------------------------------
(* wrap.  A member without a generic binding has no Lua function; one that *)
(* the running game does not export is refused before anything is read.    *)
Enter(s, a, on) ==
  /\ Supported(s) /\ Builds(s)
  /\ sig' = s /\ args' = a /\ passed' = on
  /\ phase' \in {"reading", "unavailable"}
  /\ argn' = 1 /\ held' = <<>> /\ at' = <<>>
  /\ ret' = "nothing" /\ outs' = <<>> /\ reached' = FALSE
  /\ pushed' = 0 /\ results' = <<>> /\ gave' = <<>>
  /\ UNCHANGED <<epoch, owned, hasFree>>

(* Lua has no handle of the future.                                        *)
Call(s, a) ==
  /\ phase = "lua" /\ calls < MaxCalls
  /\ calls' = calls + 1
  /\ \A i \in DOMAIN a : a[i].type = "userdata" => a[i].epoch <= epoch
  /\ Enter(s, a, Nobody)

(* The mod goes on without what the call gave it.                          *)
GoOn ==
  /\ phase \in {"returned", "raised", "unavailable"}
  /\ phase' = "lua"
  /\ sig' = NoSig /\ args' = <<>> /\ passed' = Nobody
  /\ argn' = 1 /\ held' = <<>> /\ at' = <<>>
  /\ ret' = "nothing" /\ outs' = <<>> /\ reached' = FALSE
  /\ pushed' = 0 /\ results' = <<>> /\ gave' = <<>>
  /\ UNCHANGED <<epoch, owned, calls, hasFree>>

(* The parameter type a value of a result's type is passed on to.          *)
AsParam(t) == CASE ReturnKind(t) = "OwnedCString"    -> ConstPointer("char")
                [] Kind(t) \in {"PodOut", "PodIn"}   -> Value(t.base)
                [] OTHER                             -> t

(* The mod takes the value that the signature puts at its place, and       *)
(* passes it on.  (A null aggregate is one nil, and moves the others.)     *)
PassOn(k) ==
  /\ phase = "returned" /\ k \in DOMAIN gave
  /\ UNCHANGED calls
  /\ ~(Kind(gave[1].type) = "PodIn" /\ gave[1].val = NullPod)
  /\ LET t == gave[k].type
         from == gave[k].from
     IN  Enter([ret |-> Void, params |-> <<AsParam(t)>>],
              SubSeq(results, from, from + Width(t) - 1), <<gave[k]>>)

(* Between two calls the engine goes on, and may destroy a world.          *)
WorldDestroyed ==
  /\ phase \in {"lua", "returned"} /\ epoch < MaxEpoch
  /\ epoch' = epoch + 1
  /\ UNCHANGED <<phase, sig, args, argn, held, ret, outs, pushes, owned, calls, hasFree,
                 at, reached, passed>>

-----------------------------------------------------------------------------
(* Storage::read of the next parameter.  An error unwinds the whole call.  *)
ReadParam ==
  /\ phase = "reading" /\ Len(held) < Len(sig.params)
  /\ LET t == sig.params[Len(held) + 1]
         r == Read(t, args, argn, epoch)
     IN  IF r.ok
         THEN /\ held' = Append(held, r.val) /\ at' = Append(at, argn)
              /\ argn' = argn + Consumes(t)
              /\ UNCHANGED phase
         ELSE /\ phase' = "raised"
              /\ UNCHANGED <<held, at, argn>>
  /\ UNCHANGED <<sig, args, engine, pushes, calls, hasFree, passed>>

ReadsDone ==
  /\ phase = "reading" /\ Len(held) = Len(sig.params)
  /\ phase' = "calling"
  /\ UNCHANGED <<sig, args, argn, held, at, engine, pushes, calls, hasFree, passed>>

-----------------------------------------------------------------------------
(* f( a.pass()... ).  What the engine returns, and writes through the      *)
(* pointers it was given.                                                  *)

Strings == {Text("text"), Text("id")}
ValuesOf(t) ==
  CASE t.base = "rtti"                        -> {Text("id")}
    [] t.base = "stringref"                   -> {Text("withNul"), NullStr}
    [] t = Void                               -> {"nothing"}
    [] t.base = "char" /\ t.stars = 1         -> Strings \cup {NullStr}
    [] t.base = "char" /\ t.stars = 0         -> -(2 ^ (ByteBits - 1)) .. 2 ^ (ByteBits - 1) - 1
    [] t.base = "bool"                        -> BOOLEAN
    [] t.base = "float"                       -> Floats
    [] t.base = "int64"                       -> Indefinite .. -Indefinite - 1
    [] t.base = "uint64"                      -> 0 .. 2 ^ WideBits - 1
    [] t.base = "int"                         -> -(2 ^ (IntBits - 1)) .. 2 ^ (IntBits - 1) - 1
    [] t.base = "uint"                        -> 0 .. 2 ^ IntBits - 1
    [] t.base = "byte"                        -> 0 .. 2 ^ ByteBits - 1
    [] t.base = "vec"                         -> [1 .. PodCount -> Floats]
    [] t.base = "color"                       -> [1 .. PodCount -> 0 .. 2 ^ ByteBits - 1]
    [] t.base \in Incomplete                  -> Objects \cup {NullObj}
Returns(t) == ValuesOf(t) \cup (IF Kind(t) = "PodIn" THEN {NullPod} ELSE {})
(* The Storage of an out-parameter, as its fields, starts as zero, which   *)
(* the engine may leave; the others are not looked at again.               *)
Writes(t) ==
  IF ~IsOut(t) THEN {<<>>} ELSE
  CASE t.base \in {"vec", "color"}   -> ValuesOf(t)
    [] t.base = "bool"               -> {<<0>>, <<1>>}
    [] OTHER                         -> {<<v>> : v \in ValuesOf(t)}
OutValue(t, fields) == IF t.base \in {"vec", "color"} THEN fields ELSE fields[1]

CallEngine ==
  /\ phase = "calling"
  /\ reached' = TRUE
  /\ ret' \in Returns(sig.ret)
  /\ outs' \in {o \in [DOMAIN sig.params -> UNION {Writes(sig.params[i]) : i \in DOMAIN sig.params}] :
                  \A i \in DOMAIN sig.params : o[i] \in Writes(sig.params[i])}
  /\ epoch' \in {e \in {epoch, epoch + 1} : e <= MaxEpoch}
  /\ owned' = IF ReturnKind(sig.ret) = "OwnedCString" /\ ret' # NullStr THEN owned + 1 ELSE owned
  /\ phase' = "pushing"
  /\ UNCHANGED <<sig, args, argn, held, at, pushes, calls, hasFree, passed>>

-----------------------------------------------------------------------------
Gave(t, v) == gave' = Append(gave, [type |-> t, val |-> v, from |-> Len(results) + 1])

(* push_return.  The host's string is freed once it is copied.             *)
NeverFreed == owned    \* a fault: nothing is freed
(* A fault: Free is called for a null pointer too.                         *)
FreedNull == IF ReturnKind(sig.ret) = "OwnedCString" /\ hasFree THEN owned - 1 ELSE owned
Freed == IF ReturnKind(sig.ret) = "OwnedCString" /\ ret # NullStr /\ hasFree
         THEN owned - 1 ELSE owned

PushReturnValue ==
  /\ phase = "pushing"
  /\ IF sig.ret = Void
     THEN phase' = "outs" /\ UNCHANGED <<results, gave, owned>>
     ELSE LET r == PushReturn(sig.ret, ret, epoch) IN
            IF r.ok
            THEN /\ results' = r.val /\ Gave(sig.ret, ret)
                 /\ owned' = Freed
                 /\ phase' = "outs"
            ELSE /\ phase' = "raised"
                 /\ UNCHANGED <<results, gave, owned>>
  /\ UNCHANGED <<sig, args, argn, held, at, ret, outs, pushed, epoch, calls, hasFree,
                 reached, passed>>

(* Storage::push of the next parameter.                                    *)
PushParam ==
  /\ phase = "outs" /\ pushed < Len(sig.params)
  /\ pushed' = pushed + 1
  /\ LET t == sig.params[pushed + 1] IN
       IF IsOut(t)
       THEN /\ results' = results \o PushOut(t, outs[pushed + 1])
            /\ Gave(t, OutValue(t, outs[pushed + 1]))
       ELSE UNCHANGED <<results, gave>>
  /\ UNCHANGED <<phase, sig, args, argn, held, at, engine, calls, hasFree, passed>>

Return ==
  /\ phase = "outs" /\ pushed = Len(sig.params)
  /\ phase' = "returned"
  /\ UNCHANGED <<sig, args, argn, held, at, engine, pushes, calls, hasFree, passed>>

-----------------------------------------------------------------------------
Next ==
  \/ phase = "lua" /\ \E c \in Calls : Call(c.sig, c.args)
  \/ phase = "returned" /\ \E k \in DOMAIN gave : PassOn(k)
  \/ GoOn \/ WorldDestroyed
  \/ ReadParam \/ ReadsDone \/ CallEngine \/ PushReturnValue \/ PushParam \/ Return

Spec == Init /\ [][Next]_vars

-----------------------------------------------------------------------------
Phases == {"lua", "reading", "calling", "pushing", "outs", "returned", "raised", "unavailable"}

(* The state is well typed: what the engine is given and gives has the     *)
(* types of the signature.                                                 *)
TypeOK ==
  /\ phase \in Phases /\ sig.ret \in CTypes /\ sig.params \in Seq(CTypes)
  /\ argn \in Nat \ {0} /\ pushed \in 0 .. Len(sig.params)
  /\ Len(held) <= Len(sig.params) /\ Len(at) = Len(held)
  /\ reached => ret \in Returns(sig.ret) /\ \A i \in DOMAIN sig.params : outs[i] \in Writes(sig.params[i])
  /\ epoch \in 0 .. MaxEpoch /\ calls \in 0 .. MaxCalls
  /\ owned \in 0 .. MaxCalls /\ hasFree \in BOOLEAN /\ reached \in BOOLEAN

(* When the engine is called, each parameter was read where the published  *)
(* signature puts its argument: arguments follow one another in the order  *)
(* of the parameters, an aggregate takes one for each field, and an        *)
(* out-parameter none.                                                     *)
ArgumentsPairUp ==
  phase = "calling" =>
    /\ Len(at) = Len(sig.params)
    /\ \A i \in DOMAIN at :
         /\ i = 1 => at[i] = 1
         /\ i > 1 => at[i] = at[i - 1] + ArgWidth(sig.params[i - 1])

(* They pair up, and what gets as far as the engine is what Lua passed     *)
(* there: a 64-bit value is exactly the number, signed or not, and a       *)
(* pointer is null for nil or for an argument that is missing, or is the   *)
(* object of a handle of that very type which nothing has invalidated.     *)
(* (Of a string with digits, a missing handle, and a number beyond 2^53    *)
(* that is exact all the same, it says what arrives if the call goes on.   *)
(* Whether it may go on is ArgumentsAreAsDocumented's question, below.)    *)
Meant(t, p, c) ==
  LET v == ArgAt(args, p) IN
    CASE t.base = "rtti"      -> IsString(v) /\ c = ToStr(v) /\ IsEightBytes(c)
      [] t.base = "stringref" -> IsString(v) /\ c = ToStr(v)
      [] Kind(t) = "Boolean"  -> v = LBool(c)
      [] Kind(t) = "Number"   -> IsNumber(v) /\ c = RoundTo(FloatBits, ToNumber(v))
      [] Kind(t) = "Integer"  -> IsNumber(v) /\ c = Narrow(t.base, ToInteger(ToNumber(v)))
      [] Kind(t) = "Wide"     -> IsNumber(v) /\ ToNumber(v) = 2 * c /\ c \in ValuesOf(t)
      [] Kind(t) = "CString"  -> IsString(v) /\ c = CView(ToStr(v))
      [] Kind(t) = "Handle"   -> IF c = NullObj THEN v.type \in {"none", "nil"}
                                 ELSE v = LHandle(c, t, epoch)
      [] OTHER -> \A i \in 1 .. PodCount :
                    /\ IsNumber(ArgAt(args, p + i - 1))
                    /\ c[i] = Element(t.base, ToNumber(ArgAt(args, p + i - 1)))
ArgumentsArrive ==
  /\ ArgumentsPairUp
  /\ phase = "calling" =>
       \A i \in DOMAIN sig.params : ~IsOut(sig.params[i]) => Meant(sig.params[i], at[i], held[i])

(* The documents say more: numbers, strings and booleans are what the C    *)
(* function declared, "there is no coercion" (how-it-works.md), and a      *)
(* missing argument raises as a wrong one does; neither ever reaches the   *)
(* engine (raw-api-reference.md).                                          *)
AsDocumented(t, p) ==
  LET v == ArgAt(args, p) IN
    CASE t.base \in NoTraits \/ Kind(t) = "CString" -> v.type = "string"
      [] Kind(t) = "Boolean"                        -> v.type = "boolean"
      [] Kind(t) \in {"Number", "Integer", "Wide"}  -> v.type = "number"
      [] Kind(t) = "Handle"                         -> v.type \in {"nil", "userdata"}
      [] OTHER -> \A i \in 0 .. PodCount - 1 : ArgAt(args, p + i).type = "number"
ArgumentsAreAsDocumented ==
  phase = "calling" =>
    \A i \in DOMAIN sig.params : ~IsOut(sig.params[i]) => AsDocumented(sig.params[i], at[i])

(* When run() returns, it gives Lua the return value and then the          *)
(* out-parameters in the order of their declaration, each at the place     *)
(* that the published signature gives it, with the engine's value exactly, *)
(* and handles that are live although worlds were destroyed meanwhile.     *)
(* Only a null aggregate is one nil, where the signature has its fields.   *)
(* Of an out-parameter too wide for a Lua number nothing is said: the      *)
(* documents have the wrapper raise, and Storage::push rounds.             *)
IsText(t) == t.base \in NoTraits \/ ReturnKind(t) \in {"CString", "OwnedCString"}
WideOuts == {Pointer(b) : b \in Wides}
IsNull(t, c) == Kind(t) = "PodIn" /\ c = NullPod
Given(t, p, c) ==
  LET r == results[p] IN
    CASE IsText(t)                 -> r = (IF c = NullStr THEN LNil ELSE LStr(c))
      [] t = Value("bool")         -> r = LBool(c)
      [] t.base = "float"          -> r = LNum(c)
      [] t.base \in Incomplete     -> r = (IF c = NullObj THEN LNil ELSE LHandle(c, t, epoch))
      [] t.base \in {"vec", "color"} ->
           IF IsNull(t, c) THEN r = LNil
           ELSE \A i \in 1 .. PodCount :
                  results[p + i - 1] = LNum(IF t.base = "vec" THEN c[i] ELSE 2 * c[i])
      [] t \in WideOuts            -> Double(c) = 2 * c => r = LNum(2 * c)
      [] OTHER                     -> r = LNum(2 * c)
Span(g) == IF IsNull(g.type, g.val) THEN 1 ELSE Width(g.type)
ResultsArrive ==
  phase = "outs" /\ pushed = Len(sig.params) =>
    /\ [k \in DOMAIN gave |-> gave[k].type] = Described(sig)
    /\ \A k \in DOMAIN gave :
         /\ gave[k].from = IF k = 1 THEN 1 ELSE gave[k - 1].from + Span(gave[k - 1])
         /\ Given(gave[k].type, gave[k].from, gave[k].val)
    /\ Len(results) = IF gave = <<>> THEN 0 ELSE gave[Len(gave)].from + Span(gave[Len(gave)]) - 1

(* A value that came from the engine and is passed on to a parameter of    *)
(* its type arrives unchanged.  The call only raises if it is null where   *)
(* no null is taken, a bool that came back as a number, or a handle that   *)
(* went stale since.  What was rounded on its way to Lua stays so.         *)
IsRounded(g) == g.type \in WideOuts /\ Double(g.val) # 2 * g.val
RoundTrip ==
  passed # Nobody =>
    LET g == passed[1] IN
      /\ phase = "calling" => held = <<g.val>> \/ IsRounded(g)
      /\ phase = "raised"  =>
           \/ g.type = Pointer("bool") \/ IsRounded(g)
           \/ IsText(g.type) /\ g.val = NullStr
           \/ Kind(g.type) = "Handle" /\ args[1].epoch # epoch

(* A call that is over leaves no string of the host behind, and an error   *)
(* means that the engine was not called, so that calling again repeats     *)
(* nothing; unless the error is that the result is too wide for Lua.       *)
CleanFailure ==
  /\ phase \in {"lua", "returned", "raised", "unavailable"} /\ hasFree => owned = 0
  /\ phase = "raised" /\ reached => ReturnKind(sig.ret) = "Wide" /\ Double(ret) # 2 * ret
=============================================================================
