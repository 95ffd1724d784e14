------------------------------ MODULE Classify ------------------------------
(***************************************************************************)
(* How the types of a C signature cross the Lua boundary                   *)
(* (src/src/bridge/classify.hpp, describe.hpp, pod.hpp).                   *)
(*                                                                         *)
(* A C type is a base with 0, 1 or 2 stars, and whether the pointee is     *)
(* const.  "entity" and "world" stand for the incomplete engine types,     *)
(* "vec" for the aggregates of floats, "color" for the one of bytes.       *)
(***************************************************************************)
EXTENDS Integers, Sequences

CONSTANT PodCount    \* the fields of an aggregate: 2 to 16 in the code

ASSUME PodAssumption == PodCount \in Nat \ {0}

Wides      == {"int64", "uint64"}
Scalars    == {"bool", "float", "int", "uint"} \cup Wides
CharLike   == {"char", "byte"}
Classes    == {"vec", "color", "rtti", "stringref"}
Incomplete == {"entity", "world"}
Bases      == {"void", "function"} \cup Scalars \cup CharLike \cup Classes \cup Incomplete

CType(b, s, c)   == [base |-> b, stars |-> s, const |-> c]
Value(b)         == CType(b, 0, FALSE)
Pointer(b)       == CType(b, 1, FALSE)
ConstPointer(b)  == CType(b, 1, TRUE)
CTypes == {t \in [base : Bases, stars : 0 .. 2, const : BOOLEAN] : t.const => t.stars > 0}
Void   == Value("void")

ValueKind(b) ==
  CASE b = "void"                     -> "Void"
    [] b = "bool"                     -> "Boolean"
    [] b = "float"                    -> "Number"
    [] b \in Wides                    -> "Wide"
    [] b \in {"int", "uint"} \cup CharLike -> "Integer"
    [] b \in Classes                  -> "Pod"
    [] OTHER                          -> "Unsupported"

(* classify<T*>, its specialisations included.                             *)
PointerKind(b, const) ==
  CASE b = "char" /\ const            -> "CString"
    [] b = "void"                     -> "Opaque"
    [] b = "function"                 -> "Callback"
    [] b \in Incomplete               -> "Handle"
    [] (const /\ b \in Scalars \cup {"byte"}) \/ (~const /\ b \in CharLike) -> "ByteBuffer"
    [] const /\ b \in Classes         -> "PodIn"
    [] ~const /\ b \in Classes \cup Scalars -> "PodOut"

Kind(t) == CASE t.stars = 0 -> ValueKind(t.base)
             [] t.stars = 1 -> PointerKind(t.base, t.const)
             [] OTHER       -> "Unsupported"

ReturnKind(t) == IF t = Pointer("char") THEN "OwnedCString" ELSE Kind(t)

-----------------------------------------------------------------------------
(* A signature is a return type and the parameters' types.                 *)

(* signature::compute: has the function a generic binding?                 *)
Supported(sig) ==
  /\ ReturnKind(sig.ret) \notin {"Unsupported", "PodOut", "Callback", "Opaque", "ByteBuffer"}
  /\ \A i \in DOMAIN sig.params :
       Kind(sig.params[i]) \notin {"Unsupported", "Callback", "Opaque", "ByteBuffer"}

(* Type ids and string references have no PodTraits: where only the rule   *)
(* for aggregates is left for them, the build fails.                       *)
NoTraits == {"rtti", "stringref"}
Builds(sig) ==
  /\ ~(ReturnKind(sig.ret) = "PodIn" /\ sig.ret.base \in NoTraits)
  /\ \A i \in DOMAIN sig.params :
       ~(Kind(sig.params[i]) = "PodOut" /\ sig.params[i].base \in NoTraits)

IsOut(t) == Kind(t) = "PodOut"

(* How many Lua values one C value spreads over, as describe_as puts it in *)
(* mina.signatures and the reference.                                      *)
Width(t) == IF t.base \in {"vec", "color"} THEN PodCount ELSE 1
ArgWidth(t) == IF IsOut(t) THEN 0 ELSE Width(t)

(* describe_sig::returns: the return value, then the out-parameters.       *)
OutsUpTo(params) ==
  LET outs[n \in 0 .. Len(params)] ==
        IF n = 0 THEN <<>>
        ELSE IF IsOut(params[n]) THEN Append(outs[n - 1], params[n]) ELSE outs[n - 1]
  IN  outs
Returned(sig)  == IF sig.ret = Void THEN <<>> ELSE <<sig.ret>>
Described(sig) == Returned(sig) \o OutsUpTo(sig.params)[Len(sig.params)]
=============================================================================
