--------------------------- MODULE RequireProofs ---------------------------
(***************************************************************************)
(* Theorems about the require of a mod, for any set of modules, results    *)
(* and requires.                                                           *)
(***************************************************************************)
EXTENDS Require, TLAPS

(* A chunk that runs or is suspended is marked as in progress.             *)
RunningIsMarked == \A n \in running : loaded[n] = False

(* Once a chunk was run, the cache never says again that it was not.       *)
RunIsRemembered == \A n \in Names : (runs[n] = 0 \/ loaded[n] # Nil) /\ runs[n] <= 1

IInv == TypeOK /\ RunningIsMarked /\ RunIsRemembered

LEMMA InvInit == Init => IInv
  BY RequireAssumption DEF Init, IInv, TypeOK, RunningIsMarked, RunIsRemembered, Nil, False, True

(* A refusal or an answer from the cache changes nothing the invariant     *)
(* speaks of.                                                              *)
LEMMA AskKeepsInv ==
  ASSUME IInv, Ask, UNCHANGED <<loaded, running, runs>>
  PROVE  IInv'
  BY RequireAssumption DEF IInv, TypeOK, RunningIsMarked, RunIsRemembered, Ask

LEMMA InvNext == IInv /\ [Next]_vars => IInv'
  <1> SUFFICES ASSUME IInv, [Next]_vars PROVE IInv'
    OBVIOUS
  <1> USE DEF IInv, TypeOK, RunningIsMarked, RunIsRemembered
  <1>1. ASSUME NEW n \in Names, Refuse(n) \/ Cached(n) PROVE IInv'
    BY <1>1, AskKeepsInv DEF Refuse, Cached
  <1>2. ASSUME NEW n \in Names, Run(n) PROVE IInv'
    <2>1. n \in Sources /\ loaded[n] = Nil /\ runs[n] = 0
      BY <1>2 DEF Run, Runnable
    <2>2. TypeOK'
      BY <1>2, <2>1, RequireAssumption DEF Run, Ask
    <2>3. RunningIsMarked' /\ RunIsRemembered'
      BY <1>2, <2>1, RequireAssumption DEF Run, Nil, False
    <2>4. QED
      BY <2>2, <2>3
  <1>3. ASSUME NEW n \in Names, NEW r \in Results \cup {Nil, False}, ChunkReturns(n, r)
        PROVE  IInv'
    <2>1. TypeOK'
      BY <1>3 DEF ChunkReturns
    <2>2. RunningIsMarked' /\ RunIsRemembered'
      BY <1>3, RequireAssumption DEF ChunkReturns, Nil, True
    <2>3. QED
      BY <2>1, <2>2
  <1>4. ASSUME NEW n \in Names, ChunkRaises(n) PROVE IInv'
    BY <1>4 DEF ChunkRaises
  <1>5. CASE UNCHANGED vars
    BY <1>5 DEF vars
  <1>6. QED
    BY <1>1, <1>2, <1>3, <1>4, <1>5 DEF Next

(* The cache and what is remembered of the chunks stay well formed.        *)
THEOREM RequireInvariant == Spec => []IInv
  BY InvInit, InvNext, PTL DEF Spec

(* The cache, the running chunks and what is counted of them are well      *)
(* typed, whatever the chunks return.                                      *)
THEOREM RequireTypeCorrect == Spec => []TypeOK
  <1>1. IInv => TypeOK
    BY DEF IInv
  <1>2. QED
    BY <1>1, RequireInvariant, PTL

(* However modules require each other, suspend, raise and are retried, the *)
(* chunk of a name is run at most once.                                    *)
THEOREM ChunksRunOnce == Spec => []EachNameRunsOnce
  <1>1. IInv => EachNameRunsOnce
    BY DEF IInv, RunIsRemembered, EachNameRunsOnce
  <1>2. QED
    BY <1>1, RequireInvariant, PTL

(* A name that gave a result is never given another: only the chunk that   *)
(* is marked as running may write its entry.                               *)
THEOREM ResultsStay == Spec => ResultsAreFinal
  <1>1. IInv /\ [Next]_vars =>
          [\A n \in Names : loaded[n] \notin {Nil, False} => loaded'[n] = loaded[n]]_vars
    <2> SUFFICES ASSUME IInv, [Next]_vars, NEW n \in Names, loaded[n] \notin {Nil, False}
                 PROVE  loaded'[n] = loaded[n]
      OBVIOUS
    <2>1. ASSUME NEW m \in Names, Run(m) PROVE loaded'[n] = loaded[n]
      BY <2>1 DEF Run, Runnable, IInv, TypeOK
    <2>2. ASSUME NEW m \in Names, NEW r \in Results \cup {Nil, False}, ChunkReturns(m, r)
          PROVE  loaded'[n] = loaded[n]
      BY <2>2 DEF ChunkReturns, IInv, TypeOK, RunningIsMarked
    <2>3. QED
      BY <2>1, <2>2 DEF Next, vars, Refuse, Cached, ChunkRaises
  <1>2. QED
    BY <1>1, RequireInvariant, PTL DEF Spec, ResultsAreFinal
=============================================================================
