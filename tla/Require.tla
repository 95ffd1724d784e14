------------------------------ MODULE Require ------------------------------
(***************************************************************************)
(* The require of one mod (make_require in src/src/host/sandbox.cpp): a    *)
(* cache `loaded' from module name to result, with `false' while the chunk *)
(* runs.                                                                   *)
(*                                                                         *)
(* Chunks nest, since a chunk may require others.  They need not end in    *)
(* the order they began: a chunk may yield inside a coroutine, and other   *)
(* code of the mod requires meanwhile.  A failed require raises in its     *)
(* caller, which may catch it and go on.                                   *)
(***************************************************************************)
EXTENDS Integers, FiniteSets

CONSTANTS Names,      \* module names the mod requires
          Sources,    \* the names for which a file exists
          Broken,     \* those whose file does not compile
          Dotted,     \* names containing what the '..' test looks for
          Results,    \* what chunks return, other than nil and false
          MaxAsked    \* bound: requires in one run

ASSUME RequireAssumption ==
  /\ Broken \subseteq Sources /\ Sources \subseteq Names /\ Dotted \subseteq Names
  /\ MaxAsked \in Nat

Nil   == "nil"
False == "false"     \* in progress
True  == "true"

VARIABLES loaded,    \* the cache
          running,   \* the names whose chunk is running or suspended
          runs,      \* history: how often each name's chunk was run
          answer,    \* history: what the last require did
          asked      \* how many requires were made

vars == <<loaded, running, runs, answer, asked>>

Answered(name, what) == answer' = [name |-> name, what |-> what]

Init ==
  /\ loaded = [n \in Names |-> Nil]
  /\ running = {}
  /\ runs = [n \in Names |-> 0]
  /\ answer = [name |-> Nil, what |-> "nothing"]
  /\ asked = 0

Ask == asked < MaxAsked /\ asked' = asked + 1

(* The checks before anything is read or run.                              *)
Refuse(n) ==
  /\ Ask
  /\ \/ n \in Dotted /\ Answered(n, "not allowed")
     \/ n \notin Dotted /\ loaded[n] = False /\ Answered(n, "circular")
     \/ n \notin Dotted /\ loaded[n] = Nil /\ n \notin Sources /\ Answered(n, "no module")
     \/ n \notin Dotted /\ loaded[n] = Nil /\ n \in Broken /\ Answered(n, "does not compile")
  /\ UNCHANGED <<loaded, running, runs>>

Cached(n) ==
  /\ Ask
  /\ n \notin Dotted /\ loaded[n] \notin {Nil, False}
  /\ Answered(n, "cached")
  /\ UNCHANGED <<loaded, running, runs>>

(* A fault: nothing looks whether the file is there.                       *)
RunnableAnyway(n) == n \notin Dotted /\ loaded[n] = Nil /\ n \notin Broken

Runnable(n) == n \notin Dotted /\ loaded[n] = Nil /\ n \in Sources \ Broken

(* A fault: the cache does not know that the chunk is running.             *)
RunUnmarked(n) ==
  /\ Ask
  /\ Runnable(n)
  /\ running' = running \cup {n}
  /\ runs' = [runs EXCEPT ![n] = @ + 1]
  /\ Answered(n, "running")
  /\ UNCHANGED loaded

Run(n) ==
  /\ Ask
  /\ Runnable(n)
  /\ loaded' = [loaded EXCEPT ![n] = False]
  /\ running' = running \cup {n}
  /\ runs' = [runs EXCEPT ![n] = @ + 1]
  /\ Answered(n, "running")

(* The chunk returns: nil counts as true, anything else is the result.     *)
ChunkReturns(n, result) ==
  /\ n \in running
  /\ running' = running \ {n}
  /\ loaded' = [loaded EXCEPT ![n] = IF result = Nil THEN True ELSE result]
  /\ Answered(n, "returned")
  /\ UNCHANGED <<runs, asked>>

(* A fault: a chunk that raises empties the cache.                         *)
ChunkRaisesAndClears(n) ==
  /\ n \in running
  /\ running' = running \ {n}
  /\ loaded' = [m \in Names |-> Nil]
  /\ Answered(n, "raised")
  /\ UNCHANGED <<runs, asked>>

(* The chunk raises, and nothing puts its cache entry back.                *)
ChunkRaises(n) ==
  /\ n \in running
  /\ running' = running \ {n}
  /\ Answered(n, "raised")
  /\ UNCHANGED <<loaded, runs, asked>>

Next == \E n \in Names :
          \/ Refuse(n) \/ Cached(n) \/ Run(n)
          \/ \E r \in Results \cup {Nil, False} : ChunkReturns(n, r)
          \/ ChunkRaises(n)

Spec == Init /\ [][Next]_vars

-----------------------------------------------------------------------------
(* The cache and the history are well typed.                               *)
TypeOK ==
  /\ loaded \in [Names -> Results \cup {Nil, False, True}]
  /\ running \subseteq Sources
  /\ runs \in [Names -> Nat] /\ asked \in 0 .. MaxAsked

(* Whatever chunks require each other, suspend, fail or return, the chunk  *)
(* of a name is run at most once: neither a cycle nor a retry runs it      *)
(* again.  (A file can have two names, a.b and a/b, and so run twice.)     *)
EachNameRunsOnce == \A n \in Names : runs[n] <= 1

(* A name that gave a result keeps giving that result.                     *)
ResultsAreFinal ==
  [][\A n \in Names : loaded[n] \notin {Nil, False} => loaded'[n] = loaded[n]]_vars

-----------------------------------------------------------------------------
(* sandbox.cpp:121: `false' "marks in-progress, so a cycle is an error".   *)
(* It also stays after a chunk raised, and is what a chunk may return.     *)
CircularMeansInProgress == answer.what = "circular" => answer.name \in running
=============================================================================
