-------------------------------- MODULE Log --------------------------------
(***************************************************************************)
(* mml::log (src/src/host/log.cpp): one line is formatted into a fixed     *)
(* buffer and written to a host file that is truncated at every start.     *)
(* The game may terminate without unwinding, so each line is flushed as it *)
(* is written.  (The same buffer also goes to the game's mod.log, whose    *)
(* keeping is the engine's business.)                                      *)
(***************************************************************************)
EXTENDS Integers, Sequences, FiniteSets

CONSTANTS BufSize,     \* sizeof buf: 2048 in the code
          PrefixLen,   \* the length of "[minamodlua] "
          Lengths,     \* lengths of formatted messages
          MaxLines     \* bound: lines written in one run

ASSUME LogAssumption ==
  /\ BufSize \in Nat /\ PrefixLen \in Nat /\ MaxLines \in Nat
  /\ PrefixLen + 3 < BufSize
  /\ Lengths \subseteq Nat

VARIABLES mm,        \* g_mm is not null
          file,      \* g_file is open
          pending,   \* the line of a write between fputs and fflush, or <<>>
          disk,      \* luamods.log, as far as it reached the disk
          written    \* history: the lines write was called for in this run

vars == <<mm, file, pending, disk, written>>

-----------------------------------------------------------------------------
(* The buffer, character by character: "p" for the prefix, "m" for the     *)
(* message, NUL and the newline where the code puts them.                  *)
CapOneLess == BufSize - 3    \* a fault: one byte too many is held back

Cap == BufSize - 2

FormatFails == -1    \* what vsnprintf returns on an encoding error

Smaller(a, b) == IF a < b THEN a ELSE b

(* snprintf of the prefix, then vsnprintf of a message of length m behind  *)
(* it: at most Cap - PrefixLen bytes, the last of which is the terminator. *)
Formatted(m) ==
  LET shown == IF m < 0 THEN 0 ELSE Smaller(m, Cap - PrefixLen - 1)
  IN  [k \in 0 .. BufSize - 1 |->
         IF k < PrefixLen THEN "p"
         ELSE IF k < PrefixLen + shown THEN "m"
         ELSE "NUL"]

(* A fault: what vsnprintf returns is added, an error included.            *)
NewlineUnguarded(m) ==
  LET n == PrefixLen + m IN IF n > Cap THEN Cap ELSE n

(* Where the newline goes: behind what vsnprintf says it would have        *)
(* written, clamped to the buffer.                                         *)
NewlineAt(m) ==
  LET n == IF m > 0 THEN PrefixLen + m ELSE PrefixLen
  IN  IF n > Cap THEN Cap ELSE n

Buffer(m) == [Formatted(m) EXCEPT ![NewlineAt(m)] = "NL", ![NewlineAt(m) + 1] = "NUL"]

(* What fputs and Log("%s") read of it: everything up to the first NUL.    *)
TextLen(buf) ==
  CHOOSE n \in 0 .. BufSize - 1 : buf[n] = "NUL" /\ \A k \in 0 .. n - 1 : buf[k] # "NUL"

(* A line as the logs receive it, with, as history, what it was made from. *)
Line(m) == LET buf == Buffer(m) IN
  [asked |-> m, newlineAt |-> NewlineAt(m), length |-> TextLen(buf),
   ended |-> TextLen(buf) > 0 /\ buf[TextLen(buf) - 1] = "NL"]

-----------------------------------------------------------------------------
Init ==
  /\ mm = FALSE /\ file = FALSE /\ pending = <<>>
  /\ disk = <<>> /\ written = <<>>

(* A fault: the file is opened for appending.                              *)
LogInitAppends ==
  /\ ~mm
  /\ mm' = TRUE
  /\ file' \in BOOLEAN
  /\ written' = <<>>
  /\ UNCHANGED <<pending, disk>>

(* init, with or without a host file: HOME may be unset or fopen fail.     *)
(* Opening it truncates what the last run left.                            *)
LogInit ==
  /\ ~mm
  /\ mm' = TRUE
  /\ \/ file' = TRUE /\ disk' = <<>>
     \/ file' = FALSE /\ UNCHANGED disk
  /\ written' = <<>>
  /\ UNCHANGED pending

(* write, up to fputs; fflush follows.                                     *)
Write(m) ==
  /\ mm /\ pending = <<>>
  /\ Len(written) < MaxLines
  /\ written' = Append(written, Line(m))
  /\ pending' = IF file THEN <<Line(m)>> ELSE <<>>
  /\ UNCHANGED <<mm, file, disk>>

Flush ==
  /\ pending # <<>>
  /\ disk' = disk \o pending
  /\ pending' = <<>>
  /\ UNCHANGED <<mm, file, written>>

LogShutdown ==
  /\ mm /\ pending = <<>>
  /\ mm' = FALSE /\ file' = FALSE
  /\ UNCHANGED <<pending, disk, written>>

(* The game terminates without unwinding: the stdio buffer is lost.        *)
Crash ==
  /\ mm
  /\ mm' = FALSE /\ file' = FALSE /\ pending' = <<>>
  /\ UNCHANGED <<disk, written>>

Next == \/ LogInit
        \/ \E m \in Lengths \cup {FormatFails} : Write(m)
        \/ Flush \/ LogShutdown \/ Crash

Spec == Init /\ [][Next]_vars

-----------------------------------------------------------------------------
LogLine == [asked : Int, newlineAt : PrefixLen .. BufSize - 2, length : 0 .. BufSize - 1, ended : BOOLEAN]

(* The logs are sequences of lines, each of which ended up in its buffer.  *)
TypeOK ==
  /\ mm \in BOOLEAN /\ file \in BOOLEAN
  /\ pending \in Seq(LogLine)
  /\ disk \in Seq(LogLine) /\ written \in Seq(LogLine)

(* While the host file is open, a crash at any moment loses at most the    *)
(* line being written: what is on the disk is this run's lines, in order,  *)
(* but for a last one still in the stdio buffer.                           *)
DiskHoldsThisRun ==
  file => written = disk \o pending /\ Len(pending) <= 1

(* Whatever the message, write puts the newline and its terminator inside  *)
(* the buffer, and a message that fits is logged in full with its newline: *)
(* the two reserved bytes are exactly enough.                              *)
BufferIsBigEnough ==
  \A k \in 1 .. Len(written) : LET line == written[k] IN
    /\ line.newlineAt + 1 \in 0 .. BufSize - 1
    /\ line.asked >= 0 /\ PrefixLen + line.asked < BufSize - 2 =>
         line.length = PrefixLen + line.asked + 1 /\ line.ended

(* log.cpp:49: two bytes are held back for the newline Log does not add,   *)
(* so that every line written ends.                                        *)
EveryLineEnds == \A k \in 1 .. Len(written) : written[k].ended
=============================================================================
