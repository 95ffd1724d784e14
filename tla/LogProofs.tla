----------------------------- MODULE LogProofs -----------------------------
(***************************************************************************)
(* Theorems about the log, for any size of the buffer and any messages.    *)
(***************************************************************************)
EXTENDS Log, TLAPS

Messages == Lengths \cup {FormatFails}

(* The characters of a message that the buffer has room for.               *)
Shown(m) == IF m < 0 THEN 0 ELSE Smaller(m, Cap - PrefixLen - 1)

LEMMA ShownFits ==
  ASSUME NEW m \in Messages
  PROVE  /\ m \in Int /\ Shown(m) \in Nat
         /\ PrefixLen + Shown(m) <= Cap - 1
         /\ m >= 0 /\ PrefixLen + m < Cap => Shown(m) = m
         /\ m >= 0 /\ PrefixLen + m >= Cap => PrefixLen + Shown(m) = Cap - 1
         /\ m < 0 => Shown(m) = 0
  BY LogAssumption DEF Messages, FormatFails, Shown, Smaller, Cap

(* The newline goes directly behind the message, or, if that does not fit, *)
(* one byte behind the terminator vsnprintf has put.                       *)
LEMMA NewlineInBuffer ==
  ASSUME NEW m \in Messages
  PROVE  /\ NewlineAt(m) \in PrefixLen .. BufSize - 2
         /\ m <= 0 => NewlineAt(m) = PrefixLen
         /\ m >= 0 /\ PrefixLen + m < Cap => NewlineAt(m) = PrefixLen + m
         /\ m >= 0 /\ PrefixLen + m >= Cap => NewlineAt(m) = Cap
  BY LogAssumption DEF Messages, FormatFails, NewlineAt, Cap

LEMMA BufferIs ==
  ASSUME NEW m \in Messages, NEW i \in 0 .. BufSize - 1
  PROVE  Buffer(m)[i] = IF i = NewlineAt(m) + 1 THEN "NUL"
                        ELSE IF i = NewlineAt(m) THEN "NL"
                        ELSE IF i < PrefixLen THEN "p"
                        ELSE IF i < PrefixLen + Shown(m) THEN "m"
                        ELSE "NUL"
  BY LogAssumption, NewlineInBuffer DEF Buffer, Formatted, Shown

(* Where the first NUL is, the text ends.                                  *)
LEMMA FirstNul ==
  ASSUME NEW buf, NEW n \in 0 .. BufSize - 1,
         buf[n] = "NUL", \A k \in 0 .. n - 1 : buf[k] # "NUL"
  PROVE  TextLen(buf) = n
  <1>1. ASSUME NEW l \in 0 .. BufSize - 1, buf[l] = "NUL", \A k \in 0 .. l - 1 : buf[k] # "NUL"
        PROVE  l = n
    BY <1>1, LogAssumption
  <1>2. QED
    BY <1>1 DEF TextLen

(* What is read of a line: all of a message that fits, and its newline; of *)
(* one that does not, as much as vsnprintf kept, without a newline.        *)
LEMMA TextEnds ==
  ASSUME NEW m \in Messages
  PROVE  TextLen(Buffer(m)) = IF m >= 0 /\ PrefixLen + m >= Cap THEN Cap - 1
                              ELSE PrefixLen + Shown(m) + 1
  <1> USE LogAssumption, ShownFits, NewlineInBuffer, BufferIs DEF Cap
  <1>1. CASE m >= 0 /\ PrefixLen + m >= Cap
    <2>1. Cap - 1 \in 0 .. BufSize - 1 /\ Buffer(m)[Cap - 1] = "NUL"
      BY <1>1
    <2>2. ASSUME NEW k \in 0 .. Cap - 2 PROVE Buffer(m)[k] # "NUL"
      BY <1>1
    <2>3. QED
      BY <1>1, <2>1, <2>2, FirstNul
  <1>2. CASE ~(m >= 0 /\ PrefixLen + m >= Cap)
    <2> DEFINE n == PrefixLen + Shown(m) + 1
    <2>1. NewlineAt(m) = PrefixLen + Shown(m)
      BY <1>2
    <2>2. n \in 0 .. BufSize - 1 /\ Buffer(m)[n] = "NUL"
      BY <2>1
    <2>3. ASSUME NEW k \in 0 .. n - 1 PROVE Buffer(m)[k] # "NUL"
      BY <2>1
    <2>4. QED
      BY <1>2, <2>2, <2>3, FirstNul
  <1>3. QED
    BY <1>1, <1>2

(* A line is well typed, and what BufferIsBigEnough asks of one holds.     *)
Roomy(line) ==
  /\ line.newlineAt + 1 \in 0 .. BufSize - 1
  /\ line.asked >= 0 /\ PrefixLen + line.asked < BufSize - 2 =>
       line.length = PrefixLen + line.asked + 1 /\ line.ended

LEMMA LinesAreRoomy ==
  ASSUME NEW m \in Messages
  PROVE  Line(m) \in LogLine /\ Roomy(Line(m))
  <1> USE LogAssumption, ShownFits, NewlineInBuffer
  <1>1. TextLen(Buffer(m)) \in 0 .. BufSize - 1
    BY TextEnds DEF Cap
  <1>2. Line(m) \in LogLine
    BY <1>1 DEF Line, LogLine
  <1>3. ASSUME m >= 0, PrefixLen + m < BufSize - 2
        PROVE  TextLen(Buffer(m)) = PrefixLen + m + 1 /\ Buffer(m)[PrefixLen + m] = "NL"
    BY <1>3, TextEnds, BufferIs DEF Cap
  <1>4. Roomy(Line(m))
    <2> DEFINE line == Line(m)
    <2>1. line.asked = m /\ line.newlineAt = NewlineAt(m) /\ line.length = TextLen(Buffer(m))
      BY DEF Line
    <2>2. line.ended = (line.length > 0 /\ Buffer(m)[line.length - 1] = "NL")
      BY DEF Line
    <2>3. NewlineAt(m) + 1 \in 0 .. BufSize - 1
      OBVIOUS
    <2>4. ASSUME m >= 0, PrefixLen + m < BufSize - 2
          PROVE  line.length = PrefixLen + m + 1 /\ line.ended
      <3>1. line.length = PrefixLen + m + 1 /\ line.length - 1 = PrefixLen + m /\ line.length > 0
        BY <1>3, <2>1, <2>4
      <3>2. QED
        BY <1>3, <2>2, <2>4, <3>1
    <2> HIDE DEF line
    <2>5. Roomy(line)
      BY <2>1, <2>3, <2>4 DEF Roomy
    <2>6. QED
      BY <2>5 DEF line
  <1>5. QED
    BY <1>2, <1>4

-----------------------------------------------------------------------------
(* Every line written went through write.                                  *)
WrittenAreRoomy == \A k \in 1 .. Len(written) : Roomy(written[k])

(* A closed log has no file, and only an open file has a line pending.     *)
ClosedIsIdle ==
  /\ ~mm => ~file
  /\ ~file => pending = <<>>

IInv == TypeOK /\ DiskHoldsThisRun /\ WrittenAreRoomy /\ ClosedIsIdle

LEMMA InvInit == Init => IInv
  <1> SUFFICES ASSUME Init PROVE IInv
    OBVIOUS
  <1>1. <<>> \in Seq(LogLine)
    OBVIOUS
  <1>2. TypeOK /\ ClosedIsIdle
    BY <1>1 DEF Init, TypeOK, ClosedIsIdle
  <1>3. DiskHoldsThisRun /\ WrittenAreRoomy
    BY DEF Init, DiskHoldsThisRun, WrittenAreRoomy
  <1>4. QED
    BY <1>2, <1>3 DEF IInv

LEMMA InitKeepsInv == ASSUME IInv, LogInit PROVE IInv'
  <1> USE DEF IInv, LogInit
  <1>1. TypeOK' /\ ClosedIsIdle'
    BY DEF TypeOK, ClosedIsIdle
  <1>2. DiskHoldsThisRun' /\ WrittenAreRoomy'
    BY DEF DiskHoldsThisRun, WrittenAreRoomy, ClosedIsIdle, TypeOK
  <1>3. QED
    BY <1>1, <1>2

LEMMA WriteKeepsInv == ASSUME NEW m \in Messages, IInv, Write(m) PROVE IInv'
  <1> DEFINE line == Line(m)
  <1>1. line \in LogLine /\ Roomy(line)
    BY LinesAreRoomy
  <1>2. /\ mm /\ pending = <<>>
        /\ written' = Append(written, line)
        /\ pending' = IF file THEN <<line>> ELSE <<>>
        /\ UNCHANGED <<mm, file, disk>>
    BY DEF Write
  <1> HIDE DEF line
  <1>3. TypeOK' /\ ClosedIsIdle'
    BY <1>1, <1>2 DEF IInv, TypeOK, ClosedIsIdle
  <1>4. DiskHoldsThisRun'
    BY <1>1, <1>2 DEF IInv, TypeOK, DiskHoldsThisRun
  <1>5. WrittenAreRoomy'
    BY <1>1, <1>2 DEF IInv, TypeOK, WrittenAreRoomy
  <1>6. QED
    BY <1>3, <1>4, <1>5 DEF IInv

LEMMA FlushKeepsInv == ASSUME IInv, Flush PROVE IInv'
  <1> USE DEF IInv, Flush, TypeOK
  <1>1. TypeOK' /\ ClosedIsIdle'
    BY DEF ClosedIsIdle
  <1>2. DiskHoldsThisRun'
    BY DEF DiskHoldsThisRun
  <1>3. WrittenAreRoomy'
    BY DEF WrittenAreRoomy
  <1>4. QED
    BY <1>1, <1>2, <1>3

LEMMA CloseKeepsInv == ASSUME IInv, LogShutdown \/ Crash PROVE IInv'
  <1>1. mm' = FALSE /\ file' = FALSE /\ pending' = <<>> /\ UNCHANGED <<disk, written>>
    BY DEF LogShutdown, Crash
  <1>2. <<>> \in Seq(LogLine)
    OBVIOUS
  <1>3. TypeOK' /\ ClosedIsIdle'
    BY <1>1, <1>2 DEF IInv, TypeOK, ClosedIsIdle
  <1>4. DiskHoldsThisRun' /\ WrittenAreRoomy'
    BY <1>1 DEF IInv, DiskHoldsThisRun, WrittenAreRoomy
  <1>5. QED
    BY <1>3, <1>4 DEF IInv

LEMMA InvNext == IInv /\ [Next]_vars => IInv'
  <1>1. ASSUME IInv, UNCHANGED vars PROVE IInv'
    BY <1>1 DEF vars, IInv, TypeOK, ClosedIsIdle, DiskHoldsThisRun, WrittenAreRoomy
  <1>2. QED
    BY <1>1, InitKeepsInv, WriteKeepsInv, FlushKeepsInv, CloseKeepsInv DEF Next, Messages

(* What relates the file, the line being written and the lines that were   *)
(* written is kept by every step, crashes included.                        *)
THEOREM LogInvariant == Spec => []IInv
  BY InvInit, InvNext, PTL DEF Spec

(* The logs are well typed: whatever is formatted, the newline lands       *)
(* inside the buffer.                                                      *)
THEOREM LogTypeCorrect == Spec => []TypeOK
  <1>1. IInv => TypeOK
    BY DEF IInv
  <1>2. QED
    BY <1>1, LogInvariant, PTL

(* A crash at any moment loses at most the line being written.             *)
THEOREM OneLineIsLost == Spec => []DiskHoldsThisRun
  <1>1. IInv => DiskHoldsThisRun
    BY DEF IInv
  <1>2. QED
    BY <1>1, LogInvariant, PTL

(* The two reserved bytes are enough for every message, and a message that *)
(* fits is logged in full, newline included.                               *)
THEOREM BufferSuffices == Spec => []BufferIsBigEnough
  <1>1. IInv => BufferIsBigEnough
    BY DEF IInv, WrittenAreRoomy, Roomy, BufferIsBigEnough
  <1>2. QED
    BY <1>1, LogInvariant, PTL
=============================================================================
