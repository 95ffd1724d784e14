-------------------------- MODULE ModLoaderProofs ---------------------------
(***************************************************************************)
(* Theorems about finding and loading mods, for any folders, any manifests *)
(* and scripts in them, and any order the file system and std::sort leave. *)
(***************************************************************************)
EXTENDS ModLoader, FiniteSetTheorems, WellFoundedInduction, TLAPS

-----------------------------------------------------------------------------
(* parse_manifest, line by line.                                           *)

(* Induction over the numbers up to N, for a set in place of a predicate:  *)
(* the least number outside of the set would have its predecessor within.  *)
LEMMA UpToN ==
  ASSUME NEW N \in Nat, NEW S, 0 \in S, \A n \in 1 .. N : n - 1 \in S => n \in S
  PROVE  0 .. N \subseteq S
  <1> DEFINE R == OpToRel(<, Nat)
             Out == (0 .. N) \ S
  <1> SUFFICES ASSUME Out # {} PROVE FALSE
    OBVIOUS
  <1>1. IsWellFoundedOn(R, Nat)
    BY NatLessThanWellFounded
  <1>2. \A x \in Nat : \A y \in Nat : <<x, y>> \in R <=> x < y
    BY Zenon DEF OpToRel
  <1> HIDE DEF R
  <1>3. Out \in SUBSET Nat
    OBVIOUS
  <1> HIDE DEF Out
  <1>4. PICK m \in Out : \A n \in Out : ~(<<n, m>> \in R)
    BY <1>1, <1>3, WFMin, Zenon
  <1>5. \A n \in Out : ~(n < m)
    BY <1>2, <1>3, <1>4, Zenon
  <1>6. m \in 1 .. N /\ m - 1 \in 0 .. N /\ m \notin S
    BY DEF Out
  <1>7. m - 1 \notin Out
    BY <1>5, <1>6
  <1>8. QED
    BY <1>6, <1>7 DEF Out

(* The loop over the lines is well defined.                                *)
Reads(after, lines, m) ==
  /\ after = [n \in 0 .. m |-> after[n]]
  /\ \A n \in 0 .. m :
       after[n] = IF n = 0 THEN Default ELSE ReadLine(after[n - 1], lines[n])

LEMMA ParseReads ==
  ASSUME NEW lines, Len(lines) \in Nat
  PROVE  \E after : Reads(after, lines, Len(lines)) /\ Parse(lines) = after[Len(lines)]
  <1> DEFINE N == Len(lines)
             S == {m \in 0 .. N : \E after : Reads(after, lines, m)}
  <1>1. 0 \in S
    <2> DEFINE first == [n \in 0 .. 0 |-> Default]
    <2>1. Reads(first, lines, 0)
      BY DEF Reads
    <2>2. QED
      BY <2>1
  <1>2. ASSUME NEW m \in 1 .. N, m - 1 \in S PROVE m \in S
    <2>1. PICK before : Reads(before, lines, m - 1)
      BY <1>2
    <2> DEFINE after == [n \in 0 .. m |-> IF n = m THEN ReadLine(before[m - 1], lines[m]) ELSE before[n]]
    <2>2. \A n \in 0 .. m : n < m => n \in 0 .. m - 1 /\ after[n] = before[n]
      OBVIOUS
    <2>3. after[m] = ReadLine(before[m - 1], lines[m]) /\ after = [n \in 0 .. m |-> after[n]]
      OBVIOUS
    <2> HIDE DEF after
    <2>4. ASSUME NEW n \in 0 .. m
          PROVE  after[n] = IF n = 0 THEN Default ELSE ReadLine(after[n - 1], lines[n])
      <3>1. CASE n = m
        <4>1. m - 1 \in 0 .. m /\ m - 1 < m /\ n # 0
          BY <3>1
        <4>2. QED
          BY <2>2, <2>3, <3>1, <4>1
      <3>2. CASE n # m
        <4>1. n < m /\ n \in 0 .. m - 1 /\ after[n] = before[n]
          BY <2>2, <3>2
        <4>2. n # 0 => n - 1 \in 0 .. m /\ n - 1 < m /\ after[n - 1] = before[n - 1]
          BY <2>2, <3>2
        <4>3. before[n] = IF n = 0 THEN Default ELSE ReadLine(before[n - 1], lines[n])
          BY <2>1, <4>1 DEF Reads
        <4>4. QED
          BY <4>1, <4>2, <4>3
      <3>3. QED
        BY <3>1, <3>2
    <2>5. Reads(after, lines, m)
      BY <2>3, <2>4 DEF Reads
    <2>6. QED
      BY <2>5
  <1>3. N \in S
    <2>1. N \in Nat
      OBVIOUS
    <2> HIDE DEF S, N
    <2>2. 0 .. N \subseteq S
      BY <1>1, <1>2, <2>1, UpToN
    <2>3. QED
      BY <2>1, <2>2
  <1> DEFINE IsLoop(f) == f = [n \in 0 .. N |-> IF n = 0 THEN Default ELSE ReadLine(f[n - 1], lines[n])]
  <1>4. \E f : IsLoop(f)
    BY <1>3 DEF Reads
  <1>5. IsLoop(CHOOSE f : IsLoop(f))
    BY <1>4
  <1>6. Parse(lines) = (CHOOSE f : IsLoop(f))[N]
    BY DEF Parse
  <1> DEFINE loop == CHOOSE f : IsLoop(f)
  <1>7. IsLoop(loop) /\ Parse(lines) = loop[N]
    BY <1>5, <1>6
  <1> HIDE DEF loop
  <1>8. Reads(loop, lines, N)
    BY <1>7 DEF Reads
  <1>9. QED
    BY <1>7, <1>8

(* One line more: it counts if it has the key and can be read.             *)
LEMMA SaidByOneMore ==
  ASSUME NEW lines, NEW key, NEW default
  PROVE  /\ SaidBy(0, lines, key, default) = default
         /\ \A n \in Nat \ {0} :
              SaidBy(n, lines, key, default) =
                IF Counts(lines[n], key) THEN lines[n].value
                ELSE SaidBy(n - 1, lines, key, default)
  <1> DEFINE At(n) == {i \in 1 .. n : Counts(lines[i], key)}
  <1>1. At(0) = {}
    OBVIOUS
  <1>2. SaidBy(0, lines, key, default) = default
    BY <1>1 DEF SaidBy
  <1>3. ASSUME NEW n \in Nat \ {0}, Counts(lines[n], key)
        PROVE  SaidBy(n, lines, key, default) = lines[n].value
    <2>1. n \in At(n) /\ At(n) # {} /\ \A i \in At(n) : i \in Int /\ i <= n
      BY <1>3
    <2> DEFINE last == CHOOSE i \in At(n) : \A j \in At(n) : j <= i
    <2>2. last \in At(n) /\ \A j \in At(n) : j <= last
      BY <2>1
    <2> HIDE DEF last
    <2>3. last = n
      BY <2>1, <2>2
    <2>4. SaidBy(n, lines, key, default) = lines[last].value
      BY <2>1 DEF SaidBy, last
    <2>5. QED
      BY <2>3, <2>4
  <1>4. ASSUME NEW n \in Nat \ {0}, ~Counts(lines[n], key)
        PROVE  SaidBy(n, lines, key, default) = SaidBy(n - 1, lines, key, default)
    <2>1. At(n) = At(n - 1)
      BY <1>4
    <2>2. QED
      <3>1. \A m : SaidBy(m, lines, key, default) =
                     IF At(m) = {} THEN default
                     ELSE lines[CHOOSE i \in At(m) : \A j \in At(m) : j <= i].value
        BY Zenon DEF SaidBy
      <3> HIDE DEF At
      <3>2. QED
        BY <2>1, <3>1
  <1>5. QED
    BY <1>2, <1>3, <1>4

(* parse_manifest takes of each field the last line that has it and can be *)
(* read, the versions narrowed to 32 bits.                                 *)
Agrees(info, n, lines) ==
  /\ info \in Manifest
  /\ info.id = SaidBy(n, lines, "id", NoId)
  /\ info.minGameVersion = Low32(SaidBy(n, lines, "minGameVersion", 0))
  /\ info.maxGameVersion = Low32(SaidBy(n, lines, "maxGameVersion", 999999))

LEMMA LowBits ==
  /\ \A i \in Int : Low32(i) \in Nat
  /\ Low32(0) = 0 /\ Low32(999999) = 999999
  <1>1. U32 \in Nat \ {0} /\ ULong \in Nat \ {0} /\ 999999 < U32 /\ U32 <= ULong
    BY LoaderAssumption
  <1>2. ASSUME NEW i \in Int PROVE Low32(i) \in Nat
    <2>1. i % ULong \in Int
      BY <1>1
    <2> DEFINE j == i % ULong
    <2> HIDE DEF j
    <2>2. j % U32 \in Nat
      BY <1>1, <2>1 DEF j
    <2>3. QED
      BY <2>2 DEF Low32, j
  <1>3. 999999 % ULong = 999999 /\ 999999 % U32 = 999999 /\ 0 % ULong = 0 /\ 0 % U32 = 0
    BY <1>1
  <1>4. QED
    BY <1>2, <1>3 DEF Low32

LEMMA PriorityIsInt ==
  ASSUME NEW value, value = NotANumber \/ value \in Int
  PROVE  ToPriority(value) \in Int
  <1>1. U32 \in Nat \ {0} /\ ULong \in Nat \ {0}
    BY LoaderAssumption
  <1>2. U32 \div 2 \in Int /\ ULong \div 2 \in Int
    BY <1>1
  <1> DEFINE half == U32 \div 2
             top  == ULong \div 2
             read == Strtol(value)
  <1>3. half \in Int /\ top \in Int /\ ToPriority(value) = ((read + half) % U32) - half
    BY <1>2 DEF ToPriority
  <1>4. read = CASE value = NotANumber -> 0 [] value < -top -> -top
                 [] value >= top -> top - 1 [] OTHER -> value
    BY DEF Strtol
  <1> HIDE DEF half, top, read
  <1>5. read \in Int
    BY <1>3, <1>4
  <1>6. read + half \in Int
    BY <1>3, <1>5
  <1> DEFINE sum == read + half
  <1> HIDE DEF sum
  <1>7. sum % U32 \in Int
    BY <1>1, <1>6 DEF sum
  <1> DEFINE low == sum % U32
  <1> HIDE DEF low
  <1>8. low - half \in Int
    BY <1>3, <1>7 DEF low
  <1>9. QED
    BY <1>3, <1>8 DEF sum, low

LEMMA ReadLineAgrees ==
  ASSUME NEW lines, NEW n \in Nat \ {0},
         lines[n].key \in LineKeys, lines[n].value \in ValuesOf(lines[n].key),
         NEW info, Agrees(info, n - 1, lines)
  PROVE  Agrees(ReadLine(info, lines[n]), n, lines)
  <1> DEFINE line  == lines[n]
             new   == ReadLine(info, line)
             Said(m, key, default) == SaidBy(m, lines, key, default)
  <1>1. line.key \in LineKeys /\ line.value \in ValuesOf(line.key)
    OBVIOUS
  <1>2. /\ info \in Manifest /\ info.id = Said(n - 1, "id", NoId)
        /\ info.minGameVersion = Low32(Said(n - 1, "minGameVersion", 0))
        /\ info.maxGameVersion = Low32(Said(n - 1, "maxGameVersion", 999999))
    BY DEF Agrees
  <1>3. ASSUME NEW key, NEW default
        PROVE  Said(n, key, default) = IF Counts(line, key) THEN line.value
                                       ELSE Said(n - 1, key, default)
    BY SaidByOneMore
  <1> SUFFICES /\ new \in Manifest /\ new.id = Said(n, "id", NoId)
               /\ new.minGameVersion = Low32(Said(n, "minGameVersion", 0))
               /\ new.maxGameVersion = Low32(Said(n, "maxGameVersion", 999999))
    BY DEF Agrees
  <1>4. \A i \in Int : Low32(i) \in Nat
    BY LowBits
  <1> HIDE DEF line, Said
  <1>5. CASE line.key = "id"
    <2>1. line.value \in Ids
      BY <1>1, <1>5 DEF ValuesOf
    <2>2. new = [info EXCEPT !.id = line.value]
      BY <1>5 DEF ReadLine
    <2>3. QED
      BY <1>2, <1>3, <1>5, <2>1, <2>2 DEF Manifest, Counts
  <1>6. CASE line.key = "minGameVersion"
    <2>1. StoulReads(line.value) => line.value \in Int
      BY <1>1, <1>6 DEF ValuesOf, StoulReads
    <2>2. new = [info EXCEPT !.minGameVersion = IF StoulReads(line.value) THEN Low32(line.value)
                                                ELSE info.minGameVersion]
      BY <1>6 DEF ReadLine, ToU32, Low32
    <2>3. QED
      BY <1>2, <1>3, <1>4, <1>6, <2>1, <2>2 DEF Manifest, Counts
  <1>7. CASE line.key = "maxGameVersion"
    <2>1. StoulReads(line.value) => line.value \in Int
      BY <1>1, <1>7 DEF ValuesOf, StoulReads
    <2>2. new = [info EXCEPT !.maxGameVersion = IF StoulReads(line.value) THEN Low32(line.value)
                                                ELSE info.maxGameVersion]
      BY <1>7 DEF ReadLine, ToU32, Low32
    <2>3. QED
      BY <1>2, <1>3, <1>4, <1>7, <2>1, <2>2 DEF Manifest, Counts
  <1>8. CASE line.key = "loadPriority"
    <2>1. line.value = NotANumber \/ line.value \in Int
      BY <1>1, <1>8 DEF ValuesOf
    <2>2. ToPriority(line.value) \in Int
      BY <2>1, PriorityIsInt
    <2>3. new = [info EXCEPT !.loadPriority = ToPriority(line.value)]
      BY <1>8 DEF ReadLine
    <2>4. QED
      BY <1>2, <1>3, <1>8, <2>2, <2>3 DEF Manifest, Counts
  <1>9. CASE line.key = "other"
    <2>1. new = info
      BY <1>9 DEF ReadLine
    <2>2. QED
      BY <1>2, <1>3, <1>9, <2>1 DEF Counts
  <1>10. QED
    BY <1>1, <1>5, <1>6, <1>7, <1>8, <1>9 DEF LineKeys

LEMMA ParseIsWhatItSays ==
  ASSUME NEW content \in Contents
  PROVE  LET lines == content.lines
             info  == Parse(lines)
         IN  /\ info \in Manifest
             /\ info.id = Says(lines, "id", NoId)
             /\ info.minGameVersion = Low32(Says(lines, "minGameVersion", 0))
             /\ info.maxGameVersion = Low32(Says(lines, "maxGameVersion", 999999))
  <1> DEFINE lines == content.lines
             N == Len(lines)
  <1>1. IsContent(content) /\ N \in Nat
    BY ContentsAssumption DEF IsContent
  <1>2. PICK after : Reads(after, lines, N) /\ Parse(lines) = after[N]
    BY <1>1, ParseReads
  <1> DEFINE S == {n \in 0 .. N : Agrees(after[n], n, lines)}
  <1>3. 0 \in S
    <2>1. after[0] = Default
      BY <1>1, <1>2 DEF Reads
    <2>2. Default \in Manifest
      BY DEF Default, Manifest
    <2>3. Agrees(Default, 0, lines)
      BY <2>2, LowBits, SaidByOneMore DEF Agrees, Default
    <2>4. QED
      BY <1>1, <2>1, <2>3
  <1>4. ASSUME NEW n \in 1 .. N, n - 1 \in S PROVE n \in S
    <2>1. after[n] = ReadLine(after[n - 1], lines[n])
      <3>1. n \in 0 .. N /\ n # 0
        BY <1>1
      <3>2. QED
        BY <1>2, <3>1 DEF Reads
    <2>2. Agrees(after[n], n, lines)
      <3>1. n \in Nat \ {0} /\ Agrees(after[n - 1], n - 1, lines)
        BY <1>4
      <3>2. lines[n].key \in LineKeys /\ lines[n].value \in ValuesOf(lines[n].key)
        BY <1>1 DEF IsContent
      <3> HIDE DEF lines, N
      <3>3. QED
        BY <2>1, <3>1, <3>2, ReadLineAgrees
    <2>3. QED
      BY <1>1, <2>2
  <1>5. N \in S
    <2>1. N \in Nat
      BY <1>1
    <2> HIDE DEF S, N
    <2>2. 0 .. N \subseteq S
      BY <1>3, <1>4, <2>1, UpToN
    <2>3. QED
      BY <2>1, <2>2
  <1>6. QED
    BY <1>2, <1>5 DEF Agrees, Says

(* The scan keeps exactly what is to be loaded.                            *)
LEMMA KeepsIsLoadable ==
  ASSUME NEW d \in Folders, disk \in [Folders -> Contents]
  PROVE  Keeps(disk[d]) <=> Loadable(d)
  <1> DEFINE lines == disk[d].lines
             low   == Parse(lines).minGameVersion
             high  == Parse(lines).maxGameVersion
  <1>1. disk[d] \in Contents
    OBVIOUS
  <1>2. /\ low \in Nat /\ high \in Nat
        /\ Parse(lines).id = Says(lines, "id", NoId)
        /\ low = Low32(Says(lines, "minGameVersion", 0))
        /\ high = Low32(Says(lines, "maxGameVersion", 999999))
    BY <1>1, ParseIsWhatItSays DEF Manifest
  <1>3. Gated(Parse(lines)) <=> (low # 0 /\ Revision < low) \/ (high # 0 /\ Revision > high)
    BY DEF Gated
  <1> HIDE DEF low, high
  <1>4. ~Gated(Parse(lines)) <=> low <= Revision /\ (high = 0 \/ Revision <= high)
    BY <1>2, <1>3, LoaderAssumption
  <1>5. QED
    BY <1>2, <1>4 DEF Keeps, Loadable

-----------------------------------------------------------------------------
LoopPhases == {"envs", "settings", "main"}
RunPhases  == {"settings", "main", "done"}

(* The vector holds the mods of the folders that were visited, each once.  *)
Collected ==
  /\ \A n \in DOMAIN mods :
       /\ mods[n].dir \in Folders \ left
       /\ mods[n].manifest = Parse(disk[mods[n].dir].lines)
       /\ Keeps(disk[mods[n].dir])
  /\ \A m, n \in DOMAIN mods : mods[m].dir = mods[n].dir => m = n
  /\ \A d \in Folders \ left : Keeps(disk[d]) => \E n \in DOMAIN mods : mods[n].dir = d

(* No loop is past the mods, and none is before they are sorted.           *)
InLoop ==
  /\ phase \in LoopPhases => k \in DOMAIN mods
  /\ phase \notin LoopPhases => k = 1
  /\ phase \in LoopPhases \cup {"done"} => left = {} /\ Sorted(mods)
  /\ phase \in {"layer", "scan", "envs"} => ran = <<>>
  /\ phase \in {"layer", "scan", "envs", "settings"} => inactive = {}

(* The environment of a mod with an id of its own is found again by it.    *)
EnvsFound ==
  \A n \in DOMAIN mods : HasOwnId(n) =>
    /\ phase = "envs" /\ n < k => envs[mods[n].manifest.id] = mods[n].dir
    /\ phase \in RunPhases => envs[mods[n].manifest.id] = mods[n].dir

(* d is not behind e in the order of the mods.                             *)
NotBehind(d, e) ==
  LET a == Parse(disk[d].lines)
      b == Parse(disk[e].lines)
  IN  \/ a.loadPriority > b.loadPriority
      \/ a.loadPriority = b.loadPriority /\ IdRank[a.id] <= IdRank[b.id]

(* What the present round ran comes before what it has still to run.       *)
RoundInOrder ==
  /\ phase = "settings" => \A i \in DOMAIN ran : ran[i].file = "settings"
  /\ phase \in {"settings", "main"} =>
       \A i \in DOMAIN ran : ran[i].file = phase =>
         \A n \in DOMAIN mods : k <= n => NotBehind(ran[i].dir, mods[n].dir)

IInv == TypeOK /\ Collected /\ InLoop /\ EnvsFound /\ RoundInOrder
          /\ UniqueIdsGetOwnEnvironment /\ RunsInLoadOrder

LEMMA InvInit == Init => IInv
  <1> SUFFICES ASSUME Init PROVE IInv
    OBVIOUS
  <1> USE LoaderAssumption DEF Init
  <1>1. mods = <<>> /\ ran = <<>> /\ DOMAIN mods = {} /\ DOMAIN ran = {} /\ Len(ran) = 0
    OBVIOUS
  <1>2. TypeOK
    <2>1. <<>> \in Seq(ModInfo)
      OBVIOUS
    <2>2. <<>> \in Seq([file : {"settings", "main"}, dir : Folders, env : Folders \cup {NoEnv}])
      OBVIOUS
    <2>3. envs \in [Ids -> Folders \cup {NoEnv}]
      OBVIOUS
    <2>4. QED
      BY <1>1, <2>1, <2>2, <2>3 DEF TypeOK
  <1>3. Collected /\ InLoop /\ EnvsFound /\ RoundInOrder
    BY <1>1 DEF Collected, InLoop, EnvsFound, RoundInOrder, LoopPhases, RunPhases
  <1>4. UniqueIdsGetOwnEnvironment /\ RunsInLoadOrder
    BY <1>1 DEF UniqueIdsGetOwnEnvironment, RunsInLoadOrder
  <1>5. QED
    BY <1>2, <1>3, <1>4 DEF IInv

(* Before the loops nothing has run.                                       *)
LEMMA NothingRan ==
  ASSUME ran = <<>>
  PROVE  UniqueIdsGetOwnEnvironment /\ RunsInLoadOrder /\ DOMAIN ran = {}
  BY DEF UniqueIdsGetOwnEnvironment, RunsInLoadOrder

LEMMA LayerKeepsInv == ASSUME IInv, LoadLayer PROVE IInv'
  <1> USE DEF IInv, LoadLayer
  <1>1. TypeOK'
    BY DEF TypeOK
  <1>2. Collected'
    BY DEF Collected
  <1>3. InLoop' /\ EnvsFound' /\ RoundInOrder'
    BY DEF InLoop, EnvsFound, RoundInOrder, LoopPhases, RunPhases
  <1>4. ran' = <<>>
    BY DEF InLoop
  <1>5. UniqueIdsGetOwnEnvironment' /\ RunsInLoadOrder'
    BY <1>4 DEF UniqueIdsGetOwnEnvironment, RunsInLoadOrder
  <1>6. QED
    BY <1>1, <1>2, <1>3, <1>5

LEMMA VisitKeepsInv == ASSUME NEW d \in Folders, IInv, Visit(d) PROVE IInv'
  <1> USE DEF IInv
  <1> DEFINE info == [dir |-> d, manifest |-> Parse(disk[d].lines)]
  <1>1. /\ phase = "scan" /\ d \in left /\ left' = left \ {d}
        /\ mods' = IF Keeps(disk[d]) THEN Append(mods, info) ELSE mods
        /\ UNCHANGED <<disk, layer, phase, k, envs, ran, inactive>>
    BY DEF Visit
  <1>2. info \in ModInfo /\ info.dir = d /\ info.manifest = Parse(disk[d].lines)
    BY ParseIsWhatItSays DEF TypeOK, ModInfo
  <1> HIDE DEF info
  <1>3. mods \in Seq(ModInfo)
    BY DEF TypeOK
  <1>4. TypeOK'
    <2>1. mods' \in Seq(ModInfo) /\ k = 1
      BY <1>1, <1>2, <1>3 DEF InLoop, LoopPhases
    <2>2. QED
      BY <1>1, <2>1 DEF TypeOK
  <1>5. Collected'
    <2>1. CASE ~Keeps(disk[d])
      BY <1>1, <2>1 DEF Collected
    <2>2. CASE Keeps(disk[d])
      <3>1. /\ \A n \in DOMAIN mods : n \in DOMAIN mods' /\ mods'[n] = mods[n]
            /\ Len(mods) + 1 \in DOMAIN mods' /\ mods'[Len(mods) + 1] = info
            /\ \A n \in DOMAIN mods' : n \in DOMAIN mods \/ n = Len(mods) + 1
        BY <1>1, <1>2, <1>3, <2>2
      <3>2. \A n \in DOMAIN mods : mods[n].dir # d
        BY <1>1 DEF Collected
      <3>3. ASSUME NEW n \in DOMAIN mods'
            PROVE  /\ mods'[n].dir \in Folders \ left'
                   /\ mods'[n].manifest = Parse(disk[mods'[n].dir].lines)
                   /\ Keeps(disk[mods'[n].dir])
        BY <1>1, <1>2, <2>2, <3>1, <3>3 DEF Collected
      <3>4. ASSUME NEW m \in DOMAIN mods', NEW n \in DOMAIN mods', mods'[m].dir = mods'[n].dir
            PROVE  m = n
        BY <1>2, <3>1, <3>2, <3>4 DEF Collected
      <3>5. ASSUME NEW e \in Folders \ left', Keeps(disk[e])
            PROVE  \E n \in DOMAIN mods' : mods'[n].dir = e
        BY <1>1, <1>2, <3>1, <3>5 DEF Collected
      <3>6. QED
        BY <1>1, <3>3, <3>4, <3>5 DEF Collected
    <2>3. QED
      BY <2>1, <2>2
  <1>6. InLoop' /\ EnvsFound' /\ RoundInOrder'
    BY <1>1 DEF InLoop, EnvsFound, RoundInOrder, LoopPhases, RunPhases
  <1>7. ran' = <<>>
    BY <1>1 DEF InLoop
  <1>8. UniqueIdsGetOwnEnvironment' /\ RunsInLoadOrder'
    BY <1>7 DEF UniqueIdsGetOwnEnvironment, RunsInLoadOrder
  <1>9. QED
    BY <1>4, <1>5, <1>6, <1>8

LEMMA SortKeepsInv == ASSUME IInv, Sort PROVE IInv'
  <1> USE DEF IInv
  <1>1. /\ phase = "scan" /\ left = {} /\ Sorted(mods')
        /\ phase' = IF mods = <<>> THEN "done" ELSE "envs"
        /\ UNCHANGED <<disk, layer, left, k, envs, ran, inactive>>
    BY DEF Sort
  <1>2. PICK p \in Bijection(DOMAIN mods, DOMAIN mods) : mods' = [i \in DOMAIN mods |-> mods[p[i]]]
    BY DEF Sort
  <1>3. /\ \A i \in DOMAIN mods : p[i] \in DOMAIN mods
        /\ \A i, j \in DOMAIN mods : p[i] = p[j] => i = j
        /\ \A j \in DOMAIN mods : \E i \in DOMAIN mods : p[i] = j
    BY DEF Bijection, Injection, Surjection, IsInjective
  <1>4. mods \in Seq(ModInfo) /\ k = 1 /\ ran = <<>> /\ inactive = {}
    BY <1>1 DEF TypeOK, InLoop, LoopPhases
  <1>5. DOMAIN mods' = DOMAIN mods /\ mods' \in Seq(ModInfo) /\ Len(mods') = Len(mods)
    <2>0. \A j \in DOMAIN mods : mods[j] \in ModInfo
      BY <1>4
    <2>1. \A i \in DOMAIN mods : mods[p[i]] \in ModInfo
      BY <1>3, <2>0
    <2>2. DOMAIN mods = 1 .. Len(mods) /\ Len(mods) \in Nat
      BY <1>4
    <2>3. mods' \in [1 .. Len(mods) -> ModInfo] /\ DOMAIN mods' = 1 .. Len(mods)
      BY <1>2, <2>1, <2>2
    <2>4. mods' \in Seq(ModInfo)
      BY <2>2, <2>3
    <2>5. Len(mods') = Len(mods)
      BY <2>2, <2>3, <2>4
    <2>6. QED
      BY <2>2, <2>3, <2>4, <2>5
  <1>6. TypeOK'
    BY <1>1, <1>4, <1>5 DEF TypeOK
  <1>7. Collected'
    <2>1. ASSUME NEW n \in DOMAIN mods'
          PROVE  /\ mods'[n].dir \in Folders \ left
                 /\ mods'[n].manifest = Parse(disk[mods'[n].dir].lines)
                 /\ Keeps(disk[mods'[n].dir])
      BY <1>2, <1>3, <1>5 DEF Collected
    <2>2. ASSUME NEW m \in DOMAIN mods', NEW n \in DOMAIN mods', mods'[m].dir = mods'[n].dir
          PROVE  m = n
      <3>1. mods'[m] = mods[p[m]] /\ mods'[n] = mods[p[n]]
        BY <1>2, <1>5
      <3>2. p[m] = p[n]
        <4>1. \A a, b \in DOMAIN mods : mods[a].dir = mods[b].dir => a = b
          BY DEF Collected
        <4>2. p[m] \in DOMAIN mods /\ p[n] \in DOMAIN mods
          BY <1>3, <1>5
        <4>3. mods[p[m]].dir = mods[p[n]].dir
          BY <2>2, <3>1
        <4>4. QED
          BY <4>1, <4>2, <4>3
      <3>3. QED
        BY <1>3, <1>5, <3>2
    <2>3. ASSUME NEW d \in Folders \ left, Keeps(disk[d])
          PROVE  \E n \in DOMAIN mods' : mods'[n].dir = d
      <3>1. PICK j \in DOMAIN mods : mods[j].dir = d
        BY <2>3 DEF Collected
      <3>2. PICK i \in DOMAIN mods : p[i] = j
        BY <1>3
      <3>3. QED
        BY <1>2, <1>5, <3>1, <3>2
    <2>4. QED
      BY <1>1, <2>1, <2>2, <2>3 DEF Collected
  <1>8. InLoop'
    BY <1>1, <1>4, <1>5 DEF InLoop, LoopPhases
  <1>9. EnvsFound'
    <2>1. CASE mods = <<>>
      BY <1>1, <1>5, <2>1 DEF EnvsFound
    <2>2. CASE mods # <<>>
      BY <1>1, <1>4, <1>5, <2>2 DEF EnvsFound, RunPhases
    <2>3. QED
      BY <2>1, <2>2
  <1>10. RoundInOrder' /\ UniqueIdsGetOwnEnvironment' /\ RunsInLoadOrder'
    BY <1>1, <1>4 DEF RoundInOrder, UniqueIdsGetOwnEnvironment, RunsInLoadOrder
  <1>11. QED
    BY <1>6, <1>7, <1>8, <1>9, <1>10

-----------------------------------------------------------------------------
(* The loops.                                                              *)

(* A turn of a loop goes to the next mod or, after the last, on to the     *)
(* first of the next loop.                                                 *)
LEMMA AdvanceIs ==
  ASSUME IInv, NEW this \in LoopPhases, NEW next, Advance(this, next)
  PROVE  /\ phase = this /\ k \in DOMAIN mods /\ k \in Nat /\ mods \in Seq(ModInfo)
         /\ \/ k < Len(mods) /\ k' = k + 1 /\ k' \in DOMAIN mods /\ phase' = this
            \/ k' = 1 /\ 1 \in DOMAIN mods /\ phase' = next /\ \A n \in DOMAIN mods : n <= k
  <1>1. phase = this /\ k \in DOMAIN mods /\ mods \in Seq(ModInfo)
    BY DEF Advance, IInv, InLoop, TypeOK
  <1>2. k \in Nat /\ k <= Len(mods) /\ 1 <= k
    BY <1>1
  <1>3. CASE k < Len(mods)
    BY <1>1, <1>2, <1>3 DEF Advance
  <1>4. CASE ~(k < Len(mods))
    BY <1>1, <1>2, <1>4 DEF Advance
  <1>5. QED
    BY <1>3, <1>4

LEMMA ModsAreTyped ==
  ASSUME IInv, NEW n \in DOMAIN mods
  PROVE  /\ mods[n].dir \in Folders
         /\ mods[n].manifest \in Manifest /\ mods[n].manifest.id \in Ids
         /\ mods[n].manifest = Parse(disk[mods[n].dir].lines)
  <1>1. mods[n] \in ModInfo
    BY DEF IInv, TypeOK
  <1>2. mods[n].manifest.id # NoId /\ mods[n].manifest = Parse(disk[mods[n].dir].lines)
    BY DEF IInv, Collected, Keeps
  <1>3. QED
    BY <1>1, <1>2 DEF ModInfo, Manifest

(* In a sorted vector no mod is behind a later one.                        *)
LEMMA SortedIsInOrder ==
  ASSUME IInv, Sorted(mods), NEW m \in DOMAIN mods, NEW n \in DOMAIN mods, m < n
  PROVE  NotBehind(mods[m].dir, mods[n].dir)
  <1> DEFINE a == mods[m].manifest
             b == mods[n].manifest
  <1>1. ~Before(b, a)
    BY DEF Sorted
  <1>2. /\ a = Parse(disk[mods[m].dir].lines) /\ b = Parse(disk[mods[n].dir].lines)
        /\ a.id \in Ids /\ b.id \in Ids /\ a.loadPriority \in Int /\ b.loadPriority \in Int
    BY ModsAreTyped DEF Manifest
  <1>3. IdRank[a.id] \in Nat /\ IdRank[b.id] \in Nat
    BY <1>2, LoaderAssumption
  <1> HIDE DEF a, b
  <1>4. QED
    BY <1>1, <1>2, <1>3 DEF Before, NotBehind

(* What a turn of any loop leaves as it was.                               *)
LEMMA LoopKeepsRest ==
  ASSUME IInv, NEW this \in LoopPhases, NEW next \in {"settings", "main", "done"},
         Advance(this, next), this = "envs" => next = "settings",
         this = "settings" => next = "main", this = "main" => next = "done",
         UNCHANGED <<disk, layer, left, mods>>,
         this = "envs" => ran' = ran, this # "main" => inactive' = inactive
  PROVE  Collected' /\ InLoop' /\ phase' \in {"envs", "settings", "main", "done"}
  <1> USE DEF IInv, LoopPhases
  <1>1. Collected'
    BY DEF Collected
  <1>2. InLoop'
    BY AdvanceIs DEF InLoop, Sorted
  <1>3. QED
    BY <1>1, <1>2, AdvanceIs

LEMMA MakeEnvKeepsInv == ASSUME IInv, MakeEnv PROVE IInv'
  <1> USE DEF IInv
  <1>1. /\ Advance("envs", "settings") /\ envs' = [envs EXCEPT ![mods[k].manifest.id] = mods[k].dir]
        /\ UNCHANGED <<disk, layer, left, mods, ran, inactive>>
    BY DEF MakeEnv
  <1>2. /\ phase = "envs" /\ k \in DOMAIN mods /\ k \in Nat /\ mods \in Seq(ModInfo)
        /\ \/ k < Len(mods) /\ k' = k + 1 /\ k' \in DOMAIN mods /\ phase' = "envs"
           \/ k' = 1 /\ 1 \in DOMAIN mods /\ phase' = "settings" /\ \A n \in DOMAIN mods : n <= k
    BY <1>1, AdvanceIs DEF LoopPhases
  <1>3. Collected' /\ InLoop'
    BY <1>1, LoopKeepsRest DEF LoopPhases
  <1>4. \A n \in DOMAIN mods : mods[n].manifest.id \in Ids /\ mods[n].dir \in Folders
    BY ModsAreTyped
  <1>5. envs \in [Ids -> Folders \cup {NoEnv}] /\ ran = <<>>
    BY <1>2 DEF TypeOK, InLoop
  <1>6. envs' \in [Ids -> Folders \cup {NoEnv}]
    BY <1>1, <1>2, <1>4, <1>5
  <1>7. TypeOK'
    <2>1. k' = 1 \/ k' \in 2 .. Len(mods')
      BY <1>1, <1>2
    <2>2. phase' \in {"layer", "scan", "envs", "settings", "main", "done"}
      BY <1>2
    <2>3. QED
      BY <1>1, <1>6, <2>1, <2>2 DEF TypeOK
  <1>8. EnvsFound'
    <2> SUFFICES ASSUME NEW n \in DOMAIN mods, HasOwnId(n)
                 PROVE  /\ phase' = "envs" /\ n < k' => envs'[mods[n].manifest.id] = mods[n].dir
                        /\ phase' \in RunPhases => envs'[mods[n].manifest.id] = mods[n].dir
      BY <1>1 DEF EnvsFound, HasOwnId
    <2>1. n < k => envs'[mods[n].manifest.id] = mods[n].dir
      <3>1. n < k => envs[mods[n].manifest.id] = mods[n].dir
        BY <1>2 DEF EnvsFound
      <3>2. n < k => mods[n].manifest.id # mods[k].manifest.id
        BY <1>2 DEF HasOwnId
      <3>3. QED
        BY <1>1, <1>2, <1>4, <1>5, <3>1, <3>2
    <2>2. n = k => envs'[mods[n].manifest.id] = mods[n].dir
      BY <1>1, <1>2, <1>4, <1>5
    <2>3. n < k + 1 => n < k \/ n = k
      BY <1>2
    <2>4. n <= k => n < k \/ n = k
      BY <1>2
    <2>5. QED
      BY <1>2, <2>1, <2>2, <2>3, <2>4 DEF RunPhases
  <1>9. ran' = <<>>
    BY <1>1, <1>5
  <1>10. RoundInOrder' /\ UniqueIdsGetOwnEnvironment' /\ RunsInLoadOrder'
    BY <1>9 DEF RoundInOrder, UniqueIdsGetOwnEnvironment, RunsInLoadOrder
  <1>11. QED
    BY <1>3, <1>7, <1>8, <1>10

(* A turn of one of the two rounds, which runs the mod's script or not.    *)
LEMMA RoundKeepsInv ==
  ASSUME IInv, NEW this \in {"settings", "main"}, NEW next, NEW script,
         next = IF this = "settings" THEN "main" ELSE "done",
         Advance(this, next), RunChunk(this, script),
         UNCHANGED <<disk, layer, left, mods, envs>>,
         inactive' \subseteq Folders, this = "settings" => inactive' = inactive
  PROVE  IInv'
  <1> DEFINE Chunk == [file : {"settings", "main"}, dir : Folders, env : Folders \cup {NoEnv}]
             new == [file |-> this, dir |-> mods[k].dir, env |-> envs[mods[k].manifest.id]]
  <1>1. /\ phase = this /\ k \in DOMAIN mods /\ k \in Nat /\ mods \in Seq(ModInfo)
        /\ \/ k < Len(mods) /\ k' = k + 1 /\ k' \in DOMAIN mods /\ phase' = this
           \/ k' = 1 /\ 1 \in DOMAIN mods /\ phase' = next /\ \A n \in DOMAIN mods : n <= k
    BY AdvanceIs DEF LoopPhases
  <1>2. Collected' /\ InLoop'
    BY LoopKeepsRest DEF LoopPhases
  <1>3. \A n \in DOMAIN mods : mods[n].manifest.id \in Ids /\ mods[n].dir \in Folders
    BY ModsAreTyped
  <1>4. envs \in [Ids -> Folders \cup {NoEnv}] /\ ran \in Seq(Chunk)
    BY DEF IInv, TypeOK
  <1>5. new \in Chunk /\ new.file = this /\ new.dir = mods[k].dir /\ new.env = envs[mods[k].manifest.id]
    BY <1>1, <1>3, <1>4
  <1>6. ran' = ran \/ ran' = Append(ran, new)
    BY DEF RunChunk
  <1> HIDE DEF new, Chunk
  <1>7. /\ ran' \in Seq(Chunk)
        /\ \A i \in DOMAIN ran : i \in DOMAIN ran' /\ ran'[i] = ran[i]
        /\ \A i \in DOMAIN ran' : i \in DOMAIN ran \/ (i = Len(ran) + 1 /\ ran'[i] = new)
    <2>1. CASE ran' = ran
      BY <1>4, <2>1
    <2>2. CASE ran' = Append(ran, new)
      BY <1>4, <1>5, <2>2
    <2>3. QED
      BY <1>6, <2>1, <2>2
  <1>8. TypeOK'
    <2>1. k' = 1 \/ k' \in 2 .. Len(mods')
      BY <1>1
    <2>2. phase' \in {"layer", "scan", "envs", "settings", "main", "done"}
      BY <1>1
    <2>3. QED
      BY <1>7, <2>1, <2>2 DEF IInv, TypeOK, Chunk
  <1>9. EnvsFound'
    BY <1>1 DEF IInv, EnvsFound, HasOwnId, RunPhases
  <1>10. /\ this = "settings" => \A i \in DOMAIN ran' : ran'[i].file = "settings"
         /\ \A i \in DOMAIN ran : ran[i].file = this => NotBehind(ran[i].dir, mods[k].dir)
    <2>1. \A i \in DOMAIN ran : ran[i].file = this => NotBehind(ran[i].dir, mods[k].dir)
      BY <1>1 DEF IInv, RoundInOrder
    <2>2. this = "settings" => \A i \in DOMAIN ran : ran[i].file = "settings"
      BY <1>1 DEF IInv, RoundInOrder
    <2>3. QED
      BY <1>5, <1>7, <2>1, <2>2
  <1>11. RoundInOrder'
    <2>1. ASSUME phase' = this, NEW i \in DOMAIN ran', ran'[i].file = this,
                 NEW n \in DOMAIN mods, k' <= n
          PROVE  NotBehind(ran'[i].dir, mods[n].dir)
      <3>1. k' = k + 1 /\ k < n /\ k <= n
        BY <1>1, <2>1
      <3>2. CASE i \in DOMAIN ran
        BY <1>1, <1>7, <2>1, <3>1, <3>2 DEF IInv, RoundInOrder
      <3>3. CASE ran'[i] = new
        <4>1. Sorted(mods)
          BY <1>1 DEF IInv, InLoop, LoopPhases
        <4>2. NotBehind(mods[k].dir, mods[n].dir)
          BY <1>1, <2>1, <3>1, <4>1, SortedIsInOrder
        <4>3. QED
          BY <1>5, <3>3, <4>2
      <3>4. QED
        BY <1>7, <3>2, <3>3
    <2>2. ASSUME phase' # this, phase' = "main"
          PROVE  \A i \in DOMAIN ran' : ran'[i].file # "main"
      BY <1>1, <1>10, <2>2
    <2>3. phase' = "settings" => \A i \in DOMAIN ran' : ran'[i].file = "settings"
      BY <1>1, <1>10
    <2>4. \A d, e : NotBehind(d, e)' = NotBehind(d, e)
      BY DEF NotBehind
    <2>5. phase' \in {this, "main", "done"}
      BY <1>1
    <2>6. QED
      BY <2>1, <2>2, <2>3, <2>4, <2>5 DEF RoundInOrder
  <1>12. UniqueIdsGetOwnEnvironment'
    <2> SUFFICES ASSUME NEW i \in 1 .. Len(ran'), NEW n \in DOMAIN mods,
                        mods[n].dir = ran'[i].dir, HasOwnId(n)
                 PROVE  ran'[i].env = mods[n].dir
      BY DEF UniqueIdsGetOwnEnvironment, HasOwnId
    <2>1. CASE i \in DOMAIN ran
      <3>1. i \in 1 .. Len(ran)
        BY <1>4, <2>1
      <3>2. QED
        BY <1>7, <2>1, <3>1 DEF IInv, UniqueIdsGetOwnEnvironment
    <2>2. CASE ran'[i] = new
      <3>1. n = k
        BY <1>1, <1>5, <2>2 DEF IInv, Collected
      <3>2. QED
        BY <1>1, <1>5, <2>2, <3>1 DEF IInv, EnvsFound, RunPhases
    <2>3. QED
      BY <1>7, <2>1, <2>2
  <1>13. RunsInLoadOrder'
    <2> SUFFICES ASSUME NEW i \in 1 .. Len(ran'), NEW j \in 1 .. Len(ran'), i < j
                 PROVE  /\ ran'[j].file = "settings" => ran'[i].file = "settings"
                        /\ ran'[i].file = ran'[j].file => NotBehind(ran'[i].dir, ran'[j].dir)
      BY DEF RunsInLoadOrder, NotBehind
    <2>1. i \in DOMAIN ran /\ ran'[i] = ran[i]
      <3>1. i \in DOMAIN ran' /\ j \in DOMAIN ran' /\ Len(ran) \in Nat /\ DOMAIN ran = 1 .. Len(ran)
        BY <1>4, <1>7
      <3>2. j <= Len(ran) + 1 /\ j \in Nat
        BY <1>7, <3>1
      <3>3. i # Len(ran) + 1
        BY <3>1, <3>2
      <3>4. QED
        BY <1>7, <3>1, <3>3
    <2>2. CASE j \in DOMAIN ran
      <3>1. i \in 1 .. Len(ran) /\ j \in 1 .. Len(ran) /\ ran'[j] = ran[j]
        BY <1>4, <1>7, <2>1, <2>2
      <3>2. QED
        BY <2>1, <3>1 DEF IInv, RunsInLoadOrder, NotBehind
    <2>3. CASE ran'[j] = new
      BY <1>5, <1>10, <1>7, <2>1, <2>3
    <2>4. QED
      BY <1>7, <2>2, <2>3
  <1>14. QED
    BY <1>2, <1>8, <1>9, <1>11, <1>12, <1>13 DEF IInv

LEMMA InvNext == IInv /\ [Next]_vars => IInv'
  <1> SUFFICES ASSUME IInv, [Next]_vars PROVE IInv'
    OBVIOUS
  <1>1. ASSUME RunSettings PROVE IInv'
    BY <1>1, RoundKeepsInv DEF RunSettings, IInv, TypeOK
  <1>2. ASSUME RunMain PROVE IInv'
    <2>1. phase = "main" /\ k \in DOMAIN mods
      BY <1>2, AdvanceIs DEF RunMain, LoopPhases
    <2>2. inactive' \subseteq Folders
      BY <1>2, <2>1, ModsAreTyped DEF RunMain, IInv, TypeOK
    <2>3. QED
      BY <1>2, <2>2, RoundKeepsInv DEF RunMain
  <1>3. ASSUME UNCHANGED vars PROVE IInv'
    <2> USE DEF IInv, vars
    <2>1. TypeOK' /\ Collected'
      BY <1>3 DEF TypeOK, Collected
    <2>2. InLoop' /\ EnvsFound'
      BY <1>3 DEF InLoop, Sorted, EnvsFound, HasOwnId
    <2>3. RoundInOrder'
      BY <1>3 DEF RoundInOrder, NotBehind
    <2>4. UniqueIdsGetOwnEnvironment' /\ RunsInLoadOrder'
      BY <1>3 DEF UniqueIdsGetOwnEnvironment, HasOwnId, RunsInLoadOrder
    <2>5. QED
      BY <2>1, <2>2, <2>3, <2>4
  <1>4. QED
    BY <1>1, <1>2, <1>3, LayerKeepsInv, VisitKeepsInv, SortKeepsInv, MakeEnvKeepsInv DEF Next

-----------------------------------------------------------------------------
(* The main.lua of the mods that the last loop is through with have run,   *)
(* each once, and no other has; those that did not end well are inactive.  *)
Over(n) == phase = "done" \/ (phase = "main" /\ n < k)
Runs(d) == disk[d].main \in {"ok", "raises"}
RanMain(i, d) == ran[i].file = "main" /\ ran[i].dir = d

MainsRun ==
  /\ \A i \in DOMAIN ran : ran[i].file = "main" =>
       \E n \in DOMAIN mods : Over(n) /\ RanMain(i, mods[n].dir) /\ Runs(mods[n].dir)
  /\ \A i, j \in DOMAIN ran : ran[i].file = "main" /\ RanMain(j, ran[i].dir) => i = j
  /\ \A n \in DOMAIN mods : Over(n) /\ Runs(mods[n].dir) => \E i \in DOMAIN ran : RanMain(i, mods[n].dir)
  /\ inactive = {d \in Folders :
                   \E n \in DOMAIN mods : Over(n) /\ mods[n].dir = d /\ disk[d].main # "ok"}

(* Before the last loop.                                                   *)
LEMMA NoMainYet ==
  ASSUME \A i \in DOMAIN ran : ran[i].file # "main", inactive = {}, \A n \in DOMAIN mods : ~Over(n)
  PROVE  MainsRun
  BY DEF MainsRun, RanMain

LEMMA MainsInit == Init => MainsRun
  <1> SUFFICES ASSUME Init PROVE MainsRun
    OBVIOUS
  <1>1. DOMAIN ran = {} /\ inactive = {} /\ DOMAIN mods = {}
    BY DEF Init
  <1>2. QED
    BY <1>1, NoMainYet

LEMMA EarlyKeepsMains ==
  ASSUME IInv,
         LoadLayer \/ Sort \/ MakeEnv \/ RunSettings \/ \E d \in Folders : Visit(d)
  PROVE  MainsRun'
  <1> USE DEF IInv
  <1>1. CASE LoadLayer \/ \E d \in Folders : Visit(d)
    <2>1. phase' = "scan" /\ ran' = <<>> /\ inactive' = {}
      BY <1>1 DEF LoadLayer, Visit, InLoop
    <2>2. QED
      BY <2>1 DEF MainsRun, Over
  <1>2. CASE Sort
    <2>1. /\ phase = "scan" /\ UNCHANGED <<ran, inactive>>
          /\ phase' = IF mods = <<>> THEN "done" ELSE "envs"
          /\ \E p \in Bijection(DOMAIN mods, DOMAIN mods) : mods' = [i \in DOMAIN mods |-> mods[p[i]]]
      BY <1>2 DEF Sort
    <2>2. DOMAIN mods' = DOMAIN mods /\ ran' = <<>> /\ inactive' = {}
      BY <2>1 DEF InLoop
    <2>3. phase' = "envs" \/ DOMAIN mods' = {}
      BY <2>1, <2>2
    <2>4. QED
      BY <2>2, <2>3 DEF MainsRun, Over
  <1>3. CASE MakeEnv
    <2>1. Advance("envs", "settings") /\ UNCHANGED <<mods, ran, inactive>>
      BY <1>3 DEF MakeEnv
    <2>2. phase' \in {"envs", "settings"} /\ ran' = <<>> /\ inactive' = {}
      BY <2>1, AdvanceIs DEF LoopPhases, InLoop
    <2>3. QED
      BY <2>2 DEF MainsRun, Over
  <1>4. CASE RunSettings
    <2> DEFINE new == [file |-> "settings", dir |-> mods[k].dir, env |-> envs[mods[k].manifest.id]]
    <2>1. /\ Advance("settings", "main") /\ UNCHANGED <<mods, inactive>>
          /\ ran' = ran \/ ran' = Append(ran, new)
      BY <1>4 DEF RunSettings, RunChunk
    <2>2. /\ phase = "settings" /\ mods \in Seq(ModInfo)
          /\ phase' = "settings" \/ (phase' = "main" /\ k' = 1)
      BY <2>1, AdvanceIs DEF LoopPhases
    <2>3. (\A i \in DOMAIN ran : ran[i].file = "settings") /\ inactive' = {}
      BY <2>1, <2>2 DEF RoundInOrder, InLoop
    <2>4. new.file = "settings" /\ \E S : ran \in Seq(S) /\ new \in S
      <3>1. mods[k].dir \in Folders /\ mods[k].manifest.id \in Ids
        BY <2>1, AdvanceIs, ModsAreTyped DEF LoopPhases
      <3>2. new \in [file : {"settings", "main"}, dir : Folders, env : Folders \cup {NoEnv}]
        BY <3>1 DEF TypeOK
      <3>3. QED
        BY <3>2 DEF TypeOK
    <2> HIDE DEF new
    <2>5. \A i \in DOMAIN ran' : ran'[i].file = "settings"
      BY <2>1, <2>3, <2>4
    <2>6. \A n \in DOMAIN mods' : ~Over(n)'
      BY <2>1, <2>2 DEF Over
    <2>7. QED
      BY <2>3, <2>5, <2>6 DEF MainsRun, RanMain
  <1>5. QED
    BY <1>1, <1>2, <1>3, <1>4

LEMMA RunMainKeepsMains == ASSUME IInv, MainsRun, RunMain PROVE MainsRun'
  <1> DEFINE here == mods[k].dir
             new  == [file |-> "main", dir |-> here, env |-> envs[mods[k].manifest.id]]
  <1>1. /\ Advance("main", "done") /\ UNCHANGED <<disk, mods, envs>>
        /\ ran' = IF Runs(here) THEN Append(ran, new) ELSE ran
        /\ inactive' = IF disk[here].main = "ok" THEN inactive ELSE inactive \cup {here}
    BY DEF RunMain, RunChunk, Runs
  <1>2. /\ phase = "main" /\ k \in DOMAIN mods /\ k \in Nat /\ mods \in Seq(ModInfo)
        /\ \/ k' = k + 1 /\ phase' = "main"
           \/ k' = 1 /\ phase' = "done" /\ \A n \in DOMAIN mods : n <= k
    BY <1>1, AdvanceIs DEF LoopPhases
  <1>3. PICK m \in DOMAIN mods : m = k
    BY <1>2
  <1>4. \A n \in DOMAIN mods : Over(n)' <=> Over(n) \/ n = m
    BY <1>1, <1>2, <1>3 DEF Over
  <1>5. ~Over(m) /\ mods[m].dir = here /\ \A n \in DOMAIN mods : mods[n].dir = here => n = m
    BY <1>2, <1>3 DEF Over, IInv, Collected
  <1>6. here \in Folders
    BY <1>2, ModsAreTyped
  <1>7. /\ \A i \in DOMAIN ran : i \in DOMAIN ran' /\ ran'[i] = ran[i]
        /\ \A i \in DOMAIN ran' : i \in DOMAIN ran \/ (Runs(here) /\ i = Len(ran) + 1 /\ ran'[i] = new)
        /\ Runs(here) => Len(ran) + 1 \in DOMAIN ran' /\ ran'[Len(ran) + 1] = new
    <2>1. \E S : ran \in Seq(S) /\ new \in S
      <3>1. mods[k].manifest.id \in Ids
        BY <1>2, ModsAreTyped
      <3>2. new \in [file : {"settings", "main"}, dir : Folders, env : Folders \cup {NoEnv}]
        BY <1>6, <3>1 DEF IInv, TypeOK
      <3>3. QED
        BY <3>2 DEF IInv, TypeOK
    <2> HIDE DEF new
    <2>2. QED
      BY <1>1, <2>1
  <1>8. new.file = "main" /\ new.dir = here
    OBVIOUS
  <1> HIDE DEF new, here
  <1>9. \A n \in DOMAIN mods : mods[n].dir \in Folders
    BY ModsAreTyped
  <1>10. \A i \in DOMAIN ran : ~RanMain(i, here)
    BY <1>5 DEF MainsRun, RanMain
  <1>11. ASSUME NEW i \in DOMAIN ran', ran'[i].file = "main"
         PROVE  \E n \in DOMAIN mods : /\ Over(n)' /\ Runs(mods[n].dir)
                                        /\ ran'[i].dir = mods[n].dir
    <2>1. CASE i \in DOMAIN ran
      <3>1. PICK n \in DOMAIN mods : Over(n) /\ RanMain(i, mods[n].dir) /\ Runs(mods[n].dir)
        BY <1>7, <1>11, <2>1 DEF MainsRun
      <3>2. QED
        BY <1>4, <1>7, <2>1, <3>1 DEF RanMain
    <2>2. CASE Runs(here) /\ ran'[i] = new
      BY <1>4, <1>5, <1>8, <2>2
    <2>3. QED
      BY <1>7, <2>1, <2>2
  <1>12. ASSUME NEW i \in DOMAIN ran', NEW j \in DOMAIN ran',
                ran'[i].file = "main", ran'[j].file = "main", ran'[j].dir = ran'[i].dir
         PROVE  i = j
    <2>1. CASE i \in DOMAIN ran /\ j \in DOMAIN ran
      BY <1>7, <1>12, <2>1 DEF MainsRun, RanMain
    <2>2. CASE i \notin DOMAIN ran
      <3>1. ran'[i] = new /\ i = Len(ran) + 1
        BY <1>7, <2>2
      <3>2. j \notin DOMAIN ran
        BY <1>7, <1>8, <1>10, <1>12, <3>1 DEF RanMain
      <3>3. QED
        BY <1>7, <3>1, <3>2
    <2>3. CASE j \notin DOMAIN ran
      <3>1. ran'[j] = new /\ j = Len(ran) + 1
        BY <1>7, <2>3
      <3>2. i \notin DOMAIN ran
        BY <1>7, <1>8, <1>10, <1>12, <3>1 DEF RanMain
      <3>3. QED
        BY <1>7, <3>1, <3>2
    <2>4. QED
      BY <2>1, <2>2, <2>3
  <1>13. ASSUME NEW n \in DOMAIN mods, Over(n)', Runs(mods[n].dir)
         PROVE  \E i \in DOMAIN ran' : ran'[i].file = "main" /\ ran'[i].dir = mods[n].dir
    <2>1. CASE Over(n)
      <3>1. PICK i \in DOMAIN ran : RanMain(i, mods[n].dir)
        BY <1>13, <2>1 DEF MainsRun
      <3>2. QED
        BY <1>7, <3>1 DEF RanMain
    <2>2. CASE n = m
      BY <1>5, <1>7, <1>8, <1>13, <2>2
    <2>3. QED
      BY <1>4, <1>13, <2>1, <2>2
  <1>14. inactive' = {d \in Folders :
                       \E n \in DOMAIN mods : Over(n)' /\ mods[n].dir = d /\ disk[d].main # "ok"}
    <2>1. inactive = {d \in Folders :
                        \E n \in DOMAIN mods : Over(n) /\ mods[n].dir = d /\ disk[d].main # "ok"}
      BY DEF MainsRun
    <2>2. CASE disk[here].main = "ok"
      <3>1. inactive' = inactive
        BY <1>1, <2>2
      <3>2. ASSUME NEW n \in DOMAIN mods, NEW d \in Folders, mods[n].dir = d, disk[d].main # "ok"
            PROVE  Over(n)' <=> Over(n)
        BY <1>4, <1>5, <2>2, <3>2
      <3>3. QED
        BY <2>1, <3>1, <3>2
    <2>3. CASE disk[here].main # "ok"
      <3>1. inactive' = inactive \cup {here}
        BY <1>1, <2>3
      <3>2. ASSUME NEW d \in Folders, d # here, NEW n \in DOMAIN mods, mods[n].dir = d
            PROVE  Over(n)' <=> Over(n)
        BY <1>4, <1>5, <3>2
      <3>3. Over(m)' /\ mods[m].dir = here
        BY <1>4, <1>5
      <3>4. QED
        BY <1>6, <2>1, <2>3, <3>1, <3>2, <3>3
    <2>4. QED
      BY <2>2, <2>3
  <1>15. (\A n \in DOMAIN mods : Runs(mods[n].dir)' <=> Runs(mods[n].dir)) /\ mods' = mods
    BY <1>1, <1>9 DEF Runs
  <1>16. QED
    BY <1>1, <1>11, <1>12, <1>13, <1>14, <1>15 DEF MainsRun, RanMain

LEMMA MainsNext == IInv /\ MainsRun /\ [Next]_vars => MainsRun'
  <1>1. ASSUME MainsRun, UNCHANGED vars PROVE MainsRun'
    BY <1>1 DEF MainsRun, Over, Runs, RanMain, vars
  <1>2. QED
    BY <1>1, EarlyKeepsMains, RunMainKeepsMains DEF Next

(* When nothing is left to run, what has run is what was to be loaded.     *)
LEMMA MainsSuffice == IInv /\ MainsRun => EveryModRunsOnce
  <1> SUFFICES ASSUME IInv, MainsRun, phase = "done" PROVE EveryModRunsOnce
    BY DEF EveryModRunsOnce
  <1>1. left = {} /\ \A n \in DOMAIN mods : Over(n)
    BY DEF IInv, InLoop, LoopPhases, Over
  <1>2. ASSUME NEW d \in Folders
        PROVE  Loadable(d) <=> \E n \in DOMAIN mods : mods[n].dir = d
    <2>1. Loadable(d) <=> Keeps(disk[d])
      BY KeepsIsLoadable DEF IInv, TypeOK
    <2>2. QED
      BY <1>1, <2>1 DEF IInv, Collected
  <1>3. DOMAIN ran = 1 .. Len(ran)
    BY DEF IInv, TypeOK
  <1>4. ASSUME NEW d \in Folders
        PROVE  Cardinality(RunsOf("main", d)) =
                 IF Loadable(d) /\ disk[d].main \in {"ok", "raises"} THEN 1 ELSE 0
    <2> DEFINE At == RunsOf("main", d)
    <2>1. At = {i \in DOMAIN ran : RanMain(i, d)}
      BY <1>3 DEF RunsOf, RanMain
    <2>2. \A i, j \in At : i = j
      BY <2>1 DEF MainsRun, RanMain
    <2>3. At # {} <=> Loadable(d) /\ Runs(d)
      <3>1. ASSUME NEW i \in At PROVE Loadable(d) /\ Runs(d)
        BY <1>2, <2>1, <3>1 DEF MainsRun, RanMain
      <3>2. ASSUME Loadable(d), Runs(d) PROVE At # {}
        BY <1>1, <1>2, <2>1, <3>2 DEF MainsRun
      <3>3. QED
        BY <3>1, <3>2
    <2> HIDE DEF At
    <2>4. CASE At = {}
      <3>1. Cardinality(At) = 0
        BY <2>4, FS_EmptySet
      <3>2. QED
        BY <2>3, <2>4, <3>1 DEF Runs, At
    <2>5. CASE At # {}
      <3>1. PICK i \in At : TRUE
        BY <2>5
      <3>2. At = {i}
        BY <2>2, <3>1
      <3>3. Cardinality(At) = 1
        BY <3>2, FS_Singleton
      <3>4. QED
        BY <2>3, <2>5, <3>3 DEF Runs, At
    <2>6. QED
      BY <2>4, <2>5
  <1>5. inactive = {d \in Folders : Loadable(d) /\ disk[d].main # "ok"}
    BY <1>1, <1>2 DEF MainsRun
  <1>6. QED
    BY <1>4, <1>5 DEF EveryModRunsOnce

-----------------------------------------------------------------------------
(* What relates the folders, the mods found, the environments and the      *)
(* chunks run is kept by every step.                                       *)
THEOREM LoaderInvariant == Spec => []IInv
  BY InvInit, InvNext, PTL DEF Spec

(* The loader's state is well typed, and no loop runs past the mods.       *)
THEOREM LoaderTypeCorrect == Spec => []TypeOK
  <1>1. IInv => TypeOK
    BY DEF IInv
  <1>2. QED
    BY <1>1, LoaderInvariant, PTL

(* All settings come before all mains, and either round goes by priority   *)
(* and id, whatever the folders' order and whatever std::sort does with    *)
(* mods it cannot tell apart.                                              *)
THEOREM LoadOrderHolds == Spec => []RunsInLoadOrder
  <1>1. IInv => RunsInLoadOrder
    BY DEF IInv
  <1>2. QED
    BY <1>1, LoaderInvariant, PTL

(* A mod whose id no other mod has runs in its own environment, also when  *)
(* there are others that share theirs.                                     *)
THEOREM EnvironmentsAreOwn == Spec => []UniqueIdsGetOwnEnvironment
  <1>1. IInv => UniqueIdsGetOwnEnvironment
    BY DEF IInv
  <1>2. QED
    BY <1>1, LoaderInvariant, PTL

(* When load_mods returns, exactly the folders that are mods for this game *)
(* have had their main.lua run, each once, and those whose main.lua failed *)
(* are reported inactive; for any folders, manifests and failures.         *)
THEOREM ModsRunOnce == Spec => []EveryModRunsOnce
  <1>1. Init => IInv /\ MainsRun
    BY InvInit, MainsInit
  <1>2. IInv /\ MainsRun /\ [Next]_vars => IInv' /\ MainsRun'
    BY InvNext, MainsNext
  <1>3. QED
    BY <1>1, <1>2, MainsSuffice, PTL DEF Spec
=============================================================================
