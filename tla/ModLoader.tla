----------------------------- MODULE ModLoader -----------------------------
(***************************************************************************)
(* Finding and loading Lua mods (src/src/host/modinfo.cpp, modloader.cpp). *)
(*                                                                         *)
(* The loader visits the folders in the order the file system gives them,  *)
(* keeps those that are Lua mods for this game revision, sorts them, makes *)
(* an environment for each, runs every settings.lua and then every         *)
(* main.lua.  Each chunk is run under its own protected call, so a mod     *)
(* that fails does not keep the others from loading.                       *)
(***************************************************************************)
EXTENDS Integers, Sequences, FiniteSets, Functions

CONSTANTS Folders,    \* the folders under mods/
          Contents,   \* what a folder may hold, see IsContent below
          Ids,        \* mod ids
          IdRank,     \* the rank of an id in string order
          NoId,       \* the empty string
          NotANumber, \* a value stoul and strtol cannot read
          NoEnv,      \* no entry in the environment table
          Revision,   \* gameRevision
          U32,        \* 2^32: width of the version fields
          ULong       \* 2^w of unsigned long: 2^32 on Windows, 2^64 on Linux

ASSUME LoaderAssumption ==
  /\ IdRank \in [Ids -> Nat] /\ NoId \notin Ids /\ NoEnv \notin Folders /\ NotANumber \notin Ids
  /\ U32 \in Nat /\ ULong \in Nat /\ 999999 < U32 /\ U32 <= ULong
  /\ Revision \in 0 .. U32 - 1
  /\ \A i, j \in Ids : IdRank[i] = IdRank[j] => i = j

Default    == [id |-> NoId, minGameVersion |-> 0, maxGameVersion |-> 999999, loadPriority |-> 0]
Scripts    == {"absent", "broken", "raises", "ok"}

(* A folder: the two scripts, and the key: value lines of its manifest.    *)
(* Lines without a value are skipped and not among them, so that an id is  *)
(* never empty; what the other keys say is not looked at.                  *)
LineKeys == {"id", "minGameVersion", "maxGameVersion", "loadPriority", "other"}
ValuesOf(key) == IF key = "id" THEN Ids ELSE {NotANumber} \cup Int
IsContent(content) ==
  /\ content.settings \in Scripts /\ content.main \in Scripts
  /\ content.hasManifest \in BOOLEAN
  /\ DOMAIN content.lines = 1 .. Len(content.lines) /\ Len(content.lines) \in Nat
  /\ \A n \in 1 .. Len(content.lines) :
       /\ content.lines[n].key \in LineKeys
       /\ content.lines[n].value \in ValuesOf(content.lines[n].key)

ASSUME ContentsAssumption == \A content \in Contents : IsContent(content)

VARIABLES disk,      \* what each folder holds
          layer,     \* what mods see as mina: the host's table or the layer's
          phase,     \* what load_mods is doing
          left,      \* folders the scan has not visited
          mods,      \* the ModInfo vector
          k,         \* the index of the running loop over mods
          envs,      \* "minamodlua.envs": id -> the folder its environment is for
          ran,       \* history: the chunks run, in order
          inactive   \* the mods reported as "failed to load and is inactive"

vars == <<disk, layer, phase, left, mods, k, envs, ran, inactive>>

-----------------------------------------------------------------------------
(* parse_manifest.                                                         *)

(* std::stoul throws where there is no number, or one whose digits exceed  *)
(* unsigned long; of a negative one it returns the unsigned negation.      *)
StoulReads(value) == value # NotANumber /\ -ULong < value /\ value < ULong

(* to_u32: stoul, narrowed; what throws leaves the field alone.            *)
ToU32(value, old) == IF StoulReads(value) THEN (value % ULong) % U32 ELSE old

(* strtol goes to the nearest long there is, or to 0 without a number; and *)
(* the cast to int32_t keeps the low bits.                                 *)
Strtol(value) ==
  CASE value = NotANumber      -> 0
    [] value < -(ULong \div 2)  -> -(ULong \div 2)
    [] value >= ULong \div 2    -> ULong \div 2 - 1
    [] OTHER                   -> value
ToPriority(value) == ((Strtol(value) + U32 \div 2) % U32) - U32 \div 2

ReadLine(info, line) ==
  CASE line.key = "id"             -> [info EXCEPT !.id = line.value]
    [] line.key = "minGameVersion" -> [info EXCEPT !.minGameVersion = ToU32(line.value, @)]
    [] line.key = "maxGameVersion" -> [info EXCEPT !.maxGameVersion = ToU32(line.value, @)]
    [] line.key = "loadPriority"   -> [info EXCEPT !.loadPriority = ToPriority(line.value)]
    [] OTHER                       -> info

(* The loop over the lines: what is known after the first n of them.       *)
Parse(lines) ==
  LET after[n \in 0 .. Len(lines)] ==
        IF n = 0 THEN Default ELSE ReadLine(after[n - 1], lines[n])
  IN  after[Len(lines)]

Manifest == [id : Ids \cup {NoId}, minGameVersion : Nat, maxGameVersion : Nat, loadPriority : Int]

(* A fault: the bounds themselves are shut out.                            *)
GatedAtBounds(info) ==
  \/ info.minGameVersion # 0 /\ Revision <= info.minGameVersion
  \/ info.maxGameVersion # 0 /\ Revision >= info.maxGameVersion

(* The game gates native mods on these; 0 is unconstrained.                *)
Gated(info) ==
  \/ info.minGameVersion # 0 /\ Revision < info.minGameVersion
  \/ info.maxGameVersion # 0 /\ Revision > info.maxGameVersion

(* The scan keeps a folder: it has both files, an id, and a fitting game.  *)
Keeps(content) ==
  /\ content.main # "absent"
  /\ content.hasManifest
  /\ Parse(content.lines).id # NoId
  /\ ~Gated(Parse(content.lines))

(* A fault: low priorities come first.                                     *)
BeforeAscending(a, b) ==
  IF a.loadPriority # b.loadPriority THEN a.loadPriority < b.loadPriority
  ELSE IdRank[a.id] < IdRank[b.id]

(* The comparator of discover_mods.                                        *)
Before(a, b) ==
  IF a.loadPriority # b.loadPriority THEN a.loadPriority > b.loadPriority
  ELSE IdRank[a.id] < IdRank[b.id]

(* What std::sort may leave: it is not stable, so mods the comparator does *)
(* not tell apart come in either order.                                    *)
Sorted(q) == \A i, j \in DOMAIN q : i < j => ~Before(q[j].manifest, q[i].manifest)

-----------------------------------------------------------------------------
Init ==
  /\ disk \in [Folders -> Contents]
  /\ layer = "host" /\ phase = "layer"
  /\ left = Folders /\ mods = <<>> /\ k = 1
  /\ envs = [i \in Ids |-> NoEnv]
  /\ ran = <<>> /\ inactive = {}

(* load_lua_layer: a layer that is missing, raises, or returns no table is *)
(* ignored.                                                                *)
LoadLayer ==
  /\ phase = "layer"
  /\ layer' \in {"host", "layer"}
  /\ phase' = "scan"
  /\ UNCHANGED <<disk, left, mods, k, envs, ran, inactive>>

Visit(d) ==
  /\ phase = "scan" /\ d \in left
  /\ left' = left \ {d}
  /\ mods' = IF Keeps(disk[d])
             THEN Append(mods, [dir |-> d, manifest |-> Parse(disk[d].lines)])
             ELSE mods
  /\ UNCHANGED <<disk, layer, phase, k, envs, ran, inactive>>

Sort ==
  /\ phase = "scan" /\ left = {}
  /\ \E p \in Bijection(DOMAIN mods, DOMAIN mods) : mods' = [i \in DOMAIN mods |-> mods[p[i]]]
  /\ Sorted(mods')
  /\ phase' = IF mods = <<>> THEN "done" ELSE "envs"
  /\ UNCHANGED <<disk, layer, left, k, envs, ran, inactive>>

(* A fault: the loops go one too far.                                      *)
AdvancePastEnd(this, next) ==
  /\ phase = this
  /\ IF k <= Len(mods) THEN k' = k + 1 /\ phase' = this
                       ELSE k' = 1 /\ phase' = next

(* The loops over mods: one after the other, each from the first mod.      *)
Advance(this, next) ==
  /\ phase = this
  /\ IF k < Len(mods) THEN k' = k + 1 /\ phase' = this
                      ELSE k' = 1 /\ phase' = next

(* A fault: every environment is made for the first mod.                   *)
MakeEnvOfFirst ==
  /\ Advance("envs", "settings")
  /\ envs' = [envs EXCEPT ![mods[k].manifest.id] = mods[1].dir]
  /\ UNCHANGED <<disk, layer, left, mods, ran, inactive>>

MakeEnv ==
  /\ Advance("envs", "settings")
  /\ envs' = [envs EXCEPT ![mods[k].manifest.id] = mods[k].dir]
  /\ UNCHANGED <<disk, layer, left, mods, ran, inactive>>

(* run_file: the chunk gets the environment found under the mod's id.  One *)
(* that raises has run up to there, and nothing of that is undone.         *)
RunChunk(file, script) ==
  IF script \in {"ok", "raises"}
  THEN ran' = Append(ran, [file |-> file, dir |-> mods[k].dir, env |-> envs[mods[k].manifest.id]])
  ELSE UNCHANGED ran

RunSettings ==
  /\ Advance("settings", "main")
  /\ RunChunk("settings", disk[mods[k].dir].settings)
  /\ UNCHANGED <<disk, layer, left, mods, envs, inactive>>

(* A fault: a main.lua that raises takes load_mods with it.                *)
RunMainUnprotected ==
  /\ phase = "main" /\ disk[mods[k].dir].main # "raises"
  /\ Advance("main", "done")
  /\ RunChunk("main", disk[mods[k].dir].main)
  /\ inactive' = IF disk[mods[k].dir].main = "ok" THEN inactive ELSE inactive \cup {mods[k].dir}
  /\ UNCHANGED <<disk, layer, left, mods, envs>>

RunMain ==
  /\ Advance("main", "done")
  /\ RunChunk("main", disk[mods[k].dir].main)
  /\ inactive' = IF disk[mods[k].dir].main = "ok" THEN inactive ELSE inactive \cup {mods[k].dir}
  /\ UNCHANGED <<disk, layer, left, mods, envs>>

Next == \/ LoadLayer
        \/ \E d \in Folders : Visit(d)
        \/ Sort \/ MakeEnv \/ RunSettings \/ RunMain

(* load_mods is one call: it goes on until it returns, if the chunks do.   *)
Spec == Init /\ [][Next]_vars /\ WF_vars(Next)

-----------------------------------------------------------------------------
ModInfo == [dir : Folders, manifest : Manifest]

(* The loader's state is well typed, and no loop runs past the mods.       *)
TypeOK ==
  /\ disk \in [Folders -> Contents]
  /\ layer \in {"host", "layer"}
  /\ phase \in {"layer", "scan", "envs", "settings", "main", "done"}
  /\ left \subseteq Folders
  /\ mods \in Seq(ModInfo)
  /\ k = 1 \/ k \in 2 .. Len(mods)
  /\ envs \in [Ids -> Folders \cup {NoEnv}]
  /\ ran \in Seq([file : {"settings", "main"}, dir : Folders, env : Folders \cup {NoEnv}])
  /\ inactive \subseteq Folders

(* What the first n lines of a manifest say of a key, without the parser:  *)
(* the value of the last one that has it and can be read, if any does.     *)
Counts(line, key) == line.key = key /\ (key # "id" => StoulReads(line.value))
SaidBy(n, lines, key, default) ==
  LET at == {i \in 1 .. n : Counts(lines[i], key)}
  IN  IF at = {} THEN default
      ELSE lines[CHOOSE i \in at : \A j \in at : j <= i].value
Says(lines, key, default) == SaidBy(Len(lines), lines, key, default)

(* A folder that is to be loaded: docs/how-it-works.md, step 8, and the    *)
(* revision range of its manifest, of which the fields take the low bits.  *)
Low32(value) == (value % ULong) % U32
Loadable(d) ==
  LET lines == disk[d].lines
      low   == Low32(Says(lines, "minGameVersion", 0))
      high  == Low32(Says(lines, "maxGameVersion", 999999))
  IN  /\ disk[d].main # "absent" /\ disk[d].hasManifest
      /\ Says(lines, "id", NoId) # NoId
      /\ low <= Revision
      /\ high = 0 \/ Revision <= high

RunsOf(file, d) == {i \in 1 .. Len(ran) : ran[i].file = file /\ ran[i].dir = d}

(* When load_mods returns, each folder that is a mod for this game had its *)
(* main.lua run once, whatever the mods before it did, and no other did;   *)
(* the mods reported inactive are those whose main.lua did not end well.   *)
EveryModRunsOnce ==
  phase = "done" =>
    /\ \A d \in Folders :
         Cardinality(RunsOf("main", d)) =
           IF Loadable(d) /\ disk[d].main \in {"ok", "raises"} THEN 1 ELSE 0
    /\ inactive = {d \in Folders : Loadable(d) /\ disk[d].main # "ok"}

(* Every settings.lua runs before any main.lua, and each of the two rounds *)
(* goes by falling priority and then by id.                                *)
RunsInLoadOrder ==
  \A i, j \in 1 .. Len(ran) : i < j =>
    /\ ran[j].file = "settings" => ran[i].file = "settings"
    /\ ran[i].file = ran[j].file =>
         LET a == Parse(disk[ran[i].dir].lines)
             b == Parse(disk[ran[j].dir].lines)
         IN  \/ a.loadPriority > b.loadPriority
             \/ a.loadPriority = b.loadPriority /\ IdRank[a.id] <= IdRank[b.id]

(* A chunk of a mod whose id no other mod has runs in that mod's own       *)
(* environment, also when other mods share an id among themselves.         *)
HasOwnId(n) == \A m \in DOMAIN mods : mods[m].manifest.id = mods[n].manifest.id => m = n
UniqueIdsGetOwnEnvironment ==
  \A i \in 1 .. Len(ran), n \in DOMAIN mods :
    mods[n].dir = ran[i].dir /\ HasOwnId(n) => ran[i].env = mods[n].dir

(* A failing mod does not keep load_mods from returning.                   *)
LoadingEnds == <>(phase = "done")
=============================================================================
