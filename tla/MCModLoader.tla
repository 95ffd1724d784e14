---------------------------- MODULE MCModLoader ----------------------------
(* Instances of ModLoader for TLC.                                         *)
EXTENDS ModLoader

MCIdRank == [i \in Ids |-> CASE i = "alpha" -> 1 [] i = "beta" -> 2 [] i = "gamma" -> 3]

L(key, value) == [key |-> key, value |-> value]
Mod(settings, main, lines) ==
  [settings |-> settings, main |-> main, hasManifest |-> TRUE, lines |-> lines]

Alpha == L("id", "alpha")
Beta  == L("id", "beta")
Gamma == L("id", "gamma")

(* Folders that are no mods, mods outside the revision range at its very   *)
(* ends, bounds and priorities beyond 32 bits and beyond unsigned long,    *)
(* mods that fail, and mods that differ in priority or id only.            *)
MCContents ==
  { [settings |-> "ok", main |-> "ok", hasManifest |-> FALSE, lines |-> <<>>],
    Mod("ok", "absent", <<Alpha>>),
    Mod("ok", "ok", <<L("loadPriority", 1)>>),
    Mod("ok", "ok", <<Alpha, L("minGameVersion", Revision - U32), L("maxGameVersion", Revision),
                      L("loadPriority", ULong)>>),
    Mod("absent", "raises", <<Alpha, L("loadPriority", 1)>>),
    Mod("raises", "ok", <<Beta, L("loadPriority", U32 + 1), L("maxGameVersion", 0)>>),
    Mod("ok", "broken", <<Beta, L("other", 7), L("minGameVersion", U32 + Revision), L("maxGameVersion", U32)>>),
    Mod("ok", "ok", <<Gamma, L("minGameVersion", Revision + 1), L("minGameVersion", ULong)>>),
    Mod("ok", "ok", <<Gamma, L("maxGameVersion", Revision), L("maxGameVersion", -ULong),
                      L("minGameVersion", NotANumber)>>) }
=============================================================================
