------------------------------- MODULE MCParts -------------------------------
(***************************************************************************)
(* Small instances of the parts that share nothing with one another: the   *)
(* catalog, the statistics, the installed programs, the games, the license *)
(* and the storage page. A behaviour is one of any of them, while the      *)
(* others rest in their first states, so the states of the parts add up.   *)
(***************************************************************************)
EXTENDS Catalog, SystemStats, InstalledApps, Games, License, MCStorageCleanup

CONSTANTS k1, k2, steam, steamTools, game, tool

VARIABLE part

vars == <<part, catalogVars, statsVars, appsVars, gamesVars, licenseVars, storageVars>>

-----------------------------------------------------------------------------
(* Machines: the ones that differ in what the catalog's advice looks at.   *)
MCSpaces == {[total |-> 500, free |-> 0], [total |-> 500, free |-> 19],
             [total |-> 500, free |-> 50], [total |-> 100, free |-> 20]}
MCDrive == {[fixed |-> space.free > 0, space |-> space, isSolidState |-> "unknown"] :
               space \in MCSpaces}
           \cup {[fixed |-> TRUE, space |-> Silent, isSolidState |-> "yes"]}
MCMode(size, hz) == [size |-> size, hz |-> hz]
MCMachine ==
    {[name |-> "pc", build |-> 22000, cpus |-> cpus, cores |-> 2, ram |-> ram,
      vram |-> vram, display |-> display, modes |-> {MCMode("hd", 60), MCMode("4k", 144)},
      power |-> power, drives |-> [C |-> drive]] :
        cpus \in {4, 8}, ram \in {8, 16, Silent}, vram \in {0, 2, Silent},
        display \in {MCMode("hd", 60), MCMode("4k", 60), Silent},
        power \in {Silent} \cup [battery : {"none", "charged", "unknown"},
                                  line : {"online", "offline"}],
        drive \in MCDrive}

(* Two keys have an entry of the same id.                                  *)
MCPlace == {[key |-> 1, id |-> 1], [key |-> 2, id |-> 1], [key |-> 2, id |-> 2]}
MCContent ==
    {[name |-> 1, version |-> 1, silent |-> FALSE, command |-> TRUE],
     [name |-> 1, version |-> 2, silent |-> FALSE, command |-> FALSE],
     [name |-> 3, version |-> 1, silent |-> FALSE, command |-> TRUE],
     [name |-> 2, version |-> 1, silent |-> TRUE, command |-> TRUE]}

(* A game of Steam and one of Epic in directories of their own, and a      *)
(* record of GOG that names neither a game nor a directory.                *)
MCRecord ==
    {[launcher |-> "Steam", name |-> 1, directory |-> steam, command |-> TRUE,
      readable |-> TRUE],
     [launcher |-> "Epic", name |-> 2, directory |-> steamTools, command |-> TRUE,
      readable |-> TRUE],
     [launcher |-> "GOG", name |-> 0, directory |-> NoDirectory, command |-> FALSE,
      readable |-> TRUE]}
MCInside == (game :> {steam}) @@ (tool :> {steamTools})

-----------------------------------------------------------------------------
CatalogRests == machine = NoMachine /\ catalog = <<>> /\ profiles = <<>>
StatsRest == StatsInit /\ counters = [idle |-> 0, kernel |-> 0, user |-> 0] /\ gpuAvailable
AppsRest == AppsInit /\ uninstall = [p \in Place |-> Missing]
GamesRest ==
    GamesInit /\ onFile = {} /\ ~steamTwice /\ processes = [pid \in Pid |-> Nobody]
StorageRests == StorageInit /\ disk = [f \in File |-> Gone] /\ bin = 0

Init ==
    /\ part \in {"catalog", "stats", "apps", "games", "license", "storage"}
    /\ IF part = "catalog" THEN CatalogInit ELSE CatalogRests
    /\ IF part = "stats" THEN StatsInit ELSE StatsRest
    /\ IF part = "apps" THEN AppsInit ELSE AppsRest
    /\ IF part = "games" THEN GamesInit ELSE GamesRest
    /\ IF part = "storage" THEN MCInit ELSE StorageRests
    /\ LicenseInit

CatalogSteps ==
    part = "catalog" /\ CatalogNext
    /\ UNCHANGED <<part, statsVars, appsVars, gamesVars, licenseVars, storageVars>>
StatsStep ==
    part = "stats" /\ StatsNext
    /\ UNCHANGED <<part, catalogVars, appsVars, gamesVars, licenseVars, storageVars>>
AppsStep ==
    part = "apps" /\ AppsNext
    /\ UNCHANGED <<part, catalogVars, statsVars, gamesVars, licenseVars, storageVars>>
GamesStep ==
    part = "games" /\ GamesNext
    /\ UNCHANGED <<part, catalogVars, statsVars, appsVars, licenseVars, storageVars>>
LicenseStep ==
    part = "license" /\ LicenseNext
    /\ UNCHANGED <<part, catalogVars, statsVars, appsVars, gamesVars, storageVars>>
StorageStep ==
    part = "storage" /\ StorageNext
    /\ UNCHANGED <<part, catalogVars, statsVars, appsVars, gamesVars, licenseVars>>

Next == CatalogSteps \/ StatsStep \/ AppsStep \/ GamesStep \/ LicenseStep \/ StorageStep

Spec == Init /\ [][Next]_vars
=============================================================================
