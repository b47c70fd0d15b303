------------------------------- MODULE Games -------------------------------
(***************************************************************************)
(* The page of games: the library read from the launchers' own records     *)
(* (src/GameLibrary.cpp) by a job of the worker, the process found for     *)
(* each game (src/ProcessBoost.cpp), and the card whose button boosts it   *)
(* (src/App.cpp), while games are installed and removed, processes start   *)
(* and end, and Windows gives their ids to others. A frame is an Update    *)
(* and a Draw with at most one click. Paths are abstracted to which        *)
(* directories a program lies in.                                          *)
(***************************************************************************)
EXTENDS Integers, Sequences, SequencesExt

CONSTANTS
    Record,     \* what a launcher can have on file about a game
    Directory,  \* installation directories
    NoDirectory,\* the launcher recorded none
    Program,    \* programs that run
    Inside,     \* Inside[x]: the directories program x lies in
    Pid,        \* process ids, 0 being none
    Nobody,     \* the id is free
    MaxEvents   \* bound: changes of the library and of the processes

(* name: 0 when none is recorded; library: the Steam folder, or another.   *)
ASSUME RecordAssumption == \A r \in Record :
    /\ r.launcher \in {"Steam", "Epic", "GOG"} /\ r.name \in Nat
    /\ r.directory \in Directory \cup {NoDirectory}
    /\ {r.command, r.readable} \subseteq BOOLEAN
ASSUME InsideAssumption == Inside \in [Program -> SUBSET Directory]
ASSUME PidAssumption == Pid \subseteq Nat \ {0} /\ MaxEvents \in Nat
ASSUME NobodyAssumption == Nobody \notin Program /\ NoDirectory \notin Directory

VARIABLES
    onFile,     \* the records the launchers have
    steamTwice, \* libraryfolders.vdf spells the Steam folder its own way
    processes,  \* the program that runs under each id
    gamesJob,   \* the scan's job: "none", "queued" or "done"
    pendingGames,
    games,      \* m_games
    scanned,    \* m_gamesScanned
    pids,       \* m_runningGamePids
    forced,     \* m_runningCheckTimer is at least the period
    view,       \* the page shown is that of games
    stage,      \* what the frame comes to: "update" or "draw"
    boosted,    \* the id given to ProcessBoost, and the card's game
    (* history variables *)
    reused,     \* ids whose process changed since they were last read
    events

library == <<onFile, steamTwice>>
cards == <<games, scanned, pids>>
gamesVars == <<library, processes, gamesJob, pendingGames, cards, forced, view,
               stage, boosted, reused, events>>

NoBoost == [pid |-> 0, directory |-> NoDirectory]

GamesInit ==
    /\ onFile \in SUBSET Record /\ steamTwice \in BOOLEAN
    /\ processes \in [Pid -> Program \cup {Nobody}]
    /\ gamesJob = "none" /\ pendingGames = <<>>
    /\ games = <<>> /\ scanned = FALSE /\ pids = <<>> /\ forced = FALSE
    /\ view = "other" /\ stage = "update" /\ boosted = NoBoost
    /\ reused = {} /\ events = 0

-----------------------------------------------------------------------------
(* GameLibrary::Scan.                                                      *)

Game(r) == [name |-> r.name, directory |-> r.directory, launchCommand |-> r.command]
Named(launcher) == {r \in onFile : r.launcher = launcher /\ r.name # 0}

(* Each library folder is scanned; one spelled exactly like the Steam      *)
(* folder is that folder, one spelled otherwise is another.                *)
ScanSteam ==
    LET found == SetToSeq({Game(r) : r \in Named("Steam")})
    IN  IF steamTwice THEN found \o found ELSE found

(* A manifest that is empty or cannot be parsed is passed over.            *)
ScanEpic == SetToSeq({Game(r) : r \in {e \in Named("Epic") : e.readable}})

(* GOG records the executable, which is started as it is.                  *)
ScanGog == SetToSeq({Game(r) : r \in Named("GOG")})

(* std::sort leaves games of one name in any order, here in one of them.   *)
ScanResult == SortSeq(ScanSteam \o ScanEpic \o ScanGog, LAMBDA a, b : a.name <= b.name)

RescanGameLibrary == gamesJob' = IF gamesJob = "none" THEN "queued" ELSE gamesJob

ScanGames ==
    /\ gamesJob = "queued"
    /\ pendingGames' = ScanResult /\ gamesJob' = "done"
    /\ UNCHANGED <<library, processes, cards, forced, view, stage, boosted, reused, events>>

-----------------------------------------------------------------------------
(* Update: a new list, then the running games every few seconds.           *)

NoPids(list) == [i \in DOMAIN list |-> 0]

TakeList ==
    IF gamesJob = "done"
    THEN /\ games' = pendingGames /\ scanned' = TRUE
         /\ gamesJob' = "none" /\ pendingGames' = <<>>
    ELSE UNCHANGED <<games, scanned, gamesJob, pendingGames>>

(* Mutant: the ids found for the old list stay until the next check.       *)
AfterListKeepingIds ==
    [pids |-> IF gamesJob = "done"
              THEN [i \in DOMAIN pendingGames |-> IF i \in DOMAIN pids THEN pids[i] ELSE 0]
              ELSE pids,
     forced |-> forced]

(* The ids and the timer once the list has been taken.                     *)
AfterList ==
    IF gamesJob = "done"
    THEN [pids |-> [i \in DOMAIN pendingGames |-> 0], forced |-> TRUE]
    ELSE [pids |-> pids, forced |-> forced]

Under(program, directory) == directory \in Inside[program]

(* FindProcessUnderPath: any of those that fit, or 0.                      *)
Matches(directory) ==
    {pid \in Pid : processes[pid] # Nobody /\ Under(processes[pid], directory)}
Answers(directory) == IF Matches(directory) = {} THEN {0} ELSE Matches(directory)

Checked(list) == {f \in [DOMAIN list -> Pid \cup {0}] :
                      \A i \in DOMAIN list : f[i] \in Answers(list[i].directory)}

(* The timer only runs on this page, and may be due at any frame of it.    *)
Update(due) ==
    /\ stage = "update" /\ stage' = "draw"
    /\ TakeList
    /\ IF view = "games" /\ games' # <<>> /\ (due \/ AfterList.forced)
       THEN pids' \in Checked(games') /\ forced' = FALSE /\ reused' = {}
       ELSE pids' = AfterList.pids /\ forced' = AfterList.forced /\ UNCHANGED reused
    /\ UNCHANGED <<library, processes, view, boosted, events>>

-----------------------------------------------------------------------------
(* Draw: at most one of these.                                             *)

Click == stage = "draw" /\ stage' = "update"
Still == UNCHANGED <<library, processes, pendingGames, cards, reused, events>>

DrawOnly ==
    /\ Click
    /\ IF view = "games" /\ ~scanned THEN RescanGameLibrary ELSE UNCHANGED gamesJob
    /\ UNCHANGED <<forced, view, boosted>> /\ Still

SetView(v) ==
    /\ Click
    /\ view # v /\ view' = v
    /\ IF v = "games" /\ ~scanned THEN RescanGameLibrary ELSE UNCHANGED gamesJob
    /\ UNCHANGED <<forced, boosted>> /\ Still

Rescan ==
    /\ Click /\ view = "games"
    /\ RescanGameLibrary
    /\ UNCHANGED <<forced, view, boosted>> /\ Still

(* GameLibrary::Launch; a shell that takes the command makes the check due.*)
Launch(i) ==
    /\ Click /\ view = "games"
    /\ pids[i] = 0 /\ games[i].launchCommand
    /\ forced' \in {forced, TRUE}
    /\ UNCHANGED <<gamesJob, view, boosted>> /\ Still

(* The button of a running game, while no session is on.                   *)
StartSession(i) ==
    /\ Click /\ view = "games"
    /\ pids[i] # 0 /\ boosted = NoBoost
    /\ boosted' = [pid |-> pids[i], directory |-> games[i].directory]
    /\ view' = "other"
    /\ UNCHANGED <<gamesJob, forced>> /\ Still

(* The session ends, from another page.                                    *)
EndSession ==
    /\ Click /\ boosted # NoBoost /\ view = "other"
    /\ boosted' = NoBoost
    /\ UNCHANGED <<gamesJob, forced, view>> /\ Still

-----------------------------------------------------------------------------
Happens == events < MaxEvents /\ events' = events + 1
Apart == UNCHANGED <<gamesJob, pendingGames, cards, forced, view, stage, boosted>>

LibraryChanges(r) ==
    /\ Happens
    /\ onFile' = IF r \in onFile THEN onFile \ {r} ELSE onFile \cup {r}
    /\ UNCHANGED <<steamTwice, processes, reused>> /\ Apart

ProcessChanges(pid, program) ==
    /\ Happens /\ processes[pid] # program
    /\ processes' = [processes EXCEPT ![pid] = program]
    /\ reused' = reused \cup {pid}
    /\ UNCHANGED library /\ Apart

GamesNext ==
    \/ ScanGames \/ \E due \in BOOLEAN : Update(due)
    \/ DrawOnly \/ \E v \in {"games", "other"} : SetView(v)
    \/ Rescan \/ \E i \in DOMAIN games : Launch(i) \/ StartSession(i)
    \/ EndSession
    \/ \E r \in Record : LibraryChanges(r)
    \/ \E pid \in Pid, program \in Program \cup {Nobody} : ProcessChanges(pid, program)

GamesSpec == GamesInit /\ [][GamesNext]_gamesVars

-----------------------------------------------------------------------------
(* "A session boosting exactly this game's process": the process whose     *)
(* priority is raised is one of the game on the card that was pressed,     *)
(* although the ids were found for a list of games and by a check up to a  *)
(* visit of the page ago. Only an id that has passed to another process    *)
(* since that check can be somebody else's.                                *)
BoostsThatGame ==
    [][boosted' # boosted /\ boosted' # NoBoost =>
        \/ boosted'.pid \in reused
        \/ /\ processes[boosted'.pid] # Nobody
           /\ boosted'.directory \in Inside[processes[boosted'.pid]]]_gamesVars
=============================================================================
