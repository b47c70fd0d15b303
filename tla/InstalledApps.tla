--------------------------- MODULE InstalledApps ---------------------------
(***************************************************************************)
(* The page of installed programs: the scan of the three Uninstall keys    *)
(* and the launch of an uninstaller (src/optim/InstalledApps.cpp), their   *)
(* jobs in the service (src/optim/OptimizationService.cpp) and the page's  *)
(* buttons (src/App.cpp), while programs come and go. Nasaki uninstalls    *)
(* nothing itself, so what matters is that the list is that of the keys.   *)
(***************************************************************************)
EXTENDS Integers, Sequences, SequencesExt

CONSTANTS
    Place,      \* the entries there can be: which of the three keys, which subkey
    Content,    \* what an entry can hold
    Missing,    \* there is no such entry
    Runtime,    \* display names that contain a protected pattern
    MaxChanges  \* bound: programs installed or removed meanwhile

(* An entry's id is the name of its subkey, which the three keys share.    *)
ASSUME PlaceAssumption == IsFiniteSet(Place) /\ \A p \in Place : p.id \in Int
(* silent: no display name, a system component or an update of another.    *)
ASSUME ContentAssumption == \A c \in Content :
    /\ {c.name, c.version} \subseteq Int
    /\ {c.silent, c.command} \subseteq BOOLEAN
ASSUME MissingAssumption == Missing \notin Content /\ Missing \notin Place
ASSUME ChangeAssumption == MaxChanges \in Nat

VARIABLES
    uninstall,  \* the Uninstall keys
    listed,     \* Service::m_installedApps
    shown,      \* the copy the last frame drew
    appsJob,    \* the job under way, which m_appsBusy says there is
    uninstaller,\* what m_lastOutcome says of the last: "started" or "refused"
    changes

appsVars == <<uninstall, listed, shown, appsJob, uninstaller, changes>>

NoJob == [kind |-> "none"]
ScanJob == [kind |-> "scan"]

AppsInit ==
    /\ uninstall \in [Place -> Content \cup {Missing}]
    /\ listed = <<>> /\ shown = <<>> /\ appsJob = NoJob /\ uninstaller = "none"
    /\ changes = 0

-----------------------------------------------------------------------------
(* AppInventory::Scan.                                                     *)

(* ScanUninstallKey: the filters, and what is read of an entry.            *)
ListsEntry(p) == uninstall[p] # Missing /\ ~uninstall[p].silent

InstalledApp(p) ==
    LET c == uninstall[p]
        protectedComponent == c.name \in Runtime
    IN  [place |-> p, id |-> p.id, name |-> c.name, version |-> c.version,
         uninstallCommand |-> c.command, protectedComponent |-> protectedComponent,
         uninstallable |-> ~protectedComponent /\ c.command]

Before(a, b) == a.name < b.name \/ (a.name = b.name /\ a.id < b.id)

SameProgram(a, b) == a.name = b.name /\ a.version = b.version

(* std::sort leaves entries of the same name and id in any order.          *)
Sorted(apps) ==
    {s \in SetToSeqs(apps) : \A i \in 1..(Len(s) - 1) : ~Before(s[i + 1], s[i])}

(* Mutant: programs of one name are the same, whatever their version.      *)
UniqueNames(s) == {s[i] : i \in {j \in DOMAIN s : j = 1 \/ s[j - 1].name # s[j].name}}

(* std::unique keeps the first of neighbours that are the same.            *)
Unique(s) == {s[i] : i \in {j \in DOMAIN s : j = 1 \/ ~SameProgram(s[j - 1], s[j])}}

Readable == {p \in Place : ListsEntry(p)}

(* The entries that are read and pass: all but those a scan cannot open,   *)
(* one by one, or with the key they are in, or after a place in it where   *)
(* the enumeration ends. Nothing tells the page of them.                   *)
Entries(unread) == {InstalledApp(p) : p \in Readable \ unread}

(* Biggest first, as the installers claim: any order.                      *)
ScanResults(unread) == UNION {SetToSeqs(Unique(s)) : s \in Sorted(Entries(unread))}

Scan(unread) ==
    /\ appsJob = ScanJob
    /\ listed' \in ScanResults(unread)
    /\ appsJob' = NoJob
    /\ UNCHANGED <<uninstall, shown, uninstaller, changes>>

-----------------------------------------------------------------------------
(* The page. A press while m_appsBusy is set does nothing.                 *)

(* The button, or the page opened with nothing to show.                    *)
RefreshAppsAsync ==
    /\ appsJob = NoJob
    /\ appsJob' = ScanJob
    /\ UNCHANGED <<uninstall, listed, shown, uninstaller, changes>>

DrawAppsView ==
    /\ shown # listed
    /\ shown' = listed
    /\ UNCHANGED <<uninstall, listed, appsJob, uninstaller, changes>>

LaunchUninstallerAsync(i) ==
    /\ appsJob = NoJob
    /\ shown[i].uninstallable
    /\ appsJob' = [kind |-> "launch", appId |-> shown[i].id]
    /\ UNCHANGED <<uninstall, listed, shown, uninstaller, changes>>

(* The first entry with that id, on the list as it has become by now.      *)
Find(i) == listed[i].id = appsJob.appId /\ \A j \in 1..(i - 1) : listed[j].id # appsJob.appId

(* AppInventory::LaunchUninstaller refuses a protected entry and one       *)
(* without a command, and the shell may refuse any.                        *)
LaunchUninstaller ==
    /\ appsJob.kind = "launch"
    /\ \/ \E i \in DOMAIN listed :
             /\ Find(i)
             /\ ~listed[i].protectedComponent /\ listed[i].uninstallCommand
             /\ uninstaller' = "started"
       \/ uninstaller' = "refused"
    /\ appsJob' = NoJob
    /\ UNCHANGED <<uninstall, listed, shown, changes>>

(* A program is installed, updated or removed.                             *)
ProgramChanges(p, content) ==
    /\ changes < MaxChanges /\ uninstall[p] # content
    /\ uninstall' = [uninstall EXCEPT ![p] = content]
    /\ changes' = changes + 1
    /\ UNCHANGED <<listed, shown, appsJob, uninstaller>>

AppsNext ==
    \/ \E unread \in SUBSET Readable : Scan(unread)
    \/ RefreshAppsAsync \/ DrawAppsView \/ LaunchUninstaller
    \/ \E i \in DOMAIN shown : LaunchUninstallerAsync(i)
    \/ \E p \in Place, content \in Content \cup {Missing} : ProgramChanges(p, content)

AppsSpec == AppsInit /\ [][AppsNext]_appsVars

-----------------------------------------------------------------------------
(* The list a scan comes to is that of the keys, after sorting, dropping   *)
(* neighbours and sorting again: every row is one of the entries that were *)
(* read, as it is in its key, none stands twice, and each program read has *)
(* a row. What could not be opened is not there, and nothing says so.      *)
ListsEveryProgram ==
    appsJob = ScanJob =>
        \A unread \in SUBSET Readable : \A list \in ScanResults(unread) :
            /\ ToSet(list) \subseteq Entries(unread)
            /\ \A i, j \in DOMAIN list : list[i] = list[j] => i = j
            /\ \A app \in Entries(unread) : \E i \in DOMAIN list : SameProgram(list[i], app)
=============================================================================
