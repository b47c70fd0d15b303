---------------------------- MODULE PagesProofs ----------------------------
(***************************************************************************)
(* Proofs about the license (any keys, any number of activations), the     *)
(* page of installed programs (any entries and contents) and the page of   *)
(* games (any games, directories and processes).                           *)
(***************************************************************************)
EXTENDS License, InstalledApps, Games, FiniteSetTheorems, WellFoundedInduction, TLAPS

-----------------------------------------------------------------------------
(* The license.                                                            *)

(* One activation at a time, and none while there is a device.             *)
OneActivation ==
    /\ activating => device = NoDevice /\ saving = NoDevice
    /\ submitted # Blank => activating /\ answer = NoDevice
    /\ answer # NoDevice => activating
    /\ ~up => submitted = Blank /\ answer = NoDevice /\ saving = NoDevice
              /\ device = NoDevice /\ ~activating

(* A device, or what there is of one, whose key is the token's.            *)
OfItsKey(d) ==
    d \notin {NoDevice, Torn} /\ d.deviceToken # Blank =>
        d.deviceToken = [for |-> d.licenseKey] \/ d.licenseKey \in retyped

(* While a key is on its way the field still holds it, or what it was      *)
(* changed to.                                                             *)
FieldHolds ==
    /\ submitted # Blank => input = submitted \/ input \in retyped
    /\ answer # NoDevice /\ answer.ok /\ answer.token # Blank =>
          answer.token = [for |-> input] \/ input \in retyped

KeyInv == OfItsKey(device) /\ OfItsKey(saving) /\ OfItsKey(config) /\ FieldHolds

LicenseInv == LicenseTypeOK /\ OneActivation /\ KeyInv /\ DeviceIsKept

(* What LoadDevice returns is a device or none.                            *)
LEMMA LoadDeviceType ==
    ASSUME LicenseTypeOK PROVE LoadDevice \in StoredDevice \cup {NoDevice}
BY DEF LicenseTypeOK, LoadDevice

LEMMA InitInv == LicenseInit => LicenseInv
<1> SUFFICES ASSUME LicenseInit PROVE LicenseInv
  OBVIOUS
<1>1. LicenseTypeOK
  BY DEF LicenseInit, LicenseTypeOK
<1>2. OneActivation
  BY DEF LicenseInit, OneActivation
<1>3. KeyInv
  BY DEF LicenseInit, KeyInv, OfItsKey, FieldHolds
<1>4. DeviceIsKept
  BY DEF LicenseInit, DeviceIsKept
<1> QED  BY <1>1, <1>2, <1>3, <1>4 DEF LicenseInv

LEMMA TypeStep == LicenseInv /\ [LicenseNext]_licenseVars => LicenseTypeOK'
<1> SUFFICES ASSUME LicenseInv, [LicenseNext]_licenseVars PROVE LicenseTypeOK'
  OBVIOUS
<1> USE BlankAssumption, FileAssumption DEF LicenseInv, fileVars
<1>1. CASE Start
  BY <1>1, LoadDeviceType DEF Start, LicenseTypeOK
<1>2. CASE End
  BY <1>2 DEF End, LicenseTypeOK
<1>3. ASSUME NEW key \in LicenseKey \cup {Blank}, Type(key) PROVE LicenseTypeOK'
  BY <1>3 DEF Type, LicenseTypeOK
<1>4. CASE SubmitLicenseKey
  BY <1>4 DEF SubmitLicenseKey, LicenseTypeOK
<1>5. ASSUME NEW a \in Answer, RegisterDevice(a) PROVE LicenseTypeOK'
  BY <1>5 DEF RegisterDevice, LicenseTypeOK
<1>6. CASE TakeRefusal
  BY <1>6 DEF TakeRefusal, LicenseTypeOK
<1>7. CASE TakeDevice
  <2>1. answer \in Answer /\ answer.token \in Token
    BY <1>7 DEF TakeDevice, LicenseTypeOK, Answer, Token
  <2>2. [licenseKey |-> input, deviceToken |-> answer.token] \in StoredDevice
    BY <2>1 DEF LicenseTypeOK, StoredDevice
  <2> QED  BY <1>7, <2>2 DEF TakeDevice, LicenseTypeOK
<1>8. CASE SaveDevice
  BY <1>8 DEF SaveDevice, LicenseTypeOK
<1>9. CASE Unlink
  BY <1>9 DEF Unlink, Clear, LicenseTypeOK
<1>10. CASE UNCHANGED licenseVars
  BY <1>10 DEF licenseVars, LicenseTypeOK
<1> QED
  BY <1>1, <1>2, <1>3, <1>4, <1>5, <1>6, <1>7, <1>8, <1>9, <1>10 DEF LicenseNext

LEMMA ActivationStep == LicenseInv /\ [LicenseNext]_licenseVars => OneActivation'
<1> SUFFICES ASSUME LicenseInv, [LicenseNext]_licenseVars PROVE OneActivation'
  OBVIOUS
<1> USE BlankAssumption, FileAssumption DEF LicenseInv, LicenseTypeOK, OneActivation, fileVars
<1>1. CASE Start \/ End
  BY <1>1 DEF Start, End
<1>2. ASSUME NEW key \in LicenseKey \cup {Blank}, Type(key) PROVE OneActivation'
  BY <1>2 DEF Type, Form
<1>3. CASE SubmitLicenseKey
  BY <1>3 DEF SubmitLicenseKey, Form
<1>4. ASSUME NEW a \in Answer, RegisterDevice(a) PROVE OneActivation'
  BY <1>4 DEF RegisterDevice
<1>5. CASE TakeRefusal \/ TakeDevice
  BY <1>5 DEF TakeRefusal, TakeDevice
<1>6. CASE SaveDevice
  BY <1>6 DEF SaveDevice
<1>7. CASE Unlink
  BY <1>7 DEF Unlink
<1>8. CASE UNCHANGED licenseVars
  BY <1>8 DEF licenseVars
<1> QED  BY <1>1, <1>2, <1>3, <1>4, <1>5, <1>6, <1>7, <1>8 DEF LicenseNext

LEMMA KeyStep == LicenseInv /\ [LicenseNext]_licenseVars => KeyInv'
<1> SUFFICES ASSUME LicenseInv, [LicenseNext]_licenseVars PROVE KeyInv'
  OBVIOUS
<1> USE BlankAssumption, FileAssumption
    DEF LicenseInv, LicenseTypeOK, OneActivation, KeyInv, OfItsKey, FieldHolds, fileVars
<1>1. CASE Start
  BY <1>1 DEF Start, LoadDevice
<1>2. CASE End
  BY <1>2 DEF End
<1>3. ASSUME NEW key \in LicenseKey \cup {Blank}, Type(key) PROVE KeyInv'
  BY <1>3 DEF Type, Form
<1>4. CASE SubmitLicenseKey
  BY <1>4 DEF SubmitLicenseKey, Form
<1>5. ASSUME NEW a \in Answer, RegisterDevice(a) PROVE KeyInv'
  BY <1>5 DEF RegisterDevice
<1>6. CASE TakeRefusal
  BY <1>6 DEF TakeRefusal
<1>7. CASE TakeDevice
  <2> DEFINE linked == [licenseKey |-> input, deviceToken |-> answer.token]
  <2>1. OfItsKey(linked) /\ retyped' = retyped
    BY <1>7 DEF TakeDevice
  <2> QED  BY <1>7, <2>1 DEF TakeDevice
<1>8. CASE SaveDevice
  BY <1>8 DEF SaveDevice
<1>9. CASE Unlink
  BY <1>9 DEF Unlink, Clear
<1>10. CASE UNCHANGED licenseVars
  BY <1>10 DEF licenseVars
<1> QED
  BY <1>1, <1>2, <1>3, <1>4, <1>5, <1>6, <1>7, <1>8, <1>9, <1>10 DEF LicenseNext

LEMMA KeptStep == LicenseInv /\ [LicenseNext]_licenseVars => DeviceIsKept'
<1> SUFFICES ASSUME LicenseInv, [LicenseNext]_licenseVars PROVE DeviceIsKept'
  OBVIOUS
<1> USE BlankAssumption, FileAssumption
    DEF LicenseInv, LicenseTypeOK, OneActivation, DeviceIsKept, LoadDevice, fileVars
<1>1. CASE Start \/ End
  BY <1>1 DEF Start, End
<1>2. ASSUME NEW key \in LicenseKey \cup {Blank}, Type(key) PROVE DeviceIsKept'
  BY <1>2 DEF Type
<1>3. CASE SubmitLicenseKey
  BY <1>3 DEF SubmitLicenseKey
<1>4. ASSUME NEW a \in Answer, RegisterDevice(a) PROVE DeviceIsKept'
  BY <1>4 DEF RegisterDevice
<1>5. CASE TakeRefusal
  BY <1>5 DEF TakeRefusal
<1>6. CASE TakeDevice
  <2>1. saving' # NoDevice \/ failed'
    BY <1>6 DEF TakeDevice, StoredDevice, Answer, Token
  <2> QED  BY <2>1
<1>7. CASE SaveDevice
  BY <1>7 DEF SaveDevice
<1>8. CASE Unlink
  BY <1>8 DEF Unlink, Clear
<1>9. CASE UNCHANGED licenseVars
  BY <1>9 DEF licenseVars
<1> QED
  BY <1>1, <1>2, <1>3, <1>4, <1>5, <1>6, <1>7, <1>8, <1>9 DEF LicenseNext

LEMMA LicenseInvariant == LicenseSpec => []LicenseInv
<1>1. LicenseInv /\ [LicenseNext]_licenseVars => LicenseInv'
  BY TypeStep, ActivationStep, KeyStep, KeptStep DEF LicenseInv
<1> QED  BY InitInv, <1>1, PTL DEF LicenseSpec

(* Every variable of the activation keeps its type.                        *)
THEOREM LicenseTypeCorrect == LicenseSpec => []LicenseTypeOK
<1>1. LicenseInv => LicenseTypeOK
  BY DEF LicenseInv
<1> QED  BY LicenseInvariant, <1>1, PTL

(* The key stored with a device is that of its token, or a text the field  *)
(* was changed to while a call was under way.                              *)
THEOREM StoredKeyIsTokens == LicenseSpec => []StoredKeyMatches
<1>1. LicenseInv => StoredKeyMatches
  BY FileAssumption DEF LicenseInv, LicenseTypeOK, KeyInv, OfItsKey, StoredKeyMatches
<1> QED  BY LicenseInvariant, <1>1, PTL

(* The next start finds the device of now, unless a save or a clear failed.*)
THEOREM DeviceSurvivesRestart == LicenseSpec => []DeviceIsKept
<1>1. LicenseInv => DeviceIsKept
  BY DEF LicenseInv
<1> QED  BY LicenseInvariant, <1>1, PTL

-----------------------------------------------------------------------------
(* The installed programs.                                                 *)

(* Induction: a set of naturals that is not empty has a least element.     *)
LEMMA LeastNatural ==
    ASSUME NEW T, T \subseteq Nat, T # {}
    PROVE  \E x \in T : \A y \in T : x <= y
<1> DEFINE Less == {ss \in Nat \X Nat : ss[1] < ss[2]}
<1>1. IsWellFoundedOn(Less, Nat)
  BY NatLessThanWellFounded DEF OpToRel
<1> HIDE DEF Less
<1>2. PICK x \in T : \A y \in T : ~(<<y, x>> \in Less)
  BY <1>1, WFMin
<1> USE DEF Less
<1>3. \A y \in T : ~(y < x)
  <2>1. SUFFICES ASSUME NEW y \in T, y < x PROVE FALSE
    OBVIOUS
  <2>2. <<y, x>> \in Less
    BY <2>1
  <2> QED
    BY <2>2, <1>2
<1> QED
  BY <1>3

(* A list of a finite set has every element, and each once.                *)
Lists(s, S) ==
    /\ DOMAIN s = 1..Cardinality(S) /\ Cardinality(S) \in Nat
    /\ \A i \in DOMAIN s : s[i] \in S
    /\ \A i, j \in DOMAIN s : s[i] = s[j] => i = j
    /\ \A x \in S : \E i \in DOMAIN s : s[i] = x

LEMMA ListsAll ==
    ASSUME NEW S, IsFiniteSet(S), NEW s \in SetToSeqs(S)
    PROVE  Lists(s, S)
<1> DEFINE n == Cardinality(S)
<1>1. n \in Nat
  BY FS_CardinalityType
<1>2. s \in [1..n -> S] /\ \A i, j \in 1..n : i # j => s[i] # s[j]
  BY DEF SetToSeqs
<1> HIDE DEF n
<1>3. s \in Injection(1..n, S)
  BY <1>2 DEF Injection, IsInjective
<1>4. IsFiniteSet(1..n) /\ Cardinality(1..n) = n
  BY <1>1, FS_Interval
<1>5. s \in Surjection(1..n, S)
  BY <1>3, <1>4, FS_Injection DEF n
<1>6. \A x \in S : \E i \in 1..n : s[i] = x
  BY <1>5 DEF Surjection
<1> QED
  BY <1>1, <1>2, <1>6 DEF Lists, n

(* The entries that are read and pass are finitely many.                   *)
LEMMA EntriesFinite == ASSUME NEW unread PROVE IsFiniteSet(Entries(unread))
<1> DEFINE L == Readable \ unread
           f == [p \in L |-> InstalledApp(p)]
<1>1. IsFiniteSet(L)
  BY PlaceAssumption, FS_Subset DEF Readable
<1>2. Entries(unread) = {InstalledApp(p) : p \in L}
  BY DEF Entries
<1> HIDE DEF L
<1>3. f \in [L -> Entries(unread)] /\ \A x \in Entries(unread) : \E p \in L : f[p] = x
  BY <1>2
<1>4. f \in Surjection(L, Entries(unread))
  BY <1>3 DEF Surjection
<1> QED
  BY <1>1, <1>4, FS_Surjection

(* Before the first of a run of neighbours that are the same program there *)
(* is none, or another one.                                                *)
LEMMA UniqueKeepsOne ==
    ASSUME NEW s, NEW n \in Nat, DOMAIN s = 1..n, NEW k \in 1..n
    PROVE  \E app \in Unique(s) : SameProgram(app, s[k])
<1> DEFINE T == {j \in 1..k : \A l \in j..k : SameProgram(s[l], s[k])}
<1>1. k \in T /\ T \subseteq Nat
  BY DEF SameProgram
<1>2. PICK m \in T : \A j \in T : m <= j
  BY <1>1, LeastNatural
<1>3. m \in 1..k /\ \A l \in m..k : SameProgram(s[l], s[k])
  OBVIOUS
<1>4. ASSUME m # 1, SameProgram(s[m - 1], s[m]) PROVE FALSE
  <2>1. m - 1 \in 1..k
    BY <1>3, <1>4
  <2>2. SameProgram(s[m - 1], s[k])
    BY <1>3, <1>4 DEF SameProgram
  <2>3. \A l \in (m - 1)..k : l = m - 1 \/ l \in m..k
    BY <1>3
  <2>4. m - 1 \in T
    BY <1>3, <2>1, <2>2, <2>3
  <2> QED
    BY <1>2, <1>3, <2>4
<1>5. m \in DOMAIN s /\ SameProgram(s[m], s[k])
  BY <1>3
<1>6. s[m] \in Unique(s)
  BY <1>4, <1>5 DEF Unique
<1> QED
  BY <1>5, <1>6

(* The list of one scan.                                                   *)
ShowsEveryProgram(list, unread) ==
    /\ ToSet(list) \subseteq Entries(unread)
    /\ \A i, j \in DOMAIN list : list[i] = list[j] => i = j
    /\ \A app \in Entries(unread) : \E i \in DOMAIN list : SameProgram(list[i], app)

LEMMA ScanShowsAll ==
    ASSUME NEW unread, NEW list \in ScanResults(unread)
    PROVE  ShowsEveryProgram(list, unread)
<1>1. PICK s \in Sorted(Entries(unread)) : list \in SetToSeqs(Unique(s))
  BY DEF ScanResults
<1>2. Lists(s, Entries(unread))
  BY <1>1, EntriesFinite, ListsAll DEF Sorted
<1>3. Unique(s) \subseteq Entries(unread)
  BY <1>2 DEF Unique, Lists
<1>4. Lists(list, Unique(s))
  BY <1>1, <1>3, EntriesFinite, FS_Subset, ListsAll
<1>5. ASSUME NEW app \in Entries(unread)
      PROVE  \E i \in DOMAIN list : SameProgram(list[i], app)
  <2>1. PICK k \in DOMAIN s : s[k] = app
    BY <1>2 DEF Lists
  <2>2. PICK kept \in Unique(s) : SameProgram(kept, s[k])
    BY <1>2, UniqueKeepsOne DEF Lists
  <2>3. PICK i \in DOMAIN list : list[i] = kept
    BY <1>4 DEF Lists
  <2> QED
    BY <2>1, <2>2, <2>3
<1>6. \A i, j \in DOMAIN list : list[i] = list[j] => i = j
  BY <1>4 DEF Lists
<1>7. ToSet(list) \subseteq Entries(unread)
  BY <1>3, <1>4 DEF Lists, ToSet
<1> QED
  BY <1>5, <1>6, <1>7 DEF ShowsEveryProgram

(* Whatever the keys hold and whatever of them cannot be opened, sorting,  *)
(* dropping neighbours and sorting again lose no program that was read and *)
(* invent none (AppInventory::Scan).                                       *)
THEOREM NoReadProgramIsLost == AppsSpec => []ListsEveryProgram
<1>1. ListsEveryProgram
  BY ScanShowsAll DEF ListsEveryProgram, ShowsEveryProgram
<1> QED
  BY <1>1, PTL

(* An entry as it is listed.                                               *)
App == [place : Place, id : Int, name : Int, version : Int, uninstallCommand : BOOLEAN,
        protectedComponent : BOOLEAN, uninstallable : BOOLEAN]

AppsTypeOK ==
    /\ uninstall \in [Place -> Content \cup {Missing}]
    /\ listed \in Seq(App) /\ shown \in Seq(App)
    /\ appsJob \in {NoJob, ScanJob}
                     \cup [kind : {"launch"}, appId : Int]
    /\ uninstaller \in {"none", "started", "refused"}
    /\ changes \in 0..MaxChanges

LEMMA EntriesAreApps ==
    ASSUME uninstall \in [Place -> Content \cup {Missing}], NEW unread
    PROVE  Entries(unread) \subseteq App
<1> SUFFICES ASSUME NEW p \in Place, ListsEntry(p) PROVE InstalledApp(p) \in App
  BY DEF Entries, Readable
<1> DEFINE c == uninstall[p]
           isRuntime == c.name \in Runtime
           canUninstall == ~isRuntime /\ c.command
<1>1. c \in Content
  BY DEF ListsEntry
<1>2. p.id \in Int /\ c.name \in Int /\ c.version \in Int /\ c.command \in BOOLEAN
  BY <1>1, PlaceAssumption, ContentAssumption
<1>3. isRuntime \in BOOLEAN /\ canUninstall \in BOOLEAN
  <2> HIDE DEF c
  <2>1. isRuntime \in BOOLEAN
    OBVIOUS
  <2>2. canUninstall \in BOOLEAN
    OBVIOUS
  <2> QED
    BY <2>1, <2>2
<1>4. InstalledApp(p) =
        [place |-> p, id |-> p.id, name |-> c.name, version |-> c.version,
         uninstallCommand |-> c.command, protectedComponent |-> isRuntime,
         uninstallable |-> canUninstall]
  BY Zenon DEF InstalledApp
<1> HIDE DEF c, isRuntime, canUninstall
<1> QED
  BY <1>2, <1>3, <1>4 DEF App

(* The page of programs stays in its types: what is listed and drawn is     *)
(* made of entries of the keys (InstalledApps.cpp).                        *)
THEOREM AppsTypeCorrect == AppsSpec => []AppsTypeOK
<1>1. AppsInit => AppsTypeOK
  <2> SUFFICES ASSUME AppsInit PROVE AppsTypeOK
    OBVIOUS
  <2>1. /\ uninstall \in [Place -> Content \cup {Missing}]
        /\ listed = <<>> /\ shown = <<>> /\ appsJob = NoJob /\ uninstaller = "none" /\ changes = 0
    BY DEF AppsInit
  <2>2. <<>> \in Seq(App) /\ 0 \in 0..MaxChanges
    BY ChangeAssumption
  <2> QED
    BY <2>1, <2>2 DEF AppsTypeOK
<1>2. AppsTypeOK /\ [AppsNext]_appsVars => AppsTypeOK'
  <2> SUFFICES ASSUME AppsTypeOK, [AppsNext]_appsVars PROVE AppsTypeOK'
    OBVIOUS
  <2>1. ASSUME NEW unread \in SUBSET Readable, Scan(unread) PROVE AppsTypeOK'
    <3>1. listed' \in Seq(App)
      <4>1. PICK s \in Sorted(Entries(unread)) : listed' \in SetToSeqs(Unique(s))
        BY <2>1 DEF Scan, ScanResults
      <4>2. Lists(s, Entries(unread))
        BY <4>1, EntriesFinite, ListsAll DEF Sorted
      <4>3. Unique(s) \subseteq Entries(unread)
        BY <4>2 DEF Unique, Lists
      <4>4. Lists(listed', Unique(s))
        BY <4>1, <4>3, EntriesFinite, FS_Subset, ListsAll
      <4>5. Entries(unread) \subseteq App
        BY EntriesAreApps DEF AppsTypeOK
      <4>6. listed' \in [1..Cardinality(Unique(s)) -> App]
        <5>1. listed' \in [1..Cardinality(Unique(s)) -> Unique(s)]
          BY <4>1 DEF SetToSeqs
        <5> QED
          BY <4>3, <4>5, <5>1
      <4> QED
        BY <4>4, <4>6 DEF Lists
    <3> QED
      BY <2>1, <3>1 DEF Scan, AppsTypeOK
  <2>2. CASE RefreshAppsAsync
    BY <2>2 DEF RefreshAppsAsync, AppsTypeOK
  <2>3. CASE DrawAppsView
    BY <2>3 DEF DrawAppsView, AppsTypeOK
  <2>4. CASE LaunchUninstaller
    BY <2>4 DEF LaunchUninstaller, AppsTypeOK
  <2>5. ASSUME NEW i \in DOMAIN shown, LaunchUninstallerAsync(i) PROVE AppsTypeOK'
    <3>1. shown[i] \in App
      BY DEF AppsTypeOK
    <3>2. shown[i].id \in Int
      BY <3>1 DEF App
    <3>3. appsJob' \in [kind : {"launch"}, appId : Int]
      BY <2>5, <3>1, <3>2 DEF LaunchUninstallerAsync
    <3> QED
      BY <2>5, <3>3 DEF LaunchUninstallerAsync, AppsTypeOK
  <2>6. ASSUME NEW p \in Place, NEW content \in Content \cup {Missing},
               ProgramChanges(p, content)
        PROVE  AppsTypeOK'
    <3>1. /\ uninstall' \in [Place -> Content \cup {Missing}] /\ changes' \in 0..MaxChanges
          /\ listed' = listed /\ shown' = shown /\ appsJob' = appsJob /\ uninstaller' = uninstaller
      BY <2>6, ChangeAssumption DEF ProgramChanges, AppsTypeOK
    <3> QED
      BY <3>1 DEF AppsTypeOK
  <2>7. CASE UNCHANGED appsVars
    BY <2>7 DEF appsVars, AppsTypeOK
  <2> QED
    BY <2>1, <2>2, <2>3, <2>4, <2>5, <2>6, <2>7 DEF AppsNext
<1> QED
  BY <1>1, <1>2, PTL DEF AppsSpec

-----------------------------------------------------------------------------
(* The games.                                                              *)

(* The process under an id that was found for a card lies in the game's    *)
(* directory, unless the id has been given to another since.               *)
RunsGame(pid, directory) ==
    pid \in reused \/ (processes[pid] # Nobody /\ directory \in Inside[processes[pid]])

PidsMatch ==
    /\ DOMAIN pids = DOMAIN games
    /\ \A i \in DOMAIN pids : pids[i] \in Pid \cup {0}
    /\ \A i \in DOMAIN pids : pids[i] # 0 => RunsGame(pids[i], games[i].directory)
    /\ processes \in [Pid -> Program \cup {Nobody}]

(* A check puts an id on a card only if its process lies there now.        *)
LEMMA CheckedMatch ==
    ASSUME NEW list, NEW f \in Checked(list)
    PROVE  /\ DOMAIN f = DOMAIN list
           /\ \A i \in DOMAIN f : f[i] \in Pid \cup {0}
           /\ \A i \in DOMAIN f : f[i] # 0 =>
                 processes[f[i]] # Nobody /\ list[i].directory \in Inside[processes[f[i]]]
<1>1. f \in [DOMAIN list -> Pid \cup {0}] /\ \A i \in DOMAIN list : f[i] \in Answers(list[i].directory)
  BY DEF Checked
<1>2. ASSUME NEW i \in DOMAIN list, f[i] # 0 PROVE f[i] \in Matches(list[i].directory)
  BY <1>1, <1>2 DEF Answers
<1> QED
  BY <1>1, <1>2 DEF Matches, Under

LEMMA UpdateKeeps ==
    ASSUME PidsMatch, NEW due \in BOOLEAN, Update(due) PROVE PidsMatch'
<1>0. processes' = processes /\ reused' \in {reused, {}}
  BY DEF Update
<1>1. CASE pids' \in Checked(games')
  <2>1. /\ DOMAIN pids' = DOMAIN games'
        /\ \A i \in DOMAIN pids' : pids'[i] \in Pid \cup {0}
        /\ \A i \in DOMAIN pids' : pids'[i] # 0 =>
              processes[pids'[i]] # Nobody /\ games'[i].directory \in Inside[processes[pids'[i]]]
    BY <1>1, CheckedMatch
  <2> QED
    BY <1>0, <2>1 DEF PidsMatch, RunsGame
<1>2. CASE pids' = AfterList.pids /\ reused' = reused /\ gamesJob = "done"
  <2>1. games' = pendingGames /\ pids' = [i \in DOMAIN pendingGames |-> 0]
    BY <1>2 DEF Update, TakeList, AfterList
  <2> QED
    BY <1>0, <2>1 DEF PidsMatch
<1>3. CASE pids' = AfterList.pids /\ reused' = reused /\ gamesJob # "done"
  <2>1. games' = games /\ pids' = pids
    BY <1>3 DEF Update, TakeList, AfterList
  <2> QED
    BY <1>0, <1>3, <2>1 DEF PidsMatch, RunsGame
<1> QED
  BY <1>1, <1>2, <1>3 DEF Update

LEMMA ProcessKeeps ==
    ASSUME PidsMatch, NEW pid \in Pid, NEW program \in Program \cup {Nobody},
           ProcessChanges(pid, program)
    PROVE  PidsMatch'
<1>1. /\ pids' = pids /\ games' = games /\ reused' = reused \cup {pid}
      /\ processes' = [processes EXCEPT ![pid] = program]
  BY DEF ProcessChanges, Apart, cards
<1>2. processes' \in [Pid -> Program \cup {Nobody}]
  BY <1>1 DEF PidsMatch
<1>3. ASSUME NEW i \in DOMAIN pids, pids[i] # 0, pids[i] # pid
      PROVE  processes'[pids[i]] = processes[pids[i]]
  BY <1>1, <1>3 DEF PidsMatch
<1>4. \A i \in DOMAIN pids : pids[i] # 0 => RunsGame(pids[i], games[i].directory)'
  BY <1>1, <1>3 DEF PidsMatch, RunsGame
<1> QED
  BY <1>1, <1>2, <1>4 DEF PidsMatch

(* Every card has its place among the ids, whatever lists came and went,   *)
(* and the id on a card is that of a process in the directory of the       *)
(* card's game, unless it has passed to another (App.cpp, Update).         *)
THEOREM IdsMatchCards == GamesSpec => []PidsMatch
<1>1. GamesInit => PidsMatch
  BY DEF GamesInit, PidsMatch
<1>2. PidsMatch /\ [GamesNext]_gamesVars => PidsMatch'
  <2> SUFFICES ASSUME PidsMatch, [GamesNext]_gamesVars PROVE PidsMatch'
    OBVIOUS
  <2>1. CASE UNCHANGED <<processes, games, pids, reused>>
    BY <2>1 DEF PidsMatch, RunsGame
  <2>2. CASE ScanGames \/ DrawOnly \/ Rescan \/ EndSession \/ UNCHANGED gamesVars
    BY <2>1, <2>2 DEF ScanGames, DrawOnly, Rescan, EndSession, Still, cards, gamesVars
  <2>3. ASSUME NEW v, SetView(v) PROVE PidsMatch'
    BY <2>1, <2>3 DEF SetView, Still, cards
  <2>4. ASSUME NEW i, Launch(i) \/ StartSession(i) PROVE PidsMatch'
    BY <2>1, <2>4 DEF Launch, StartSession, Still, cards
  <2>5. ASSUME NEW r, LibraryChanges(r) PROVE PidsMatch'
    BY <2>1, <2>5 DEF LibraryChanges, Apart, cards
  <2> QED
    BY <2>2, <2>3, <2>4, <2>5, UpdateKeeps, ProcessKeeps DEF GamesNext
<1> QED
  BY <1>1, <1>2, PTL DEF GamesSpec

(* The id that StartSession hands to ProcessBoost is that of a process of  *)
(* the card's game, unless the id passed to another since the last check   *)
(* (App.cpp, FindProcessUnderPath).                                        *)
THEOREM ItsGameIsBoosted == GamesSpec => BoostsThatGame
<1> DEFINE A == boosted' # boosted /\ boosted' # NoBoost =>
                    \/ boosted'.pid \in reused
                    \/ /\ processes[boosted'.pid] # Nobody
                       /\ boosted'.directory \in Inside[processes[boosted'.pid]]
<1>1. PidsMatch /\ [GamesNext]_gamesVars => [A]_gamesVars
  <2> SUFFICES ASSUME PidsMatch, GamesNext, boosted' # boosted, boosted' # NoBoost PROVE A
    OBVIOUS
  <2>1. PICK i \in DOMAIN games : StartSession(i)
    <3>1. ~ScanGames /\ ~DrawOnly /\ ~Rescan /\ ~EndSession /\ \A due : ~Update(due)
      BY DEF ScanGames, DrawOnly, Rescan, EndSession, Update
    <3>2. /\ \A v : ~SetView(v) /\ \A j : ~Launch(j)
          /\ \A r : ~LibraryChanges(r) /\ \A pid, program : ~ProcessChanges(pid, program)
      BY DEF SetView, Launch, LibraryChanges, ProcessChanges, Apart
    <3> QED
      BY <3>1, <3>2 DEF GamesNext
  <2>2. pids[i] # 0 /\ boosted' = [pid |-> pids[i], directory |-> games[i].directory]
    BY <2>1 DEF StartSession
  <2>3. RunsGame(pids[i], games[i].directory)
    BY <2>1, <2>2 DEF PidsMatch
  <2> QED
    BY <2>2, <2>3 DEF RunsGame
<1>2. [][A]_gamesVars => BoostsThatGame
  BY DEF BoostsThatGame
<1> QED
  BY <1>1, <1>2, IdsMatchCards, PTL DEF GamesSpec
=============================================================================
