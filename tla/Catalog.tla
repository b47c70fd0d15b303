------------------------------ MODULE Catalog ------------------------------
(***************************************************************************)
(* The optimizations and profiles that this machine is offered             *)
(* (src/optim/Catalog.cpp, src/optim/Profiles.cpp), built from its         *)
(* inventory when the service is constructed. Of an entry's Info only the  *)
(* id and the advice are kept, of its targets the registry value or the    *)
(* system parameter that is written, and with what; keys are those of      *)
(* HKEY_CURRENT_USER without what they have in common.                     *)
(***************************************************************************)
EXTENDS SystemInventory, Sequences

CONSTANT Machine    \* the machines Nasaki can be started on

(* Every query has an answer, if only that it failed.                      *)
ASSUME MachineAssumption == \A m \in Machine :
    /\ {"build", "cpus", "cores", "ram", "vram", "display", "modes", "power", "drives"}
          \subseteq DOMAIN m
    /\ \A letter \in DOMAIN m.drives :
          {"fixed", "space", "isSolidState"} \subseteq DOMAIN m.drives[letter]

VARIABLES
    machine,    \* the machine the running service was started on, or none
    catalog,    \* Service::m_catalog
    profiles    \* Service::m_profiles

catalogVars == <<machine, catalog, profiles>>

NoMachine == [name |-> "none"]

-----------------------------------------------------------------------------
Classify(recommended) == IF recommended THEN "Recommended" ELSE "Situational"

Target(key, value, wanted) == [place |-> <<key, value>>, wanted |-> wanted]

Entry(id, kind, targets, recommended) ==
    [id |-> id, kind |-> kind, targets |-> targets,
     classification |-> Classify(recommended)]

(* ManualGuideOptimization: nothing is written, whatever it is called.     *)
Guide(id) ==
    [id |-> id, kind |-> "guide", targets |-> <<>>, classification |-> "Informational"]

ResourceConstrained(inventory) ==
    LowMemory(inventory) \/ FewCores(inventory) \/ ~inventory.gpuLikelyDiscrete

Gaming(inventory) ==
  <<Entry("gaming.game_mode", "registry", <<Target("GameBar", "AutoGameModeEnabled", 1)>>,
          FewCores(inventory) \/ LowMemory(inventory)),
    Entry("gaming.game_dvr", "registry",
          <<Target("GameConfigStore", "GameDVR_Enabled", 0),
            Target("GameDVR", "AppCaptureEnabled", 0)>>, TRUE)>>

General(inventory) ==
  <<Entry("general.client_animations", "spi",
          <<Target("SPI", "CLIENTAREAANIMATION", FALSE)>>, ResourceConstrained(inventory)),
    Entry("general.ui_effects", "spi",
          <<Target("SPI", "UIEFFECTS", FALSE)>>, ResourceConstrained(inventory)),
    Entry("general.transparency", "registry",
          <<Target("Personalize", "EnableTransparency", 0)>>,
          ~inventory.gpuLikelyDiscrete)>>

(* Mutant: the second subscription is a copy of the first.                 *)
PrivacyCopied(inventory) ==
  <<Entry("privacy.tips_suggestions", "registry",
          <<Target("ContentDeliveryManager", "338389Enabled", 0)>>, FALSE),
    Entry("privacy.advertising_id", "registry",
          <<Target("AdvertisingInfo", "Enabled", 0)>>, FALSE),
    Entry("privacy.start_suggestions", "registry",
          <<Target("ContentDeliveryManager", "338389Enabled", 0)>>, FALSE)>>

Privacy(inventory) ==
  <<Entry("privacy.tips_suggestions", "registry",
          <<Target("ContentDeliveryManager", "338389Enabled", 0)>>, FALSE),
    Entry("privacy.advertising_id", "registry",
          <<Target("AdvertisingInfo", "Enabled", 0)>>, FALSE),
    Entry("privacy.start_suggestions", "registry",
          <<Target("ContentDeliveryManager", "338388Enabled", 0)>>, FALSE)>>

Responsiveness(inventory) ==
  <<Entry("general.menu_delay", "string",
          <<Target("Desktop", "MenuShowDelay", "0")>>, FALSE),
    Entry("general.taskbar_widgets", "registry",
          <<Target("Advanced", "TaskbarDa", 0)>>,
          LowMemory(inventory) \/ FewCores(inventory))>>

Background(inventory) ==
  <<Entry("startup.background_apps", "registry",
          <<Target("BackgroundAccessApplications", "GlobalUserDisabled", 1)>>,
          LowMemory(inventory) \/ FewCores(inventory)),
    Entry("storage.storage_sense", "registry",
          <<Target("StoragePolicy", "01", 1)>>, SystemDriveLowOnSpace(inventory))>>

Guides(inventory) ==
    <<Guide("gaming.hags"), Guide("gaming.gpu_preference")>>
    \o IF DisplayBelowItsRefresh(inventory) THEN <<Guide("display.refresh_rate")>> ELSE <<>>

BuildCatalog(inventory) ==
    Gaming(inventory) \o General(inventory) \o Privacy(inventory)
    \o Responsiveness(inventory) \o Background(inventory) \o Guides(inventory)

-----------------------------------------------------------------------------
Profile(id, ids) == [id |-> id, optimizationIds |-> ids]

Effects == <<"general.client_animations", "general.ui_effects", "general.transparency">>

Battery == Profile("profile.battery", Effects \o <<"startup.background_apps",
                                                   "storage.storage_sense">>)

BuildProfiles(inventory) ==
  <<Profile("profile.gaming", <<"gaming.game_mode", "gaming.game_dvr">> \o Effects
                              \o <<"startup.background_apps">>),
    Profile("profile.responsive", Effects \o <<"general.menu_delay",
                                               "general.taskbar_widgets">>),
    Profile("profile.quiet", <<"privacy.tips_suggestions", "privacy.start_suggestions",
                               "privacy.advertising_id", "general.taskbar_widgets">>)>>
  \o IF inventory.isLaptop THEN <<Battery>> ELSE <<>>

(* The entries the preview of a profile has a line for, in order.          *)
PreviewProfile(profile) ==
    [k \in DOMAIN profile.optimizationIds |->
        {i \in DOMAIN catalog : catalog[i].id = profile.optimizationIds[k]}]

-----------------------------------------------------------------------------
CatalogInit == machine = NoMachine /\ catalog = <<>> /\ profiles = <<>>

Construct(m) ==
    /\ machine = NoMachine
    /\ machine' = m
    /\ catalog' = BuildCatalog(ReadSystemInventory(m))
    /\ profiles' = BuildProfiles(ReadSystemInventory(m))

(* The program ends, and is started again on a machine that has changed.   *)
Quit ==
    /\ machine # NoMachine
    /\ machine' = NoMachine /\ catalog' = <<>> /\ profiles' = <<>>

CatalogNext == Quit \/ \E m \in Machine : Construct(m)

CatalogSpec == CatalogInit /\ [][CatalogNext]_catalogVars

-----------------------------------------------------------------------------
Places(i) == {catalog[i].targets[k].place : k \in DOMAIN catalog[i].targets}

(* Capture and restore go by place: no two entries, and no two targets of  *)
(* one, write the same one, and no two entries have the same id, which is  *)
(* what the journal and every search of the service assume.                *)
EntriesDoNotOverlap ==
    /\ \A i, j \in DOMAIN catalog : i # j =>
          catalog[i].id # catalog[j].id /\ Places(i) \cap Places(j) = {}
    /\ \A i \in DOMAIN catalog : \A k, l \in DOMAIN catalog[i].targets :
          catalog[i].targets[k].place = catalog[i].targets[l].place => k = l

(* A profile does what its preview shows: each of its ids is one entry of  *)
(* this machine's catalog, named once, that can be applied and rolled back.*)
(* (An id that is not in the catalog would be left out of both silently.)  *)
ProfilesFit ==
    \A p \in DOMAIN profiles :
        LET steps == PreviewProfile(profiles[p])
        IN  /\ \A k \in DOMAIN steps : \E i \in DOMAIN catalog :
                  steps[k] = {i} /\ catalog[i].kind # "guide"
            /\ \A k, l \in DOMAIN steps : steps[k] = steps[l] => k = l

CatalogFits == EntriesDoNotOverlap /\ ProfilesFit

Recommended(entries) ==
    {entries[i].id : i \in {j \in DOMAIN entries : entries[j].classification = "Recommended"}}
Offered(list) == {list[i].id : i \in DOMAIN list}

(* The answers a machine may fail to give, and that machine if it does.    *)
Fact == {"build", "cores", "ram", "vram", "display", "power", "battery", "space"}
WithoutSpace(drives) == [l \in DOMAIN drives |-> [drives[l] EXCEPT !.space = Silent]]
WithoutBattery(power) ==
    IF power = Silent THEN Silent ELSE [power EXCEPT !.battery = "unknown"]
Muted(m, fact) ==
    CASE fact = "space" -> [m EXCEPT !.drives = WithoutSpace(@)]
      [] fact = "battery" -> [m EXCEPT !.power = WithoutBattery(@)]
      [] OTHER -> [m EXCEPT ![fact] = Silent]

(* "Anything that can't be determined is ... never guessed": a query that  *)
(* fails adds no advice, no entry and no profile to what the same machine  *)
(* is offered when it answers. Two are guessed. An adapter nobody could    *)
(* ask counts as an integrated one, and that is a recommendation. And a    *)
(* battery of which Windows knows nothing counts as one: the machine is    *)
(* offered the profile for machines with a battery, if nothing else.       *)
SilenceAdvisesNothing ==
    machine # NoMachine => \A fact \in Fact :
        LET muted == ReadSystemInventory(Muted(machine, fact))
            guessed == IF fact = "battery" THEN {"profile.battery"} ELSE {}
        IN  /\ fact # "vram" => Recommended(BuildCatalog(muted)) \subseteq Recommended(catalog)
            /\ Offered(BuildCatalog(muted)) \subseteq Offered(catalog)
            /\ Offered(BuildProfiles(muted)) \subseteq Offered(profiles) \cup guessed
=============================================================================
