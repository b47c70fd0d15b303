-------------------------- MODULE SystemInventory --------------------------
(***************************************************************************)
(* What Nasaki learns of the machine (src/optim/SystemInventory.cpp): a    *)
(* machine is what Windows answers to each query, an inventory what is     *)
(* made of the answers. Memory and disk space are in gigabytes; names are  *)
(* left out.                                                               *)
(***************************************************************************)
EXTENDS Integers

CONSTANT Silent    \* the query fails

ASSUME SilentAssumption == Silent \notin Int

Else(answer, value) == IF answer = Silent THEN value ELSE answer

(* Windows 10 and 11 share a product name; this build tells them apart.    *)
ReadOs(machine) == [osBuild |-> Else(machine.build, 0)]

(* GetSystemInfo always answers.                                           *)
ReadCpu(machine) == [logicalProcessors |-> machine.cpus,
                     physicalCores |-> Else(machine.cores, 0)]

ReadMemory(machine) == [totalPhysical |-> Else(machine.ram, 0)]

(* The first adapter; one of unknown memory counts as integrated.          *)
ReadGpu(machine) ==
    [gpuDedicated |-> Else(machine.vram, 0),
     gpuLikelyDiscrete |-> machine.vram # Silent /\ machine.vram > 1]

(* The highest refresh among the modes of the resolution in use.           *)
HighestOf(modes) ==
    IF modes = {} THEN 0
    ELSE (CHOOSE high \in modes : \A mode \in modes : mode.hz <= high.hz).hz

ReadDisplay(machine) ==
    IF machine.display = Silent THEN [displayRefreshHz |-> 0, displayMaxRefreshHz |-> 0]
    ELSE [displayRefreshHz |-> machine.display.hz,
          displayMaxRefreshHz |->
              HighestOf({mode \in machine.modes : mode.size = machine.display.size})]

(* BatteryFlag is compared with one value only: 255, Windows' "unknown",   *)
(* is not "no battery", and makes a laptop of any machine.                 *)
ReadPower(machine) ==
    IF machine.power = Silent THEN [isLaptop |-> FALSE, onBattery |-> FALSE]
    ELSE [isLaptop |-> machine.power.battery # "none",
          onBattery |-> machine.power.line = "offline"]

(* Sizes of a drive that does not answer stay 0, its kind unknown.         *)
ReadStorage(machine) ==
    [drives |-> [letter \in {l \in DOMAIN machine.drives : machine.drives[l].fixed} |->
        LET drive == machine.drives[letter]
        IN  [total |-> IF drive.space = Silent THEN 0 ELSE drive.space.total,
             free |-> IF drive.space = Silent THEN 0 ELSE drive.space.free,
             isSolidState |-> drive.isSolidState]]]

(* The records side by side.                                               *)
Beside(r, s) == [f \in DOMAIN r \cup DOMAIN s |-> IF f \in DOMAIN r THEN r[f] ELSE s[f]]

ReadSystemInventory(machine) ==
    Beside(ReadOs(machine), Beside(ReadCpu(machine), Beside(ReadMemory(machine),
        Beside(ReadGpu(machine), Beside(ReadDisplay(machine),
            Beside(ReadPower(machine), ReadStorage(machine)))))))

-----------------------------------------------------------------------------
(* The predicates the catalog's advice is made of.                         *)

(* Mutant: a memory that was not read is little memory.                    *)
LowMemoryUnread(inventory) == inventory.totalPhysical < 9

LowMemory(inventory) == inventory.totalPhysical > 0 /\ inventory.totalPhysical < 9

FewCores(inventory) == inventory.logicalProcessors > 0 /\ inventory.logicalProcessors <= 4

DisplayBelowItsRefresh(inventory) ==
    /\ inventory.displayRefreshHz > 0
    /\ inventory.displayMaxRefreshHz > inventory.displayRefreshHz + 1

SystemDriveLowOnSpace(inventory) ==
    /\ "C" \in DOMAIN inventory.drives
    /\ LET drive == inventory.drives["C"]
       IN  /\ drive.total > 0
           /\ drive.free * 10 < drive.total \/ drive.free < 20
=============================================================================
