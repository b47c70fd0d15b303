------------------------------ MODULE License ------------------------------
(***************************************************************************)
(* The activation of a license and the record of the device               *)
(* (src/LicenseStore.cpp; SubmitLicenseKey, Unlink, the constructor and    *)
(* Update in src/App.cpp): a key is typed and sent by a job of the worker, *)
(* a later frame stores what was answered, and the next start of the       *)
(* program loads it. Calls of the file system fail, the program is closed  *)
(* or dies between any two steps, and the user goes on typing.             *)
(***************************************************************************)
EXTENDS Naturals

CONSTANTS
    LicenseKey, \* what can be typed
    Blank,      \* nothing typed
    NoDevice,   \* no device, no record, no answer
    Torn,       \* what a Save that did not finish leaves
    MaxLinks    \* bound: activations and restarts

(* The token a server issues for a key; a server may also issue none.      *)
Token == [for : LicenseKey] \cup {Blank}
StoredDevice == [licenseKey : LicenseKey \cup {Blank}, deviceToken : Token]
Answer == {[ok |-> TRUE, token |-> t] : t \in Token} \cup {[ok |-> FALSE, token |-> Blank]}

ASSUME BlankAssumption == Blank \notin LicenseKey /\ Blank \notin [for : LicenseKey]
ASSUME FileAssumption ==
    /\ NoDevice \notin StoredDevice \cup Answer /\ Torn \notin StoredDevice \cup {NoDevice}
ASSUME LinksAssumption == MaxLinks \in Nat

VARIABLES
    up,         \* the program runs
    input,      \* m_licenseKeyInput
    activating, \* m_activating
    submitted,  \* the key of the job that is queued, Blank when none is
    answer,     \* m_pendingLicenseResult
    saving,     \* the Save that Update is in: NoDevice when in none
    device,     \* m_device
    config,     \* config.json
    (* history variables *)
    retyped,    \* what the field was changed to during an activation
    failed,     \* the last Save or Clear did not do what it should
    links

fileVars == <<config, failed>>
licenseVars == <<up, input, activating, submitted, answer, saving, device, fileVars,
                 retyped, links>>

LicenseInit ==
    /\ up = FALSE /\ input = Blank /\ activating = FALSE /\ submitted = Blank
    /\ answer = NoDevice /\ saving = NoDevice /\ device = NoDevice /\ config = NoDevice
    /\ retyped = {} /\ failed = FALSE /\ links = 0

(* A record without a token, or one that cannot be parsed, is no device.   *)
LoadDevice == IF config \in {NoDevice, Torn} THEN NoDevice
              ELSE IF config.deviceToken = Blank THEN NoDevice ELSE config

(* The constructor of App.                                                 *)
Start ==
    /\ ~up /\ links < MaxLinks
    /\ up' = TRUE /\ device' = LoadDevice /\ links' = links + 1
    /\ UNCHANGED <<input, activating, submitted, answer, saving, fileVars, retyped>>

(* The window is closed, or the process dies; a job that is queued is run  *)
(* or not, and its answer is nobody's. Only dying cuts a Save short.       *)
End ==
    /\ up
    /\ up' = FALSE /\ input' = Blank /\ activating' = FALSE /\ submitted' = Blank
    /\ answer' = NoDevice /\ saving' = NoDevice /\ device' = NoDevice
    /\ failed' = (failed \/ saving # NoDevice)
    /\ UNCHANGED <<config, retyped, links>>

-----------------------------------------------------------------------------
(* The form, which is shown while there is no device.                      *)

Form == up /\ device = NoDevice /\ saving = NoDevice

(* The field can be retyped also while its button is disabled.              *)
Type(key) ==
    /\ Form /\ input # key
    /\ input' = key
    /\ retyped' = IF activating THEN retyped \cup {key} ELSE retyped
    /\ UNCHANGED <<up, activating, submitted, answer, saving, device, fileVars, links>>

(* Mutant: the field is cleared once the key is sent.                      *)
SubmitAndClear ==
    /\ Form /\ ~activating /\ input # Blank /\ links < MaxLinks
    /\ activating' = TRUE /\ submitted' = input /\ links' = links + 1
    /\ input' = Blank
    /\ UNCHANGED <<up, answer, saving, device, fileVars, retyped>>

SubmitLicenseKey ==
    /\ Form /\ ~activating /\ input # Blank /\ links < MaxLinks
    /\ activating' = TRUE /\ submitted' = input /\ links' = links + 1
    /\ UNCHANGED <<up, input, answer, saving, device, fileVars, retyped>>

(* The worker's call: a token for the key that was sent, none, or a        *)
(* refusal, which a lost call looks like.                                  *)
RegisterDevice(a) ==
    /\ up /\ submitted # Blank
    /\ a.token \in {[for |-> submitted], Blank}
    /\ answer' = a /\ submitted' = Blank
    /\ UNCHANGED <<up, input, activating, saving, device, fileVars, retyped, links>>

-----------------------------------------------------------------------------
(* Update takes the answer. Save truncates the file, then writes it; its   *)
(* result is not looked at.                                                *)

TakeRefusal ==
    /\ up /\ answer # NoDevice /\ ~answer.ok
    /\ answer' = NoDevice /\ activating' = FALSE
    /\ UNCHANGED <<up, input, submitted, saving, device, fileVars, retyped, links>>

TakeDevice ==
    /\ up /\ answer # NoDevice /\ answer.ok
    /\ answer' = NoDevice /\ activating' = FALSE
    /\ LET linked == [licenseKey |-> input, deviceToken |-> answer.token]
       IN  \/ saving' = linked /\ config' = Torn /\ UNCHANGED <<device, failed>>
           \/ device' = linked /\ failed' = TRUE /\ UNCHANGED <<saving, config>>
    /\ UNCHANGED <<up, input, submitted, retyped, links>>

SaveDevice ==
    /\ up /\ saving # NoDevice
    /\ \/ config' = saving /\ failed' = FALSE
       \/ failed' = TRUE /\ UNCHANGED config
    /\ device' = saving /\ saving' = NoDevice
    /\ UNCHANGED <<up, input, activating, submitted, answer, retyped, links>>

(* Mutant: the record stays.                                               *)
ClearNothing == UNCHANGED fileVars

(* DeleteFile, whose result is not looked at.                              *)
Clear ==
    \/ config' = NoDevice /\ failed' = FALSE
    \/ failed' = TRUE /\ UNCHANGED config

Unlink ==
    /\ up /\ device # NoDevice
    /\ Clear
    /\ device' = NoDevice /\ input' = Blank
    /\ UNCHANGED <<up, activating, submitted, answer, saving, retyped, links>>

LicenseNext ==
    \/ Start \/ End
    \/ \E key \in LicenseKey \cup {Blank} : Type(key)
    \/ SubmitLicenseKey \/ \E a \in Answer : RegisterDevice(a)
    \/ TakeRefusal \/ TakeDevice \/ SaveDevice \/ Unlink

LicenseSpec == LicenseInit /\ [][LicenseNext]_licenseVars

-----------------------------------------------------------------------------
(* Every variable has its type.                                            *)
LicenseTypeOK ==
    /\ up \in BOOLEAN /\ activating \in BOOLEAN
    /\ input \in LicenseKey \cup {Blank} /\ submitted \in LicenseKey \cup {Blank}
    /\ answer \in Answer \cup {NoDevice}
    /\ saving \in StoredDevice \cup {NoDevice} /\ device \in StoredDevice \cup {NoDevice}
    /\ config \in StoredDevice \cup {NoDevice, Torn}
    /\ retyped \in SUBSET (LicenseKey \cup {Blank}) /\ failed \in BOOLEAN /\ links \in Nat

(* The key stored with a device is the one its token was issued for,       *)
(* through restarts and repeated activations, unless it is a text that     *)
(* the field was changed to while a call was under way: what is stored is  *)
(* the field when the answer is taken, not the key that was sent.          *)
StoredKeyMatches ==
    device # NoDevice /\ device.deviceToken # Blank =>
        \/ device.deviceToken = [for |-> device.licenseKey]
        \/ device.licenseKey \in retyped

(* "Re-launching the app doesn't require re-entering the license key", and *)
(* a device that was unlinked stays so: what the next start will load is   *)
(* the device of now, unless the last Save or Clear failed or was cut      *)
(* short; a device without a token is not loaded again.                    *)
DeviceIsKept ==
    up /\ saving = NoDevice /\ ~failed =>
        \/ LoadDevice = device
        \/ device # NoDevice /\ device.deviceToken = Blank
=============================================================================
