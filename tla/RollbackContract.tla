-------------------------- MODULE RollbackContract --------------------------
(***************************************************************************)
(* What the optimization framework promises about the values it changes,   *)
(* without saying how (docs/OPTIMIZATIONS.md, "Every setting Nasaki can    *)
(* change goes through one interface so they all get the same guarantees").*)
(* A value is changed only while there is a record of what the user had    *)
(* there; the record is taken while the value is the user's, is not        *)
(* replaced, and is dropped only once the user's value is back. It lives   *)
(* as long as the process, which finds after a restart what it had saved.  *)
(***************************************************************************)

CONSTANTS
    Place,      \* the values of the machine Nasaki can change
    Shared,     \* those another part of Nasaki changes as well
    Snapshot,   \* what a place can hold, its absence included
    NoEntry     \* "nothing recorded for this place"

Party == {"user", "nasaki"}
Cell == [value: Snapshot, by: Party]          \* a value and who wrote it last
UserCell == [value: Snapshot, by: {"user"}]
Records == [Place -> Cell \cup {NoEntry}]
Nothing == [p \in Place |-> NoEntry]

VARIABLES
    live,       \* what the machine holds now
    record,     \* what Nasaki can put back
    saved,      \* what it would find after a restart
    up,         \* the process is running
    void        \* the places for which the promise could not be kept

vars == <<live, record, saved, up, void>>

Held == Place \ void

Init ==
    /\ live \in [Place -> UserCell]
    /\ record = Nothing /\ saved = Nothing
    /\ up = TRUE
    /\ void = {}

(* The user, Windows or another program writes a value at any moment.      *)
UserWrites ==
    /\ \E p \in Place, c \in UserCell : live' = [live EXCEPT ![p] = c]
    /\ UNCHANGED <<record, saved, up, void>>

(* Records are only added where there is none, of the value that is there  *)
(* and is the user's.                                                      *)
Record ==
    /\ up
    /\ record' \in Records
    /\ \A p \in Held : record'[p] # record[p] =>
           record[p] = NoEntry /\ record'[p] = live[p] /\ live[p].by = "user"
    /\ UNCHANGED <<live, saved, up, void>>

(* Nasaki writes only where it holds a record.                             *)
Change(p) ==
    /\ up /\ record[p] # NoEntry
    /\ \E v \in Snapshot : live' = [live EXCEPT ![p] = [value |-> v, by |-> "nasaki"]]
    /\ UNCHANGED <<record, saved, up, void>>

PutBack(p) ==
    /\ up /\ record[p] # NoEntry
    /\ live' = [live EXCEPT ![p] = record[p]]
    /\ UNCHANGED <<record, saved, up, void>>

(* Records are dropped only where the value is the user's again.           *)
Settle ==
    /\ up
    /\ record' \in Records
    /\ \A p \in Held : record'[p] # record[p] =>
           record'[p] = NoEntry /\ live[p].by = "user"
    /\ UNCHANGED <<live, saved, up, void>>

-----------------------------------------------------------------------------
(* The file is replaced by way of an empty one.                            *)
Save ==
    /\ up
    /\ saved' \in {record, Nothing}
    /\ UNCHANGED <<live, record, up, void>>

(* The process ends, and with it every record that is not saved.           *)
Unsaved == {p \in Place : live[p].by = "nasaki" /\ saved[p] = NoEntry}

Stop ==
    /\ up /\ up' = FALSE
    /\ record' = Nothing
    /\ void' = void \cup Unsaved
    /\ UNCHANGED <<live, saved>>

Start ==
    /\ ~up /\ up' = TRUE
    /\ record' = saved
    /\ UNCHANGED <<live, saved, void>>

-----------------------------------------------------------------------------
(* The two ways a place is given up while the process runs: its value is   *)
(* taken for the recorded one, or another part of Nasaki has changed it.   *)
Misjudge(p) ==
    /\ up /\ record[p] # NoEntry /\ live[p].value # record[p].value
    /\ void' = void \cup {p}
    /\ UNCHANGED <<live, record, saved, up>>

Lapse(p) ==
    /\ p \in Shared
    /\ void' = void \cup {p}
    /\ UNCHANGED <<live, record, saved, up>>

(* Nothing is promised about the places given up, and nothing else may     *)
(* change along with them.                                                 *)
Adrift ==
    /\ live' \in [Place -> Cell] /\ record' \in Records
    /\ \A p \in Held : live'[p] = live[p] /\ record'[p] = record[p]
    /\ UNCHANGED <<saved, up, void>>

Next ==
    \/ UserWrites \/ Record \/ Settle \/ Save \/ Stop \/ Start \/ Adrift
    \/ \E p \in Place : Change(p) \/ PutBack(p) \/ Misjudge(p) \/ Lapse(p)

Spec == Init /\ [][Next]_vars
=============================================================================
