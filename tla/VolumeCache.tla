---------------------------- MODULE VolumeCache ----------------------------
(***************************************************************************)
(* The volume list that is kept in a file (pkg/cache/store.go; no command  *)
(* of the repository uses it yet).                                         *)
(*                                                                         *)
(* Every change is made in memory first and then dumped: os.WriteFile      *)
(* truncates the file and writes it anew, and a failure or a crash in      *)
(* between leaves a file that does not decode.  The mutex is held from the *)
(* change to the end of the dump, so that one call is under way at a time. *)
(***************************************************************************)
CONSTANTS
    VolIDs,
    Volumes,        \* the values of a volume
    Absent,         \* no volume with this ID in the map; no store file
    Torn,           \* the content of a store file that is not whole
    Unknown,        \* the caller cannot know: its last call has not succeeded
    DumpsMayFail    \* whether writing the file can return an error

ASSUME CacheAssumption ==
    /\ Absent \notin Volumes /\ Unknown \notin Volumes /\ Absent # Unknown
    /\ Absent # Torn
    /\ Absent \notin [VolIDs -> Volumes \cup {Absent}]
    /\ Torn \notin [VolIDs -> Volumes \cup {Absent}]

VARIABLES
    pc,         \* "down", "idle", or how far the dump has come
    volumes,    \* c.Volumes
    file,       \* c.storeFile
    id,         \* the ID the call under way is about
    told        \* what the callers have been told of each ID

vars == << pc, volumes, file, id, told >>

Map == [VolIDs -> Volumes \cup {Absent}]

Empty == [v \in VolIDs |-> Absent]

TypeOK ==
    /\ pc \in {"down", "idle", "dump", "write"}
    /\ volumes \in Map
    /\ file \in Map \cup {Absent, Torn}
    /\ id \in VolIDs
    /\ told \in [VolIDs -> Volumes \cup {Absent, Unknown}]

Init ==
    /\ pc = "down"
    /\ volumes = Empty
    /\ file = Absent
    /\ id \in VolIDs
    /\ told = Empty

----------------------------------------------------------------------------
(* New and restore. *)

(* Slip: a file that does not decode counts as none. *)
RestoreAnyway ==
    /\ pc = "down"
    /\ pc' = "idle"
    /\ volumes' = IF file \in {Absent, Torn} THEN Empty ELSE file
    /\ UNCHANGED << file, id, told >>

(* A torn file is an error of New: the cache does not start. *)
Restore ==
    /\ pc = "down"
    /\ file # Torn
    /\ pc' = "idle"
    /\ volumes' = IF file = Absent THEN Empty ELSE file
    /\ UNCHANGED << file, id, told >>

GetVolumeByID(v) == volumes[v]

(* The map is changed and the dump begins. *)
Change(v, value) ==
    /\ volumes' = [volumes EXCEPT ![v] = value]
    /\ pc' = "dump"
    /\ id' = v
    /\ told' = [told EXCEPT ![v] = Unknown]
    /\ UNCHANGED file

SetVolume(v, value) == pc = "idle" /\ Change(v, value)

(* Slip: the volume is deleted in memory only. *)
DeleteUndumped(v) ==
    /\ pc = "idle"
    /\ volumes[v] # Absent
    /\ volumes' = [volumes EXCEPT ![v] = Absent]
    /\ told' = [told EXCEPT ![v] = Absent]
    /\ UNCHANGED << pc, file, id >>

DeleteVolume(v) ==
    /\ pc = "idle"
    /\ volumes[v] # Absent
    /\ Change(v, Absent)

(* Nothing to delete: success at once, and no dump. *)
DeleteAbsent(v) ==
    /\ pc = "idle"
    /\ volumes[v] = Absent
    /\ told' = [told EXCEPT ![v] = Absent]
    /\ UNCHANGED << pc, volumes, file, id >>

----------------------------------------------------------------------------
(* dump *)

OpenFails ==
    /\ DumpsMayFail
    /\ pc = "dump"
    /\ pc' = "idle"
    /\ UNCHANGED << volumes, file, id, told >>

Truncate ==
    /\ pc = "dump"
    /\ pc' = "write"
    /\ file' = Torn
    /\ UNCHANGED << volumes, id, told >>

WriteFails ==
    /\ DumpsMayFail
    /\ pc = "write"
    /\ pc' = "idle"
    /\ UNCHANGED << volumes, file, id, told >>

(* The call returns nil. *)
Written ==
    /\ pc = "write"
    /\ pc' = "idle"
    /\ file' = volumes
    /\ told' = [told EXCEPT ![id] = volumes[id]]
    /\ UNCHANGED << volumes, id >>

Crash ==
    /\ pc # "down"
    /\ pc' = "down"
    /\ volumes' = Empty
    /\ UNCHANGED << file, id, told >>

----------------------------------------------------------------------------
Next ==
    \/ Restore
    \/ \E v \in VolIDs, value \in Volumes : SetVolume(v, value)
    \/ \E v \in VolIDs : DeleteVolume(v) \/ DeleteAbsent(v)
    \/ OpenFails \/ Truncate \/ WriteFails \/ Written
    \/ Crash

Spec == Init /\ [][Next]_vars

----------------------------------------------------------------------------
(* A volume once set, and acknowledged, is found as it was set, crashes and *)
(* failed dumps of later calls for other volumes included, in every cache   *)
(* that is up: none has an older list.  After a dump that was cut short by  *)
(* a crash none comes up.                                                   *)
SetsDurable ==
    \A v \in VolIDs :
        pc # "down" /\ told[v] \in Volumes => GetVolumeByID(v) = told[v]

(* A volume whose deletion was acknowledged is not found again.             *)
DeletesDurable ==
    \A v \in VolIDs :
        pc # "down" /\ told[v] = Absent => GetVolumeByID(v) = Absent

(* Why sets are durable: whatever list the next start may read has the      *)
(* volume too, and there is a file once something was acknowledged.         *)
FileHasSets ==
    \A v \in VolIDs : told[v] \in Volumes =>
        /\ file # Absent
        /\ file # Torn => file[v] = told[v]

CallUnknown == pc \in {"dump", "write"} => told[id] = Unknown

WritesTorn == pc = "write" => file = Torn

CacheInv ==
    /\ TypeOK
    /\ SetsDurable
    /\ FileHasSets
    /\ CallUnknown
    /\ WritesTorn
============================================================================
