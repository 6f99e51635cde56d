------------------------- MODULE VolumeCache_proofs -------------------------
(***************************************************************************)
(* Proof that an acknowledged SetVolume outlives crashes and failed dumps. *)
(***************************************************************************)
EXTENDS VolumeCache, TLAPS

USE CacheAssumption

LEMMA InitCacheInv == Init => CacheInv
  BY DEF Init, Empty, CacheInv, TypeOK, Map, SetsDurable, FileHasSets, CallUnknown, WritesTorn

(* The list a start reads has what was acknowledged. *)
LEMMA RestoreInv == CacheInv /\ Restore => CacheInv'
<1> SUFFICES ASSUME CacheInv, Restore PROVE CacheInv'
  OBVIOUS
<1>1. TypeOK'
  BY DEF Restore, Empty, Map, CacheInv, TypeOK
<1>2. SetsDurable'
  <2> SUFFICES ASSUME NEW v \in VolIDs, told[v] \in Volumes
               PROVE  volumes'[v] = told[v]
    BY DEF SetsDurable, GetVolumeByID, Restore
  <2>1. file # Absent /\ file # Torn /\ file[v] = told[v]
    BY DEF CacheInv, FileHasSets, Restore
  <2> QED
    BY <2>1 DEF Restore
<1>3. FileHasSets' /\ CallUnknown' /\ WritesTorn'
  BY DEF CacheInv, FileHasSets, CallUnknown, WritesTorn, Restore
<1> QED
  BY <1>1, <1>2, <1>3 DEF CacheInv

(* A call makes the outcome for its own volume unknown, and that only.      *)
LEMMA ChangeInv ==
  ASSUME CacheInv, NEW v \in VolIDs, NEW value \in Volumes \cup {Absent},
         pc = "idle", Change(v, value)
  PROVE  CacheInv'
<1>1. TypeOK'
  BY DEF Change, CacheInv, TypeOK, Map
<1>2. \A w \in VolIDs : told'[w] \in Volumes => w # v /\ told'[w] = told[w]
  BY DEF Change, CacheInv, TypeOK
<1>3. SetsDurable'
  BY <1>2 DEF Change, CacheInv, TypeOK, Map, SetsDurable, GetVolumeByID
<1>4. FileHasSets'
  BY <1>2 DEF Change, CacheInv, FileHasSets
<1>5. CallUnknown' /\ WritesTorn'
  BY DEF Change, CacheInv, TypeOK, CallUnknown, WritesTorn
<1> QED
  BY <1>1, <1>3, <1>4, <1>5 DEF CacheInv

LEMMA DeleteAbsentInv ==
  ASSUME CacheInv, NEW v \in VolIDs, DeleteAbsent(v)
  PROVE  CacheInv'
<1>1. TypeOK'
  BY DEF DeleteAbsent, CacheInv, TypeOK
<1>2. \A w \in VolIDs : told'[w] \in Volumes => told'[w] = told[w]
  BY DEF DeleteAbsent, CacheInv, TypeOK
<1>3. SetsDurable' /\ FileHasSets'
  BY <1>2 DEF DeleteAbsent, CacheInv, SetsDurable, FileHasSets, GetVolumeByID
<1>4. CallUnknown' /\ WritesTorn'
  BY DEF DeleteAbsent, CallUnknown, WritesTorn
<1> QED
  BY <1>1, <1>3, <1>4 DEF CacheInv

(* A dump that succeeds writes all that is in memory, what was acknowledged *)
(* before and the volume of the call.                                       *)
LEMMA WrittenInv == CacheInv /\ Written => CacheInv'
<1> SUFFICES ASSUME CacheInv, Written PROVE CacheInv'
  OBVIOUS
<1>1. TypeOK'
  BY DEF Written, CacheInv, TypeOK, Map
<1>2. \A w \in VolIDs : told'[w] \in Volumes => volumes[w] = told'[w]
  BY DEF Written, CacheInv, TypeOK, SetsDurable, GetVolumeByID
<1>3. SetsDurable'
  BY <1>2 DEF Written, SetsDurable, GetVolumeByID
<1>4. FileHasSets'
  BY <1>2 DEF Written, FileHasSets, CacheInv, TypeOK, Map
<1>5. CallUnknown' /\ WritesTorn'
  BY DEF Written, CallUnknown, WritesTorn
<1> QED
  BY <1>1, <1>3, <1>4, <1>5 DEF CacheInv

(* Truncating the file loses no acknowledged volume: a torn file is never   *)
(* read as a list, and the next complete dump writes them all.              *)
LEMMA TruncateInv == CacheInv /\ Truncate => CacheInv'
  BY DEF Truncate, CacheInv, TypeOK, SetsDurable, FileHasSets, CallUnknown, WritesTorn,
         GetVolumeByID

LEMMA FailedDumpInv == CacheInv /\ (OpenFails \/ WriteFails) => CacheInv'
  BY DEF OpenFails, WriteFails, CacheInv, TypeOK, SetsDurable, FileHasSets, CallUnknown,
         WritesTorn, GetVolumeByID

LEMMA CrashInv == CacheInv /\ Crash => CacheInv'
  BY DEF Crash, Empty, Map, CacheInv, TypeOK, SetsDurable, FileHasSets, CallUnknown, WritesTorn

(* The invariant of the cache, for all volumes and any mix of crashes and   *)
(* failed dumps (dump and restore).                                         *)
THEOREM CacheInvariant == Spec => []CacheInv
<1>1. CacheInv /\ [Next]_vars => CacheInv'
  <2> SUFFICES ASSUME CacheInv, [Next]_vars PROVE CacheInv'
    OBVIOUS
  <2>1. ASSUME NEW v \in VolIDs, NEW value \in Volumes, SetVolume(v, value)
        PROVE  CacheInv'
    BY <2>1, ChangeInv DEF SetVolume
  <2>2. ASSUME NEW v \in VolIDs, DeleteVolume(v)
        PROVE  CacheInv'
    BY <2>2, ChangeInv DEF DeleteVolume
  <2>3. ASSUME NEW v \in VolIDs, DeleteAbsent(v)
        PROVE  CacheInv'
    BY <2>3, DeleteAbsentInv
  <2>4. CASE Restore \/ OpenFails \/ Truncate \/ WriteFails \/ Written \/ Crash
    BY <2>4, RestoreInv, FailedDumpInv, TruncateInv, WrittenInv, CrashInv
  <2>5. CASE UNCHANGED vars
    BY <2>5 DEF vars, CacheInv, TypeOK, SetsDurable, FileHasSets, CallUnknown, WritesTorn,
       GetVolumeByID
  <2> QED
    BY <2>1, <2>2, <2>3, <2>4, <2>5 DEF Next
<1> QED
  BY InitCacheInv, <1>1, PTL DEF Spec

(* As long as the cache is up, an acknowledged SetVolume is found as it was *)
(* set, whatever dumps of later calls for other volumes have failed and     *)
(* whatever starts lie between; and every start that succeeds finds it,     *)
(* since a file that decodes has it (SetVolume, dump, restore).  A dump     *)
(* that was cut short leaves a file that does not decode: then the cache    *)
(* starts no more, rather than without the volume.                          *)
THEOREM CacheSetsDurable == Spec => [](SetsDurable /\ FileHasSets)
<1>1. CacheInv => SetsDurable /\ FileHasSets
  BY DEF CacheInv
<1> QED
  BY CacheInvariant, <1>1, PTL
=============================================================================
