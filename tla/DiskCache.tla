----------------------------- MODULE DiskCache ------------------------------
(***************************************************************************)
(* The disk caches of ONEDrive (impl/disk_cache.py), as its client for     *)
(* DataONE (impl/clients/onedrive_d1_client.py) and its region resolver    *)
(* use them: what is not there is fetched and stored, after the oldest     *)
(* file has been deleted if the cache is full. The files stay when the     *)
(* program ends, and it may be started with another limit. The time stamps *)
(* of files have a resolution of a second, so that any file may be found   *)
(* to be the oldest.                                                       *)
(***************************************************************************)
EXTENDS Naturals, FiniteSets

CONSTANTS
    DiskKey,
    Limits,  \* the limits that the program is started with
    NoFetch  \* nothing is being fetched

ASSUME DiskAssumption == Limits \subseteq Nat \ {0} /\ NoFetch \notin DiskKey

VARIABLES
    files,     \* the keys in the cache directory
    limit,     \* _max_items
    n_items,   \* _n_items
    fetching,  \* the key whose object is being fetched
    inherited  \* the number of files at the start of the program

diskVars == <<files, limit, n_items, fetching, inherited>>

Full == n_items = limit

(* _delete_oldest_file_if_full(): the files and the count that remain. *)
Evicted(S, n) ==
    IF Full THEN \E k \in files : S = files \ {k} /\ n = n_items - 1
    ELSE S = files /\ n = n_items

DiskInit ==
    /\ files = {}
    /\ limit \in Limits
    /\ n_items = 0 /\ fetching = NoFetch /\ inherited = 0

(* The program is started, after it has ended at any point. *)
Restart ==
    /\ limit' \in Limits
    /\ n_items' = Cardinality(files) /\ inherited' = Cardinality(files)
    /\ fetching' = NoFetch
    /\ UNCHANGED files

(* The client deletes before it fetches, the region resolver does not. *)
Miss(k) ==
    /\ fetching = NoFetch /\ k \notin files
    /\ Evicted(files', n_items') \/ UNCHANGED <<files, n_items>>
    /\ fetching' = k
    /\ UNCHANGED <<limit, inherited>>

FetchFails ==
    /\ fetching # NoFetch /\ fetching' = NoFetch
    /\ UNCHANGED <<files, limit, n_items, inherited>>

(* Variant: the new file is not counted. *)
CountedNot(n) == n

Counted(n) == n + 1

(* __setitem__() *)
SetItem ==
    /\ fetching # NoFetch
    /\ \E S \in SUBSET files, n \in 0 .. n_items :
          /\ Evicted(S, n)
          /\ files' = S \cup {fetching} /\ n_items' = Counted(n)
    /\ fetching' = NoFetch
    /\ UNCHANGED <<limit, inherited>>

DiskNext == Restart \/ (\E k \in DiskKey : Miss(k)) \/ FetchFails \/ SetItem

DiskSpec == DiskInit /\ [][DiskNext]_diskVars
-----------------------------------------------------------------------------
DiskTypeOK ==
    /\ files \in SUBSET DiskKey /\ IsFiniteSet(files)
    /\ limit \in Limits
    /\ n_items \in Nat /\ inherited \in Nat
    /\ fetching \in DiskKey \cup {NoFetch}

(* The counter that decides on deletion is the number of files, also while  *)
(* an object is being fetched and after the program was killed.             *)
CountsFiles == n_items = Cardinality(files)

(* "a limit on how many objects can be cached": there are no more files than *)
(* that, unless the program found more when it was started; then there are   *)
(* no more than it found.                                                    *)
WithinLimit == Cardinality(files) <= limit \/ Cardinality(files) <= inherited

(* The cache stays within its limit, because it knows how full it is.        *)
DiskBounded == CountsFiles /\ WithinLimit

(* Why: what is being fetched is not there, and if the program is always     *)
(* started with the same limit, what it finds is within it.                  *)
DiskInv == DiskTypeOK /\ CountsFiles /\ fetching \notin files

RoomInv == Cardinality(files) <= limit /\ inherited <= limit
=============================================================================
