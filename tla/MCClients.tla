----------------------------- MODULE MCClients ------------------------------
(***************************************************************************)
(* An instance of the client side, and of access control, for TLC: each    *)
(* behaviour is that of one of the programs, which have nothing in common. *)
(***************************************************************************)
EXTENDS MCGmnAccess, TopologicalSort, ChainReader, DiskCache, MemoryCache

VARIABLE part  \* which program it is

clientVars == <<sortVars, readVars, diskVars, memoryVars>>

ClientInit ==
    /\ part \in {"access", "sort", "read", "disk", "memory"}
    /\ Init /\ (part = "access" \/ holder = alice)
    /\ SortInit /\ (part = "sort" \/ Keys = {})
    /\ ReadInit /\ DiskInit /\ MemoryInit

AccessStep == part = "access" /\ Next /\ UNCHANGED clientVars
SortStep == part = "sort" /\ SortNext /\ UNCHANGED <<vars, readVars, diskVars, memoryVars>>
ReadStep == part = "read" /\ ReadNext /\ UNCHANGED <<vars, sortVars, diskVars, memoryVars>>
DiskStep == part = "disk" /\ DiskNext /\ UNCHANGED <<vars, sortVars, readVars, memoryVars>>
MemoryStep == part = "memory" /\ MemoryNext /\ UNCHANGED <<vars, sortVars, readVars, diskVars>>

ClientNext ==
    (AccessStep \/ SortStep \/ ReadStep \/ DiskStep \/ MemoryStep) /\ UNCHANGED part

ClientSpec == ClientInit /\ [][ClientNext]_<<vars, clientVars, part>>

(* The identifiers of the chains that a client reads are interchangeable. *)
Symmetry == Permutations(Pids)
=============================================================================
