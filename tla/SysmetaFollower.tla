-------------------------- MODULE SysmetaFollower ---------------------------
(***************************************************************************)
(* What refreshing System Metadata promises, whatever the queue does: the  *)
(* node's document of an object only ever moves forward, to a version that *)
(* the Coordinating Node (CN) has had, and an object that was deleted does *)
(* not come back.                                                          *)
(***************************************************************************)
EXTENDS Integers

CONSTANTS
    Pid,          \* the objects
    MaxVersion    \* bounds on the versions of each document

VARIABLES
    cn,       \* cn[p]: version of the CN's document
    sciobj    \* sciobj[p]: version of the node's document

vars == <<cn, sciobj>>

NoObject == -1    \* sciobj[p] of an object that was deleted

Init ==
    /\ cn = [p \in Pid |-> 0]
    /\ sciobj = [p \in Pid |-> 0]

Change(p) ==
    /\ cn[p] < MaxVersion[p]
    /\ cn' = [cn EXCEPT ![p] = @ + 1]
    /\ UNCHANGED sciobj

Delete(p) ==
    /\ sciobj' = [sciobj EXCEPT ![p] = NoObject]
    /\ UNCHANGED cn

Follow(p) ==
    /\ sciobj[p] # NoObject
    /\ \E v \in sciobj[p] .. cn[p] : sciobj' = [sciobj EXCEPT ![p] = v]
    /\ UNCHANGED cn

Next == \E p \in Pid : Change(p) \/ Delete(p) \/ Follow(p)

Spec == Init /\ [][Next]_vars
=============================================================================
