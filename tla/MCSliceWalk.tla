---------------------------- MODULE MCSliceWalk -----------------------------
(***************************************************************************)
(* An instance of SliceWalk for TLC: as many walks as the bound allows, one *)
(* after another or at the same time.                                      *)
(***************************************************************************)
EXTENDS SliceWalk

CONSTANTS c1, c2

CONSTANT MaxWalks  \* bound: walks that clients begin

VARIABLE walks  \* the bound's counter

R(t, i) == [ts |-> t, id |-> i]

(* Two rows at first, with a time stamp in common. *)
Lists == {{R(2, 1), R(2, 2)}}

(* Slices of one row, and of as many as the node allows. *)
Counts == (c1 :> 1) @@ (c2 :> 3)

MCInit == Init /\ walks = 0

Begins == \E c \in Client : Open(c)

MCNext ==
    \/ walks < MaxWalks /\ walks' = walks + 1 /\ Begins
    \/ UNCHANGED walks /\ (Insert \/ Delete \/ Touch \/ Expire \/ \E c \in Client : Step(c))

MCSpec ==
    MCInit /\ [][MCNext]_<<vars, walks>> /\ \A c \in Client : WF_vars(Step(c))
=============================================================================
