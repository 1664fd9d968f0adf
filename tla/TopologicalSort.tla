-------------------------- MODULE TopologicalSort ---------------------------
(***************************************************************************)
(* topological_sort() of the common library (d1_common/revision.py): the   *)
(* objects of a node are put in the order in which they obsolete each      *)
(* other, by passes over those that are not sorted yet, until a pass finds *)
(* none. A pass visits the items of a Python dict; the model lets it visit *)
(* them in any order.                                                      *)
(***************************************************************************)
EXTENDS Integers, SequencesExt

CONSTANTS
    Pid,
    NoPid  \* None: nothing is obsoleted

ASSUME NoPidAssumption == NoPid \notin Pid

VARIABLES
    obsoletes,    \* unsorted_dict: what each object obsoletes
    unconnected,  \* the keys of unconnected_dict
    sorted,       \* sorted_list; sorted_set is its range
    left,         \* the items that the pass has yet to visit
    found         \* the pass has found an object

sortVars == <<obsoletes, unconnected, sorted, left, found>>

(* The objects to sort. What they obsolete may be among them or not. *)
Keys == DOMAIN obsoletes

SortInit ==
    /\ \E K \in SUBSET Pid : obsoletes \in [K -> Pid \cup {NoPid}]
    /\ unconnected = Keys
    /\ sorted = <<>>
    /\ left = {}
    /\ found = TRUE

BeginPass ==
    /\ left = {} /\ found
    /\ found' = FALSE
    /\ left' = unconnected
    /\ UNCHANGED <<obsoletes, unconnected, sorted>>

(* Variant: an object is available if nothing is known of what it obsoletes. *)
AvailableUnlessListed(p) ==
    obsoletes[p] \in {NoPid} \cup Range(sorted) \/ obsoletes[p] \notin Keys

(* What is obsoleted is sorted already. *)
Available(p) == obsoletes[p] \in {NoPid} \cup Range(sorted)

FoundBy(p) == found \/ Available(p)

Visit(p) ==
    /\ p \in left
    /\ left' = left \ {p}
    /\ found' = FoundBy(p)
    /\ IF Available(p)
       THEN sorted' = Append(sorted, p) /\ unconnected' = unconnected \ {p}
       ELSE UNCHANGED <<sorted, unconnected>>
    /\ UNCHANGED obsoletes

Returned == left = {} /\ ~found

SortNext == BeginPass \/ \E p \in Pid : Visit(p)

SortSpec == SortInit /\ [][SortNext]_sortVars
-----------------------------------------------------------------------------
SortTypeOK ==
    /\ Keys \in SUBSET Pid
    /\ obsoletes \in [Keys -> Pid \cup {NoPid}]
    /\ sorted \in Seq(Pid)
    /\ left \in SUBSET unconnected
    /\ unconnected \in SUBSET Keys
    /\ found \in BOOLEAN

(* Every object is listed once, and after the one that it obsoletes, whose   *)
(* place the caller may rely on while it stores the objects in turn.         *)
InOrder ==
    /\ \A i \in DOMAIN sorted, j \in DOMAIN sorted : sorted[i] = sorted[j] => i = j
    /\ \A i \in DOMAIN sorted :
          obsoletes[sorted[i]] = NoPid \/ \E j \in 1 .. i - 1 : sorted[j] = obsoletes[sorted[i]]

(* Histories that lead to an object that is not there, or around in a circle. *)
Dangling(S) == \A p \in S : obsoletes[p] \in S \/ obsoletes[p] \notin Keys \cup {NoPid}

(* "unconnected_dict: (...) items will have obsoletes PIDs that directly or  *)
(* indirectly reference a PID that could not be sorted": what is returned    *)
(* there are all objects whose history is dangling, and no other object is   *)
(* left out of the list.                                                     *)
LeavesDangling ==
    Returned =>
        /\ Dangling(unconnected)
        /\ \A S \in SUBSET Keys : Dangling(S) => S \subseteq unconnected
        /\ Range(sorted) = Keys \ unconnected

(* What topological_sort() returns, as both are meant by the callers that    *)
(* store objects in the order of the list.                                   *)
SortsHistories == InOrder /\ LeavesDangling

(* Why: an object is in one of the two results, what has been passed over in *)
(* vain was not available, and no dangling history is sorted.                *)
SortInv ==
    /\ SortTypeOK
    /\ InOrder
    /\ Range(sorted) = Keys \ unconnected
    /\ ~found => \A p \in unconnected \ left : ~Available(p)
    /\ \A S \in SUBSET Keys : Dangling(S) => S \cap Range(sorted) = {}
=============================================================================
