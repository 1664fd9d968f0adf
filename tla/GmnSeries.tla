----------------------------- MODULE GmnSeries ------------------------------
(***************************************************************************)
(* What the object store promises to its clients about revisions: objects  *)
(* belong to series, each a linear history, of which at most one is known  *)
(* under a given SID.  A history grows at its newest end only, and loses   *)
(* only what is deleted; the order of what remains stays.                  *)
(***************************************************************************)
CONSTANTS
    Pids,   \* identifiers of objects
    Sids,   \* identifiers of series
    None    \* no SID, no link

VARIABLES
    objects,    \* the objects that exist
    later,      \* <<p, q>>: q is a later revision of the same series as p
    sid         \* sid[p]: the SID of the series that p belongs to

Init ==
    /\ objects = {}
    /\ later = {}
    /\ sid = [p \in Pids |-> None]

Series(p) == {q \in objects : q = p \/ <<p, q>> \in later \/ <<q, p>> \in later}

(* The links of an object's document are to the revisions next to it. *)
IsNext(p, q) ==
    IF q = None THEN \A r \in objects : <<p, r>> \notin later
    ELSE <<p, q>> \in later /\ \A r \in objects : <<p, r>> \in later => r = q \/ <<q, r>> \in later

IsPrevious(p, q) ==
    IF q = None THEN \A r \in objects : <<r, p>> \notin later
    ELSE <<q, p>> \in later /\ \A r \in objects : <<r, p>> \in later => r = q \/ <<r, q>> \in later

(* No series but that of the objects S has the SID s. *)
SidFree(s, S) == s # None => \A q \in objects \ S : sid[q] # s

SidOfAll(S, s) == [q \in Pids |-> IF q \in S THEN s ELSE sid[q]]

Create(p, s) ==
    /\ p \in Pids \ objects
    /\ SidFree(s, {})
    /\ objects' = objects \cup {p}
    /\ sid' = SidOfAll({p}, s)
    /\ UNCHANGED later

(* Only the newest revision can be obsoleted. *)
Update(old, p, s) ==
    /\ old \in objects /\ p \in Pids \ objects
    /\ \A q \in objects : <<old, q>> \notin later
    /\ sid[old] \in {None, s}
    /\ SidFree(s, Series(old))
    /\ objects' = objects \cup {p}
    /\ later' = later \cup {<<q, p>> : q \in Series(old)}
    /\ sid' = SidOfAll(Series(old) \cup {p}, s)

(* A series gets a SID once. *)
AssignSid(p, s) ==
    /\ p \in objects
    /\ sid[p] = None
    /\ SidFree(s, {})
    /\ sid' = SidOfAll(Series(p), s)
    /\ UNCHANGED <<objects, later>>

Delete(p) ==
    /\ p \in objects
    /\ objects' = objects \ {p}
    /\ later' = {l \in later : p \notin {l[1], l[2]}}
    /\ sid' = SidOfAll({p}, None)

Next ==
    \/ \E p \in Pids, s \in Sids \cup {None} : Create(p, s) \/ AssignSid(p, s)
    \/ \E old \in objects, p \in Pids, s \in Sids \cup {None} : Update(old, p, s)
    \/ \E p \in objects : Delete(p)

Spec == Init /\ [][Next]_<<objects, later, sid>>
=============================================================================
