----------------------------- MODULE ItemStream -----------------------------
(***************************************************************************)
(* What an iterator over a listing promises, however it fetches the pages: *)
(* whenever the client asks, it gives an item of the listing that it has   *)
(* not given before, or ends, and then for good.  That it gives all items  *)
(* is not promised: pages that cannot be fetched are skipped.              *)
(***************************************************************************)
CONSTANT Items      \* the listing

VARIABLES
    yielded,    \* the items that the client has been given
    phase       \* "asked": the client waits for an item, "given", or "ended"

Init == yielded = {} /\ phase = "asked"

Yield ==
    /\ phase = "asked" /\ phase' = "given"
    /\ \E i \in Items \ yielded : yielded' = yielded \cup {i}

Ask == phase = "given" /\ phase' = "asked" /\ UNCHANGED yielded

End == phase' = "ended" /\ UNCHANGED yielded

Next == Yield \/ Ask \/ End

Spec == Init /\ [][Next]_<<yielded, phase>>
=============================================================================
