---------------------------- MODULE AccessGrants ----------------------------
(***************************************************************************)
(* What access control of an object promises, without documents, rows or   *)
(* sets of rules: every subject has a level on the object, a client that   *)
(* may read it works on a draft of the levels, and a client that may write *)
(* it puts the draft in their place: that is what put_meta() asks for,     *)
(* although the schema has changePermission for it. The rights holder has  *)
(* every level, and what a client is given to draft from does not speak of *)
(* it.                                                                     *)
(***************************************************************************)
EXTENDS D1Subjects

CONSTANT Trusted  \* subjects that are trusted with every object

VARIABLES
    granted,   \* the level of each subject on the object
    holder,    \* the rights holder
    session,   \* the subjects of the client
    drafting,  \* whether the client has a draft
    draft      \* the levels in it

vars == <<granted, holder, session, drafting, draft>>

Levels == [Subject -> Level \cup {NoLevel}]

Nothing == [s \in Subject |-> NoLevel]

Higher(a, b) == IF a > b THEN a ELSE b

MayDo(level) ==
    session \cap Trusted # {} \/ \E s \in session : granted[s] >= level

Init ==
    /\ holder \in Subject
    /\ granted = [Nothing EXCEPT ![holder] = ChangePermission]
    /\ session = {}
    /\ drafting = FALSE
    /\ draft = Nothing

(* Another client comes, with no draft yet. *)
Begin ==
    /\ session' \in SUBSET Subject
    /\ drafting' = FALSE
    /\ draft' = Nothing
    /\ UNCHANGED <<granted, holder>>

(* It starts from levels of its own, or from those that the node has. *)
Draft ==
    /\ ~drafting
    /\ drafting' = TRUE
    /\ draft' \in Levels
    /\ UNCHANGED <<granted, holder, session>>

Fetch ==
    /\ ~drafting
    /\ MayDo(Read)
    /\ drafting' = TRUE
    /\ draft' = [granted EXCEPT ![holder] = NoLevel]
    /\ UNCHANGED <<granted, holder, session>>

Others(S) == \A s \in Subject \ S : draft'[s] = draft[s]

(* A permission brings the lower ones along. *)
Grant(s, level) == Others({s}) /\ draft'[s] = Higher(draft[s], level)

(* Taking a permission leaves none as high, and may take lower ones along. *)
Revoke(s, level) ==
    /\ Others({s})
    /\ draft'[s] < level
    /\ draft[s] < level => draft'[s] = draft[s]

(* Read access moves from the public to the members of a symbolic subject. *)
Restrict(s) ==
    /\ Others({Public, s})
    /\ draft'[Public] = NoLevel
    /\ draft'[s] = Higher(draft[s], Read)

Edit ==
    /\ drafting /\ drafting'
    /\ draft' \in Levels
    /\ UNCHANGED <<holder, session, granted>>
    /\ \/ draft' = Nothing
       \/ \E s \in Subject, level \in Level : Grant(s, level) \/ Revoke(s, level)
       \/ \E s \in {Authenticated, Verified} : Restrict(s)

(* Write is enough, for the new levels and for a new rights holder. *)
Store(h) ==
    /\ drafting
    /\ MayDo(Write)
    /\ granted' = [draft EXCEPT ![h] = ChangePermission]
    /\ holder' = h
    /\ UNCHANGED <<session, drafting, draft>>

Next ==
    \/ Begin
    \/ Draft
    \/ Fetch
    \/ Edit
    \/ \E h \in Subject : Store(h)

Spec == Init /\ [][Next]_vars
=============================================================================
