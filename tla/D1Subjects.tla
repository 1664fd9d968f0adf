----------------------------- MODULE D1Subjects -----------------------------
(***************************************************************************)
(* The subjects and the permissions that d1_common and the Member Node     *)
(* share: d1_common/const.py, d1_common/wrap/access_policy.py,             *)
(* d1_gmn/app/auth.py.                                                     *)
(***************************************************************************)
EXTENDS Integers

CONSTANTS
    Subject,        \* the strings that may name a person, an equivalent identity or a group
    Public,         \* SUBJECT_PUBLIC
    Authenticated,  \* SUBJECT_AUTHENTICATED
    Verified        \* SUBJECT_VERIFIED

ASSUME SymbolicSubjects ==
    /\ {Public, Authenticated, Verified} \subseteq Subject
    /\ Public \notin {Authenticated, Verified}

(* The permissions, by the level that auth.py gives them: each includes the *)
(* lower ones.                                                              *)
Read == 0
Write == 1
ChangePermission == 2
Level == {Read, Write, ChangePermission}

NoLevel == -1

(* The highest of a set of permissions, as both packages look for it. *)
Highest(levels) ==
    IF ChangePermission \in levels THEN ChangePermission
    ELSE IF Write \in levels THEN Write
    ELSE IF Read \in levels THEN Read
    ELSE NoLevel
=============================================================================
