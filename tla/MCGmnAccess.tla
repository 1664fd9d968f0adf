---------------------------- MODULE MCGmnAccess -----------------------------
(***************************************************************************)
(* An instance of GmnAccess for TLC: two persons of whom one may be the    *)
(* other's equivalent identity, and a group.                               *)
(***************************************************************************)
EXTENDS GmnAccess, TLC

CONSTANTS alice, alias, team, public, authenticated, verified, memberNode

Subjects == {alice, alias, team, public, authenticated, verified, memberNode}

(* SubjectInfo documents that link the three in every direction, among them *)
(* circular ones, dangling ones and ones where isMemberOf names a person.   *)
Infos ==
    {[person |-> {[subject |-> alice, verified |-> TRUE,
                   equivalentIdentity |-> e, isMemberOf |-> m]} \cup other,
      group |-> group]
       : e \in {{}, {alias}},
         m \in {{}, {team}, {alias}},
         other \in {{}} \cup {{[subject |-> alias, verified |-> FALSE,
                                equivalentIdentity |-> e2, isMemberOf |-> {team}]}
                                 : e2 \in {{}, {alice}}},
         group \in {{}, {[subject |-> team, hasMember |-> {alice}]},
                    {[subject |-> team, hasMember |-> {alias, team}]}}}

(* Policies that give a subject several permissions, in one rule or in two. *)
Policies ==
    {{},
     {[permission |-> {0, 2}, subject |-> {team}]},
     {[permission |-> {1}, subject |-> {team}], [permission |-> {0}, subject |-> {team, public}]}}
=============================================================================
