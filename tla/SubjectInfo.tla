----------------------------- MODULE SubjectInfo ----------------------------
(***************************************************************************)
(* The subjects that a SubjectInfo document connects to the subject of a   *)
(* certificate: d1_common/cert/subject_info.py.                            *)
(*                                                                         *)
(* _add_subject(), _add_person() and _add_group_elements() call each other *)
(* recursively. The calls that are still to be made are a stack of frames; *)
(* the frames are taken from the top, so that a subject's own records are  *)
(* searched before the rest of the list it was found in. A list of the     *)
(* document is a set: its elements come in any order.                      *)
(***************************************************************************)
EXTENDS D1Subjects, Sequences

CONSTANT NoSubject  \* no certificate is being read

VARIABLES
    primary,  \* the subject of the certificate that is being read
    info,     \* the SubjectInfo in it
    stack,    \* the calls that remain to be made
    visited   \* state.visited_set, the subjects of the tree

infoVars == <<primary, info, stack, visited>>

Person == [subject : Subject, verified : BOOLEAN,
           equivalentIdentity : SUBSET Subject, isMemberOf : SUBSET Subject]
Group == [subject : Subject, hasMember : SUBSET Subject]
Info == [person : SUBSET Person, group : SUBSET Group]

NoInfo == [person |-> {}, group |-> {}]

(* A call of _add_subject(); a frame is a loop over records or over calls. *)
Call == [subject : Subject, groupOnly : BOOLEAN]
Frame == [persons : SUBSET Person, calls : SUBSET Call]

Calls(subjects, groupOnly) ==
    [persons |-> {}, calls |-> {[subject |-> s, groupOnly |-> groupOnly] : s \in subjects}]

InfoTypeOK ==
    /\ primary \in Subject \cup {NoSubject}
    /\ info \in Info
    /\ stack \in Seq(Frame)
    /\ visited \subseteq Subject

InfoInit ==
    /\ primary = NoSubject
    /\ info = NoInfo
    /\ stack = <<>>
    /\ visited = {}
-----------------------------------------------------------------------------
(* gen_subject_info_tree(): first the root, then the symbolic subject.     *)
Extract(p, doc) ==
    /\ primary = NoSubject
    /\ primary' = p
    /\ info' = doc
    /\ stack' = <<Calls({p}, FALSE), Calls({Authenticated}, FALSE)>>
    /\ visited' = {}

Top == Head(stack)

(* The loops of _add_person() and _add_group_elements(). *)
PersonsOf(s) == [persons |-> {p \in info.person : p.subject = s}, calls |-> {}]
(* Variant: a subject brings in the other members of its groups. *)
GroupsOfWithMembers(s) ==
    Calls(UNION {{g.subject} \cup g.hasMember : g \in {g \in info.group : s \in g.hasMember}}, FALSE)

GroupsOf(s) == Calls({g.subject : g \in {g \in info.group : s \in g.hasMember}}, FALSE)

AddSubject(c) ==
    /\ stack # <<>> /\ c \in Top.calls
    /\ LET rest == <<[Top EXCEPT !.calls = @ \ {c}]>> \o Tail(stack)
       IN  IF c.subject \in visited
           THEN stack' = rest
           ELSE stack' = IF c.groupOnly
                         THEN <<GroupsOf(c.subject)>> \o rest
                         ELSE <<PersonsOf(c.subject), GroupsOf(c.subject)>> \o rest
    /\ visited' = visited \cup {c.subject}
    /\ UNCHANGED <<primary, info>>

(* Variant: equivalent identities are searched for groups only. *)
AddPersonShallow(p) ==
    /\ stack # <<>> /\ p \in Top.persons
    /\ stack' = <<Calls({p.subject} \cup (IF p.verified THEN {Verified} ELSE {}), FALSE),
                  Calls(p.equivalentIdentity \cup p.isMemberOf, TRUE),
                  [Top EXCEPT !.persons = @ \ {p}]>> \o Tail(stack)
    /\ UNCHANGED <<primary, info, visited>>

(* _add_person_subject(), _add_person_equivalent_subjects() and            *)
(* _add_person_is_member_of().                                             *)
AddPerson(p) ==
    /\ stack # <<>> /\ p \in Top.persons
    /\ stack' = <<Calls({p.subject} \cup (IF p.verified THEN {Verified} ELSE {}), FALSE),
                  Calls(p.equivalentIdentity, FALSE),
                  Calls(p.isMemberOf, TRUE),
                  [Top EXCEPT !.persons = @ \ {p}]>> \o Tail(stack)
    /\ UNCHANGED <<primary, info, visited>>

Return ==
    /\ stack # <<>> /\ Top.persons = {} /\ Top.calls = {}
    /\ stack' = Tail(stack)
    /\ UNCHANGED <<primary, info, visited>>

ExtractStep ==
    \/ stack # <<>> /\ \E c \in Top.calls : AddSubject(c)
    \/ stack # <<>> /\ \E p \in Top.persons : AddPerson(p)
    \/ Return

Extracted == primary # NoSubject /\ stack = <<>>
-----------------------------------------------------------------------------
(* What extract_subjects() documents: the subjects that are directly or    *)
(* indirectly connected to the root.                                       *)

LinksOf(p) ==
    p.equivalentIdentity \cup p.isMemberOf \cup (IF p.verified THEN {Verified} ELSE {})

Linked(doc, s) ==
    (UNION {LinksOf(p) : p \in {p \in doc.person : p.subject = s}})
    \cup {g.subject : g \in {g \in doc.group : s \in g.hasMember}}

Closed(doc, S) == \A s \in S : Linked(doc, s) \subseteq S

(* isMemberOf names groups only: no Person has the subject of a group. *)
GroupsAreNoPersons(doc) ==
    \A p, q \in doc.person : q.subject \notin p.isMemberOf

(* Whatever the document says, and in whichever order it lists its records, *)
(* no subject is added that is not connected to the subject of the          *)
(* certificate: every set of subjects that holds the roots and is closed    *)
(* under the document's links holds all subjects visited.                   *)
OnlyConnectedSubjects ==
    primary # NoSubject =>
        \A S \in SUBSET Subject :
            {primary, Authenticated} \subseteq S /\ Closed(info, S) => visited \subseteq S

(* No connected subject is left out, circular references included, if      *)
(* isMemberOf names groups only. A Person that isMemberOf names is visited  *)
(* without its own record, also if it is an equivalent identity as well and *)
(* comes up as one later.                                                   *)
EveryConnectedSubject ==
    Extracted /\ GroupsAreNoPersons(info) =>
        {primary, Authenticated} \subseteq visited /\ Closed(info, visited)

(* What makes it so is inductive: a subject that is due has been visited or *)
(* will be, by a call in some frame, and the links of every subject visited *)
(* are due, unless its record is still in a frame. Only subjects that have  *)
(* no record are visited without it.                                        *)
Frames == {stack[i] : i \in 1 .. Len(stack)}
Due(s) == s \in visited \/ \E f \in Frames : \E c \in f.calls : c.subject = s

NothingForgotten ==
    primary # NoSubject /\ GroupsAreNoPersons(info) =>
        /\ Due(primary) /\ Due(Authenticated)
        /\ \A f \in Frames : f.persons \subseteq info.person
        /\ \A f \in Frames : \A c \in f.calls : c.groupOnly =>
               \A p \in info.person : p.subject # c.subject
        /\ \A p \in info.person : p.subject \in visited =>
               (\E f \in Frames : p \in f.persons) \/ \A s \in LinksOf(p) : Due(s)
        /\ \A g \in info.group : (\E s \in g.hasMember : s \in visited) => Due(g.subject)
=============================================================================
