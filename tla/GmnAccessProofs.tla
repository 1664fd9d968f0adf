--------------------------- MODULE GmnAccessProofs --------------------------
(***************************************************************************)
(* Proofs about GmnAccess: type correctness, what the extraction of        *)
(* subjects finds and what it does not, and that access control implements *)
(* AccessGrants.                                                           *)
(***************************************************************************)
EXTENDS GmnAccess, TLAPS

(* The elements of a sequence. *)
In(q) == {q[i] : i \in 1..Len(q)}

LEMMA InHeadTail ==
    ASSUME NEW S, NEW q \in Seq(S), q # <<>>
    PROVE  In(q) = {Head(q)} \cup In(Tail(q)) /\ Head(q) \in S /\ Tail(q) \in Seq(S)
<1>1. Len(q) \in Nat \ {0} /\ Head(q) = q[1] /\ Head(q) \in S /\ Tail(q) \in Seq(S)
    OBVIOUS
<1>2. Len(Tail(q)) = Len(q) - 1 /\ \A i \in 1..Len(Tail(q)) : Tail(q)[i] = q[i + 1]
    OBVIOUS
<1>3. ASSUME NEW x \in In(q)
      PROVE  x \in {Head(q)} \cup In(Tail(q))
    <2>1. PICK i \in 1..Len(q) : x = q[i]
        BY DEF In
    <2>2. CASE i = 1
        BY <1>1, <2>1, <2>2
    <2>3. CASE i # 1
        <3>1. i - 1 \in 1..Len(Tail(q)) /\ Tail(q)[i - 1] = q[(i - 1) + 1] /\ (i - 1) + 1 = i
            BY <1>1, <1>2, <2>1, <2>3
        <3> QED  BY <2>1, <3>1 DEF In
    <2> QED  BY <2>2, <2>3
<1>4. ASSUME NEW x \in In(Tail(q))
      PROVE  x \in In(q)
    <2>1. PICK i \in 1..Len(Tail(q)) : x = Tail(q)[i]
        BY DEF In
    <2>2. i + 1 \in 1..Len(q) /\ x = q[i + 1]
        BY <1>1, <1>2, <2>1
    <2> QED  BY <2>2 DEF In
<1>5. Head(q) \in In(q)
    BY <1>1 DEF In
<1> QED  BY <1>1, <1>3, <1>4, <1>5

LEMMA InConcat ==
    ASSUME NEW S, NEW q \in Seq(S), NEW r \in Seq(S)
    PROVE  In(q \o r) = In(q) \cup In(r) /\ q \o r \in Seq(S)
<1>1. /\ Len(q) \in Nat /\ Len(r) \in Nat /\ Len(q \o r) = Len(q) + Len(r)
      /\ \A i \in 1..Len(q) : (q \o r)[i] = q[i]
      /\ \A i \in 1..Len(r) : (q \o r)[Len(q) + i] = r[i]
      /\ q \o r \in Seq(S)
    OBVIOUS
<1>2. ASSUME NEW x \in In(q \o r)
      PROVE  x \in In(q) \cup In(r)
    <2>1. PICK i \in 1..Len(q \o r) : x = (q \o r)[i]
        BY DEF In
    <2>2. CASE i <= Len(q)
        <3>1. i \in 1..Len(q)
            BY <1>1, <2>1, <2>2
        <3> QED  BY <1>1, <2>1, <3>1 DEF In
    <2>3. CASE ~(i <= Len(q))
        <3>1. i - Len(q) \in 1..Len(r) /\ Len(q) + (i - Len(q)) = i
            BY <1>1, <2>1, <2>3
        <3> QED  BY <1>1, <2>1, <3>1 DEF In
    <2> QED  BY <2>2, <2>3
<1>3. ASSUME NEW x \in In(q)
      PROVE  x \in In(q \o r)
    <2>1. PICK i \in 1..Len(q) : x = q[i]
        BY DEF In
    <2>2. i \in 1..Len(q \o r) /\ x = (q \o r)[i]
        BY <1>1, <2>1
    <2> QED  BY <2>2 DEF In
<1>4. ASSUME NEW x \in In(r)
      PROVE  x \in In(q \o r)
    <2>1. PICK i \in 1..Len(r) : x = r[i]
        BY DEF In
    <2>2. Len(q) + i \in 1..Len(q \o r) /\ x = (q \o r)[Len(q) + i]
        BY <1>1, <2>1
    <2> QED  BY <2>2 DEF In
<1> QED  BY <1>1, <1>2, <1>3, <1>4

LEMMA InOne ==
    ASSUME NEW a
    PROVE  In(<<a>>) = {a}
BY DEF In

LEMMA InTwo ==
    ASSUME NEW a, NEW b
    PROVE  In(<<a, b>>) = {a, b}
<1>1. Len(<<a, b>>) = 2 /\ 1..2 = {1, 2} /\ <<a, b>>[1] = a /\ <<a, b>>[2] = b
    OBVIOUS
<1> QED  BY <1>1 DEF In

LEMMA InFour ==
    ASSUME NEW a, NEW b, NEW c, NEW d
    PROVE  In(<<a, b, c, d>>) = {a, b, c, d}
<1> DEFINE q == <<a, b, c, d>>
<1>1. Len(q) = 4 /\ 1..4 = {1, 2, 3, 4} /\ q[1] = a /\ q[2] = b /\ q[3] = c /\ q[4] = d
    OBVIOUS
<1> QED  BY <1>1 DEF In
-----------------------------------------------------------------------------
(* Levels, rules and permission dicts.                                     *)

LEMMA HighestIsLevel ==
    ASSUME NEW L
    PROVE  /\ Highest(L) \in Level \cup {NoLevel}
           /\ L \subseteq Level /\ L # {} => Highest(L) \in L
BY DEF Highest, Level, Read, Write, ChangePermission, NoLevel

LEMMA FrameOfCalls ==
    ASSUME NEW S \in SUBSET Subject, NEW b \in BOOLEAN
    PROVE  Calls(S, b) \in Frame
BY DEF Calls, Frame, Call

LEMMA FramesOfSubject ==
    ASSUME InfoTypeOK, NEW s
    PROVE  PersonsOf(s) \in Frame /\ GroupsOf(s) \in Frame
<1>1. info \in Info
    BY DEF InfoTypeOK
<1>2. info.person \subseteq Person /\ info.group \subseteq Group
    BY <1>1 DEF Info
<1>3. {g.subject : g \in {g \in info.group : s \in g.hasMember}} \in SUBSET Subject
    BY <1>2 DEF Group
<1>4. GroupsOf(s) \in Frame
    BY <1>3, FrameOfCalls DEF GroupsOf
<1>5. PersonsOf(s) \in Frame
    BY <1>2 DEF PersonsOf, Frame
<1> QED  BY <1>4, <1>5

(* What a call adds to the frames. *)
LEMMA AddSubjectFrames ==
    ASSUME InfoTypeOK, NEW c \in Top.calls, AddSubject(c)
    PROVE  LET rest == {[Top EXCEPT !.calls = @ \ {c}]} \cup In(Tail(stack))
           IN  /\ stack' \in Seq(Frame)
               /\ c \in Call
               /\ c.subject \in visited => In(stack') = rest
               /\ c.subject \notin visited /\ c.groupOnly =>
                     In(stack') = {GroupsOf(c.subject)} \cup rest
               /\ c.subject \notin visited /\ ~c.groupOnly =>
                     In(stack') = {PersonsOf(c.subject), GroupsOf(c.subject)} \cup rest
<1> DEFINE top == [Top EXCEPT !.calls = @ \ {c}]
           rest == <<top>> \o Tail(stack)
<1>1. stack \in Seq(Frame) /\ stack # <<>>
    BY DEF InfoTypeOK, AddSubject
<1>2. Top \in Frame /\ Tail(stack) \in Seq(Frame)
    BY <1>1, InHeadTail, Zenon DEF Top
<1>3. top \in Frame /\ c \in Call
    BY <1>2 DEF Frame
<1>4. <<top>> \in Seq(Frame)
    BY <1>3
<1>5. rest \in Seq(Frame) /\ In(rest) = {top} \cup In(Tail(stack))
    <2>1. In(<<top>>) = {top}
        BY InOne, Zenon
    <2> HIDE DEF top
    <2>2. In(<<top>> \o Tail(stack)) = In(<<top>>) \cup In(Tail(stack))
          /\ <<top>> \o Tail(stack) \in Seq(Frame)
        BY <1>2, <1>4, InConcat
    <2> QED  BY <2>1, <2>2, Zenon
<1> DEFINE P == PersonsOf(c.subject)
           G == GroupsOf(c.subject)
<1>6. P \in Frame /\ G \in Frame
    BY FramesOfSubject, Zenon
<1>7. <<G>> \in Seq(Frame) /\ <<P, G>> \in Seq(Frame)
    BY <1>6
<1>8. In(<<G>>) = {G} /\ In(<<P, G>>) = {P, G}
    BY InOne, InTwo, Zenon
<1>9. stack' = IF c.subject \in visited THEN rest
               ELSE IF c.groupOnly THEN <<G>> \o rest ELSE <<P, G>> \o rest
    BY Zenon DEF AddSubject
<1> HIDE DEF rest, P, G
<1>10. /\ <<G>> \o rest \in Seq(Frame) /\ In(<<G>> \o rest) = {G} \cup In(rest)
       /\ <<P, G>> \o rest \in Seq(Frame) /\ In(<<P, G>> \o rest) = {P, G} \cup In(rest)
    <2> DEFINE one == <<G>>
               two == <<P, G>>
    <2>1. one \in Seq(Frame) /\ two \in Seq(Frame) /\ In(one) = {G} /\ In(two) = {P, G}
        BY <1>7, <1>8, Zenon
    <2> HIDE DEF one, two
    <2>2. /\ one \o rest \in Seq(Frame) /\ In(one \o rest) = {G} \cup In(rest)
          /\ two \o rest \in Seq(Frame) /\ In(two \o rest) = {P, G} \cup In(rest)
        <3>1. one \o rest \in Seq(Frame) /\ In(one \o rest) = {G} \cup In(rest)
            BY <1>5, <2>1, InConcat
        <3>2. two \o rest \in Seq(Frame) /\ In(two \o rest) = {P, G} \cup In(rest)
            BY <1>5, <2>1, InConcat
        <3> QED  BY <3>1, <3>2
    <2> QED  BY <2>2, Zenon DEF one, two
<1>11. stack' \in Seq(Frame)
    BY <1>5, <1>9, <1>10, Zenon
<1>12. /\ c.subject \in visited => In(stack') = {top} \cup In(Tail(stack))
       /\ c.subject \notin visited /\ c.groupOnly =>
             In(stack') = {G} \cup ({top} \cup In(Tail(stack)))
       /\ c.subject \notin visited /\ ~c.groupOnly =>
             In(stack') = {P, G} \cup ({top} \cup In(Tail(stack)))
    BY <1>5, <1>9, <1>10, Zenon
<1> QED  BY <1>3, <1>11, <1>12, Zenon DEF P, G

(* The calls that a Person record brings. *)
Own(p) == Calls({p.subject} \cup (IF p.verified THEN {Verified} ELSE {}), FALSE)
Equivalents(p) == Calls(p.equivalentIdentity, FALSE)
Memberships(p) == Calls(p.isMemberOf, TRUE)

LEMMA AddPersonFrames ==
    ASSUME InfoTypeOK, NEW p \in Top.persons, AddPerson(p)
    PROVE  /\ stack' \in Seq(Frame)
           /\ p \in Person
           /\ In(stack') = {Own(p), Equivalents(p), Memberships(p),
                            [Top EXCEPT !.persons = @ \ {p}]} \cup In(Tail(stack))
<1> DEFINE top == [Top EXCEPT !.persons = @ \ {p}]
<1>1. stack \in Seq(Frame) /\ stack # <<>>
    BY DEF InfoTypeOK, AddPerson
<1>2. Top \in Frame /\ Tail(stack) \in Seq(Frame)
    BY <1>1, InHeadTail, Zenon DEF Top
<1>3. top \in Frame /\ p \in Person
    BY <1>2 DEF Frame
<1>4. Own(p) \in Frame
    <2>1. {p.subject} \cup (IF p.verified THEN {Verified} ELSE {}) \in SUBSET Subject
        BY <1>3, SymbolicSubjects DEF Person
    <2> QED  BY <2>1, FrameOfCalls, Zenon DEF Own
<1>5. p.equivalentIdentity \in SUBSET Subject /\ p.isMemberOf \in SUBSET Subject
    BY <1>3 DEF Person
<1>6. Equivalents(p) \in Frame /\ Memberships(p) \in Frame
    BY <1>5, FrameOfCalls DEF Equivalents, Memberships
<1>7. stack' = <<Own(p), Equivalents(p), Memberships(p), top>> \o Tail(stack)
    BY Zenon DEF AddPerson, Own, Equivalents, Memberships
<1> HIDE DEF top
<1>8. <<Own(p), Equivalents(p), Memberships(p), top>> \in Seq(Frame)
    BY <1>3, <1>4, <1>6
<1>9. In(<<Own(p), Equivalents(p), Memberships(p), top>>)
        = {Own(p), Equivalents(p), Memberships(p), top}
    <2> DEFINE a == Own(p)
               b == Equivalents(p)
               d == Memberships(p)
    <2> HIDE DEF a, b, d
    <2>1. In(<<a, b, d, top>>) = {a, b, d, top}
        BY InFour
    <2> QED  BY <2>1, Zenon DEF a, b, d
<1>10. In(stack') = {Own(p), Equivalents(p), Memberships(p), top} \cup In(Tail(stack))
       /\ stack' \in Seq(Frame)
    <2> DEFINE four == <<Own(p), Equivalents(p), Memberships(p), top>>
    <2>1. four \in Seq(Frame) /\ stack' = four \o Tail(stack)
          /\ In(four) = {Own(p), Equivalents(p), Memberships(p), top}
        BY <1>7, <1>8, <1>9, Zenon
    <2> HIDE DEF four
    <2>2. In(four \o Tail(stack)) = In(four) \cup In(Tail(stack)) /\ four \o Tail(stack) \in Seq(Frame)
        BY <1>2, <2>1, InConcat
    <2> QED  BY <2>1, <2>2, Zenon
<1> QED  BY <1>3, <1>10 DEF top

LEMMA ReturnFrames ==
    ASSUME InfoTypeOK, Return
    PROVE  stack' \in Seq(Frame) /\ In(stack') = In(Tail(stack))
BY InHeadTail, Zenon DEF InfoTypeOK, Return

LEMMA TopFrame ==
    ASSUME InfoTypeOK, stack # <<>>
    PROVE  In(stack) = {Top} \cup In(Tail(stack)) /\ Top \in Frame
BY InHeadTail, Zenon DEF InfoTypeOK, Top

LEMMA InEmpty == In(<<>>) = {}
BY DEF In
-----------------------------------------------------------------------------
(* Type correctness.                                                       *)

LEMMA ExtractTypes ==
    ASSUME InfoTypeOK, NEW p \in Subject, NEW i \in Info, Extract(p, i)
    PROVE  InfoTypeOK' /\ In(stack') = {Calls({p}, FALSE), Calls({Authenticated}, FALSE)}
<1>1. Calls({p}, FALSE) \in Frame /\ Calls({Authenticated}, FALSE) \in Frame
    BY SymbolicSubjects, FrameOfCalls
<1>2. stack' = <<Calls({p}, FALSE), Calls({Authenticated}, FALSE)>>
    BY Zenon DEF Extract
<1>3. stack' \in Seq(Frame)
    <2> DEFINE a == Calls({p}, FALSE)
               b == Calls({Authenticated}, FALSE)
    <2>1. a \in Frame /\ b \in Frame /\ stack' = <<a, b>>
        BY <1>1, <1>2, Zenon
    <2> HIDE DEF a, b
    <2> QED  BY <2>1
<1>4. In(stack') = {Calls({p}, FALSE), Calls({Authenticated}, FALSE)}
    BY <1>2, InTwo, Zenon
<1> QED  BY <1>3, <1>4 DEF InfoTypeOK, Extract

LEMMA StepTypes ==
    ASSUME InfoTypeOK, ExtractStep
    PROVE  InfoTypeOK'
<1>1. CASE \E c \in Top.calls : AddSubject(c)
    <2>1. PICK c \in Top.calls : AddSubject(c)
        BY <1>1
    <2>2. stack' \in Seq(Frame) /\ c \in Call
        BY <2>1, AddSubjectFrames, Zenon
    <2> QED  BY <2>1, <2>2 DEF InfoTypeOK, AddSubject, Call
<1>2. CASE \E p \in Top.persons : AddPerson(p)
    <2>1. PICK p \in Top.persons : AddPerson(p)
        BY <1>2
    <2>2. stack' \in Seq(Frame)
        BY <2>1, AddPersonFrames, Zenon
    <2> QED  BY <2>1, <2>2 DEF InfoTypeOK, AddPerson
<1>3. CASE Return
    <2>1. stack' \in Seq(Frame)
        BY <1>3, ReturnFrames, Zenon
    <2> QED  BY <1>3, <2>1 DEF InfoTypeOK, Return
<1> QED  BY <1>1, <1>2, <1>3, Zenon DEF ExtractStep

LEMMA HighestDict ==
    ASSUME NEW dict \in PermDict
    PROVE  HighestPermDict(dict) \in PermDict
BY DEF HighestPermDict, PermDict

LEMMA DictRules ==
    ASSUME NEW dict \in PermDict
    PROVE  RulesOf(dict) \subseteq Rule
<1>1. ASSUME NEW l \in Level, dict[l] # {}
      PROVE  [permission |-> {l}, subject |-> dict[l]] \in Rule
    <2>1. dict[l] \in SUBSET Subject
        BY <1>1 DEF PermDict
    <2> QED  BY <1>1, <2>1 DEF Rule
<1> QED  BY <1>1 DEF RulesOf

LEMMA DictOfRules ==
    ASSUME NEW R \in SUBSET Rule
    PROVE  PermDictOf(R) \in PermDict
<1>1. ASSUME NEW l \in Level
      PROVE  UNION {r.subject : r \in {r \in R : l \in r.permission}} \in SUBSET Subject
    BY DEF Rule
<1> QED  BY <1>1 DEF PermDictOf, PermDict

LEMMA ServedIsRules ==
    ASSUME TypeOK
    PROVE  /\ [l \in Level |-> {r.subject : r \in {r \in rows : r.level = l /\ r.subject # holder}}]
                  \in PermDict
           /\ ServedRules \in SUBSET Rule
<1> DEFINE dict == [l \in Level |-> {r.subject : r \in {r \in rows : r.level = l /\ r.subject # holder}}]
<1>1. dict \in PermDict
    BY DEF TypeOK, PermDict, Row
<1> HIDE DEF dict
<1>2. NormalizedRules(dict) \in SUBSET Rule
    BY <1>1, HighestDict, DictRules DEF NormalizedRules
<1> QED  BY <1>1, <1>2, Zenon DEF dict, ServedRules

LEMMA TopLevelInRule ==
    ASSUME NEW r \in Rule
    PROVE  TopLevel(r) \in r.permission /\ TopLevel(r) \in Level
<1>1. r.permission \subseteq Level /\ r.permission # {}
    BY DEF Rule
<1>2. Highest(r.permission) \in r.permission
    BY <1>1, HighestIsLevel, Zenon
<1> QED  BY <1>1, <1>2 DEF TopLevel

LEMMA RowsAreRows ==
    ASSUME NEW R \in SUBSET Rule, NEW h \in Subject
    PROVE  RowsOf(R, h) \in SUBSET Row
<1>1. ASSUME NEW r \in R, NEW s \in r.subject
      PROVE  [subject |-> s, level |-> TopLevel(r)] \in Row
    <2>1. r \in Rule
        OBVIOUS
    <2>2. TopLevel(r) \in Level
        BY <2>1, TopLevelInRule, Zenon
    <2>3. s \in Subject
        BY <2>1 DEF Rule
    <2> QED  BY <2>2, <2>3 DEF Row
<1>2. [subject |-> h, level |-> ChangePermission] \in Row
    BY DEF Row, Level
<1> QED  BY <1>1, <1>2 DEF RowsOf

LEMMA PermDicts ==
    ASSUME NEW dict \in PermDict, NEW s \in Subject, NEW level \in Level
    PROVE  /\ WithPerm(dict, s, level) \in PermDict
           /\ WithoutPerm(dict, s, level) \in PermDict
           /\ [l \in Level |-> dict[l] \ {s}] \in PermDict
           /\ EmptyDict \in PermDict
<1>1. /\ WithPerm(dict, s, level) = [dict EXCEPT ![level] = dict[level] \cup {s}]
      /\ dict[level] \in SUBSET Subject
    BY DEF WithPerm, PermDict
<1>2. WithPerm(dict, s, level) \in PermDict
    BY <1>1 DEF PermDict
<1> QED  BY <1>2 DEF WithoutPerm, PermDict, EmptyDict

LEMMA EditTypes ==
    ASSUME TypeOK, NEW dict \in PermDict, Edit(dict)
    PROVE  TypeOK'
BY DEF TypeOK, Edit, Client, InfoTypeOK, infoVars

LEMMA SessionTypes ==
    ASSUME TypeOK, NEW S \in SUBSET Subject, Session(S)
    PROVE  /\ subjects' \subseteq Subject
           /\ holder' \in Subject /\ rows' \subseteq Row
           /\ form' \in {"none", "document", "wrapped"}
           /\ policy' \subseteq Rule /\ wrapper' \in PermDict
           /\ form' # "document" => policy' = {}
           /\ form' # "wrapped" => wrapper' = EmptyDict
BY AccessConstants DEF TypeOK, Session, Jwt

(* Every action keeps the types. *)
LEMMA NextTypes ==
    ASSUME TypeOK, [Next]_vars
    PROVE  TypeOK'
<1> USE AccessConstants, SymbolicSubjects
<1>1. CASE ConnectWithoutCertificate
    <2>1. {Public} \in SUBSET Subject
        OBVIOUS
    <2> QED  BY <1>1, <2>1, SessionTypes DEF ConnectWithoutCertificate, TypeOK, InfoTypeOK, infoVars
<1>2. CASE ConnectWithoutSubjectInfo
    <2>1. PICK p \in PlainCertificates : Session({p, Authenticated, Public})
        BY <1>2 DEF ConnectWithoutSubjectInfo
    <2>2. {p, Authenticated, Public} \in SUBSET Subject
        OBVIOUS
    <2> QED  BY <1>2, <2>1, <2>2, SessionTypes
             DEF ConnectWithoutSubjectInfo, TypeOK, InfoTypeOK, infoVars
<1>3. CASE Connect
    <2>1. PICK p \in InfoCertificates, i \in SubjectInfos : Extract(p, i)
        BY <1>3 DEF Connect
    <2>2. InfoTypeOK'
        BY <2>1, ExtractTypes DEF TypeOK
    <2> QED  BY <1>3, <2>2 DEF Connect, TypeOK, accessVars
<1>4. CASE ReadSubjectInfo
    <2>1. InfoTypeOK'
        BY <1>4, StepTypes DEF TypeOK, ReadSubjectInfo
    <2> QED  BY <1>4, <2>1 DEF ReadSubjectInfo, TypeOK, accessVars
<1>5. CASE Authenticate
    <2>1. visited \cup {primary, Authenticated, Public} \in SUBSET Subject
        BY <1>5 DEF Authenticate, Extracted, TypeOK, InfoTypeOK
    <2>2. Session(visited \cup {primary, Authenticated, Public})
        BY <1>5 DEF Authenticate
    <2>3. InfoTypeOK'
        BY <1>5 DEF Authenticate, TypeOK, InfoTypeOK, Info, NoInfo
    <2> QED  BY <2>1, <2>2, <2>3, SessionTypes DEF TypeOK
<1>6. CASE Disconnect
    BY <1>6 DEF Disconnect, TypeOK, InfoTypeOK, infoVars, PermDict, EmptyDict
<1>7. CASE Compose
    BY <1>7 DEF Compose, Client, TypeOK, InfoTypeOK, infoVars
<1>8. CASE GetMeta
    <2>1. ServedRules \in SUBSET Rule
        BY ServedIsRules
    <2> HIDE DEF ServedRules
    <2> QED  BY <1>8, <2>1 DEF GetMeta, Client, TypeOK, InfoTypeOK, infoVars
<1>9. CASE Wrap
    <2>1. PermDictOf(policy) \in PermDict
        BY DictOfRules DEF TypeOK
    <2> QED  BY <1>9, <2>1 DEF Wrap, Client, TypeOK, InfoTypeOK, infoVars
<1>10. ASSUME NEW s \in Grantees, NEW level \in Level, AddPerm(s, level) \/ RemovePerm(s, level)
       PROVE  TypeOK'
    <2>1. form = "wrapped" /\ wrapper \in PermDict
        BY <1>10 DEF AddPerm, RemovePerm, Edit, TypeOK
    <2>2. WithPerm(wrapper, s, level) \in PermDict /\ WithoutPerm(wrapper, s, level) \in PermDict
        BY <2>1, PermDicts
    <2> QED  BY <1>10, <2>2, EditTypes DEF AddPerm, RemovePerm
<1>11. ASSUME NEW s \in Grantees, RemoveSubj(s)
       PROVE  TypeOK'
    <2>1. [l \in Level |-> wrapper[l] \ {s}] \in PermDict
        BY DEF TypeOK, PermDict
    <2> QED  BY <1>11, <2>1, EditTypes DEF RemoveSubj
<1>12. CASE AddPublicRead
    <2>1. WithPerm(wrapper, Public, Read) \in PermDict
        BY PermDicts DEF TypeOK, Level
    <2> QED  BY <1>12, <2>1, EditTypes DEF AddPublicRead, AddPerm
<1>13. ASSUME NEW s \in {Authenticated, Verified}, AddSymbolicRead(s)
       PROVE  TypeOK'
    <2>1. Read \in Level /\ s \in Subject /\ Public \in Subject /\ wrapper \in PermDict
        BY DEF TypeOK, Level
    <2>2. WithoutPerm(wrapper, Public, Read) \in PermDict
        BY <2>1, PermDicts
    <2>3. WithPerm(WithoutPerm(wrapper, Public, Read), s, Read) \in PermDict
        BY <2>1, <2>2, PermDicts
    <2> QED  BY <1>13, <2>3, EditTypes DEF AddSymbolicRead
<1>14. CASE Clear
    <2>1. EmptyDict \in PermDict
        BY DEF EmptyDict, PermDict
    <2> QED  BY <1>14, <2>1, EditTypes DEF Clear
<1>15. CASE Compare
    <2>1. HighestPermDict(wrapper) \in PermDict
        BY HighestDict DEF TypeOK
    <2> QED  BY <1>15, <2>1, EditTypes DEF Compare
<1>16. CASE Unwrap
    <2>1. NormalizedRules(wrapper) \in SUBSET Rule
        BY HighestDict, DictRules DEF TypeOK, NormalizedRules
    <2>2. EmptyDict \in PermDict
        BY DEF EmptyDict, PermDict
    <2> QED  BY <1>16, <2>1, <2>2 DEF Unwrap, Client, TypeOK, InfoTypeOK, infoVars
<1>17. ASSUME NEW h \in Holders, PutMeta(h)
       PROVE  TypeOK'
    <2>1. RowsOf(policy, h) \in SUBSET Row
        BY RowsAreRows DEF TypeOK
    <2> QED  BY <1>17, <2>1 DEF PutMeta, Client, TypeOK, InfoTypeOK, infoVars
<1>18. CASE UNCHANGED vars
    BY <1>18 DEF vars, infoVars, accessVars, TypeOK, InfoTypeOK
<1> QED
    BY <1>1, <1>2, <1>3, <1>4, <1>5, <1>6, <1>7, <1>8, <1>9, <1>10, <1>11, <1>12, <1>13,
       <1>14, <1>15, <1>16, <1>17, <1>18, Zenon DEF Next

LEMMA InitTypes ==
    ASSUME Init
    PROVE  TypeOK
<1>1. RowsOf({}, holder) \in SUBSET Row
    BY AccessConstants, RowsAreRows DEF Init
<1>2. EmptyDict \in PermDict
    BY DEF EmptyDict, PermDict
<1>3. InfoTypeOK
    BY DEF Init, InfoInit, InfoTypeOK, Info, NoInfo
<1> QED  BY <1>1, <1>2, <1>3, AccessConstants DEF Init, TypeOK

(* Type correctness: in whichever form a policy is, and wherever the        *)
(* extraction of subjects is, every variable has its type.                  *)
THEOREM AccessTypes == Spec => []TypeOK
<1>1. Init => TypeOK
    BY InitTypes
<1>2. TypeOK /\ [Next]_vars => TypeOK'
    BY NextTypes
<1> QED  BY <1>1, <1>2, PTL DEF Spec
-----------------------------------------------------------------------------
(* What the extraction of subjects finds.                                  *)

(* Neither what is visited nor what remains to be visited leaves S. *)
FrameWithin(f, S) ==
    /\ \A c \in f.calls : c.subject \in S
    /\ \A p \in f.persons : p \in info.person /\ p.subject \in S

Within(S) == visited \subseteq S /\ \A f \in In(stack) : FrameWithin(f, S)

WithinInv ==
    primary # NoSubject =>
        \A S \in SUBSET Subject :
            {primary, Authenticated} \subseteq S /\ Closed(info, S) => Within(S)

LEMMA CallsWithin ==
    ASSUME NEW S, NEW T \in SUBSET S, NEW b
    PROVE  FrameWithin(Calls(T, b), S)
BY DEF FrameWithin, Calls

LEMMA LinkedToPerson ==
    ASSUME NEW d \in Info, NEW p \in d.person
    PROVE  /\ p.equivalentIdentity \subseteq Linked(d, p.subject)
           /\ p.isMemberOf \subseteq Linked(d, p.subject)
           /\ p.verified => Verified \in Linked(d, p.subject)
<1>1. p \in {q \in d.person : q.subject = p.subject}
    OBVIOUS
<1>2. LinksOf(p) \subseteq Linked(d, p.subject)
    BY <1>1 DEF Linked
<1> QED  BY <1>2 DEF LinksOf

LEMMA LinkedToGroup ==
    ASSUME NEW d \in Info, NEW g \in d.group, NEW s \in g.hasMember
    PROVE  g.subject \in Linked(d, s)
<1>1. g \in {h \in d.group : s \in h.hasMember}
    OBVIOUS
<1>2. g.subject \in {h.subject : h \in {h \in d.group : s \in h.hasMember}}
    BY <1>1, Zenon
<1> QED  BY <1>2, Zenon DEF Linked

LEMMA StepWithin ==
    ASSUME InfoTypeOK, NEW S \in SUBSET Subject, Closed(info, S), Within(S), ExtractStep
    PROVE  Within(S)'
<1>1. info \in Info /\ info' = info
    BY DEF InfoTypeOK, ExtractStep, AddSubject, AddPerson, Return
<1>2. stack # <<>>
    BY DEF ExtractStep, AddSubject, AddPerson, Return
<1>3. In(stack) = {Top} \cup In(Tail(stack))
    BY <1>2, TopFrame, Zenon
<1>4. FrameWithin(Top, S) /\ (\A f \in In(Tail(stack)) : FrameWithin(f, S))
    BY <1>3, Zenon DEF Within
<1>5. SUFFICES visited' \subseteq S /\ \A f \in In(stack') : FrameWithin(f, S)
    BY <1>1, Zenon DEF Within, FrameWithin
<1>6. CASE \E c \in Top.calls : AddSubject(c)
    <2>1. PICK c \in Top.calls : AddSubject(c)
        BY <1>6
    <2>2. c.subject \in S /\ visited' \subseteq S
        BY <1>4, <2>1 DEF FrameWithin, AddSubject, Within
    <2>3. FrameWithin([Top EXCEPT !.calls = @ \ {c}], S)
        <3>1. Top \in Frame
            BY <1>2, TopFrame, Zenon
        <3> QED  BY <1>4, <3>1 DEF FrameWithin, Frame
    <2>4. FrameWithin(PersonsOf(c.subject), S)
        BY <2>2 DEF PersonsOf, FrameWithin
    <2>5. FrameWithin(GroupsOf(c.subject), S)
        <3>1. {g.subject : g \in {g \in info.group : c.subject \in g.hasMember}} \in SUBSET S
            BY <1>1, <2>2, LinkedToGroup DEF Closed
        <3> QED  BY <3>1, CallsWithin DEF GroupsOf
    <2>6. In(stack') \subseteq {PersonsOf(c.subject), GroupsOf(c.subject),
                                [Top EXCEPT !.calls = @ \ {c}]} \cup In(Tail(stack))
        BY <2>1, AddSubjectFrames, Zenon
    <2> QED  BY <1>4, <2>2, <2>3, <2>4, <2>5, <2>6, Zenon
<1>7. CASE \E p \in Top.persons : AddPerson(p)
    <2>1. PICK p \in Top.persons : AddPerson(p)
        BY <1>7
    <2>2. p \in info.person /\ p.subject \in S
        BY <1>4 DEF FrameWithin
    <2>3. visited' \subseteq S
        BY <2>1 DEF AddPerson, Within
    <2>4. FrameWithin([Top EXCEPT !.persons = @ \ {p}], S)
        <3>1. Top \in Frame
            BY <1>2, TopFrame, Zenon
        <3> QED  BY <1>4, <3>1 DEF FrameWithin, Frame
    <2>5. /\ p.equivalentIdentity \in SUBSET S
          /\ p.isMemberOf \in SUBSET S
          /\ {p.subject} \cup (IF p.verified THEN {Verified} ELSE {}) \in SUBSET S
        BY <1>1, <2>2, LinkedToPerson DEF Closed
    <2>6. FrameWithin(Own(p), S) /\ FrameWithin(Equivalents(p), S) /\ FrameWithin(Memberships(p), S)
        BY <2>5, CallsWithin, Zenon DEF Own, Equivalents, Memberships
    <2>7. In(stack') = {Own(p), Equivalents(p), Memberships(p),
                        [Top EXCEPT !.persons = @ \ {p}]} \cup In(Tail(stack))
        BY <2>1, AddPersonFrames, Zenon
    <2> QED  BY <1>4, <2>3, <2>4, <2>6, <2>7, Zenon
<1>8. CASE Return
    <2>1. In(stack') = In(Tail(stack)) /\ visited' = visited
        BY <1>8, ReturnFrames, Zenon DEF Return
    <2> QED  BY <1>4, <2>1, Zenon DEF Within
<1> QED  BY <1>6, <1>7, <1>8, Zenon DEF ExtractStep

LEMMA NextWithin ==
    ASSUME TypeOK, WithinInv, [Next]_vars
    PROVE  WithinInv'
<1> USE DEF WithinInv
<1>1. CASE Connect
    <2>1. PICK p \in InfoCertificates, i \in SubjectInfos : Extract(p, i)
        BY <1>1 DEF Connect
    <2>2. p \in Subject /\ i \in Info
        BY AccessConstants
    <2>3. /\ In(stack') = {Calls({p}, FALSE), Calls({Authenticated}, FALSE)}
          /\ visited' = {} /\ primary' = p
        BY <2>1, <2>2, ExtractTypes DEF TypeOK, Extract
    <2>4. ASSUME NEW S \in SUBSET Subject, {p, Authenticated} \subseteq S
          PROVE  Within(S)'
        <3>1. /\ \A c \in Calls({p}, FALSE).calls : c.subject \in S
              /\ \A c \in Calls({Authenticated}, FALSE).calls : c.subject \in S
              /\ Calls({p}, FALSE).persons = {} /\ Calls({Authenticated}, FALSE).persons = {}
            BY <2>4 DEF Calls
        <3> QED  BY <2>3, <3>1 DEF Within, FrameWithin
    <2> QED  BY <2>3, <2>4
<1>2. CASE ReadSubjectInfo
    <2>1. primary' = primary /\ info' = info
        BY <1>2 DEF ReadSubjectInfo, ExtractStep, AddSubject, AddPerson, Return
    <2>2. ASSUME NEW S \in SUBSET Subject, Closed(info, S), Within(S)
          PROVE  Within(S)'
        BY <1>2, <2>2, StepWithin DEF ReadSubjectInfo, TypeOK
    <2>3. \A S \in SUBSET Subject : Closed(info, S)' <=> Closed(info, S)
        BY <2>1 DEF Closed, Linked
    <2> QED  BY <2>1, <2>2, <2>3, Zenon
<1>3. CASE Authenticate
    BY <1>3 DEF Authenticate
<1>4. CASE UNCHANGED infoVars
    BY <1>4 DEF infoVars, Within, FrameWithin, Closed, Linked, LinksOf
<1> QED
    <2>1. \/ Connect \/ ReadSubjectInfo \/ Authenticate \/ UNCHANGED infoVars
        BY DEF Next, vars, infoVars, ConnectWithoutCertificate, ConnectWithoutSubjectInfo,
               Disconnect, Compose, GetMeta, Wrap, AddPerm, RemovePerm, RemoveSubj,
               AddPublicRead, AddSymbolicRead, Clear, Compare, Edit, Unwrap, PutMeta, Client
    <2> QED  BY <1>1, <1>2, <1>3, <1>4, <2>1, Zenon

(* No SubjectInfo document, in whatever order its records are read, gives a *)
(* client a subject that is not connected to the subject of the             *)
(* certificate.                                                             *)
THEOREM AccessOnlyConnected == Spec => []OnlyConnectedSubjects
<1>1. Init => WithinInv
    BY DEF Init, InfoInit, WithinInv
<1>2. TypeOK /\ WithinInv /\ [Next]_vars => WithinInv'
    BY NextWithin
<1>3. WithinInv => OnlyConnectedSubjects
    BY DEF WithinInv, OnlyConnectedSubjects, Within
<1> QED  BY <1>1, <1>2, <1>3, AccessTypes, PTL DEF Spec
-----------------------------------------------------------------------------
(* What the extraction leaves out: nothing.                                 *)

(* What the frames of a step owe: the calls, records and group-only calls   *)
(* of the frames it adds and of those it leaves.                            *)
LEMMA FramesAre == Frames = In(stack)
BY DEF Frames, In

LEMMA CallsAre ==
    ASSUME NEW S, NEW b \in BOOLEAN
    PROVE  /\ Calls(S, b).persons = {}
           /\ \A d \in Calls(S, b).calls : d.subject \in S /\ (d.groupOnly => b)
           /\ \A s \in S : \E d \in Calls(S, b).calls : d.subject = s
<1>1. Calls(S, b).persons = {} /\ Calls(S, b).calls = {[subject |-> s, groupOnly |-> b] : s \in S}
    BY DEF Calls
<1>2. ASSUME NEW s \in S PROVE \E d \in Calls(S, b).calls : d.subject = s
    <2>1. [subject |-> s, groupOnly |-> b] \in Calls(S, b).calls
        BY <1>1
    <2> QED  BY <2>1
<1> QED  BY <1>1, <1>2

LEMMA CallsAreOfRecords ==
    ASSUME NEW S
    PROVE  /\ Calls(S, FALSE).persons = {}
           /\ \A d \in Calls(S, FALSE).calls : ~d.groupOnly
           /\ \A s \in S : \E d \in Calls(S, FALSE).calls : d.subject = s
BY CallsAre

(* What is owed after a step that calls _add_subject().                     *)
LEMMA AddSubjectForgetsNothing ==
    ASSUME InfoTypeOK, NothingForgotten, NEW c \in Top.calls, AddSubject(c)
    PROVE  NothingForgotten'
<1>1. SUFFICES ASSUME primary # NoSubject, GroupsAreNoPersons(info)
               PROVE  NothingForgotten'
    BY DEF NothingForgotten, AddSubject, GroupsAreNoPersons
<1>2. UNCHANGED <<primary, info>> /\ visited' = visited \cup {c.subject} /\ stack # <<>>
    BY DEF AddSubject
<1> DEFINE top == [Top EXCEPT !.calls = @ \ {c}]
<1>3. Top \in Frame /\ Frames = {Top} \cup In(Tail(stack))
    BY <1>2, TopFrame, FramesAre, Zenon
<1>4. top.calls = Top.calls \ {c} /\ top.persons = Top.persons
    BY <1>3 DEF Frame
<1>5. /\ c \in Call
      /\ c.subject \in visited => Frames' = {top} \cup In(Tail(stack))
      /\ c.subject \notin visited /\ c.groupOnly =>
            Frames' = {GroupsOf(c.subject)} \cup ({top} \cup In(Tail(stack)))
      /\ c.subject \notin visited /\ ~c.groupOnly =>
            Frames' = {PersonsOf(c.subject), GroupsOf(c.subject)} \cup ({top} \cup In(Tail(stack)))
    <2>1. Frames' = In(stack')
        BY DEF Frames, In
    <2> QED  BY <2>1, AddSubjectFrames, Zenon
<1> HIDE DEF top
<1>6. \A f \in {top} \cup In(Tail(stack)) : f \in Frames'
    BY <1>5
(* Nothing is due any more only because it is visited.                      *)
<1>7. ASSUME NEW s, Due(s) PROVE Due(s)'
    <2>1. CASE s \in visited
        BY <1>2, <2>1 DEF Due
    <2>2. CASE \E f \in Frames : \E d \in f.calls : d.subject = s
        <3>1. PICK f \in Frames : \E d \in f.calls : d.subject = s
            BY <2>2
        <3>2. PICK d \in f.calls : d.subject = s
            BY <3>1
        <3>3. CASE f = Top
            <4>1. CASE d = c
                BY <1>2, <3>2, <4>1 DEF Due
            <4>2. CASE d # c
                BY <1>4, <1>6, <3>2, <3>3, <4>2 DEF Due
            <4> QED  BY <4>1, <4>2
        <3>4. CASE f # Top
            BY <1>3, <1>6, <3>2, <3>4 DEF Due
        <3> QED  BY <3>3, <3>4
    <2> QED  BY <1>7, <2>1, <2>2 DEF Due
(* The groups of the subject, and its records.                              *)
<1>8. /\ \A d \in GroupsOf(c.subject).calls : ~d.groupOnly
      /\ GroupsOf(c.subject).persons = {}
      /\ \A g \in info.group : c.subject \in g.hasMember =>
            \E d \in GroupsOf(c.subject).calls : d.subject = g.subject
    <2> DEFINE T == {g.subject : g \in {g \in info.group : c.subject \in g.hasMember}}
    <2>1. GroupsOf(c.subject) = Calls(T, FALSE)
        BY DEF GroupsOf
    <2>2. \A g \in info.group : c.subject \in g.hasMember => g.subject \in T
        OBVIOUS
    <2> HIDE DEF T
    <2>3. /\ GroupsOf(c.subject).persons = {}
          /\ \A d \in GroupsOf(c.subject).calls : ~d.groupOnly
          /\ \A s \in T : \E d \in GroupsOf(c.subject).calls : d.subject = s
        <3>1. /\ Calls(T, FALSE).persons = {}
              /\ \A d \in Calls(T, FALSE).calls : ~d.groupOnly
              /\ \A s \in T : \E d \in Calls(T, FALSE).calls : d.subject = s
            BY CallsAreOfRecords
        <3> QED  BY <2>1, <3>1, Zenon
    <2> QED  BY <2>2, <2>3
<1>9. /\ PersonsOf(c.subject).calls = {}
      /\ PersonsOf(c.subject).persons = {p \in info.person : p.subject = c.subject}
    BY DEF PersonsOf
<1>10. ASSUME NEW f \in Frames'
       PROVE  f \in {PersonsOf(c.subject), GroupsOf(c.subject), top} \cup In(Tail(stack))
    BY <1>5
<1>11. Due(primary)' /\ Due(Authenticated)'
    <2>1. Due(primary) /\ Due(Authenticated)
        BY <1>1 DEF NothingForgotten
    <2> QED  BY <1>2, <1>7, <2>1 DEF Due
<1>12. /\ \A f \in Frames : f.persons \subseteq info.person
       /\ \A f \in Frames : \A d \in f.calls : d.groupOnly =>
             \A p \in info.person : p.subject # d.subject
    BY <1>1 DEF NothingForgotten
<1>13. ASSUME NEW f \in Frames'
       PROVE  /\ f.persons \subseteq info.person
              /\ \A d \in f.calls : d.groupOnly => \A p \in info.person : p.subject # d.subject
    BY <1>3, <1>4, <1>8, <1>9, <1>10, <1>12
<1>14. ASSUME NEW p \in info.person, p.subject \in visited'
       PROVE  (\E f \in Frames' : p \in f.persons) \/ \A s \in LinksOf(p) : Due(s)'
    <2>1. CASE p.subject \in visited
        <3>1. CASE \A s \in LinksOf(p) : Due(s)
            BY <1>7, <3>1
        <3>2. CASE \E f \in Frames : p \in f.persons
            BY <1>3, <1>4, <1>6, <3>2
        <3> QED  BY <1>1, <2>1, <3>1, <3>2 DEF NothingForgotten
    <2>2. CASE p.subject \notin visited
        <3>1. p.subject = c.subject /\ ~c.groupOnly
            BY <1>2, <1>3, <1>12, <1>14, <2>2
        <3> QED  BY <1>5, <1>9, <2>2, <3>1
    <2> QED  BY <2>1, <2>2
<1>15. ASSUME NEW g \in info.group, NEW s \in g.hasMember, s \in visited'
       PROVE  Due(g.subject)'
    <2>1. CASE s \in visited
        BY <1>1, <1>7, <2>1 DEF NothingForgotten
    <2>2. CASE s \notin visited
        <3>1. s = c.subject /\ GroupsOf(c.subject) \in Frames'
            BY <1>2, <1>5, <1>15, <2>2
        <3> QED  BY <1>8, <3>1 DEF Due
    <2> QED  BY <2>1, <2>2
<1>16. /\ primary' = primary /\ info' = info
       /\ \A p \in info.person : LinksOf(p)' = LinksOf(p)
    BY <1>2 DEF LinksOf
<1> QED  BY <1>11, <1>13, <1>14, <1>15, <1>16, Zenon DEF NothingForgotten

(* The links of a Person record are due once it is read. *)
LEMMA AddPersonForgetsNothing ==
    ASSUME InfoTypeOK, NothingForgotten, NEW p \in Top.persons, AddPerson(p)
    PROVE  NothingForgotten'
<1>1. SUFFICES ASSUME primary # NoSubject, GroupsAreNoPersons(info)
               PROVE  NothingForgotten'
    BY DEF NothingForgotten, AddPerson, GroupsAreNoPersons
<1>2. UNCHANGED <<primary, info, visited>> /\ stack # <<>>
    BY DEF AddPerson
<1> DEFINE top == [Top EXCEPT !.persons = @ \ {p}]
<1>3. Top \in Frame /\ Frames = {Top} \cup In(Tail(stack))
    BY <1>2, TopFrame, FramesAre, Zenon
<1>4. top.calls = Top.calls /\ top.persons = Top.persons \ {p}
    BY <1>3 DEF Frame
<1>5. Frames' = {Own(p), Equivalents(p), Memberships(p), top} \cup In(Tail(stack))
    <2>1. Frames' = In(stack')
        BY DEF Frames, In
    <2> QED  BY <2>1, AddPersonFrames, Zenon
<1> HIDE DEF top
<1>6. \A f \in {Own(p), Equivalents(p), Memberships(p), top} \cup In(Tail(stack)) : f \in Frames'
    BY <1>5
<1>7. ASSUME NEW s, Due(s) PROVE Due(s)'
    BY <1>2, <1>3, <1>4, <1>6, <1>7 DEF Due
<1>8. /\ \A f \in Frames : f.persons \subseteq info.person
      /\ \A f \in Frames : \A d \in f.calls : d.groupOnly =>
            \A q \in info.person : q.subject # d.subject
    BY <1>1 DEF NothingForgotten
<1>9. p \in info.person
    BY <1>3, <1>8
<1>10. /\ Own(p).persons = {} /\ Equivalents(p).persons = {} /\ Memberships(p).persons = {}
       /\ \A d \in Own(p).calls : ~d.groupOnly
       /\ \A d \in Equivalents(p).calls : ~d.groupOnly
       /\ \A d \in Memberships(p).calls : d.subject \in p.isMemberOf
       /\ p.verified => \E d \in Own(p).calls : d.subject = Verified
       /\ \A s \in p.equivalentIdentity : \E d \in Equivalents(p).calls : d.subject = s
       /\ \A s \in p.isMemberOf : \E d \in Memberships(p).calls : d.subject = s
    <2> DEFINE T == {p.subject} \cup (IF p.verified THEN {Verified} ELSE {})
    <2>1. Own(p) = Calls(T, FALSE) /\ (p.verified => Verified \in T)
        BY DEF Own
    <2> HIDE DEF T
    <2>2. /\ Own(p).persons = {}
          /\ \A d \in Own(p).calls : ~d.groupOnly
          /\ p.verified => \E d \in Own(p).calls : d.subject = Verified
        BY <2>1, CallsAreOfRecords, Zenon
    <2>3. /\ Equivalents(p).persons = {} /\ \A d \in Equivalents(p).calls : ~d.groupOnly
          /\ \A s \in p.equivalentIdentity : \E d \in Equivalents(p).calls : d.subject = s
        BY CallsAreOfRecords, Zenon DEF Equivalents
    <2>4. /\ Memberships(p).persons = {} /\ \A d \in Memberships(p).calls : d.subject \in p.isMemberOf
          /\ \A s \in p.isMemberOf : \E d \in Memberships(p).calls : d.subject = s
        BY CallsAre, Zenon DEF Memberships
    <2> QED  BY <2>2, <2>3, <2>4
<1>11. ASSUME NEW f \in Frames'
       PROVE  /\ f.persons \subseteq info.person
              /\ \A d \in f.calls : d.groupOnly => \A q \in info.person : q.subject # d.subject
    <2>1. CASE f \in {Own(p), Equivalents(p)}
        BY <1>10, <2>1
    <2>2. CASE f = Memberships(p)
        BY <1>1, <1>9, <1>10, <2>2 DEF GroupsAreNoPersons
    <2>3. CASE f \in {top} \cup In(Tail(stack))
        BY <1>3, <1>4, <1>8, <2>3
    <2> QED  BY <1>5, <2>1, <2>2, <2>3
<1>12. \A s \in LinksOf(p) : Due(s)'
    BY <1>6, <1>10 DEF LinksOf, Due
<1>13. ASSUME NEW q \in info.person, q.subject \in visited
       PROVE  (\E f \in Frames' : q \in f.persons) \/ \A s \in LinksOf(q) : Due(s)'
    <2>1. CASE q = p
        BY <1>12, <2>1
    <2>2. CASE q # p
        <3>1. CASE \A s \in LinksOf(q) : Due(s)
            BY <1>7, <3>1
        <3>2. CASE \E f \in Frames : q \in f.persons
            BY <1>3, <1>4, <1>6, <2>2, <3>2
        <3> QED  BY <1>1, <1>13, <3>1, <3>2 DEF NothingForgotten
    <2> QED  BY <2>1, <2>2
<1>14. ASSUME NEW g \in info.group, NEW s \in g.hasMember, s \in visited
       PROVE  Due(g.subject)'
    BY <1>1, <1>7, <1>14 DEF NothingForgotten
<1>15. Due(primary)' /\ Due(Authenticated)'
    <2>1. Due(primary) /\ Due(Authenticated)
        BY <1>1 DEF NothingForgotten
    <2> QED  BY <1>2, <1>7, <2>1 DEF Due
<1>16. /\ primary' = primary /\ info' = info /\ visited' = visited
       /\ \A q \in info.person : LinksOf(q)' = LinksOf(q)
    BY <1>2 DEF LinksOf
<1> QED  BY <1>11, <1>13, <1>14, <1>15, <1>16, Zenon DEF NothingForgotten

(* A loop that has ended owes nothing. *)
LEMMA ReturnForgetsNothing ==
    ASSUME InfoTypeOK, NothingForgotten, Return
    PROVE  NothingForgotten'
<1>1. UNCHANGED <<primary, info, visited>> /\ stack # <<>> /\ Top.persons = {} /\ Top.calls = {}
    BY DEF Return
<1>2. Frames = {Top} \cup In(Tail(stack))
    BY <1>1, TopFrame, FramesAre, Zenon
<1>3. Frames' = In(Tail(stack))
    <2>1. Frames' = In(stack')
        BY DEF Frames, In
    <2> QED  BY <2>1, ReturnFrames, Zenon
<1>4. \A s : Due(s)' <=> Due(s)
    BY <1>1, <1>2, <1>3 DEF Due
<1>5. Due(primary)' = Due(primary) /\ Due(Authenticated)' = Due(Authenticated)
    BY <1>1, <1>4 DEF Due
<1> QED  BY <1>1, <1>2, <1>3, <1>4, <1>5 DEF NothingForgotten, GroupsAreNoPersons, LinksOf

LEMMA NextForgetsNothing ==
    ASSUME TypeOK, NothingForgotten, [Next]_vars
    PROVE  NothingForgotten'
<1>1. CASE Connect
    <2>1. PICK p \in InfoCertificates, i \in SubjectInfos : Extract(p, i)
        BY <1>1 DEF Connect
    <2>2. p \in Subject /\ i \in Info
        BY AccessConstants
    <2>3. /\ Frames' = {Calls({p}, FALSE), Calls({Authenticated}, FALSE)}
          /\ visited' = {} /\ primary' = p
        <3>1. Frames' = In(stack')
            BY DEF Frames, In
        <3> QED  BY <2>1, <2>2, <3>1, ExtractTypes, Zenon DEF TypeOK, Extract
    <2> DEFINE a == Calls({p}, FALSE)
               b == Calls({Authenticated}, FALSE)
    <2>4. /\ a.persons = {} /\ \A d \in a.calls : ~d.groupOnly
          /\ \E d \in a.calls : d.subject = p
          /\ b.persons = {} /\ \A d \in b.calls : ~d.groupOnly
          /\ \E d \in b.calls : d.subject = Authenticated
        BY CallsAreOfRecords
    <2>5. Frames' = {a, b} /\ visited' = {} /\ primary' = p
        BY <2>3
    <2> HIDE DEF a, b
    <2>6. Due(p)' /\ Due(Authenticated)'
        BY <2>4, <2>5 DEF Due
    <2>7. /\ Due(primary)' /\ Due(Authenticated)'
          /\ \A f \in Frames' : f.persons = {} /\ \A d \in f.calls : ~d.groupOnly
        BY <2>4, <2>5, <2>6 DEF Due
    <2> QED  BY <2>5, <2>7 DEF NothingForgotten
<1>2. CASE ReadSubjectInfo
    BY <1>2, AddSubjectForgetsNothing, AddPersonForgetsNothing, ReturnForgetsNothing
       DEF ReadSubjectInfo, ExtractStep, TypeOK
<1>3. CASE Authenticate
    BY <1>3 DEF Authenticate, NothingForgotten
<1>4. CASE UNCHANGED infoVars
    BY <1>4 DEF infoVars, NothingForgotten, Due, Frames, GroupsAreNoPersons, LinksOf
<1> QED
    <2>1. \/ Connect \/ ReadSubjectInfo \/ Authenticate \/ UNCHANGED infoVars
        BY DEF Next, vars, infoVars, ConnectWithoutCertificate, ConnectWithoutSubjectInfo,
               Disconnect, Compose, GetMeta, Wrap, AddPerm, RemovePerm, RemoveSubj,
               AddPublicRead, AddSymbolicRead, Clear, Compare, Edit, Unwrap, PutMeta, Client
    <2> QED  BY <1>1, <1>2, <1>3, <1>4, <2>1, Zenon

(* In whatever order the records of a SubjectInfo document are read, and    *)
(* however they refer to each other, every subject that is connected to the *)
(* subject of the certificate is found, if isMemberOf names groups only.    *)
THEOREM AccessEveryConnected == Spec => []EveryConnectedSubject
<1>1. Init => NothingForgotten
    BY DEF Init, InfoInit, NothingForgotten
<1>2. TypeOK /\ NothingForgotten /\ [Next]_vars => NothingForgotten'
    BY NextForgetsNothing
<1>3. TypeOK /\ NothingForgotten => EveryConnectedSubject
    <2> SUFFICES ASSUME NothingForgotten, Extracted, GroupsAreNoPersons(info)
                 PROVE  {primary, Authenticated} \subseteq visited /\ Closed(info, visited)
        BY DEF EveryConnectedSubject
    <2>1. Frames = {}
        BY FramesAre, InEmpty DEF Extracted
    <2>2. \A s : Due(s) <=> s \in visited
        BY <2>1 DEF Due
    <2>3. /\ primary \in visited /\ Authenticated \in visited
          /\ \A p \in info.person : p.subject \in visited => LinksOf(p) \subseteq visited
          /\ \A g \in info.group : (\E s \in g.hasMember : s \in visited) => g.subject \in visited
        BY <2>1, <2>2 DEF NothingForgotten, Extracted
    <2> QED  BY <2>3 DEF Closed, Linked
<1> QED  BY <1>1, <1>2, <1>3, AccessTypes, PTL DEF Spec
-----------------------------------------------------------------------------
(* The levels of a policy in each of its forms.                            *)

LEMMA HighestAtLeast ==
    ASSUME NEW A \in SUBSET Level, NEW k \in Level
    PROVE  Highest(A) >= k <=> \E l \in A : l >= k
BY DEF Highest, Level, Read, Write, ChangePermission, NoLevel

LEMMA HighestEqual ==
    ASSUME NEW A, NEW B,
           ChangePermission \in A <=> ChangePermission \in B,
           ChangePermission \in A \/ Write \in A <=> ChangePermission \in B \/ Write \in B,
           ChangePermission \in A \/ Write \in A \/ Read \in A
               <=> ChangePermission \in B \/ Write \in B \/ Read \in B
    PROVE  Highest(A) = Highest(B)
BY Zenon DEF Highest

LEMMA LevelsAre ==
    /\ Level = {Read, Write, ChangePermission}
    /\ EqualOrHigher(ChangePermission) = {ChangePermission}
    /\ EqualOrHigher(Write) = {Write, ChangePermission}
    /\ EqualOrHigher(Read) = Level
    /\ Read # Write /\ Read # ChangePermission /\ Write # ChangePermission
BY DEF EqualOrHigher, Level, Read, Write, ChangePermission

(* Normalizing changes no subject's level. *)
LEMMA HighestDictLevel ==
    ASSUME NEW dict \in PermDict, NEW s
    PROVE  DictLevel(HighestPermDict(dict), s) = DictLevel(dict, s)
<1> DEFINE high == HighestPermDict(dict)
           A == {l \in Level : s \in high[l]}
           B == {l \in Level : s \in dict[l]}
<1>1. high = [l \in Level |-> dict[l] \ UNION {dict[h] : h \in EqualOrHigher(l) \ {l}}]
    BY Zenon DEF HighestPermDict
<1> HIDE DEF high
<1>2. /\ s \in high[ChangePermission] <=> s \in dict[ChangePermission]
      /\ s \in high[Write] <=> s \in dict[Write] /\ s \notin dict[ChangePermission]
      /\ s \in high[Read] <=> /\ s \in dict[Read]
                              /\ s \notin dict[Write]
                              /\ s \notin dict[ChangePermission]
    <2>1. /\ {dict[h] : h \in EqualOrHigher(ChangePermission) \ {ChangePermission}} = {}
          /\ {dict[h] : h \in EqualOrHigher(Write) \ {Write}} = {dict[ChangePermission]}
          /\ {dict[h] : h \in EqualOrHigher(Read) \ {Read}} = {dict[Write], dict[ChangePermission]}
        BY LevelsAre
    <2>2. ChangePermission \in Level /\ Write \in Level /\ Read \in Level
        BY LevelsAre
    <2>3. /\ high[ChangePermission] = dict[ChangePermission] \ UNION {}
          /\ high[Write] = dict[Write] \ UNION {dict[ChangePermission]}
          /\ high[Read] = dict[Read] \ UNION {dict[Write], dict[ChangePermission]}
        BY <1>1, <2>1, <2>2, Zenon
    <2> QED  BY <2>3
<1>3. ChangePermission \in Level /\ Write \in Level /\ Read \in Level
    BY LevelsAre
<1>4. Highest(A) = Highest(B)
    <2>1. /\ ChangePermission \in A <=> ChangePermission \in B
          /\ ChangePermission \in A \/ Write \in A <=> ChangePermission \in B \/ Write \in B
          /\ ChangePermission \in A \/ Write \in A \/ Read \in A
                <=> ChangePermission \in B \/ Write \in B \/ Read \in B
        BY <1>2, <1>3, Zenon
    <2> QED  BY <2>1, HighestEqual, Zenon
<1> QED  BY <1>4, Zenon DEF DictLevel, high

(* The rules of a dict, and the dict of rules, give the same levels. *)
LEMMA RulesOfLevel ==
    ASSUME NEW dict \in PermDict, NEW s
    PROVE  RuleLevel(RulesOf(dict), s) = DictLevel(dict, s)
<1> DEFINE R == {r \in RulesOf(dict) : s \in r.subject}
<1>1. ASSUME NEW l \in Level, s \in dict[l]
      PROVE  \E r \in R : l \in r.permission
    <2> DEFINE r == [permission |-> {l}, subject |-> dict[l]]
    <2>1. r \in RulesOf(dict)
        BY <1>1 DEF RulesOf
    <2>2. s \in r.subject /\ l \in r.permission
        BY <1>1
    <2> QED  BY <2>1, <2>2, Zenon
<1>2. ASSUME NEW r \in R, NEW l \in r.permission
      PROVE  l \in Level /\ s \in dict[l]
    BY <1>2 DEF RulesOf
<1>3. UNION {r.permission : r \in R} = {l \in Level : s \in dict[l]}
    BY <1>1, <1>2, Zenon
<1> QED  BY <1>3, Zenon DEF RuleLevel, DictLevel

LEMMA DictOfLevel ==
    ASSUME NEW R \in SUBSET Rule, NEW s
    PROVE  DictLevel(PermDictOf(R), s) = RuleLevel(R, s)
<1>1. ASSUME NEW l \in Level
      PROVE  s \in PermDictOf(R)[l] <=> \E r \in R : l \in r.permission /\ s \in r.subject
    <2>1. PermDictOf(R)[l] = UNION {r.subject : r \in {r \in R : l \in r.permission}}
        BY Zenon DEF PermDictOf
    <2> QED  BY <2>1, Zenon
<1>2. \A r \in R : r.permission \subseteq Level
    BY DEF Rule
<1>3. UNION {r.permission : r \in {r \in R : s \in r.subject}} = {l \in Level : s \in PermDictOf(R)[l]}
    BY <1>1, <1>2, Zenon
<1> QED  BY <1>3, Zenon DEF RuleLevel, DictLevel

LEMMA NormalizedLevel ==
    ASSUME NEW dict \in PermDict, NEW s
    PROVE  RuleLevel(NormalizedRules(dict), s) = DictLevel(dict, s)
BY HighestDict, HighestDictLevel, RulesOfLevel, Zenon DEF NormalizedRules

(* The rows of rules give the levels of the rules, but for the rights       *)
(* holder's; the rules of rows those of the rows, but for the rights        *)
(* holder's.                                                                *)
LevelIn(R, s) == Highest({r.level : r \in {r \in R : r.subject = s}})

LEMMA RowsOfLevel ==
    ASSUME NEW R \in SUBSET Rule, NEW h \in Subject, NEW s \in Subject
    PROVE  LevelIn(RowsOf(R, h), s) = IF s = h THEN ChangePermission ELSE RuleLevel(R, s)
<1> DEFINE A == {r.level : r \in {r \in RowsOf(R, h) : r.subject = s}}
           B == UNION {r.permission : r \in {r \in R : s \in r.subject}}
<1>1. s = h => ChangePermission \in A
    <2> DEFINE row == [subject |-> h, level |-> ChangePermission]
    <2>1. row \in RowsOf(R, h) /\ row.subject = h /\ row.level = ChangePermission
        BY DEF RowsOf
    <2> HIDE DEF row
    <2> QED  BY <2>1, Zenon
<1>2. ASSUME s # h
      PROVE  A = {TopLevel(r) : r \in {r \in R : s \in r.subject}}
    <2>1. ASSUME NEW r \in R, s \in r.subject
          PROVE  TopLevel(r) \in A
        <3> DEFINE row == [subject |-> s, level |-> TopLevel(r)]
        <3>1. row \in RowsOf(R, h)
            <4> DEFINE mine == {[subject |-> q, level |-> TopLevel(r)] : q \in r.subject}
            <4>1. row \in mine
                BY <2>1, Zenon
            <4>2. mine \in {{[subject |-> q, level |-> TopLevel(p)] : q \in p.subject} : p \in R}
                BY Zenon
            <4> QED  BY <4>1, <4>2, Zenon DEF RowsOf
        <3>2. row.subject = s /\ row.level = TopLevel(r)
            OBVIOUS
        <3> QED  BY <3>1, <3>2, Zenon
    <2>2. ASSUME NEW row \in RowsOf(R, h), row.subject = s
          PROVE  \E r \in R : s \in r.subject /\ row.level = TopLevel(r)
        BY <1>2, <2>2 DEF RowsOf
    <2> QED  BY <2>1, <2>2, Zenon
<1>3. CASE s = h
    BY <1>1, <1>3, Zenon DEF LevelIn, Highest
<1>4. CASE s # h
    <2>1. \A r \in R : r.permission \in SUBSET Level /\ r.permission # {}
        BY DEF Rule
    <2>2. \A r \in R : TopLevel(r) = Highest(r.permission)
        BY DEF TopLevel
    <2>3. A \in SUBSET Level /\ B \in SUBSET Level
        BY <1>2, <1>4, <2>1, <2>2, HighestIsLevel
    <2>4. ASSUME NEW k \in Level
          PROVE  (\E l \in A : l >= k) <=> (\E l \in B : l >= k)
        <3>1. (\E l \in A : l >= k) <=> \E r \in R : s \in r.subject /\ Highest(r.permission) >= k
            BY <1>2, <1>4, <2>2
        <3>2. (\E l \in B : l >= k) <=> \E r \in R : s \in r.subject /\ \E l \in r.permission : l >= k
            OBVIOUS
        <3>3. \A r \in R : Highest(r.permission) >= k <=> \E l \in r.permission : l >= k
            BY <2>1, HighestAtLeast
        <3> QED  BY <3>1, <3>2, <3>3
    <2> HIDE DEF A, B
    <2>5. \A k \in Level : Highest(A) >= k <=> Highest(B) >= k
        BY <2>3, <2>4, HighestAtLeast
    <2>6. Highest(A) \in Level \cup {NoLevel} /\ Highest(B) \in Level \cup {NoLevel}
        BY HighestIsLevel
    <2>7. Highest(A) = Highest(B)
        BY <2>5, <2>6 DEF Level, Read, Write, ChangePermission, NoLevel
    <2> QED  BY <1>4, <2>7, Zenon DEF LevelIn, RuleLevel, A, B
<1> QED  BY <1>3, <1>4

LEMMA ServedLevel ==
    ASSUME TypeOK, NEW s \in Subject
    PROVE  RuleLevel(ServedRules, s) = IF s = holder THEN NoLevel ELSE RowLevel(s)
<1> DEFINE dict == [l \in Level |-> {r.subject : r \in {r \in rows : r.level = l /\ r.subject # holder}}]
<1>1. dict \in PermDict
    BY ServedIsRules, Zenon
<1>2. ServedRules = NormalizedRules(dict)
    BY Zenon DEF ServedRules
<1>3. \A l \in Level : s \in dict[l] <=> \E r \in rows : r.level = l /\ r.subject # holder /\ s = r.subject
    OBVIOUS
<1> HIDE DEF dict
<1>4. RuleLevel(ServedRules, s) = Highest({l \in Level : s \in dict[l]})
    BY <1>1, <1>2, NormalizedLevel, Zenon DEF DictLevel
<1>5. CASE s = holder
    <2>1. {l \in Level : s \in dict[l]} = {}
        BY <1>3, <1>5, Zenon
    <2> QED  BY <1>4, <1>5, <2>1 DEF Highest
<1>6. CASE s # holder
    <2>1. \A r \in rows : r.level \in Level
        BY DEF TypeOK, Row
    <2>2. {l \in Level : s \in dict[l]} = {r.level : r \in {r \in rows : r.subject = s}}
        BY <1>3, <1>6, <2>1, Zenon
    <2> QED  BY <1>4, <1>6, <2>2, Zenon DEF RowLevel
<1> QED  BY <1>5, <1>6
-----------------------------------------------------------------------------
(* What the edits do to the levels.                                        *)

LEMMA DictLevelIsLevel ==
    ASSUME NEW dict, NEW s
    PROVE  DictLevel(dict, s) \in Level \cup {NoLevel}
BY HighestIsLevel, Zenon DEF DictLevel

LEMMA WithPermLevel ==
    ASSUME NEW dict \in PermDict, NEW s \in Subject, NEW level \in Level, NEW t
    PROVE  DictLevel(WithPerm(dict, s, level), t) =
               IF t = s THEN Grants!Higher(DictLevel(dict, t), level) ELSE DictLevel(dict, t)
<1> DEFINE new == WithPerm(dict, s, level)
<1>1. \A l \in Level : t \in new[l] <=> t \in dict[l] \/ (l = level /\ t = s)
    <2>1. new = [dict EXCEPT ![level] = dict[level] \cup {s}]
        BY Zenon DEF WithPerm
    <2>2. \A l \in Level : new[l] = IF l = level THEN dict[l] \cup {s} ELSE dict[l]
        BY <2>1 DEF PermDict
    <2> HIDE DEF new
    <2> QED  BY <2>2
<1> HIDE DEF new
<1>2. {l \in Level : t \in new[l]} =
          IF t = s THEN {l \in Level : t \in dict[l]} \cup {level} ELSE {l \in Level : t \in dict[l]}
    BY <1>1
<1>3. Highest({l \in Level : t \in dict[l]} \cup {level})
          = Grants!Higher(Highest({l \in Level : t \in dict[l]}), level)
    BY DEF Highest, Level, Read, Write, ChangePermission, NoLevel, Grants!Higher
<1> QED  BY <1>2, <1>3 DEF DictLevel, new

LEMMA WithoutPermLevel ==
    ASSUME NEW dict \in PermDict, NEW s \in Subject, NEW level \in Level, NEW t
    PROVE  /\ t # s => DictLevel(WithoutPerm(dict, s, level), t) = DictLevel(dict, t)
           /\ DictLevel(WithoutPerm(dict, s, level), s) < level
           /\ DictLevel(dict, s) < level =>
                 DictLevel(WithoutPerm(dict, s, level), s) = DictLevel(dict, s)
<1> DEFINE new == WithoutPerm(dict, s, level)
           Of(d, u) == {l \in Level : u \in d[l]}
<1>1. \A l \in Level : \A u : u \in new[l] <=> u \in dict[l] /\ ~(u = s /\ l >= level)
    <2>1. \A l \in Level : new[l] = IF l >= level THEN dict[l] \ {s} ELSE dict[l]
        BY DEF WithoutPerm, EqualOrHigher
    <2> HIDE DEF new
    <2> QED  BY <2>1
<1> HIDE DEF new
<1>2. t # s => Of(new, t) = Of(dict, t)
    BY <1>1
<1>3. Of(new, s) = {l \in Of(dict, s) : ~(l >= level)}
    BY <1>1
<1> DEFINE A == Of(dict, s)
<1>4. A \subseteq Level
    OBVIOUS
<1>5. DictLevel(new, s) = Highest({l \in A : ~(l >= level)}) /\ DictLevel(dict, s) = Highest(A)
    BY <1>3, Zenon DEF DictLevel
<1> HIDE DEF A
<1>6. Highest({l \in A : ~(l >= level)}) < level
    BY <1>4 DEF Highest, Level, Read, Write, ChangePermission, NoLevel
<1>7. ASSUME Highest(A) < level
      PROVE  {l \in A : ~(l >= level)} = A
    <2>1. Highest(A) \in {-1, 0, 1, 2} /\ level \in {0, 1, 2}
        BY HighestIsLevel DEF Level, Read, Write, ChangePermission, NoLevel
    <2>2. ~(Highest(A) >= level)
        BY <1>7, <2>1
    <2>3. Highest(A) >= level <=> \E l \in A : l >= level
        BY <1>4, HighestAtLeast
    <2>4. \A l \in A : ~(l >= level)
        BY <2>2, <2>3, Zenon
    <2> QED  BY <2>4, Zenon
<1> QED
    <2>1. t # s => DictLevel(new, t) = DictLevel(dict, t)
        BY <1>2, Zenon DEF DictLevel
    <2>2. DictLevel(new, s) < level /\ (DictLevel(dict, s) < level => DictLevel(new, s) = DictLevel(dict, s))
        BY <1>5, <1>6, <1>7
    <2> QED  BY <2>1, <2>2, Zenon DEF new

LEMMA WithoutSubjLevel ==
    ASSUME NEW dict \in PermDict, NEW s, NEW t
    PROVE  DictLevel([l \in Level |-> dict[l] \ {s}], t) =
               IF t = s THEN NoLevel ELSE DictLevel(dict, t)
<1> DEFINE new == [l \in Level |-> dict[l] \ {s}]
<1>1. \A l \in Level : t \in new[l] <=> t \in dict[l] /\ t # s
    OBVIOUS
<1> HIDE DEF new
<1>2. {l \in Level : t \in new[l]} = IF t = s THEN {} ELSE {l \in Level : t \in dict[l]}
    BY <1>1
<1> QED  BY <1>2 DEF DictLevel, Highest, new

LEMMA EmptyLevels ==
    /\ \A s : DictLevel(EmptyDict, s) = NoLevel
    /\ \A s : RuleLevel({}, s) = NoLevel
<1>1. ASSUME NEW s
      PROVE  DictLevel(EmptyDict, s) = NoLevel
    BY DEF DictLevel, EmptyDict, Highest
<1>2. ASSUME NEW s
      PROVE  RuleLevel({}, s) = NoLevel
    BY DEF RuleLevel, Highest
<1> QED  BY <1>1, <1>2

(* add_perm() and remove_perm() do to a subject's level what they say. *)
LEMMA EditLevels ==
    ASSUME TypeOK, NEW s \in Grantees, NEW level \in Level
    PROVE  /\ AddPerm(s, level) => DraftLevel(s)' = Grants!Higher(DraftLevel(s), level)
           /\ RemovePerm(s, level) =>
                 /\ DraftLevel(s)' < level
                 /\ DraftLevel(s) < level => DraftLevel(s)' = DraftLevel(s)
<1>1. s \in Subject
    BY AccessConstants
<1>2. ASSUME NEW dict \in PermDict, Edit(dict)
      PROVE  /\ wrapper \in PermDict
             /\ DraftLevel(s) = DictLevel(wrapper, s)
             /\ DraftLevel(s)' = DictLevel(dict, s)
    BY <1>2 DEF TypeOK, Edit, DraftLevel
<1>3. ASSUME AddPerm(s, level)
      PROVE  DraftLevel(s)' = Grants!Higher(DraftLevel(s), level)
    <2>1. wrapper \in PermDict
        BY DEF TypeOK
    <2>2. WithPerm(wrapper, s, level) \in PermDict
        BY <1>1, <2>1, PermDicts
    <2>3. /\ DraftLevel(s) = DictLevel(wrapper, s)
          /\ DraftLevel(s)' = DictLevel(WithPerm(wrapper, s, level), s)
        BY <1>2, <1>3, <2>2, Zenon DEF AddPerm
    <2> QED  BY <1>1, <2>1, <2>3, WithPermLevel
<1>4. ASSUME RemovePerm(s, level)
      PROVE  /\ DraftLevel(s)' < level
             /\ DraftLevel(s) < level => DraftLevel(s)' = DraftLevel(s)
    <2>1. wrapper \in PermDict
        BY DEF TypeOK
    <2>2. WithoutPerm(wrapper, s, level) \in PermDict
        BY <1>1, <2>1, PermDicts
    <2>3. /\ DraftLevel(s) = DictLevel(wrapper, s)
          /\ DraftLevel(s)' = DictLevel(WithoutPerm(wrapper, s, level), s)
        BY <1>2, <1>4, <2>2, Zenon DEF RemovePerm
    <2> QED  BY <1>1, <2>1, <2>3, WithoutPermLevel
<1> QED  BY <1>3, <1>4

(* A client that adds a permission to a policy, or takes one away, gets     *)
(* that level and no other, in whatever form the policy has come to it.     *)
THEOREM AccessEditsTakeEffect == Spec => EditsTakeEffect
<1> DEFINE Effects ==
        \A s \in Grantees, level \in Level :
          /\ AddPerm(s, level) => DraftLevel(s)' = Grants!Higher(DraftLevel(s), level)
          /\ RemovePerm(s, level) =>
                /\ DraftLevel(s)' < level
                /\ DraftLevel(s) < level => DraftLevel(s)' = DraftLevel(s)
<1>1. TypeOK => [Effects]_vars
    BY EditLevels
<1> QED  BY <1>1, AccessTypes, PTL DEF EditsTakeEffect
-----------------------------------------------------------------------------
(* Access control implements AccessGrants.                                 *)

Granted == [s \in Subject |-> RowLevel(s)]
Drafted == [s \in Subject |-> DraftLevel(s)]

(* A client that has left has left its document. *)
IdleInv == subjects = {} => form = "none"

LEMMA NextIdle ==
    ASSUME TypeOK, IdleInv, [Next]_vars
    PROVE  IdleInv'
<1>1. \/ subjects' = {} /\ form' = "none"
      \/ UNCHANGED form /\ subjects = {}
      \/ UNCHANGED subjects /\ (subjects = {} => UNCHANGED form)
    BY DEF Next, vars, accessVars, infoVars, ConnectWithoutCertificate,
           ConnectWithoutSubjectInfo, Connect, ReadSubjectInfo, Authenticate, Session,
           Disconnect, Compose, GetMeta, Wrap, AddPerm, RemovePerm, RemoveSubj,
           AddPublicRead, AddSymbolicRead, Clear, Compare, Edit, Unwrap, PutMeta, Client
<1> QED  BY <1>1 DEF IdleInv

(* The instance speaks of the same levels. *)
LEMMA SameLevels ==
    /\ Grants!Level = Level /\ Grants!NoLevel = NoLevel
    /\ Grants!Read = Read /\ Grants!Write = Write /\ Grants!ChangePermission = ChangePermission
BY DEF Grants!Level, Grants!NoLevel, Grants!Read, Grants!Write, Grants!ChangePermission,
       Level, NoLevel, Read, Write, ChangePermission

LEMMA LevelsHold ==
    ASSUME TypeOK
    PROVE  Granted \in Grants!Levels /\ Drafted \in Grants!Levels
<1>1. ASSUME NEW s \in Subject
      PROVE  RowLevel(s) \in Level \cup {NoLevel} /\ DraftLevel(s) \in Level \cup {NoLevel}
    BY HighestIsLevel, Zenon DEF RowLevel, DraftLevel, DictLevel, RuleLevel
<1> QED  BY <1>1, SameLevels DEF Granted, Drafted, Grants!Levels

LEMMA NoDraft ==
    ASSUME TypeOK, form = "none"
    PROVE  Drafted = Grants!Nothing
<1>1. \A s \in Subject : DraftLevel(s) = NoLevel
    BY EmptyLevels DEF TypeOK, DraftLevel
<1> QED  BY <1>1, SameLevels DEF Drafted, Grants!Nothing

LEMMA SameGranted ==
    ASSUME rows' = rows
    PROVE  Granted' = Granted
BY DEF Granted, RowLevel

LEMMA SameDrafted ==
    ASSUME UNCHANGED <<form, policy, wrapper>>
    PROVE  Drafted' = Drafted
BY DEF Drafted, DraftLevel, DictLevel, RuleLevel

(* The node decides on rows what AccessGrants decides on levels. *)
LEMMA AllowedIsMayDo ==
    ASSUME TypeOK, NEW level \in Level
    PROVE  IsAllowed(level) <=> Grants!MayDo(level)
<1>1. ASSUME NEW s \in Subject
      PROVE  RowLevel(s) >= level <=> \E r \in rows : r.subject = s /\ r.level >= level
    <2> DEFINE A == {r.level : r \in {r \in rows : r.subject = s}}
    <2>1. A \in SUBSET Level
        BY DEF TypeOK, Row
    <2>2. (\E l \in A : l >= level) <=> \E r \in rows : r.subject = s /\ r.level >= level
        OBVIOUS
    <2> HIDE DEF A
    <2>3. Highest(A) >= level <=> \E l \in A : l >= level
        BY <2>1, HighestAtLeast
    <2> QED  BY <2>2, <2>3 DEF RowLevel, A
<1>2. subjects \subseteq Subject
    BY DEF TypeOK
<1>3. (\E s \in subjects : RowLevel(s) >= level)
          <=> \E r \in rows : r.subject \in subjects /\ r.level >= level
    BY <1>1, <1>2
<1>4. \A s \in subjects : Granted[s] = RowLevel(s)
    BY <1>2 DEF Granted
<1>5. Grants!MayDo(level) <=>
          subjects \cap TrustedSubjects # {} \/ \E s \in subjects : RowLevel(s) >= level
    BY <1>4 DEF Grants!MayDo, Granted
<1> QED  BY <1>3, <1>5, Zenon DEF IsAllowed, IsTrusted

(* Wrapping and unwrapping a document changes no level. *)
LEMMA WrapLevels ==
    ASSUME TypeOK, Wrap \/ Unwrap
    PROVE  Drafted' = Drafted
<1>1. CASE Wrap
    <2>1. \A s \in Subject : DraftLevel(s)' = DictLevel(PermDictOf(policy), s)
                             /\ DraftLevel(s) = RuleLevel(policy, s)
        BY <1>1 DEF Wrap, DraftLevel, DictLevel
    <2>2. \A s \in Subject : DictLevel(PermDictOf(policy), s) = RuleLevel(policy, s)
        BY DictOfLevel DEF TypeOK
    <2> QED  BY <2>1, <2>2, Zenon DEF Drafted
<1>2. CASE Unwrap
    <2>1. \A s \in Subject : DraftLevel(s)' = RuleLevel(NormalizedRules(wrapper), s)
                             /\ DraftLevel(s) = DictLevel(wrapper, s)
        BY <1>2 DEF Unwrap, DraftLevel, RuleLevel
    <2>2. \A s \in Subject : RuleLevel(NormalizedRules(wrapper), s) = DictLevel(wrapper, s)
        BY NormalizedLevel DEF TypeOK
    <2> QED  BY <2>1, <2>2, Zenon DEF Drafted
<1> QED  BY <1>1, <1>2

LEMMA EditDraft ==
    ASSUME TypeOK, NEW dict \in PermDict, Edit(dict)
    PROVE  /\ form = "wrapped" /\ form' = "wrapped"
           /\ UNCHANGED <<holder, subjects>> /\ Granted' = Granted
           /\ \A t \in Subject : Drafted[t] = DictLevel(wrapper, t) /\ Drafted'[t] = DictLevel(dict, t)
           /\ Drafted' \in Grants!Levels
<1>1. form = "wrapped" /\ UNCHANGED <<holder, subjects, rows, form>> /\ wrapper' = dict
    BY DEF Edit, Client
<1>2. \A t \in Subject : Drafted[t] = DictLevel(wrapper, t)
    BY <1>1 DEF Drafted, DraftLevel
<1>3. \A t \in Subject : Drafted'[t] = DictLevel(dict, t)
    BY <1>1 DEF Drafted, DraftLevel, DictLevel
<1>4. TypeOK'
    BY EditTypes
<1>5. (Drafted \in Grants!Levels)'
    BY <1>4, LevelsHold, PTL
<1>6. Drafted' \in Grants!Levels
    BY <1>5 DEF Grants!Levels
<1> QED  BY <1>1, <1>2, <1>3, <1>6, SameGranted

LEMMA InitGrants ==
    ASSUME Init
    PROVE  Grants!Init
<1>1. TypeOK
    BY InitTypes
<1>2. holder \in Subject /\ rows = RowsOf({}, holder) /\ form = "none" /\ subjects = {}
    BY <1>1 DEF Init, TypeOK
<1>3. \A s \in Subject : RowLevel(s) = IF s = holder THEN ChangePermission ELSE NoLevel
    <2> TAKE s \in Subject
    <2>1. RowLevel(s) = LevelIn(RowsOf({}, holder), s)
        BY <1>2 DEF RowLevel, LevelIn
    <2>2. {} \in SUBSET Rule
        OBVIOUS
    <2>3. LevelIn(RowsOf({}, holder), s)
            = IF s = holder THEN ChangePermission ELSE RuleLevel({}, s)
        BY <1>2, <2>2, RowsOfLevel, Zenon
    <2>4. RuleLevel({}, s) = NoLevel
        BY EmptyLevels
    <2> QED  BY <2>1, <2>3, <2>4, Zenon
<1>4. Granted = [Grants!Nothing EXCEPT ![holder] = Grants!ChangePermission]
    BY <1>2, <1>3, SameLevels DEF Granted, Grants!Nothing
<1>5. Drafted = Grants!Nothing
    BY <1>1, <1>2, NoDraft
<1> QED  BY <1>2, <1>4, <1>5 DEF Grants!Init, Granted, Drafted

LEMMA BeginGrants ==
    ASSUME TypeOK, TypeOK', UNCHANGED <<holder, rows>>, form' = "none"
    PROVE  Grants!Begin
<1>1. Granted' = Granted
    BY SameGranted
<1>2. (form = "none" => Drafted = Grants!Nothing)'
    BY NoDraft, PTL
<1>3. Drafted' = Grants!Nothing
    BY <1>2 DEF Grants!Nothing
<1>4. subjects' \in SUBSET Subject
    BY DEF TypeOK
<1> QED  BY <1>1, <1>3, <1>4 DEF Grants!Begin, Granted, Drafted

LEMMA ComposeGrants ==
    ASSUME TypeOK, TypeOK', Compose
    PROVE  Grants!Draft
<1>1. form = "none" /\ form' = "document" /\ UNCHANGED <<holder, rows, subjects>>
    BY DEF Compose, Client
<1>2. Granted' = Granted
    BY <1>1, SameGranted
<1>3. (Drafted \in Grants!Levels)'
    BY LevelsHold, PTL
<1>4. Drafted' \in Grants!Levels
    BY <1>3 DEF Grants!Levels
<1> QED  BY <1>1, <1>2, <1>4 DEF Grants!Draft, Granted, Drafted

LEMMA GetMetaGrants ==
    ASSUME TypeOK, GetMeta
    PROVE  Grants!Fetch
<1>1. /\ form = "none" /\ form' = "document" /\ policy' = ServedRules
      /\ UNCHANGED <<holder, rows, subjects>>
    BY DEF GetMeta, Client
<1>2. Granted' = Granted
    BY <1>1, SameGranted
<1>3. Grants!MayDo(Grants!Read)
    BY AllowedIsMayDo, SameLevels DEF GetMeta, Level
<1>4. \A s \in Subject : DraftLevel(s)' = IF s = holder THEN NoLevel ELSE RowLevel(s)
    <2>1. \A s \in Subject : DraftLevel(s)' = RuleLevel(ServedRules, s)
        BY <1>1 DEF DraftLevel, RuleLevel
    <2> QED  BY <2>1, ServedLevel
<1>5. holder \in Subject
    BY DEF TypeOK
<1>6. Drafted' = [Granted EXCEPT ![holder] = Grants!NoLevel]
    BY <1>4, <1>5, SameLevels DEF Drafted, Granted
<1> QED  BY <1>1, <1>2, <1>3, <1>6 DEF Grants!Fetch, Granted, Drafted

LEMMA PutMetaGrants ==
    ASSUME TypeOK, NEW h \in Holders, PutMeta(h)
    PROVE  h \in Subject /\ Grants!Store(h)
<1>1. /\ form = "document" /\ rows' = RowsOf(policy, h) /\ holder' = h
      /\ UNCHANGED <<form, policy, wrapper, subjects>>
    BY DEF PutMeta, Client
<1>2. h \in Subject /\ policy \in SUBSET Rule
    BY AccessConstants DEF TypeOK
<1>3. Drafted' = Drafted
    BY <1>1, SameDrafted
<1>4. Grants!MayDo(Grants!Write)
    BY AllowedIsMayDo, SameLevels DEF PutMeta, Level
<1>5. \A s \in Subject : RowLevel(s)' = IF s = h THEN ChangePermission ELSE DraftLevel(s)
    <2>1. \A s \in Subject : RowLevel(s)' = LevelIn(RowsOf(policy, h), s)
        BY <1>1 DEF RowLevel, LevelIn
    <2>2. \A s \in Subject : DraftLevel(s) = RuleLevel(policy, s)
        BY <1>1 DEF DraftLevel
    <2> QED  BY <1>2, <2>1, <2>2, RowsOfLevel
<1>6. Granted' = [Drafted EXCEPT ![h] = Grants!ChangePermission]
    BY <1>2, <1>5, SameLevels DEF Granted, Drafted
<1> QED  BY <1>1, <1>2, <1>3, <1>4, <1>6 DEF Grants!Store, Granted, Drafted

(* The edits that AccessGrants has, as an Edit of the wrapper. *)
LEMMA EditGrants ==
    ASSUME TypeOK, NEW dict \in PermDict, Edit(dict),
           \/ \A t \in Subject : DictLevel(dict, t) = NoLevel
           \/ \E s \in Subject, level \in Level :
                 /\ \A t \in Subject \ {s} : DictLevel(dict, t) = DictLevel(wrapper, t)
                 /\ \/ DictLevel(dict, s) = Grants!Higher(DictLevel(wrapper, s), level)
                    \/ /\ DictLevel(dict, s) < level
                       /\ DictLevel(wrapper, s) < level =>
                             DictLevel(dict, s) = DictLevel(wrapper, s)
           \/ \E s \in {Authenticated, Verified} :
                 /\ \A t \in Subject \ {Public, s} : DictLevel(dict, t) = DictLevel(wrapper, t)
                 /\ DictLevel(dict, Public) = NoLevel
                 /\ DictLevel(dict, s) = Grants!Higher(DictLevel(wrapper, s), Read)
    PROVE  Grants!Edit
<1>1. /\ form = "wrapped" /\ form' = "wrapped"
      /\ UNCHANGED <<holder, subjects>> /\ Granted' = Granted
      /\ \A t \in Subject : Drafted[t] = DictLevel(wrapper, t) /\ Drafted'[t] = DictLevel(dict, t)
      /\ Drafted' \in Grants!Levels
    BY EditDraft
<1> DEFINE Drafting ==
        \/ Drafted' = Grants!Nothing
        \/ \E s \in Subject, level \in Level :
              /\ \A t \in Subject \ {s} : Drafted'[t] = Drafted[t]
              /\ \/ Drafted'[s] = Grants!Higher(Drafted[s], level)
                 \/ /\ Drafted'[s] < level
                    /\ Drafted[s] < level => Drafted'[s] = Drafted[s]
        \/ \E s \in {Authenticated, Verified} :
              /\ \A t \in Subject \ {Public, s} : Drafted'[t] = Drafted[t]
              /\ Drafted'[Public] = NoLevel
              /\ Drafted'[s] = Grants!Higher(Drafted[s], Read)
<1>2. Drafting
    <2>1. CASE \A t \in Subject : DictLevel(dict, t) = NoLevel
        <3>1. \A t \in Subject : Drafted'[t] = Grants!Nothing[t]
            BY <1>1, <2>1, SameLevels DEF Grants!Nothing
        <3> QED  BY <1>1, <3>1 DEF Grants!Levels, Grants!Nothing
    <2>2. CASE \E s \in Subject, level \in Level :
                 /\ \A t \in Subject \ {s} : DictLevel(dict, t) = DictLevel(wrapper, t)
                 /\ \/ DictLevel(dict, s) = Grants!Higher(DictLevel(wrapper, s), level)
                    \/ /\ DictLevel(dict, s) < level
                       /\ DictLevel(wrapper, s) < level =>
                             DictLevel(dict, s) = DictLevel(wrapper, s)
        BY <1>1, <2>2
    <2>3. CASE \E s \in {Authenticated, Verified} :
                 /\ \A t \in Subject \ {Public, s} : DictLevel(dict, t) = DictLevel(wrapper, t)
                 /\ DictLevel(dict, Public) = NoLevel
                 /\ DictLevel(dict, s) = Grants!Higher(DictLevel(wrapper, s), Read)
        BY <1>1, <2>3, SymbolicSubjects
    <2> QED  BY <2>1, <2>2, <2>3
<1>3. Drafting =>
        \/ Drafted' = Grants!Nothing
        \/ \E s \in Subject, level \in Grants!Level : Grants!Grant(s, level) \/ Grants!Revoke(s, level)
        \/ \E s \in {Authenticated, Verified} : Grants!Restrict(s)
    BY SameLevels
       DEF Grants!Grant, Grants!Revoke, Grants!Restrict, Grants!Others, Drafted
<1> QED  BY <1>1, <1>2, <1>3 DEF Grants!Edit, Granted, Drafted

LEMMA SymbolicReadGrants ==
    ASSUME TypeOK, NEW s \in {Authenticated, Verified}, AddSymbolicRead(s)
    PROVE  Grants!Edit
<1> DEFINE hidden == WithoutPerm(wrapper, Public, Read)
           dict == WithPerm(hidden, s, Read)
<1>1. Read \in Level /\ s \in Subject /\ Public \in Subject /\ s # Public /\ wrapper \in PermDict
    BY SymbolicSubjects DEF TypeOK, Level
<1>2. hidden \in PermDict
    BY <1>1, PermDicts
<1>3. /\ \A t \in Subject : t # Public => DictLevel(hidden, t) = DictLevel(wrapper, t)
      /\ DictLevel(hidden, Public) < Read
    BY <1>1, WithoutPermLevel
<1> HIDE DEF hidden
<1>4. dict \in PermDict
    BY <1>1, <1>2, PermDicts
<1>5. \A t \in Subject : DictLevel(dict, t) =
          IF t = s THEN Grants!Higher(DictLevel(hidden, t), Read) ELSE DictLevel(hidden, t)
    BY <1>1, <1>2, WithPermLevel
<1>6. Edit(dict)
    BY Zenon DEF AddSymbolicRead, hidden
<1> HIDE DEF dict
<1>7. DictLevel(hidden, Public) = NoLevel
    BY <1>3, DictLevelIsLevel DEF Level, Read, Write, ChangePermission, NoLevel
<1>8. /\ \A t \in Subject \ {Public, s} : DictLevel(dict, t) = DictLevel(wrapper, t)
      /\ DictLevel(dict, Public) = NoLevel
      /\ DictLevel(dict, s) = Grants!Higher(DictLevel(wrapper, s), Read)
    BY <1>1, <1>3, <1>5, <1>7
<1> QED  BY <1>4, <1>6, <1>8, EditGrants

LEMMA AddPermGrants ==
    ASSUME TypeOK, NEW s \in Subject, NEW level \in Level, AddPerm(s, level)
    PROVE  Grants!Edit
<1> DEFINE dict == WithPerm(wrapper, s, level)
<1>1. wrapper \in PermDict
    BY DEF TypeOK
<1>2. dict \in PermDict
    BY <1>1, PermDicts
<1>3. \A t \in Subject : DictLevel(dict, t) =
          IF t = s THEN Grants!Higher(DictLevel(wrapper, t), level) ELSE DictLevel(wrapper, t)
    BY <1>1, WithPermLevel
<1>4. Edit(dict)
    BY Zenon DEF AddPerm
<1> HIDE DEF dict
<1>5. /\ \A t \in Subject \ {s} : DictLevel(dict, t) = DictLevel(wrapper, t)
      /\ DictLevel(dict, s) = Grants!Higher(DictLevel(wrapper, s), level)
    BY <1>3
<1> QED  BY <1>2, <1>4, <1>5, EditGrants

LEMMA RemovePermGrants ==
    ASSUME TypeOK, NEW s \in Subject, NEW level \in Level, RemovePerm(s, level)
    PROVE  Grants!Edit
<1> DEFINE dict == WithoutPerm(wrapper, s, level)
<1>1. wrapper \in PermDict
    BY DEF TypeOK
<1>2. dict \in PermDict
    BY <1>1, PermDicts
<1>3. /\ \A t \in Subject : t # s => DictLevel(dict, t) = DictLevel(wrapper, t)
      /\ DictLevel(dict, s) < level
      /\ DictLevel(wrapper, s) < level => DictLevel(dict, s) = DictLevel(wrapper, s)
    BY <1>1, WithoutPermLevel
<1>4. Edit(dict)
    BY Zenon DEF RemovePerm
<1> HIDE DEF dict
<1> QED  BY <1>2, <1>3, <1>4, EditGrants

(* Removing a subject altogether is removing read permission from it. *)
LEMMA RemoveSubjGrants ==
    ASSUME TypeOK, NEW s \in Subject, RemoveSubj(s)
    PROVE  Grants!Edit
<1> DEFINE dict == [l \in Level |-> wrapper[l] \ {s}]
<1>1. wrapper \in PermDict /\ Read \in Level
    BY DEF TypeOK, Level
<1>2. dict \in PermDict
    BY <1>1 DEF PermDict
<1>3. \A t \in Subject : DictLevel(dict, t) = IF t = s THEN NoLevel ELSE DictLevel(wrapper, t)
    BY <1>1, WithoutSubjLevel
<1>4. Edit(dict)
    BY Zenon DEF RemoveSubj
<1> HIDE DEF dict
<1>5. DictLevel(wrapper, s) < Read => DictLevel(wrapper, s) = NoLevel
    BY DictLevelIsLevel DEF Level, Read, Write, ChangePermission, NoLevel
<1>6. /\ \A t \in Subject \ {s} : DictLevel(dict, t) = DictLevel(wrapper, t)
      /\ DictLevel(dict, s) < Read
      /\ DictLevel(wrapper, s) < Read => DictLevel(dict, s) = DictLevel(wrapper, s)
    BY <1>3, <1>5 DEF Read, NoLevel
<1> QED  BY <1>1, <1>2, <1>4, <1>6, EditGrants

LEMMA ClearGrants ==
    ASSUME TypeOK, Clear
    PROVE  Grants!Edit
<1>1. EmptyDict \in PermDict
    BY DEF EmptyDict, PermDict
<1> QED  BY <1>1, EmptyLevels, EditGrants DEF Clear

LEMMA CompareGrants ==
    ASSUME TypeOK, Compare
    PROVE  UNCHANGED <<Granted, Drafted, holder, subjects, form>>
<1>1. wrapper \in PermDict
    BY DEF TypeOK
<1>2. HighestPermDict(wrapper) \in PermDict /\ Edit(HighestPermDict(wrapper))
    BY <1>1, HighestDict DEF Compare
<1>3. /\ UNCHANGED <<holder, subjects, form>> /\ Granted' = Granted
      /\ \A t \in Subject : Drafted[t] = DictLevel(wrapper, t)
                            /\ Drafted'[t] = DictLevel(HighestPermDict(wrapper), t)
      /\ Drafted' \in Grants!Levels
    BY <1>2, EditDraft
<1>4. \A t \in Subject : Drafted'[t] = Drafted[t]
    BY <1>1, <1>3, HighestDictLevel
<1>5. Drafted \in Grants!Levels
    BY LevelsHold
<1> QED  BY <1>3, <1>4, <1>5 DEF Grants!Levels

LEMMA SessionGrants ==
    ASSUME TypeOK, TypeOK', IdleInv, NEW S, Session(S)
    PROVE  Grants!Begin
BY BeginGrants DEF Session, IdleInv

LEMMA NextGrants ==
    ASSUME TypeOK, TypeOK', IdleInv, [Next]_vars
    PROVE  [Grants!Next]_(Grants!vars)
<1> DEFINE Stutter == UNCHANGED <<Granted, holder, subjects, form # "none", Drafted>>
<1>1. Stutter => UNCHANGED Grants!vars
    BY DEF Grants!vars, Granted, Drafted
<1>2. UNCHANGED accessVars => Stutter
    BY SameGranted, SameDrafted DEF accessVars
<1>3. CASE \/ ConnectWithoutCertificate \/ ConnectWithoutSubjectInfo \/ Authenticate \/ Disconnect
    <2>1. Grants!Begin
        BY <1>3, SessionGrants, BeginGrants
           DEF ConnectWithoutCertificate, ConnectWithoutSubjectInfo, Authenticate, Disconnect
    <2> QED  BY <2>1 DEF Grants!Next
<1>4. CASE Connect \/ ReadSubjectInfo \/ UNCHANGED vars
    <2>1. UNCHANGED accessVars
        BY <1>4 DEF Connect, ReadSubjectInfo, vars, infoVars, accessVars
    <2> QED  BY <1>1, <1>2, <2>1
<1>5. CASE Compose
    BY <1>5, ComposeGrants DEF Grants!Next
<1>6. CASE GetMeta
    BY <1>6, GetMetaGrants DEF Grants!Next
<1>7. CASE Wrap \/ Unwrap
    <2>1. Drafted' = Drafted
        BY <1>7, WrapLevels
    <2>2. UNCHANGED <<rows, holder, subjects, form # "none">>
        BY <1>7 DEF Wrap, Unwrap, Client
    <2> QED  BY <1>1, <2>1, <2>2, SameGranted
<1>8. ASSUME NEW s \in Grantees, NEW level \in Level, AddPerm(s, level) \/ RemovePerm(s, level)
      PROVE  Grants!Next
    BY <1>8, AccessConstants, AddPermGrants, RemovePermGrants DEF Grants!Next
<1>9. ASSUME NEW s \in Grantees, RemoveSubj(s)
      PROVE  Grants!Next
    BY <1>9, AccessConstants, RemoveSubjGrants DEF Grants!Next
<1>10. CASE AddPublicRead
    <2>1. AddPerm(Public, Read) /\ Public \in Subject /\ Read \in Level
        BY <1>10, SymbolicSubjects DEF AddPublicRead, Level
    <2> QED  BY <2>1, AddPermGrants DEF Grants!Next
<1>11. ASSUME NEW s \in {Authenticated, Verified}, AddSymbolicRead(s)
       PROVE  Grants!Next
    BY <1>11, SymbolicReadGrants DEF Grants!Next
<1>12. CASE Clear
    BY <1>12, ClearGrants DEF Grants!Next
<1>13. CASE Compare
    BY <1>1, <1>13, CompareGrants
<1>14. ASSUME NEW h \in Holders, PutMeta(h)
       PROVE  Grants!Next
    BY <1>14, PutMetaGrants DEF Grants!Next
<1> QED
    BY <1>3, <1>4, <1>5, <1>6, <1>7, <1>8, <1>9, <1>10, <1>11, <1>12, <1>13, <1>14, Zenon DEF Next

(* Rows, rules, sets of subjects and the wrapper's dict are ways to write    *)
(* down one level per subject: whatever form a policy takes, the node       *)
(* decides and clients edit as if there were nothing but these levels.      *)
THEOREM AccessGrantsKept == Spec => GrantsKept
<1>1. Init => Grants!Init
    BY InitGrants
<1>2. Init => IdleInv
    BY DEF Init, IdleInv
<1>3. TypeOK /\ IdleInv /\ [Next]_vars => IdleInv'
    BY NextIdle
<1>4. TypeOK /\ TypeOK' /\ IdleInv /\ [Next]_vars => [Grants!Next]_(Grants!vars)
    BY NextGrants
<1> QED  BY <1>1, <1>2, <1>3, <1>4, AccessTypes, PTL DEF Spec, GrantsKept, Grants!Spec
=============================================================================
