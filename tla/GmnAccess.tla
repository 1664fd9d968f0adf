----------------------------- MODULE GmnAccess ------------------------------
(***************************************************************************)
(* Access control of one object of a Member Node:                          *)
(*   - the session of a client: d1_gmn/app/middleware/view_handler.py and  *)
(*     session_cert.py, with the subjects of SubjectInfo;                  *)
(*   - the Permission rows of the object: d1_gmn/app/sysmeta.py and        *)
(*     d1_gmn/app/auth.py;                                                 *)
(*   - the access policy document that a client fetches, edits with        *)
(*     AccessPolicyWrapper and sends back:                                 *)
(*     d1_common/wrap/access_policy.py.                                    *)
(* The client is alone on the object: that the document it sends back is   *)
(* the one it fetched is the business of GmnSysmetaLock.                   *)
(***************************************************************************)
EXTENDS SubjectInfo

CONSTANTS
    PlainCertificates,  \* subjects of the certificates without SubjectInfo
    InfoCertificates,  \* subjects of the certificates with one
    SubjectInfos,  \* the SubjectInfo documents in them
    JwtSubjects,   \* subjects of the tokens that clients have
    CnSubjects,    \* the Coordinating Nodes' subjects in the node registry
    ConfiguredTrust,  \* DATAONE_TRUSTED_SUBJECTS
    ClientCert,    \* the subject of the node's own certificate, or NoSubject
    Whitelist,     \* WhitelistForCreateUpdateDelete
    Holders,       \* rights holders
    Grantees,      \* the subjects whose permissions clients edit
    Documents      \* access policies that clients write themselves

VARIABLES
    subjects,  \* request.all_subjects_set of the client, {} before it connects
    holder,    \* ScienceObject.rights_holder
    rows,      \* the Permission rows of the object
    form,      \* in what form the client has a policy: none, a document, or wrapped
    policy,    \* the allow rules of its document
    wrapper    \* AccessPolicyWrapper._perm_dict

accessVars == <<subjects, holder, rows, form, policy, wrapper>>
vars == <<infoVars, accessVars>>

Row == [subject : Subject, level : Level]
Rule ==
    {r \in [permission : SUBSET Level, subject : SUBSET Subject] :
        r.permission # {} /\ r.subject # {}}
PermDict == [Level -> SUBSET Subject]
EmptyDict == [l \in Level |-> {}]

ASSUME AccessConstants ==
    /\ PlainCertificates \cup InfoCertificates \cup JwtSubjects \subseteq Subject
    /\ Holders \cup Grantees \subseteq Subject
    /\ SubjectInfos \subseteq Info
    /\ Documents \subseteq SUBSET Rule
    /\ NoSubject \notin Subject

TypeOK ==
    /\ InfoTypeOK
    /\ subjects \subseteq Subject
    /\ holder \in Subject
    /\ rows \subseteq Row
    /\ form \in {"none", "document", "wrapped"}
    /\ policy \subseteq Rule
    /\ wrapper \in PermDict
    /\ form # "document" => policy = {}
    /\ form # "wrapped" => wrapper = EmptyDict
-----------------------------------------------------------------------------
(* The node: rows of a document, decisions on rows, document of the rows.  *)

(* Variant: a subject's row has the level of a rule's lowest permission. *)
TopLevelLowest(rule) ==
    CHOOSE l \in rule.permission : \A k \in rule.permission : l <= k

(* _get_highest_level_action_for_rule() *)
TopLevel(rule) == Highest(rule.permission)

(* _access_policy_pyxb_to_model(): a row for the rights holder, and one for *)
(* each subject of each rule.                                               *)
RowsOf(rules, h) ==
    {[subject |-> h, level |-> ChangePermission]}
    \cup UNION {{[subject |-> s, level |-> TopLevel(r)] : s \in r.subject} : r \in rules}

(* get_trusted_subjects() *)
TrustedSubjects ==
    IF ClientCert = NoSubject THEN {} ELSE CnSubjects \cup ConfiguredTrust \cup {ClientCert}

(* is_trusted_subject(), is_allowed() *)
IsTrusted == subjects \cap TrustedSubjects # {}
IsAllowed(level) ==
    IsTrusted \/ \E r \in rows : r.subject \in subjects /\ r.level >= level

(* has_create_update_delete_permission() *)
MayChange == IsTrusted \/ subjects \cap Whitelist # {}
-----------------------------------------------------------------------------
(* AccessPolicyWrapper.                                                    *)

EqualOrHigher(level) == {l \in Level : l >= level}

(* _perm_dict_from_pyxb() *)
PermDictOf(rules) ==
    [l \in Level |-> UNION {r.subject : r \in {r \in rules : l \in r.permission}}]

(* _highest_perm_dict_from_perm_dict() *)
HighestPermDict(dict) ==
    [l \in Level |-> dict[l] \ UNION {dict[h] : h \in EqualOrHigher(l) \ {l}}]

(* Variant: a rule for every permission, also for those nobody has. *)
RulesOfAll(dict) == {[permission |-> {l}, subject |-> dict[l]] : l \in Level}

(* _pyxb_from_norm_perm_list(): a rule for each permission that is in use. *)
RulesOf(dict) ==
    {[permission |-> {l}, subject |-> dict[l]] : l \in {l \in Level : dict[l] # {}}}

NormalizedRules(dict) == RulesOf(HighestPermDict(dict))

(* _access_policy_model_to_pyxb(): the rights holder's rows are left out. *)
ServedRules ==
    NormalizedRules(
        [l \in Level |-> {r.subject : r \in {r \in rows : r.level = l /\ r.subject # holder}}])

(* add_perm() *)
WithPerm(dict, s, level) == [dict EXCEPT ![level] = @ \cup {s}]

(* Variant: higher permissions stay. *)
WithoutPermAlone(dict, s, level) == [dict EXCEPT ![level] = @ \ {s}]

(* remove_perm() *)
WithoutPerm(dict, s, level) ==
    [l \in Level |-> IF l \in EqualOrHigher(level) THEN dict[l] \ {s} ELSE dict[l]]
-----------------------------------------------------------------------------
(* The session: ViewHandler.get_session_subject_set().                     *)

Jwt == {{}} \cup {{s} : s \in JwtSubjects}

Session(S) ==
    /\ subjects = {}
    /\ \E jwt \in Jwt : subjects' = S \cup jwt
    /\ UNCHANGED <<holder, rows, form, policy, wrapper>>

(* get_subjects() of session_cert.py, extract_subjects() of subjects.py    *)
ConnectWithoutCertificate ==
    /\ primary = NoSubject
    /\ Session({Public})
    /\ UNCHANGED infoVars

ConnectWithoutSubjectInfo ==
    /\ primary = NoSubject
    /\ \E p \in PlainCertificates : Session({p, Authenticated, Public})
    /\ UNCHANGED infoVars

Connect ==
    /\ subjects = {}
    /\ \E p \in InfoCertificates, i \in SubjectInfos : Extract(p, i)
    /\ UNCHANGED accessVars

ReadSubjectInfo == ExtractStep /\ UNCHANGED accessVars

Authenticate ==
    /\ Extracted
    /\ Session(visited \cup {primary, Authenticated, Public})
    /\ primary' = NoSubject
    /\ info' = NoInfo
    /\ visited' = {}
    /\ UNCHANGED stack

(* The client is done, and the next one may come. *)
Disconnect ==
    /\ subjects # {}
    /\ subjects' = {}
    /\ form' = "none"
    /\ policy' = {}
    /\ wrapper' = EmptyDict
    /\ UNCHANGED <<infoVars, holder, rows>>
-----------------------------------------------------------------------------
(* The client's document.                                                  *)

Client == subjects # {} /\ UNCHANGED <<infoVars, subjects>>

Compose ==
    /\ Client /\ form = "none"
    /\ form' = "document"
    /\ policy' \in Documents
    /\ UNCHANGED <<holder, rows, wrapper>>

(* MNRead.getSystemMetadata() *)
GetMeta ==
    /\ Client /\ form = "none"
    /\ IsAllowed(Read)
    /\ form' = "document"
    /\ policy' = ServedRules
    /\ UNCHANGED <<holder, rows, wrapper>>

Wrap ==
    /\ Client /\ form = "document"
    /\ form' = "wrapped"
    /\ wrapper' = PermDictOf(policy)
    /\ policy' = {}
    /\ UNCHANGED <<holder, rows>>

Edit(dict) ==
    /\ Client /\ form = "wrapped"
    /\ wrapper' = dict
    /\ UNCHANGED <<holder, rows, form, policy>>

AddPerm(s, level) == Edit(WithPerm(wrapper, s, level))
AddPublicRead == AddPerm(Public, Read)
RemovePerm(s, level) == Edit(WithoutPerm(wrapper, s, level))
RemoveSubj(s) == Edit([l \in Level |-> wrapper[l] \ {s}])
Clear == Edit(EmptyDict)

(* add_authenticated_read(), add_verified_read() *)
AddSymbolicRead(s) == Edit(WithPerm(WithoutPerm(wrapper, Public, Read), s, Read))

(* get_normalized_perm_list(), are_equivalent_pyxb(): the dict is copied   *)
(* shallowly, so that its own sets lose what the highest permission says   *)
(* already.                                                                *)
Compare == Edit(HighestPermDict(wrapper))

(* The end of the with block of wrap_sysmeta_pyxb(). *)
Unwrap ==
    /\ Client /\ form = "wrapped"
    /\ form' = "document"
    /\ policy' = NormalizedRules(wrapper)
    /\ wrapper' = EmptyDict
    /\ UNCHANGED <<holder, rows>>

(* MNStorage.updateSystemMetadata() *)
PutMeta(h) ==
    /\ Client /\ form = "document"
    /\ MayChange /\ IsAllowed(Write)
    /\ holder' = h
    /\ rows' = RowsOf(policy, h)
    /\ UNCHANGED <<form, policy, wrapper>>
-----------------------------------------------------------------------------
(* MNStorage.create() of an object without an access policy. *)
Init ==
    /\ InfoInit
    /\ subjects = {}
    /\ holder \in Holders
    /\ rows = RowsOf({}, holder)
    /\ form = "none"
    /\ policy = {}
    /\ wrapper = EmptyDict

Next ==
    \/ ConnectWithoutCertificate
    \/ ConnectWithoutSubjectInfo
    \/ Connect
    \/ ReadSubjectInfo
    \/ Authenticate
    \/ Disconnect
    \/ Compose
    \/ GetMeta
    \/ Wrap
    \/ \E s \in Grantees, level \in Level : AddPerm(s, level) \/ RemovePerm(s, level)
    \/ \E s \in Grantees : RemoveSubj(s)
    \/ AddPublicRead
    \/ \E s \in {Authenticated, Verified} : AddSymbolicRead(s)
    \/ Clear
    \/ Compare
    \/ Unwrap
    \/ \E h \in Holders : PutMeta(h)

Spec == Init /\ [][Next]_vars
-----------------------------------------------------------------------------
(* The meaning of each form that a policy takes.                           *)

RowLevel(s) == Highest({r.level : r \in {r \in rows : r.subject = s}})
RuleLevel(rules, s) ==
    Highest(UNION {r.permission : r \in {r \in rules : s \in r.subject}})
DictLevel(dict, s) == Highest({l \in Level : s \in dict[l]})

DraftLevel(s) ==
    IF form = "wrapped" THEN DictLevel(wrapper, s) ELSE RuleLevel(policy, s)

Grants == INSTANCE AccessGrants WITH
    Trusted <- TrustedSubjects,
    granted <- [s \in Subject |-> RowLevel(s)],
    session <- subjects,
    drafting <- form # "none",
    draft <- [s \in Subject |-> DraftLevel(s)]

(* Whatever form a policy takes on its way from the node to a client,      *)
(* through the wrapper and back - rows, rules with several permissions,    *)
(* sets of subjects, normalized or not, the rights holder's rows added and *)
(* left out again - every subject keeps the level that the last edit gave  *)
(* it, comparing policies changes none, and the node's decisions are those *)
(* on the levels. That write is enough to store a policy is the code's      *)
(* decision, which AccessGrants takes over; see ChangedWithPermission.      *)
GrantsKept == Grants!Spec

(* add_perm() leaves the subject with at least the permission, and never    *)
(* with less than before; remove_perm() with less than the permission, and  *)
(* a subject that had less keeps what it had - whether the policy has been  *)
(* normalized in between or not.                                            *)
EditsTakeEffect ==
    [][\A s \in Grantees, level \in Level :
          /\ AddPerm(s, level) =>
                DraftLevel(s)' = Grants!Higher(DraftLevel(s), level)
          /\ RemovePerm(s, level) =>
                /\ DraftLevel(s)' < level
                /\ DraftLevel(s) < level => DraftLevel(s)' = DraftLevel(s)]_vars
-----------------------------------------------------------------------------
(* What the repository says of the code, and the code does not do.         *)

(* "Subject has changePermission for object", says sysmeta.py of the        *)
(* function that replaces the access policy, and the schema has write mean  *)
(* to modify the resource and changePermission to change its policies: only *)
(* a client with changePermission changes an object's permissions or its    *)
(* rights holder.  put_meta() asks for write.                               *)
ChangedWithPermission ==
    [][rows' # rows \/ holder' # holder => IsAllowed(ChangePermission)]_vars
=============================================================================
