------------------------------ MODULE GmnStore ------------------------------
(***************************************************************************)
(* The object store of the GMN Member Node: the rows that hold science     *)
(* objects, their revision links, the revision chains with their series    *)
(* identifiers (SIDs) and the identifier namespace, beside the files that  *)
(* hold the objects' bytes.                                                *)
(*                                                                         *)
(* A request is one database transaction (ATOMIC_REQUESTS), so a handler   *)
(* either replaces db by the database its code computes or, when a check   *)
(* or a constraint raises, leaves db as it was.  The files take no part in *)
(* the transaction: what a handler did to them stays.                      *)
(*                                                                         *)
(* The Python functions that edit the database are operators from a        *)
(* database to a database; XOk(d, ...) says that the function X raises     *)
(* nothing when it is called on d.                                         *)
(***************************************************************************)
EXTENDS Naturals

CONSTANTS
    Pids,       \* identifiers that clients offer for objects
    Sids,       \* identifiers that clients offer for series
    ChainId,    \* primary keys of the Chain table
    None,       \* SQL NULL, and "no such row"
    RemoteDid,  \* identifiers minted by the node that objects are imported from
    Foreign,    \* the system metadata held by that node
    MaxRelinks  \* bound: how many documents that change links are stored

(* PIDs and SIDs are drawn from one namespace; a client may offer the same  *)
(* identifier as both, so the two sets may meet.                            *)
Did == Pids \cup Sids \cup RemoteDid

Opt(S) == S \cup {None}

(* The part of a System Metadata document that the store's control depends on. *)
Sysmeta == [pid : Did, obsoletes : Opt(Did), obsoletedBy : Opt(Did),
            seriesId : Opt(Did), archived : BOOLEAN]

ASSUME StoreAssumption ==
    /\ None \notin Did \cup ChainId
    /\ Foreign \subseteq Sysmeta
    /\ MaxRelinks \in Nat

(* The source of an import is itself a repository: its documents describe   *)
(* revision histories, so no object obsoletes itself, and links between two *)
(* of its documents agree.                                                  *)
ASSUME ForeignAssumption ==
    \A m \in Foreign, n \in Foreign :
        /\ m.pid \notin {m.obsoletes, m.obsoletedBy}
        /\ m.obsoletes = None \/ m.obsoletes # m.obsoletedBy
        /\ m.obsoletes = n.pid <=> n.obsoletedBy = m.pid

VARIABLES
    db,     \* the database
    files,  \* the PIDs whose bytes are in the object store
    relinks \* history: how many stored documents changed the links of an object

vars == <<db, files, relinks>>

(* names: IdNamespace.  objects, obsoletes, obsoletedBy, archived:           *)
(* ScienceObject.  replica: LocalReplica.  chain: ChainMember, by PID.  sid, *)
(* head: Chain, by primary key; a row exists iff its head is not NULL.       *)
Db == [names : SUBSET Did,
       objects : SUBSET Did,
       obsoletes : [Did -> Opt(Did)],
       obsoletedBy : [Did -> Opt(Did)],
       archived : SUBSET Did,
       replica : SUBSET Did,
       chain : [Did -> Opt(ChainId)],
       sid : [ChainId -> Opt(Did)],
       head : [ChainId -> Opt(Did)]]

Init ==
    /\ db = [names |-> {}, objects |-> {},
             obsoletes |-> [p \in Did |-> None],
             obsoletedBy |-> [p \in Did |-> None],
             archived |-> {}, replica |-> {},
             chain |-> [p \in Did |-> None],
             sid |-> [c \in ChainId |-> None],
             head |-> [c \in ChainId |-> None]]
    /\ files = {}
    /\ relinks = 0

-----------------------------------------------------------------------------
(* Reading the identifier namespace (did.py).                               *)

ChainOf(d, p) == IF p = None THEN None ELSE d.chain[p]

(* get_sid_by_pid(). *)
SidOf(d, p) == IF d.chain[p] = None THEN None ELSE d.sid[d.chain[p]]

Members(d, c) == {p \in Did : d.chain[p] = c}

IsSid(d, x) == \E c \in ChainId : d.sid[c] = x

IsRevision(d, x) == \E p \in d.objects : x \in {d.obsoletes[p], d.obsoletedBy[p]}

(* Mutant: both links are asked for. *)
IsInRevisionChainBoth(d, p) == d.obsoletes[p] # None /\ d.obsoletedBy[p] # None

IsInRevisionChain(d, p) == d.obsoletes[p] # None \/ d.obsoletedBy[p] # None

IsValidPidForCreate(d, x) ==
    /\ x \notin d.objects
    /\ ~IsSid(d, x)
    /\ x \notin d.replica
    /\ ~IsRevision(d, x)

IsValidPidToBeUpdated(d, x) ==
    /\ x \in d.objects
    /\ x \notin d.replica
    /\ x \notin d.archived
    /\ d.obsoletedBy[x] = None

(* NULL is not in the namespace, so an absent SID is always accepted. *)
IsValidSidForNewStandalone(d, s) == s \notin d.names

IsValidSidForChain(d, p, s) ==
    \/ s \notin d.names
    \/ d.chain[p] # None /\ d.sid[d.chain[p]] = s

(* The PID that an identifier in a request stands for: a PID stands for     *)
(* itself, a SID for the head of its chain; None is "NotFound".             *)
ResolveSid(d, x) ==
    IF x \in d.objects THEN x
    ELSE IF IsSid(d, x) THEN d.head[CHOOSE c \in ChainId : d.sid[c] = x]
    ELSE None

-----------------------------------------------------------------------------
(* The head of a chain (revision.py).                                       *)

(* A set that the walk along obsoletedBy over local objects cannot leave. *)
ClosedUnderNewer(d, S) ==
    \A q \in S : d.obsoletedBy[q] \in d.objects => d.obsoletedBy[q] \in S

(* The objects that the walk from the object p visits: the least such set    *)
(* that holds p.                                                             *)
Visited(d, p) ==
    {q \in d.objects : \A S \in SUBSET d.objects :
        p \in S /\ ClosedUnderNewer(d, S) => q \in S}

(* The walk stops at an object that is not obsoleted by a local object.  On *)
(* a cycle it never does: the recursion fails.                              *)
WalkStops(d, q) == d.obsoletedBy[q] \notin d.objects

FindHeadOk(d, p) == \E q \in Visited(d, p) : WalkStops(d, q)

(* Mutant: one step instead of the walk. *)
FindHeadNext(d, p) == IF WalkStops(d, p) THEN p ELSE d.obsoletedBy[p]

FindHead(d, p) == CHOOSE q \in Visited(d, p) : WalkStops(d, q)

(* The recursion of _find_head_or_latest_connected(pid, last_pid). *)
LatestConnected(d) ==
    LET latest[p \in Opt(Did)] ==
            [last \in Opt(Did) |->
                IF p \notin d.objects THEN last
                ELSE IF d.obsoletedBy[p] = None THEN p
                ELSE latest[d.obsoletedBy[p]][p]]
    IN  latest

(* Chain.head_pid is unique. *)
UpdateHeadOk(d, p) ==
    LET last == FindHead(d, p)
    IN  /\ FindHeadOk(d, p)
        /\ d.chain[last] # None => \A c \in ChainId \ {d.chain[last]} : d.head[c] # last

(* Mutant: the chain that the walk starts in, not the one it ends in. *)
UpdateHeadOfStart(d, p) ==
    IF d.chain[p] = None THEN d ELSE [d EXCEPT !.head[d.chain[p]] = FindHead(d, p)]

(* Mutant: the head is the given object, without the walk. *)
UpdateHeadToGiven(d, p) ==
    IF d.chain[p] = None THEN d ELSE [d EXCEPT !.head[d.chain[p]] = p]

UpdateHead(d, p) ==
    LET last == FindHead(d, p)
    IN  IF d.chain[last] = None THEN d
        ELSE [d EXCEPT !.head[d.chain[last]] = last]

-----------------------------------------------------------------------------
(* Chain membership and the SID of a chain (revision.py).                   *)

(* Mutant: the SID that the chain has is overwritten. *)
SetChainSidOverwrites(d, c, s) ==
    s # None => \A e \in ChainId \ {c} : d.sid[e] # s

(* A chain keeps its SID (ServiceFailure), and Chain.sid is unique. *)
SetChainSidOk(d, c, s) ==
    s # None => /\ d.sid[c] \in {None, s}
                /\ \A e \in ChainId \ {c} : d.sid[e] # s

SetChainSid(d, c, s) ==
    IF s = None THEN d
    ELSE [d EXCEPT !.sid[c] = s, !.names = @ \cup {s}]

(* Move the members of chain b to chain a.  The SID of b is given to a while *)
(* the row of b still holds it.                                              *)
MergeChainsOk(d, a, b) == b \notin {None, a} => SetChainSidOk(d, a, d.sid[b])

MergeChains(d, a, b) ==
    IF b \in {None, a} THEN d
    ELSE [SetChainSid(d, a, d.sid[b]) EXCEPT
            !.chain = [p \in Did |-> IF d.chain[p] = b THEN a ELSE d.chain[p]],
            !.sid[b] = None,
            !.head[b] = None]

SidIsInChain(d, s, q) ==
    s # None /\ ChainOf(d, q) # None => d.sid[ChainOf(d, q)] \in {None, s}

(* The existing chain that a new object joins, None for a standalone object. *)
JoinedChain(d, m) ==
    IF ChainOf(d, m.obsoletes) # None THEN ChainOf(d, m.obsoletes)
    ELSE IF ChainOf(d, m.obsoletedBy) # None THEN ChainOf(d, m.obsoletedBy)
    ELSE IF m.seriesId # None /\ IsSid(d, m.seriesId)
         THEN CHOOSE c \in ChainId : d.sid[c] = m.seriesId
    ELSE None

FreeChain(d) == CHOOSE c \in ChainId : d.head[c] = None

AddSciobjOk(d, m) ==
    LET c == JoinedChain(d, m)
    IN  /\ SidIsInChain(d, m.seriesId, m.obsoletes)
        /\ SidIsInChain(d, m.seriesId, m.obsoletedBy)
        /\ IF c = None
           THEN /\ \E e \in ChainId : d.head[e] = None
                /\ \A e \in ChainId : d.head[e] # m.pid
           ELSE LET b == ChainOf(d, m.obsoletedBy)
                IN  /\ MergeChainsOk(d, c, b)
                    /\ SetChainSidOk(MergeChains(d, c, b), c, m.seriesId)

AddSciobj(d, m) ==
    IF JoinedChain(d, m) = None
    THEN SetChainSid([d EXCEPT !.chain[m.pid] = FreeChain(d),
                               !.head[FreeChain(d)] = m.pid],
                     FreeChain(d), m.seriesId)
    ELSE LET c == JoinedChain(d, m)
             e == MergeChains(d, c, ChainOf(d, m.obsoletedBy))
         IN  SetChainSid([e EXCEPT !.chain[m.pid] = c], c, m.seriesId)

(* A member of a chain stays in it, whatever its links now say. *)
CreateOrUpdateChainOk(d, m) ==
    IF d.chain[m.pid] # None THEN SetChainSidOk(d, d.chain[m.pid], m.seriesId)
    ELSE AddSciobjOk(d, m)

CreateOrUpdateChain(d, m) ==
    IF d.chain[m.pid] # None THEN SetChainSid(d, d.chain[m.pid], m.seriesId)
    ELSE AddSciobj(d, m)

-----------------------------------------------------------------------------
(* Writing System Metadata (sysmeta.py, revision.py).                       *)

(* Upsert the row of the object. *)
SaveRow(d, m) ==
    [d EXCEPT !.names = @ \cup {m.pid},
              !.objects = @ \cup {m.pid},
              !.archived = IF m.archived THEN @ \cup {m.pid} ELSE @ \ {m.pid}]

(* Mutant: the neighbours are not told. *)
SetRevisionLinksOneWay(d, m) ==
    [d EXCEPT
       !.names = @ \cup ({m.obsoletes, m.obsoletedBy} \ {None}),
       !.obsoletes[m.pid] = IF m.obsoletes # None THEN m.obsoletes ELSE @,
       !.obsoletedBy[m.pid] = IF m.obsoletedBy # None THEN m.obsoletedBy ELSE @]

(* Mutant: an absent link is looked up, too. *)
SetRevisionLinksUnguarded(d, m) ==
    [d EXCEPT !.names = @ \cup {m.obsoletes, m.obsoletedBy},
              !.obsoletes[m.pid] = m.obsoletes,
              !.obsoletedBy[m.pid] = m.obsoletedBy]

(* The reverse links of the neighbours that exist locally are saved first... *)
NeighboursTold(d, m) ==
    [d EXCEPT
       !.obsoletes = [q \in Did |-> IF q = m.obsoletedBy /\ q \in d.objects THEN m.pid
                                    ELSE d.obsoletes[q]],
       !.obsoletedBy = [q \in Did |-> IF q = m.obsoletes /\ q \in d.objects THEN m.pid
                                      ELSE d.obsoletedBy[q]]]

(* ... then the object's own row, as it was read before, with the links that *)
(* the document gives: an absent link clears nothing.                        *)
SetRevisionLinks(d, m) ==
    [NeighboursTold(d, m) EXCEPT
       !.names = @ \cup ({m.obsoletes, m.obsoletedBy} \ {None}),
       !.obsoletes[m.pid] = IF m.obsoletes # None THEN m.obsoletes ELSE d.obsoletes[m.pid],
       !.obsoletedBy[m.pid] = IF m.obsoletedBy # None THEN m.obsoletedBy
                              ELSE d.obsoletedBy[m.pid]]

(* ScienceObject.obsoletes and .obsoleted_by are OneToOneFields: unique. *)
UniqueLinks(d) ==
    \A p \in Did :
        /\ d.obsoletes[p] # None => \A q \in Did \ {p} : d.obsoletes[q] # d.obsoletes[p]
        /\ d.obsoletedBy[p] # None => \A q \in Did \ {p} : d.obsoletedBy[q] # d.obsoletedBy[p]

Linked(d, m) == SetRevisionLinks(SaveRow(d, m), m)

CreateOrUpdateOk(d, m) ==
    LET e == Linked(d, m)
    IN  /\ UniqueLinks(NeighboursTold(SaveRow(d, m), m)) /\ UniqueLinks(e)
        /\ CreateOrUpdateChainOk(e, m)
        /\ UpdateHeadOk(CreateOrUpdateChain(e, m), m.pid)

CreateOrUpdate(d, m) ==
    UpdateHead(CreateOrUpdateChain(Linked(d, m), m), m.pid)

-----------------------------------------------------------------------------
(* Deleting (delete.py, revision.py, models.py).                            *)

(* DELETE of the IdNamespace row x, with every row that refers to it, in     *)
(* whatever column, and the rows that refer to those.                        *)
DeleteDid(d, x) ==
    LET gone == {p \in d.objects : x \in {p, d.obsoletes[p], d.obsoletedBy[p]}}
        lost == {c \in ChainId : x \in {d.sid[c], d.head[c]}}
    IN  [names |-> d.names \ {x},
         objects |-> d.objects \ gone,
         obsoletes |-> [p \in Did |-> IF p \in gone THEN None ELSE d.obsoletes[p]],
         obsoletedBy |-> [p \in Did |-> IF p \in gone THEN None ELSE d.obsoletedBy[p]],
         archived |-> d.archived \ gone,
         replica |-> d.replica \ {x},
         chain |-> [p \in Did |-> IF p = x \/ d.chain[p] \in lost THEN None
                                  ELSE d.chain[p]],
         sid |-> [c \in ChainId |-> IF c \in lost THEN None ELSE d.sid[c]],
         head |-> [c \in ChainId |-> IF c \in lost THEN None ELSE d.head[c]]]

(* Mutant: the older neighbour keeps its reference to p. *)
CloseGapOneWay(d, p) ==
    [d EXCEPT
       !.obsoletes = [q \in Did |-> IF q = p THEN None
                                    ELSE IF q = d.obsoletedBy[p] THEN d.obsoletes[p]
                                    ELSE d.obsoletes[q]],
       !.obsoletedBy[p] = None]

(* Mutant: the neighbours are cut from p, but not joined. *)
CloseGapUnjoined(d, p) ==
    [d EXCEPT
       !.obsoletes = [q \in Did |-> IF q \in {p, d.obsoletedBy[p]} THEN None
                                    ELSE d.obsoletes[q]],
       !.obsoletedBy = [q \in Did |-> IF q \in {p, d.obsoletes[p]} THEN None
                                      ELSE d.obsoletedBy[q]]]

(* One row is saved with both of its links, as they were read or set. *)
SaveLinks(d, q, older, newer) ==
    [d EXCEPT !.obsoletes[q] = older, !.obsoletedBy[q] = newer]

(* The links of p go, the object before p gets the one after it...           *)
CloseGapOlder(d, p) ==
    LET e == SaveLinks(d, p, None, None)
        older == d.obsoletes[p]
    IN  IF older = None THEN e ELSE SaveLinks(e, older, d.obsoletes[older], d.obsoletedBy[p])

(* ... and the object after p the one before it; an absent one is NULL.      *)
CloseGap(d, p) ==
    LET e == CloseGapOlder(d, p)
        newer == d.obsoletedBy[p]
    IN  IF newer = None THEN e ELSE SaveLinks(e, newer, d.obsoletes[p], d.obsoletedBy[newer])

(* The neighbour that the head of the chain is then looked up from. *)
RemainingNeighbour(d, p) ==
    IF d.obsoletedBy[p] = None THEN d.obsoletes[p] ELSE d.obsoletedBy[p]

(* A neighbour that is not a local object raises DoesNotExist. *)
CutFromChainOk(d, p) ==
    /\ {d.obsoletes[p], d.obsoletedBy[p]} \ {None} \subseteq d.objects
    /\ UniqueLinks(CloseGapOlder(d, p))
    /\ UniqueLinks(CloseGap(d, p))
    /\ UpdateHeadOk(CloseGap(d, p), RemainingNeighbour(d, p))

(* Mutant: the head of the chain is not looked up again. *)
CutFromChainOnly(d, p) == CloseGap(d, p)

CutFromChain(d, p) == UpdateHead(CloseGap(d, p), RemainingNeighbour(d, p))

(* Mutant: the chain goes with any of its members. *)
DeleteChainAlways(d, p) ==
    IF d.sid[d.chain[p]] # None THEN DeleteDid(d, d.sid[d.chain[p]])
    ELSE [d EXCEPT !.chain = [q \in Did |-> IF d.chain[q] = d.chain[p] THEN None
                                         ELSE d.chain[q]],
                   !.head[d.chain[p]] = None]

(* The last member takes the chain with it, and the chain its SID. *)
DeleteChain(d, p) ==
    LET c == d.chain[p]
        e == [d EXCEPT !.chain[p] = None]
    IN  IF Members(e, c) # {} THEN e
        ELSE IF d.sid[c] # None THEN DeleteDid(e, d.sid[c])
        ELSE [e EXCEPT !.head[c] = None]

Detached(d, p) == IF IsInRevisionChain(d, p) THEN CutFromChain(d, p) ELSE d

DeleteSciobjOk(d, p) ==
    /\ p \in d.objects
    /\ IsInRevisionChain(d, p) => CutFromChainOk(d, p)
    /\ Detached(d, p).chain[p] # None

DeleteSciobj(d, p) == DeleteDid(DeleteChain(Detached(d, p), p), p)

-----------------------------------------------------------------------------
(* The requests.                                                            *)

NewSysmeta(p, o, s) == [pid |-> p, obsoletes |-> o, obsoletedBy |-> None,
                        seriesId |-> s, archived |-> FALSE]

(* The document that getSystemMetadata returns for p. *)
CurrentSysmeta(d, p) ==
    [pid |-> p, obsoletes |-> d.obsoletes[p], obsoletedBy |-> d.obsoletedBy[p],
     seriesId |-> SidOf(d, p), archived |-> p \in d.archived]

(* A document that a client has changed: its SID or its archived flag. *)
Edited(m, s, archived) == [m EXCEPT !.seriesId = s, !.archived = archived]

(* The document gives a link that is not the one in the object's row. *)
Relinks(d, m) ==
    \/ m.obsoletes \notin {None, d.obsoletes[m.pid]}
    \/ m.obsoletedBy \notin {None, d.obsoletedBy[m.pid]}

(* The object's bytes are written, then its rows.  What fails after the      *)
(* bytes are written (validation of science metadata, a constraint, the      *)
(* process) rolls the rows back and leaves the file.                         *)
StoreObject(m) ==
    /\ files' = files \cup {m.pid}
    /\ UNCHANGED relinks
    /\ IF CreateOrUpdateOk(db, m) THEN db' \in {CreateOrUpdate(db, m), db}
       ELSE UNCHANGED db

(* A large upload is spooled to disk by the web framework and moved to its   *)
(* place, which must be free; a small one is written over what is there.     *)
UploadOk(p, spooled) == spooled => p \notin files

(* MNStorage.create(): a new standalone object. *)
Create(p, s, spooled) ==
    /\ IsValidSidForNewStandalone(db, s)
    /\ IsValidPidForCreate(db, p)
    /\ UploadOk(p, spooled)
    /\ StoreObject(NewSysmeta(p, None, s))

(* MNStorage.update(): a new object that obsoletes old. *)
Update(old, p, s, spooled) ==
    /\ IsValidPidToBeUpdated(db, old)
    /\ IsValidSidForChain(db, old, s)
    /\ IsValidPidForCreate(db, p)
    /\ UploadOk(p, spooled)
    /\ StoreObject(NewSysmeta(p, old, s))

(* create_or_update() of an object that exists; the history takes note of a  *)
(* document that changes links.                                              *)
Replace(m) ==
    /\ UNCHANGED files
    /\ IF CreateOrUpdateOk(db, m)
       THEN /\ db' = CreateOrUpdate(db, m)
            /\ relinks' = IF Relinks(db, m) THEN relinks + 1 ELSE relinks
       ELSE UNCHANGED <<db, relinks>>

(* MNStorage.updateSystemMetadata(): any document of an existing object that *)
(* carries the time stamp of its row.  What the document says of the SID and *)
(* of the links, for which it may name any identifiers, is not checked; a    *)
(* SID or a link left out is unchanged.                                      *)
PutMeta(p, links, s, archived) ==
    /\ p \in db.objects
    /\ Replace([pid |-> p, obsoletes |-> links[1], obsoletedBy |-> links[2],
                seriesId |-> s, archived |-> archived])

(* MNStorage.archive(). *)
Archive(x) ==
    LET p == ResolveSid(db, x)
    IN  /\ p \in db.objects
        /\ p \notin db.replica
        /\ p \notin db.archived
        /\ db' = [db EXCEPT !.archived = @ \cup {p}]
        /\ UNCHANGED <<files, relinks>>

(* Mutant: the file stays. *)
DeleteRowsOnly(x) ==
    LET p == ResolveSid(db, x)
    IN  /\ p \in db.objects
        /\ db' = IF DeleteSciobjOk(db, p) THEN DeleteSciobj(db, p) ELSE db
        /\ UNCHANGED <<files, relinks>>

(* MNStorage.delete(): the file goes first, then the rows.  When the rows    *)
(* cannot be deleted they all stay; the file is gone.                        *)
Delete(x) ==
    LET p == ResolveSid(db, x)
    IN  /\ p \in db.objects
        /\ files' = files \ {p}
        /\ db' = IF DeleteSciobjOk(db, p) THEN DeleteSciobj(db, p) ELSE db
        /\ UNCHANGED relinks

(* The process ends between the removal of the file and the commit. *)
DeleteCrash(x) ==
    /\ ResolveSid(db, x) \in db.objects
    /\ files' = files \ {ResolveSid(db, x)}
    /\ UNCHANGED <<db, relinks>>

(* MNReplication.replicate(): the PID is reserved for a replica that is to   *)
(* be fetched later.                                                         *)
Replicate(p) ==
    /\ IsValidPidForCreate(db, p)
    /\ db' = [db EXCEPT !.replica = @ \cup {p}, !.names = @ \cup {p}]
    /\ UNCHANGED <<files, relinks>>

(* The import command, in whatever order the objects' downloads end.  None   *)
(* of the checks of create() and update() is made.                           *)
Import(m) ==
    /\ m.pid \notin db.objects
    /\ StoreObject(m)

(* The SID a client can send for p: one it has minted, or the one p has. *)
SidsFor(d, p) == Opt(Sids) \cup {SidOf(d, p)}

(* The links a client can send for p: any, but see MaxRelinks.               *)
LinksFor(p) ==
    IF relinks < MaxRelinks THEN Opt(Did) \X Opt(Did)
    ELSE {None, db.obsoletes[p]} \X {None, db.obsoletedBy[p]}

NativeNext ==
    \/ \E p \in Pids, s \in Opt(Sids), spooled \in BOOLEAN : Create(p, s, spooled)
    \/ \E old \in db.objects : \E p \in Pids, s \in SidsFor(db, old), spooled \in BOOLEAN :
            Update(old, p, s, spooled)
    \/ \E p \in db.objects :
            \E links \in LinksFor(p), s \in SidsFor(db, p), archived \in BOOLEAN :
                PutMeta(p, links, s, archived)
    \/ \E x \in Did : Archive(x)
    \/ \E x \in Did : Delete(x)
    \/ \E p \in Pids : Replicate(p)

ImportNext == NativeNext \/ \E m \in Foreign : Import(m)

Next == ImportNext \/ \E x \in Did : DeleteCrash(x)

(* A node that only its clients write to. *)
NativeSpec == Init /\ [][NativeNext]_vars

(* A node that objects are imported to while clients write to it. *)
ImportSpec == Init /\ [][ImportNext]_vars

(* The same node, whose process may end at any point of a request. *)
Spec == Init /\ [][Next]_vars

-----------------------------------------------------------------------------
(* Properties.                                                              *)

(* The tables hold values of their columns' types. *)
TypeOK == db \in Db /\ files \subseteq Did /\ relinks \in 0..MaxRelinks

(* updateSystemMetadata() "allows making breaking changes to SysMeta": it    *)
(* stores whatever links a document gives.  A client need not mean to: a     *)
(* document read before a neighbour was deleted is still accepted, as        *)
(* deleting does not change the neighbours' time stamps.  So the properties  *)
(* of revision chains below say what holds as long as no document has        *)
(* changed links; TypeOK and HeadWalkEnds hold whatever is sent.             *)

(* Until a document changes links, the two ends of a revision link agree:    *)
(* whoever obsoletes an object is the one that object says it is obsoleted   *)
(* by, and neither end dangles.                                              *)
LinksMutual == relinks = 0 =>
    \A p \in db.objects :
        /\ db.obsoletes[p] # None =>
             db.obsoletes[p] \in db.objects /\ db.obsoletedBy[db.obsoletes[p]] = p
        /\ db.obsoletedBy[p] # None =>
             db.obsoletedBy[p] \in db.objects /\ db.obsoletes[db.obsoletedBy[p]] = p

(* Until a document changes links, every object is a member of a chain and   *)
(* only objects are; an object and the one it is obsoleted by are members of *)
(* the same one; and a chain that has lost its last member is gone, and its  *)
(* SID is free.                                                              *)
ChainsPartitionObjects == relinks = 0 =>
    /\ db.objects = {p \in Did : db.chain[p] # None}
    /\ \A p \in db.objects :
          db.obsoletedBy[p] # None => db.chain[p] = db.chain[db.obsoletedBy[p]]
    /\ \A c \in ChainId :
          Members(db, c) = {} => db.head[c] = None /\ db.sid[c] = None

(* Until a document changes links, a SID resolves to the newest revision of  *)
(* its series: the head of a chain is the one member that nothing obsoletes. *)
HeadIsNewest == relinks = 0 =>
    \A c \in ChainId : \A p \in Members(db, c) :
        p = db.head[c] <=> db.obsoletedBy[p] = None

(* Until a document changes links, an object the node lists can be read: its *)
(* bytes are in the store.  (With a link to an object that is gone, delete() *)
(* removes the file and fails to remove the row.)                            *)
BytesPresent == relinks = 0 => db.objects \subseteq files

(* The inductive invariant of a node that only its clients write to, for     *)
(* disjoint Pids and Sids: the three invariants above, what identifiers and  *)
(* rows they rest on, and what keeps deletion from getting lost: from each   *)
(* object the walk along obsoletedBy reaches the head of its chain.          *)
RowsSound(d) ==
    /\ d.objects \subseteq Pids
    /\ \A p \in Did \ d.objects : {d.obsoletes[p], d.obsoletedBy[p]} = {None}
    /\ \A c \in ChainId : d.sid[c] # None => d.sid[c] \in Sids \cap d.names
    /\ \A c \in ChainId, e \in ChainId : d.sid[c] # None /\ d.sid[c] = d.sid[e] => c = e

LinksSound(d) ==
    \A p \in d.objects :
        /\ d.obsoletes[p] # None =>
             d.obsoletes[p] \in d.objects /\ d.obsoletedBy[d.obsoletes[p]] = p
        /\ d.obsoletedBy[p] # None =>
             d.obsoletedBy[p] \in d.objects /\ d.obsoletes[d.obsoletedBy[p]] = p

ChainsSound(d) ==
    /\ \A p \in Did : p \in d.objects <=> d.chain[p] # None
    /\ \A p \in d.objects :
          d.obsoletedBy[p] # None => d.chain[d.obsoletedBy[p]] = d.chain[p]
    /\ \A c \in ChainId : d.sid[c] # None => d.head[c] # None
    /\ \A c \in ChainId :
          d.head[c] # None => d.head[c] \in d.objects /\ d.chain[d.head[c]] = c

HeadsSound(d) ==
    \A p \in d.objects : d.obsoletedBy[p] = None <=> p = d.head[d.chain[p]]

WalksSound(d) == \A p \in d.objects : d.head[d.chain[p]] \in Visited(d, p)

Sound(d) ==
    RowsSound(d) /\ LinksSound(d) /\ ChainsSound(d) /\ HeadsSound(d) /\ WalksSound(d)

NativeInv == relinks = 0 => Sound(db)

(* Until a document changes links, any object can be deleted, and a delete   *)
(* that a crash cut short can be completed by asking for it again.           *)
EveryObjectDeletable == relinks = 0 => \A p \in db.objects : DeleteSciobjOk(db, p)

(* Until a document changes links, no step removes more than one object:     *)
(* deleting a revision leaves the other revisions of its series, and all     *)
(* else, in place.                                                           *)
OnlyOneObjectDeleted ==
    [][relinks' = 0 => \E x \in Did : db.objects \ {x} \subseteq db.objects']_vars

(* A deleted PID is free again: nothing that is left refers to it, and its   *)
(* file is gone.  This holds whatever PIDs a document links to; one that     *)
(* names a SID as a neighbour goes with the SID, and its file stays.         *)
NamesSeries(d) == \E p \in d.objects : IsSid(d, d.obsoletes[p]) \/ IsSid(d, d.obsoletedBy[p])

DeletedPidReusable ==
    [][~NamesSeries(db) =>
       \A p \in db.objects \ db'.objects :
          IsValidPidForCreate(db', p) /\ p \notin files']_vars

(* "A SID cannot be changed once it has been assigned to a chain": until a   *)
(* document changes links, the series an object belongs to stays the same    *)
(* while the object exists.                                                  *)
SeriesKept ==
    [][relinks' = 0 =>
       \A p \in db.objects \cap db'.objects :
          SidOf(db, p) # None => SidOf(db', p) = SidOf(db, p)]_vars

(* Until a document changes links, the history of a series is never          *)
(* reordered: as long as two revisions exist, the newer one stays reachable  *)
(* from the older one.                                                       *)
RevisionOrderKept ==
    [][relinks' = 0 =>
       \A p \in db.objects \cap db'.objects :
          Visited(db, p) \cap db'.objects \subseteq Visited(db', p)]_vars

(* To its clients, a node that only they write to is GmnSeries until a       *)
(* document changes links: the links, chains and heads, whatever is done to  *)
(* them and in which order, amount to linear histories with a SID each.      *)
Later(d) == {l \in d.objects \X d.objects : l[1] # l[2] /\ l[2] \in Visited(d, l[1])}

SeriesView == INSTANCE GmnSeries WITH
                objects <- db.objects, later <- Later(db), sid <- [p \in Pids |-> SidOf(db, p)]

KeepsSeries ==
    /\ SeriesView!Init
    /\ [][relinks' = 0 => SeriesView!Next]_<<db.objects, Later(db), [p \in Pids |-> SidOf(db, p)]>>

(* Until a document changes links, an object's document links it to its      *)
(* neighbours in the series, so that a client can follow the links from      *)
(* revision to revision and miss none, whichever revisions were deleted in   *)
(* between.                                                                  *)
LinksToNeighbours == relinks = 0 =>
    \A p \in db.objects :
        /\ SeriesView!IsPrevious(p, CurrentSysmeta(db, p).obsoletes)
        /\ SeriesView!IsNext(p, CurrentSysmeta(db, p).obsoletedBy)

(* What is left of LinksMutual when objects arrive from elsewhere: links may *)
(* dangle, but until a document changes links the two ends of a link between *)
(* local objects agree.                                                      *)
LinksAgree(d) ==
    \A p \in d.objects, q \in d.objects :
        d.obsoletedBy[p] = q <=> d.obsoletes[q] = p

LocalLinksAgree == relinks = 0 => LinksAgree(db)

(* What is left of HeadIsNewest there: until a document changes links, a SID *)
(* resolves to a local object that is a member of its series, never to one   *)
(* that was deleted or moved elsewhere.                                      *)
HeadsAreMembers(d) ==
    \A c \in ChainId : d.sid[c] # None \/ d.head[c] # None =>
        d.head[c] \in d.objects /\ d.chain[d.head[c]] = c

HeadIsMember == relinks = 0 => HeadsAreMembers(db)

(* Whatever links are imported or sent, those of local objects never form a  *)
(* cycle, on which the recursion would not end, and the model's FindHead is  *)
(* what the recursion returns.                                               *)
WalksStop(d) == \A p \in d.objects : FindHeadOk(d, p)

HeadWalkEnds ==
    WalksStop(db) /\ \A p \in db.objects : FindHead(db, p) = LatestConnected(db)[p][None]

(* What makes these three so is inductive, if no identifier is both an       *)
(* object's and a series': together with what the rows hold, that a link     *)
(* dangles only where a document of the source says so, and that the chain   *)
(* of a member has a head.                                                   *)
ObjectIds == Pids \cup UNION {{m.pid, m.obsoletes, m.obsoletedBy} \ {None} : m \in Foreign}
SeriesIds == Sids \cup ({m.seriesId : m \in Foreign} \ {None})

RowsKnown(d) ==
    /\ d.objects \subseteq ObjectIds
    /\ \A p \in Did : d.obsoletes[p] \in Opt(ObjectIds) /\ d.obsoletedBy[p] \in Opt(ObjectIds)
    /\ \A p \in Did \ d.objects : d.obsoletes[p] = None /\ d.obsoletedBy[p] = None

DanglingKnown(d) ==
    \A p \in d.objects :
        /\ d.obsoletes[p] \notin Opt(d.objects) =>
             \E m \in Foreign : m.pid = p /\ m.obsoletes = d.obsoletes[p]
        /\ d.obsoletedBy[p] \notin Opt(d.objects) =>
             \E m \in Foreign : m.pid = p /\ m.obsoletedBy = d.obsoletedBy[p]

MembersHaveHead(d) ==
    /\ \A p \in Did : d.chain[p] # None => p \in d.objects /\ d.head[d.chain[p]] # None
    /\ \A c \in ChainId : d.sid[c] \in Opt(SeriesIds)

ImportLinks(d) == RowsKnown(d) /\ LinksAgree(d) /\ DanglingKnown(d) /\ WalksStop(d)
ImportChains(d) == HeadsAreMembers(d) /\ MembersHaveHead(d)

ImportInv == relinks = 0 => ImportLinks(db) /\ ImportChains(db)

-----------------------------------------------------------------------------
(* What the repository says of the code, and the code does not do.          *)

(* "All known PIDs are associated with a chain." (get_sid_by_pid()). *)
EveryObjectInChain == \A p \in db.objects : db.chain[p] # None
=============================================================================
