--------------------------- MODULE GmnStoreProofs ---------------------------
(***************************************************************************)
(* What is proved of GmnStore for any sets of identifiers, any number of   *)
(* chains and any documents at the source of an import.                    *)
(***************************************************************************)
EXTENDS GmnStore, TLAPS

-----------------------------------------------------------------------------
(* Each function of the code that edits the database returns a database.    *)

(* _find_head_or_latest_connected() returns a local object. *)
LEMMA FindHeadIsLocal ==
    ASSUME NEW d \in Db, NEW p \in Did, FindHeadOk(d, p)
    PROVE  /\ FindHead(d, p) \in Visited(d, p)
           /\ WalkStops(d, FindHead(d, p))
           /\ FindHead(d, p) \in d.objects
           /\ FindHead(d, p) \in Did
  <1>1. FindHead(d, p) \in Visited(d, p) /\ WalkStops(d, FindHead(d, p))
    BY DEF FindHeadOk, FindHead
  <1>2. Visited(d, p) \subseteq d.objects
    BY DEF Visited
  <1>3. d.objects \subseteq Did
    BY DEF Db
  <1> QED BY <1>1, <1>2, <1>3

(* _update_sid_to_last_existing_pid_map() writes a head and nothing else. *)
LEMMA UpdateHeadType ==
    ASSUME NEW d \in Db, NEW p \in Did, UpdateHeadOk(d, p)
    PROVE  UpdateHead(d, p) \in Db
  <1>1. FindHead(d, p) \in Did
    BY FindHeadIsLocal DEF UpdateHeadOk
  <1> QED BY <1>1 DEF UpdateHead, Db, Opt

(* _set_chain_sid(). *)
LEMMA SetChainSidType ==
    ASSUME NEW d \in Db, NEW c \in ChainId, NEW s \in Opt(Did)
    PROVE  SetChainSid(d, c, s) \in Db
  BY DEF SetChainSid, Db, Opt

(* _merge_chains(). *)
LEMMA MergeChainsType ==
    ASSUME NEW d \in Db, NEW a \in ChainId, NEW b \in Opt(ChainId)
    PROVE  MergeChains(d, a, b) \in Db
  <1>1. CASE b \in {None, a}
    BY <1>1 DEF MergeChains
  <1>2. CASE b \notin {None, a}
    <2>1. b \in ChainId /\ d.sid[b] \in Opt(Did)
      BY <1>2 DEF Opt, Db
    <2> DEFINE e == SetChainSid(d, a, d.sid[b])
    <2>2. e \in Db
      BY <2>1, SetChainSidType
    <2>3. [e EXCEPT !.chain = [p \in Did |-> IF d.chain[p] = b THEN a ELSE d.chain[p]],
                    !.sid[b] = None,
                    !.head[b] = None] \in Db
      <3> HIDE DEF e
      <3> QED BY <2>2 DEF Db, Opt
    <2> QED BY <1>2, <2>3 DEF MergeChains
  <1> QED BY <1>1, <1>2

(* The chain that a new object joins exists. *)
LEMMA JoinedChainType ==
    ASSUME NEW d \in Db, NEW m \in Sysmeta
    PROVE  JoinedChain(d, m) \in Opt(ChainId)
  BY DEF JoinedChain, ChainOf, IsSid, Db, Sysmeta, Opt

(* _add_sciobj(). *)
LEMMA AddSciobjType ==
    ASSUME NEW d \in Db, NEW m \in Sysmeta, AddSciobjOk(d, m)
    PROVE  AddSciobj(d, m) \in Db
  <1>0. m.pid \in Did /\ m.seriesId \in Opt(Did) /\ m.obsoletedBy \in Opt(Did)
    BY DEF Sysmeta
  <1>1. CASE JoinedChain(d, m) = None
    <2> DEFINE c == FreeChain(d)
               e == [d EXCEPT !.chain[m.pid] = c, !.head[c] = m.pid]
    <2>1. c \in ChainId
      BY <1>1 DEF AddSciobjOk, FreeChain
    <2>2. e \in Db
      <3> HIDE DEF c
      <3> QED BY <1>0, <2>1 DEF Db, Opt
    <2>3. SetChainSid(e, c, m.seriesId) \in Db
      BY <1>0, <2>1, <2>2, SetChainSidType
    <2> QED BY <1>1, <2>3 DEF AddSciobj
  <1>2. CASE JoinedChain(d, m) # None
    <2> DEFINE c == JoinedChain(d, m)
               b == ChainOf(d, m.obsoletedBy)
               e == MergeChains(d, c, b)
               f == [e EXCEPT !.chain[m.pid] = c]
    <2>1. c \in ChainId
      BY <1>2, JoinedChainType DEF Opt
    <2>2. b \in Opt(ChainId)
      BY <1>0 DEF ChainOf, Db, Opt
    <2>3. e \in Db
      BY <2>1, <2>2, MergeChainsType
    <2>4. f \in Db
      <3> HIDE DEF e, c
      <3> QED BY <1>0, <2>1, <2>3 DEF Db, Opt
    <2>5. SetChainSid(f, c, m.seriesId) \in Db
      BY <1>0, <2>1, <2>4, SetChainSidType
    <2> QED BY <1>2, <2>5 DEF AddSciobj
  <1> QED BY <1>1, <1>2

(* create_or_update_chain(). *)
LEMMA CreateOrUpdateChainType ==
    ASSUME NEW d \in Db, NEW m \in Sysmeta, CreateOrUpdateChainOk(d, m)
    PROVE  CreateOrUpdateChain(d, m) \in Db
  <1>1. m.pid \in Did /\ m.seriesId \in Opt(Did) /\ d.chain[m.pid] \in Opt(ChainId)
    BY DEF Sysmeta, Db
  <1>2. CASE d.chain[m.pid] # None
    BY <1>1, <1>2, SetChainSidType DEF CreateOrUpdateChain, Opt
  <1>3. CASE d.chain[m.pid] = None
    BY <1>3, AddSciobjType DEF CreateOrUpdateChain, CreateOrUpdateChainOk
  <1> QED BY <1>2, <1>3

(* The row of the object and the links to and from it. *)
LEMMA LinkedType ==
    ASSUME NEW d \in Db, NEW m \in Sysmeta
    PROVE  Linked(d, m) \in Db
  <1>1. SaveRow(d, m) \in Db
    BY DEF SaveRow, Db, Sysmeta
  <1>2. ASSUME NEW e \in Db PROVE SetRevisionLinks(e, m) \in Db
    <2> DEFINE f == NeighboursTold(e, m)
    <2>1. f \in Db
      BY DEF NeighboursTold, Db, Sysmeta, Opt
    <2>2. m.pid \in Did /\ m.obsoletes \in Opt(Did) /\ m.obsoletedBy \in Opt(Did)
          /\ e.obsoletes[m.pid] \in Opt(Did) /\ e.obsoletedBy[m.pid] \in Opt(Did)
      BY DEF Sysmeta, Db
    <2> HIDE DEF f
    <2>3. [f EXCEPT
             !.names = @ \cup ({m.obsoletes, m.obsoletedBy} \ {None}),
             !.obsoletes[m.pid] = IF m.obsoletes # None THEN m.obsoletes ELSE e.obsoletes[m.pid],
             !.obsoletedBy[m.pid] = IF m.obsoletedBy # None THEN m.obsoletedBy
                                    ELSE e.obsoletedBy[m.pid]] \in Db
      BY <2>1, <2>2 DEF Db, Opt
    <2> QED BY <2>3 DEF SetRevisionLinks, f
  <1> QED BY <1>1, <1>2 DEF Linked

(* create_or_update(). *)
LEMMA CreateOrUpdateType ==
    ASSUME NEW d \in Db, NEW m \in Sysmeta, CreateOrUpdateOk(d, m)
    PROVE  CreateOrUpdate(d, m) \in Db
  <1>1. m.pid \in Did
    BY DEF Sysmeta
  <1>2. Linked(d, m) \in Db
    BY LinkedType
  <1>3. CreateOrUpdateChain(Linked(d, m), m) \in Db
    BY <1>2, CreateOrUpdateChainType DEF CreateOrUpdateOk
  <1> QED BY <1>1, <1>3, UpdateHeadType DEF CreateOrUpdate, CreateOrUpdateOk

(* The cascading deletion of an identifier. *)
LEMMA DeleteDidType ==
    ASSUME NEW d \in Db, NEW x
    PROVE  DeleteDid(d, x) \in Db
  BY DEF DeleteDid, Db, Opt

(* One row is saved. *)
LEMMA SaveLinksType ==
    ASSUME NEW d \in Db, NEW q \in Did, NEW older \in Opt(Did), NEW newer \in Opt(Did)
    PROVE  LET e == SaveLinks(d, q, older, newer)
           IN  /\ e \in Db /\ e.objects = d.objects /\ e.names = d.names
               /\ e.chain = d.chain /\ e.sid = d.sid /\ e.head = d.head
               /\ \A r \in Did :
                    /\ e.obsoletes[r] = IF r = q THEN older ELSE d.obsoletes[r]
                    /\ e.obsoletedBy[r] = IF r = q THEN newer ELSE d.obsoletedBy[r]
  BY DEF SaveLinks, Db

(* _cut_head_from_chain(), _cut_tail_from_chain(), _cut_embedded_from_chain():*)
(* the row of the object before p is saved, ...                              *)
LEMMA CloseGapOlderType ==
    ASSUME NEW d \in Db, NEW p \in Did
    PROVE  LET e == CloseGapOlder(d, p)
           IN  /\ e \in Db /\ e.objects = d.objects /\ e.names = d.names
               /\ e.chain = d.chain /\ e.sid = d.sid /\ e.head = d.head
               /\ \A q \in Did :
                    /\ e.obsoletes[q] = IF q = d.obsoletes[p] THEN d.obsoletes[q]
                                        ELSE IF q = p THEN None ELSE d.obsoletes[q]
                    /\ e.obsoletedBy[q] = IF q = d.obsoletes[p] THEN d.obsoletedBy[p]
                                          ELSE IF q = p THEN None ELSE d.obsoletedBy[q]
  <1> DEFINE f == SaveLinks(d, p, None, None)
             o == d.obsoletes[p]
             e == SaveLinks(f, o, d.obsoletes[o], d.obsoletedBy[p])
  <1>1. /\ f \in Db /\ f.objects = d.objects /\ f.names = d.names
        /\ f.chain = d.chain /\ f.sid = d.sid /\ f.head = d.head
        /\ \A q \in Did : /\ f.obsoletes[q] = IF q = p THEN None ELSE d.obsoletes[q]
                          /\ f.obsoletedBy[q] = IF q = p THEN None ELSE d.obsoletedBy[q]
    <2>1. None \in Opt(Did)
      BY DEF Opt
    <2> QED BY <2>1, SaveLinksType
  <1>2. CloseGapOlder(d, p) = IF o = None THEN f ELSE e
    BY DEF CloseGapOlder
  <1>3. None \notin Did /\ o \in Opt(Did) /\ d.obsoletedBy[p] \in Opt(Did)
    BY StoreAssumption DEF Db
  <1> HIDE DEF f
  <1>4. CASE o = None
    BY <1>1, <1>2, <1>3, <1>4
  <1>5. CASE o # None
    <2>1. o \in Did /\ d.obsoletes[o] \in Opt(Did)
      BY <1>3, <1>5 DEF Opt, Db
    <2>2. /\ e \in Db /\ e.objects = f.objects /\ e.names = f.names
          /\ e.chain = f.chain /\ e.sid = f.sid /\ e.head = f.head
          /\ \A q \in Did :
               /\ e.obsoletes[q] = IF q = o THEN d.obsoletes[o] ELSE f.obsoletes[q]
               /\ e.obsoletedBy[q] = IF q = o THEN d.obsoletedBy[p] ELSE f.obsoletedBy[q]
      <3>1. o \in Did /\ d.obsoletes[o] \in Opt(Did) /\ d.obsoletedBy[p] \in Opt(Did)
        BY <1>3, <2>1
      <3> HIDE DEF o
      <3>2. \A older \in Opt(Did), newer \in Opt(Did) :
              LET g == SaveLinks(f, o, older, newer)
              IN  /\ g \in Db /\ g.objects = f.objects /\ g.names = f.names
                  /\ g.chain = f.chain /\ g.sid = f.sid /\ g.head = f.head
                  /\ \A q \in Did :
                       /\ g.obsoletes[q] = IF q = o THEN older ELSE f.obsoletes[q]
                       /\ g.obsoletedBy[q] = IF q = o THEN newer ELSE f.obsoletedBy[q]
        BY <1>1, <3>1, SaveLinksType
      <3> QED BY <3>1, <3>2
    <2> HIDE DEF e
    <2> QED BY <1>1, <1>2, <1>5, <2>2
  <1> QED BY <1>4, <1>5

(* ... and then that of the object after it. *)
LEMMA CloseGapType ==
    ASSUME NEW d \in Db, NEW p \in Did
    PROVE  LET e == CloseGap(d, p)
               f == CloseGapOlder(d, p)
           IN  /\ e \in Db /\ e.objects = d.objects /\ e.names = d.names
               /\ e.chain = d.chain /\ e.sid = d.sid /\ e.head = d.head
               /\ \A q \in Did :
                    /\ e.obsoletes[q] = IF q = d.obsoletedBy[p] THEN d.obsoletes[p]
                                        ELSE f.obsoletes[q]
                    /\ e.obsoletedBy[q] = IF q = d.obsoletedBy[p] THEN d.obsoletedBy[q]
                                          ELSE f.obsoletedBy[q]
  <1> DEFINE f == CloseGapOlder(d, p)
             b == d.obsoletedBy[p]
             e == SaveLinks(f, b, d.obsoletes[p], d.obsoletedBy[b])
  <1>1. /\ f \in Db /\ f.objects = d.objects /\ f.names = d.names
        /\ f.chain = d.chain /\ f.sid = d.sid /\ f.head = d.head
    BY CloseGapOlderType
  <1>2. CloseGap(d, p) = IF b = None THEN f ELSE e
    BY DEF CloseGap
  <1>3. None \notin Did /\ b \in Opt(Did) /\ d.obsoletes[p] \in Opt(Did)
    BY StoreAssumption DEF Db
  <1> HIDE DEF f
  <1>4. CASE b = None
    BY <1>1, <1>2, <1>3, <1>4 DEF f
  <1>5. CASE b # None
    <2>1. b \in Did /\ d.obsoletedBy[b] \in Opt(Did)
      BY <1>3, <1>5 DEF Opt, Db
    <2>2. /\ e \in Db /\ e.objects = f.objects /\ e.names = f.names
          /\ e.chain = f.chain /\ e.sid = f.sid /\ e.head = f.head
          /\ \A q \in Did :
               /\ e.obsoletes[q] = IF q = b THEN d.obsoletes[p] ELSE f.obsoletes[q]
               /\ e.obsoletedBy[q] = IF q = b THEN d.obsoletedBy[b] ELSE f.obsoletedBy[q]
      <3>1. b \in Did /\ d.obsoletes[p] \in Opt(Did) /\ d.obsoletedBy[b] \in Opt(Did)
        BY <1>3, <2>1
      <3> HIDE DEF b
      <3>2. \A older \in Opt(Did), newer \in Opt(Did) :
              LET g == SaveLinks(f, b, older, newer)
              IN  /\ g \in Db /\ g.objects = f.objects /\ g.names = f.names
                  /\ g.chain = f.chain /\ g.sid = f.sid /\ g.head = f.head
                  /\ \A q \in Did :
                       /\ g.obsoletes[q] = IF q = b THEN older ELSE f.obsoletes[q]
                       /\ g.obsoletedBy[q] = IF q = b THEN newer ELSE f.obsoletedBy[q]
        BY <1>1, <3>1, SaveLinksType
      <3> QED BY <3>1, <3>2
    <2> HIDE DEF e
    <2> QED BY <1>1, <1>2, <1>5, <2>2 DEF f
  <1> QED BY <1>4, <1>5

(* Where p, the object before it and the one after it are three, the order   *)
(* in which their rows are saved does not matter.                            *)
LEMMA CloseGapIs ==
    ASSUME NEW d \in Db, NEW p \in Did, p \notin {d.obsoletes[p], d.obsoletedBy[p]},
           d.obsoletes[p] = None \/ d.obsoletes[p] # d.obsoletedBy[p]
    PROVE  \A q \in Did :
             /\ CloseGap(d, p).obsoletes[q] = IF q = p THEN None
                                              ELSE IF q = d.obsoletedBy[p] THEN d.obsoletes[p]
                                              ELSE d.obsoletes[q]
             /\ CloseGap(d, p).obsoletedBy[q] = IF q = p THEN None
                                                ELSE IF q = d.obsoletes[p] THEN d.obsoletedBy[p]
                                                ELSE d.obsoletedBy[q]
  <1> DEFINE f == CloseGapOlder(d, p)
             e == CloseGap(d, p)
  <1>1. \A q \in Did :
          /\ f.obsoletes[q] = IF q = d.obsoletes[p] THEN d.obsoletes[q]
                              ELSE IF q = p THEN None ELSE d.obsoletes[q]
          /\ f.obsoletedBy[q] = IF q = d.obsoletes[p] THEN d.obsoletedBy[p]
                                ELSE IF q = p THEN None ELSE d.obsoletedBy[q]
    BY CloseGapOlderType
  <1>2. \A q \in Did :
          /\ e.obsoletes[q] = IF q = d.obsoletedBy[p] THEN d.obsoletes[p] ELSE f.obsoletes[q]
          /\ e.obsoletedBy[q] = IF q = d.obsoletedBy[p] THEN d.obsoletedBy[q]
                                ELSE f.obsoletedBy[q]
    BY CloseGapType
  <1>3. None \notin Did
    BY StoreAssumption
  <1> HIDE DEF e, f
  <1>4. ASSUME NEW q \in Did
        PROVE  /\ e.obsoletes[q] = IF q = p THEN None
                                   ELSE IF q = d.obsoletedBy[p] THEN d.obsoletes[p]
                                   ELSE d.obsoletes[q]
               /\ e.obsoletedBy[q] = IF q = p THEN None
                                     ELSE IF q = d.obsoletes[p] THEN d.obsoletedBy[p]
                                     ELSE d.obsoletedBy[q]
    BY <1>1, <1>2, <1>3
  <1> QED BY <1>4 DEF e

(* delete_sciobj_from_database(). *)
LEMMA DeleteSciobjType ==
    ASSUME NEW d \in Db, NEW p \in Did, DeleteSciobjOk(d, p)
    PROVE  DeleteSciobj(d, p) \in Db
  <1>1. Detached(d, p) \in Db
    <2>1. CASE IsInRevisionChain(d, p)
      <3>1. RemainingNeighbour(d, p) \in Did
        BY <2>1 DEF RemainingNeighbour, IsInRevisionChain, Db, Opt
      <3>2. UpdateHeadOk(CloseGap(d, p), RemainingNeighbour(d, p))
        BY <2>1 DEF DeleteSciobjOk, CutFromChainOk
      <3> QED BY <2>1, <3>1, <3>2, CloseGapType, UpdateHeadType DEF Detached, CutFromChain
    <2> QED BY <2>1 DEF Detached
  <1> DEFINE d1 == Detached(d, p)
             e == [d1 EXCEPT !.chain[p] = None]
  <1>2. DeleteChain(d1, p) \in Db
    <2> HIDE DEF d1
    <2>1. d1 \in Db
      BY <1>1 DEF d1
    <2>2. e \in Db
      BY <2>1 DEF Db, Opt
    <2>3. d1.chain[p] \in ChainId
      BY <1>1, <2>1 DEF DeleteSciobjOk, Db, Opt, d1
    <2>4. [e EXCEPT !.head[d1.chain[p]] = None] \in Db
      <3> HIDE DEF e
      <3> QED BY <2>2, <2>3 DEF Db, Opt
    <2> QED BY <2>2, <2>4, DeleteDidType DEF DeleteChain
  <1> QED BY <1>2, DeleteDidType DEF DeleteSciobj

-----------------------------------------------------------------------------
(* The walk to the head.                                                    *)

(* The walk stays in every closed set that it starts in. *)
LEMMA VisitedInClosed ==
    ASSUME NEW d, NEW p, NEW S \in SUBSET d.objects, p \in S, ClosedUnderNewer(d, S)
    PROVE  Visited(d, p) \subseteq S
  BY DEF Visited

(* Where the walk ends: at the one object of a closed set that nothing local *)
(* obsoletes.                                                                *)
LEMMA WalkEndsAt ==
    ASSUME NEW d, NEW p, NEW h \in Visited(d, p), WalkStops(d, h),
           NEW S \in SUBSET d.objects, p \in S, ClosedUnderNewer(d, S),
           \A q \in S : WalkStops(d, q) => q = h
    PROVE  FindHeadOk(d, p) /\ FindHead(d, p) = h
  <1>1. FindHeadOk(d, p)
    BY DEF FindHeadOk
  <1>2. FindHead(d, p) \in Visited(d, p) /\ WalkStops(d, FindHead(d, p))
    BY <1>1 DEF FindHeadOk, FindHead
  <1>3. Visited(d, p) \subseteq S
    BY VisitedInClosed
  <1> QED BY <1>1, <1>2, <1>3

(* The objects that are visited are closed under the step of the walk. *)
LEMMA VisitedClosed ==
    ASSUME NEW d, NEW p \in d.objects
    PROVE  /\ Visited(d, p) \subseteq d.objects /\ p \in Visited(d, p)
           /\ ClosedUnderNewer(d, Visited(d, p))
  <1>1. Visited(d, p) \subseteq d.objects /\ p \in Visited(d, p)
    BY DEF Visited
  <1>2. ASSUME NEW q \in Visited(d, p), d.obsoletedBy[q] \in d.objects
        PROVE  d.obsoletedBy[q] \in Visited(d, p)
    <2> SUFFICES ASSUME NEW S \in SUBSET d.objects, p \in S, ClosedUnderNewer(d, S)
                 PROVE  d.obsoletedBy[q] \in S
      BY <1>2 DEF Visited
    <2>1. q \in S BY VisitedInClosed
    <2> QED BY <1>2, <2>1 DEF ClosedUnderNewer
  <1> QED BY <1>1, <1>2 DEF ClosedUnderNewer

(* What is visited from a visited object was visited already. *)
LEMMA VisitedOnward ==
    ASSUME NEW d, NEW p \in d.objects, NEW q \in Visited(d, p)
    PROVE  Visited(d, q) \subseteq Visited(d, p)
BY VisitedClosed, VisitedInClosed

(* When links change, walks still stop, if the walk from one object n does   *)
(* and each change is at n, leads to n, or leads to no object.               *)
LEMMA WalksStillStop ==
    ASSUME NEW d, WalksStop(d), NEW e, NEW n, n \in e.objects => FindHeadOk(e, n),
           e.objects \subseteq d.objects \cup {n},
           \A q \in e.objects \ {n} :
              e.obsoletedBy[q] \in e.objects => e.obsoletedBy[q] \in {n, d.obsoletedBy[q]}
    PROVE  WalksStop(e)
  <1> SUFFICES ASSUME NEW p \in e.objects, \A q \in Visited(e, p) : ~WalkStops(e, q)
               PROVE  FALSE
    BY DEF WalksStop, FindHeadOk
  <1> DEFINE V == Visited(e, p)
  <1>1. V \subseteq e.objects /\ p \in V /\ ClosedUnderNewer(e, V)
    BY VisitedClosed
  <1>2. n \notin V
    <2> SUFFICES ASSUME n \in V PROVE FALSE
      OBVIOUS
    <2>1. Visited(e, n) \subseteq V
      BY VisitedOnward
    <2> QED BY <1>1, <2>1 DEF FindHeadOk
  <1>3. \A q \in V : e.obsoletedBy[q] \in V
    BY <1>1 DEF ClosedUnderNewer, WalkStops
  <1> HIDE DEF V
  <1>4. \A q \in V : e.obsoletedBy[q] = d.obsoletedBy[q] /\ d.obsoletedBy[q] \in V
    BY <1>1, <1>2, <1>3
  <1>5. V \in SUBSET d.objects /\ ClosedUnderNewer(d, V)
    BY <1>1, <1>2, <1>4 DEF ClosedUnderNewer
  <1>6. Visited(d, p) \subseteq V
    BY <1>1, <1>5, VisitedInClosed
  <1>7. PICK q \in Visited(d, p) : WalkStops(d, q)
    BY <1>1, <1>5 DEF WalksStop, FindHeadOk
  <1> QED BY <1>4, <1>5, <1>6, <1>7 DEF WalkStops

-----------------------------------------------------------------------------
(* The requests.                                                            *)

LEMMA StoreObjectType ==
    ASSUME TypeOK, NEW m \in Sysmeta, StoreObject(m)
    PROVE  TypeOK'
  <1>1. m.pid \in Did
    BY DEF Sysmeta
  <1> QED BY <1>1, CreateOrUpdateType DEF StoreObject, TypeOK

(* The links that a client can send; no more documents than MaxRelinks       *)
(* change them.                                                              *)
LEMMA LinksForType ==
    ASSUME TypeOK, NEW p \in Did, NEW links \in LinksFor(p)
    PROVE  /\ links[1] \in Opt(Did) /\ links[2] \in Opt(Did)
           /\ relinks < MaxRelinks \/ (/\ links[1] \in {None, db.obsoletes[p]}
                                       /\ links[2] \in {None, db.obsoletedBy[p]})
  <1>1. db.obsoletes[p] \in Opt(Did) /\ db.obsoletedBy[p] \in Opt(Did)
    BY DEF TypeOK, Db
  <1> QED BY <1>1 DEF LinksFor, Opt

LEMMA ReplaceType ==
    ASSUME TypeOK, NEW m \in Sysmeta, Replace(m),
           relinks < MaxRelinks \/ ~Relinks(db, m)
    PROVE  TypeOK'
  <1>1. relinks' \in 0..MaxRelinks
    BY StoreAssumption DEF Replace, TypeOK
  <1> QED BY <1>1, CreateOrUpdateType DEF Replace, TypeOK

(* A document that a client sends. *)
LEMMA PutMetaDocument ==
    ASSUME TypeOK, NEW p \in db.objects, NEW links \in LinksFor(p), NEW s \in SidsFor(db, p),
           NEW archived \in BOOLEAN, PutMeta(p, links, s, archived)
    PROVE  \E m \in Sysmeta :
             /\ m.pid = p /\ m.seriesId = s /\ Replace(m)
             /\ m.obsoletes = links[1] /\ m.obsoletedBy = links[2]
             /\ relinks < MaxRelinks \/ ~Relinks(db, m)
  <1> DEFINE m == [pid |-> p, obsoletes |-> links[1], obsoletedBy |-> links[2],
                   seriesId |-> s, archived |-> archived]
  <1>1. p \in Did
    BY DEF TypeOK, Db
  <1>2. s \in Opt(Did)
    BY <1>1 DEF SidsFor, SidOf, TypeOK, Db, Opt, Did
  <1>3. m \in Sysmeta
    BY <1>1, <1>2, LinksForType DEF Sysmeta
  <1>4. relinks < MaxRelinks \/ ~Relinks(db, m)
    BY <1>1, LinksForType DEF Relinks
  <1> QED BY <1>3, <1>4 DEF PutMeta

LEMMA CurrentSysmetaType ==
    ASSUME NEW d \in Db, NEW p \in Did
    PROVE  CurrentSysmeta(d, p) \in Sysmeta
  <1>1. SidOf(d, p) \in Opt(Did)
    BY DEF SidOf, Db, Opt
  <1> QED BY <1>1 DEF CurrentSysmeta, Sysmeta, Db

LEMMA EditedType ==
    ASSUME NEW m \in Sysmeta, NEW s \in Opt(Did), NEW archived \in BOOLEAN
    PROVE  /\ Edited(m, s, archived) \in Sysmeta
           /\ Edited(m, s, archived).pid = m.pid
           /\ Edited(m, s, archived).seriesId = s
           /\ Edited(m, s, archived).obsoletes = m.obsoletes
           /\ Edited(m, s, archived).obsoletedBy = m.obsoletedBy
  BY DEF Edited, Sysmeta

LEMMA ResolveSidType ==
    ASSUME NEW d \in Db, NEW x
    PROVE  ResolveSid(d, x) \in Opt(Did)
  BY DEF ResolveSid, IsSid, Db, Opt

LEMMA DidParts == Pids \subseteq Did /\ Sids \subseteq Did
  BY DEF Did

(* A step of any of the specifications. *)
LEMMA TypeStep == TypeOK /\ [Next]_vars => TypeOK'
  <1> SUFFICES ASSUME TypeOK, [Next]_vars PROVE TypeOK'
    OBVIOUS
  <1>0. db \in Db /\ files \subseteq Did /\ db.objects \subseteq Did
    BY DEF TypeOK, Db
  <1>1. ASSUME NEW p \in Pids, NEW s \in Opt(Sids), NEW spooled \in BOOLEAN,
               Create(p, s, spooled)
        PROVE  TypeOK'
    <2>1. NewSysmeta(p, None, s) \in Sysmeta
      BY DidParts DEF NewSysmeta, Sysmeta, Opt
    <2> QED BY <1>1, <2>1, StoreObjectType DEF Create
  <1>2. ASSUME NEW old \in db.objects, NEW p \in Pids, NEW s \in SidsFor(db, old),
               NEW spooled \in BOOLEAN, Update(old, p, s, spooled)
        PROVE  TypeOK'
    <2>1. s \in Opt(Did)
      BY <1>0, DidParts, CurrentSysmetaType DEF SidsFor, SidOf, Db, Opt
    <2>2. NewSysmeta(p, old, s) \in Sysmeta
      BY <1>0, <2>1, DidParts DEF NewSysmeta, Sysmeta, Opt
    <2> QED BY <1>2, <2>2, StoreObjectType DEF Update
  <1>3. ASSUME NEW p \in db.objects, NEW links \in LinksFor(p), NEW s \in SidsFor(db, p),
               NEW archived \in BOOLEAN, PutMeta(p, links, s, archived)
        PROVE  TypeOK'
    BY <1>3, PutMetaDocument, ReplaceType
  <1>4. ASSUME NEW x \in Did, Archive(x)
        PROVE  TypeOK'
    BY <1>0, <1>4 DEF Archive, TypeOK, Db
  <1>5. ASSUME NEW x \in Did, Delete(x)
        PROVE  TypeOK'
    BY <1>0, <1>5, DeleteSciobjType DEF Delete, TypeOK
  <1>6. ASSUME NEW p \in Pids, Replicate(p)
        PROVE  TypeOK'
    BY <1>0, <1>6, DidParts DEF Replicate, TypeOK, Db
  <1>7. ASSUME NEW m \in Foreign, Import(m)
        PROVE  TypeOK'
    BY <1>7, StoreObjectType, StoreAssumption DEF Import
  <1>8. ASSUME NEW x \in Did, DeleteCrash(x)
        PROVE  TypeOK'
    BY <1>0, <1>8 DEF DeleteCrash, TypeOK
  <1>9. CASE UNCHANGED vars
    BY <1>9 DEF vars, TypeOK
  <1> QED
    BY <1>1, <1>2, <1>3, <1>4, <1>5, <1>6, <1>7, <1>8, <1>9
    DEF Next, ImportNext, NativeNext

(* The tables keep the types of their columns, whatever is created, updated, *)
(* archived, deleted, imported, and wherever a delete is cut short: no       *)
(* function of revision.py stores NULL or a foreign key of another table.    *)
THEOREM TypeCorrect == Spec => []TypeOK
  <1>1. Init => TypeOK
    BY StoreAssumption DEF Init, TypeOK, Db, Opt
  <1>2. TypeOK /\ [Next]_vars => TypeOK'
    BY TypeStep
  <1> QED BY <1>1, <1>2, PTL DEF Spec
-----------------------------------------------------------------------------
(* The links of a node that objects are imported to.                        *)

(* The row of an object and its links: set_revision_links(). *)
LEMMA LinkedColumns ==
    ASSUME NEW d \in Db, NEW m \in Sysmeta
    PROVE  LET L == Linked(d, m)
           IN  /\ L.objects = d.objects \cup {m.pid}
               /\ L.chain = d.chain /\ L.head = d.head /\ L.sid = d.sid
               /\ d.names \subseteq L.names
               /\ L.obsoletes[m.pid] = IF m.obsoletes # None THEN m.obsoletes
                                       ELSE d.obsoletes[m.pid]
               /\ L.obsoletedBy[m.pid] = IF m.obsoletedBy # None THEN m.obsoletedBy
                                         ELSE d.obsoletedBy[m.pid]
               /\ \A q \in Did \ {m.pid} :
                    /\ L.obsoletes[q] = IF q = m.obsoletedBy /\ q \in d.objects THEN m.pid
                                        ELSE d.obsoletes[q]
                    /\ L.obsoletedBy[q] = IF q = m.obsoletes /\ q \in d.objects THEN m.pid
                                          ELSE d.obsoletedBy[q]
  <1> DEFINE r == SaveRow(d, m)
             t == NeighboursTold(r, m)
             L == SetRevisionLinks(r, m)
  <1>1. /\ r \in Db /\ r.objects = d.objects \cup {m.pid} /\ d.names \subseteq r.names
        /\ r.chain = d.chain /\ r.head = d.head /\ r.sid = d.sid
        /\ r.obsoletes = d.obsoletes /\ r.obsoletedBy = d.obsoletedBy
    BY DEF SaveRow, Db, Sysmeta
  <1>2. /\ L.objects = r.objects /\ r.names \subseteq L.names
        /\ L.chain = r.chain /\ L.head = r.head /\ L.sid = r.sid
        /\ L.obsoletes[m.pid] = IF m.obsoletes # None THEN m.obsoletes ELSE r.obsoletes[m.pid]
        /\ L.obsoletedBy[m.pid] = IF m.obsoletedBy # None THEN m.obsoletedBy
                                  ELSE r.obsoletedBy[m.pid]
        /\ \A q \in Did \ {m.pid} :
             /\ L.obsoletes[q] = IF q = m.obsoletedBy /\ q \in r.objects THEN m.pid
                                 ELSE r.obsoletes[q]
             /\ L.obsoletedBy[q] = IF q = m.obsoletes /\ q \in r.objects THEN m.pid
                                   ELSE r.obsoletedBy[q]
    <2> HIDE DEF r
    <2>0. m.pid \in Did
      BY DEF Sysmeta
    <2>1. /\ t \in Db /\ t.objects = r.objects /\ t.names = r.names
          /\ t.chain = r.chain /\ t.head = r.head /\ t.sid = r.sid
          /\ \A q \in Did :
               /\ t.obsoletes[q] = IF q = m.obsoletedBy /\ q \in r.objects THEN m.pid
                                   ELSE r.obsoletes[q]
               /\ t.obsoletedBy[q] = IF q = m.obsoletes /\ q \in r.objects THEN m.pid
                                     ELSE r.obsoletedBy[q]
      BY <1>1, <2>0 DEF NeighboursTold, Db, Opt
    <2>2. L = [t EXCEPT
                 !.names = @ \cup ({m.obsoletes, m.obsoletedBy} \ {None}),
                 !.obsoletes[m.pid] = IF m.obsoletes # None THEN m.obsoletes
                                      ELSE r.obsoletes[m.pid],
                 !.obsoletedBy[m.pid] = IF m.obsoletedBy # None THEN m.obsoletedBy
                                        ELSE r.obsoletedBy[m.pid]]
      BY DEF SetRevisionLinks
    <2> HIDE DEF L, t
    <2> QED BY <2>0, <2>1, <2>2 DEF Db
  <1>3. Linked(d, m) = L
    BY DEF Linked
  <1> HIDE DEF r, L
  <1> QED BY <1>1, <1>2, <1>3

(* Nothing about links depends on the other tables. *)
LEMMA LinksOnly ==
    ASSUME NEW d \in Db, NEW e \in Db, e.objects = d.objects,
           e.obsoletes = d.obsoletes, e.obsoletedBy = d.obsoletedBy
    PROVE  /\ \A p : Visited(e, p) = Visited(d, p) /\ (FindHeadOk(e, p) <=> FindHeadOk(d, p))
           /\ ImportLinks(d) => ImportLinks(e)
  <1>1. \A p : Visited(e, p) = Visited(d, p)
    BY DEF Visited, ClosedUnderNewer
  <1>2. \A p : FindHeadOk(e, p) <=> FindHeadOk(d, p)
    BY <1>1 DEF FindHeadOk, WalkStops
  <1>3. ImportLinks(d) => ImportLinks(e)
    BY <1>2 DEF ImportLinks, RowsKnown, LinksAgree, DanglingKnown, WalksStop
  <1> QED BY <1>1, <1>2, <1>3

(* What is known of the document of a new object when it is stored. *)
Fits(d, m) ==
    /\ m.pid \notin d.objects \cup {m.obsoletes, m.obsoletedBy}
    /\ m.pid \in ObjectIds /\ m.obsoletes \in Opt(ObjectIds) /\ m.obsoletedBy \in Opt(ObjectIds)
    /\ \A q \in d.objects : /\ d.obsoletedBy[q] = m.pid => m.obsoletes = q
                            /\ d.obsoletes[q] = m.pid => m.obsoletedBy = q
    /\ m \in Foreign \/ {m.obsoletes, m.obsoletedBy} \subseteq Opt(d.objects)

(* What storing it does to the links. *)
StoredLinks(d, e, m) ==
    /\ e.objects = d.objects \cup {m.pid}
    /\ \A q \in Did :
         /\ e.obsoletes[q] = IF q = m.pid /\ m.obsoletes # None THEN m.obsoletes
                             ELSE IF q = m.obsoletedBy /\ q \in e.objects THEN m.pid
                             ELSE d.obsoletes[q]
         /\ e.obsoletedBy[q] = IF q = m.pid /\ m.obsoletedBy # None THEN m.obsoletedBy
                               ELSE IF q = m.obsoletes /\ q \in e.objects THEN m.pid
                               ELSE d.obsoletedBy[q]

(* The links of the new row, of its neighbours and of all else. *)
LEMMA StoredLinksAre ==
    ASSUME NEW d \in Db, ImportLinks(d), NEW m \in Sysmeta, Fits(d, m),
           NEW e \in Db, StoredLinks(d, e, m)
    PROVE  /\ m.pid \in Did /\ None \notin Did /\ d.objects \subseteq Did
           /\ e.obsoletes[m.pid] = m.obsoletes /\ e.obsoletedBy[m.pid] = m.obsoletedBy
           /\ \A q \in Did \ {m.pid} :
                /\ e.obsoletes[q] = IF q = m.obsoletedBy /\ q \in d.objects THEN m.pid
                                    ELSE d.obsoletes[q]
                /\ e.obsoletedBy[q] = IF q = m.obsoletes /\ q \in d.objects THEN m.pid
                                      ELSE d.obsoletedBy[q]
  <1>1. m.pid \in Did /\ None \notin Did /\ d.objects \subseteq Did
    BY StoreAssumption DEF Sysmeta, Db
  <1>2. d.obsoletes[m.pid] = None /\ d.obsoletedBy[m.pid] = None
    BY <1>1 DEF Fits, ImportLinks, RowsKnown
  <1> QED BY <1>1, <1>2 DEF Fits, StoredLinks

(* The two ends of a link between local objects agree, because links are     *)
(* unique, and because the documents of the source agree.                    *)
LEMMA StoredLinksAgree ==
    ASSUME NEW d \in Db, ImportLinks(d), NEW m \in Sysmeta, Fits(d, m),
           NEW e \in Db, StoredLinks(d, e, m), UniqueLinks(e)
    PROVE  LinksAgree(e)
  <1> DEFINE x == m.pid
  <1>0. /\ x \in Did /\ None \notin Did /\ d.objects \subseteq Did
        /\ x \notin d.objects \cup {m.obsoletes, m.obsoletedBy}
        /\ e.objects = d.objects \cup {x}
        /\ e.obsoletes[x] = m.obsoletes /\ e.obsoletedBy[x] = m.obsoletedBy
    BY StoredLinksAre DEF Fits, StoredLinks
  <1>1. \A q \in d.objects :
          /\ e.obsoletes[q] = IF q = m.obsoletedBy THEN x ELSE d.obsoletes[q]
          /\ e.obsoletedBy[q] = IF q = m.obsoletes THEN x ELSE d.obsoletedBy[q]
    BY <1>0, StoredLinksAre
  <1>2. ASSUME NEW a \in d.objects, NEW b \in d.objects
        PROVE  e.obsoletedBy[a] = b <=> e.obsoletes[b] = a
    <2>1. CASE a = m.obsoletes
      <3>1. e.obsoletes[b] # e.obsoletes[x]
        BY <1>0, <1>2, <2>1 DEF UniqueLinks
      <3> QED BY <1>0, <1>1, <2>1, <3>1
    <2>2. CASE b = m.obsoletedBy
      <3>1. e.obsoletedBy[a] # e.obsoletedBy[x]
        BY <1>0, <1>2, <2>2 DEF UniqueLinks
      <3> QED BY <1>0, <1>1, <2>2, <3>1
    <2>3. CASE a # m.obsoletes /\ b # m.obsoletedBy
      BY <1>1, <2>3 DEF ImportLinks, LinksAgree
    <2> QED BY <2>1, <2>2, <2>3
  <1>3. ASSUME NEW b \in d.objects
        PROVE  /\ e.obsoletedBy[x] = b <=> e.obsoletes[b] = x
               /\ e.obsoletedBy[b] = x <=> e.obsoletes[x] = b
    BY <1>0, <1>1 DEF Fits
  <1>4. e.obsoletedBy[x] # x /\ e.obsoletes[x] # x
    BY <1>0
  <1> HIDE DEF x
  <1> QED BY <1>0, <1>2, <1>3, <1>4 DEF LinksAgree

(* Only documents of the source leave links dangling. *)
LEMMA StoredRowsKnown ==
    ASSUME NEW d \in Db, ImportLinks(d), NEW m \in Sysmeta, Fits(d, m),
           NEW e \in Db, StoredLinks(d, e, m)
    PROVE  RowsKnown(e) /\ DanglingKnown(e)
  <1> DEFINE x == m.pid
  <1>0. /\ x \in Did /\ None \notin Did /\ d.objects \subseteq Did
        /\ e.objects = d.objects \cup {x} /\ x \in ObjectIds
        /\ e.obsoletes[x] = m.obsoletes /\ e.obsoletedBy[x] = m.obsoletedBy
        /\ m.obsoletes \in Opt(ObjectIds) /\ m.obsoletedBy \in Opt(ObjectIds)
        /\ \A q \in Did \ {x} :
             /\ e.obsoletes[q] = IF q = m.obsoletedBy /\ q \in d.objects THEN x
                                 ELSE d.obsoletes[q]
             /\ e.obsoletedBy[q] = IF q = m.obsoletes /\ q \in d.objects THEN x
                                   ELSE d.obsoletedBy[q]
    BY StoredLinksAre DEF Fits, StoredLinks
  <1>1. /\ d.objects \subseteq ObjectIds
        /\ \A q \in Did : d.obsoletes[q] \in Opt(ObjectIds) /\ d.obsoletedBy[q] \in Opt(ObjectIds)
        /\ \A q \in Did \ d.objects : d.obsoletes[q] = None /\ d.obsoletedBy[q] = None
    BY DEF ImportLinks, RowsKnown
  <1>2. ASSUME NEW q \in Did
        PROVE  /\ e.obsoletes[q] \in Opt(ObjectIds) /\ e.obsoletedBy[q] \in Opt(ObjectIds)
               /\ q \notin e.objects => e.obsoletes[q] = None /\ e.obsoletedBy[q] = None
    <2>1. CASE q = x
      BY <1>0, <2>1
    <2>2. CASE q # x
      BY <1>0, <1>1, <2>2 DEF Opt
    <2> QED BY <2>1, <2>2
  <1>3. RowsKnown(e)
    BY <1>0, <1>1, <1>2 DEF RowsKnown
  <1>4. ASSUME NEW q \in d.objects
        PROVE  /\ e.obsoletes[q] \notin Opt(e.objects) =>
                    \E n \in Foreign : n.pid = q /\ n.obsoletes = e.obsoletes[q]
               /\ e.obsoletedBy[q] \notin Opt(e.objects) =>
                    \E n \in Foreign : n.pid = q /\ n.obsoletedBy = e.obsoletedBy[q]
    <2>1. CASE q = x
      BY <2>1 DEF Fits
    <2>2. CASE q # x
      BY <1>0, <2>2 DEF ImportLinks, DanglingKnown, Opt
    <2> QED BY <2>1, <2>2
  <1>5. /\ m.obsoletes \notin Opt(e.objects) => m \in Foreign
        /\ m.obsoletedBy \notin Opt(e.objects) => m \in Foreign
    BY <1>0 DEF Fits, Opt
  <1>6. DanglingKnown(e)
    BY <1>0, <1>4, <1>5 DEF DanglingKnown
  <1> QED BY <1>3, <1>6

(* A new object may be put between two others, and separates none.           *)
LEMMA StoredOrder ==
    ASSUME NEW d \in Db, ImportLinks(d), NEW m \in Sysmeta, Fits(d, m),
           NEW e \in Db, StoredLinks(d, e, m), UniqueLinks(e), NEW p \in d.objects
    PROVE  Visited(d, p) \subseteq Visited(e, p)
  <1> DEFINE x == m.pid
  <1>0. /\ x \in Did /\ None \notin Did /\ d.objects \subseteq Did
        /\ x \notin d.objects /\ e.objects = d.objects \cup {x}
        /\ e.obsoletes[x] = m.obsoletes /\ e.obsoletedBy[x] = m.obsoletedBy
        /\ \A q \in d.objects :
             /\ e.obsoletes[q] = IF q = m.obsoletedBy THEN x ELSE d.obsoletes[q]
             /\ e.obsoletedBy[q] = IF q = m.obsoletes THEN x ELSE d.obsoletedBy[q]
    BY StoredLinksAre DEF Fits, StoredLinks
  <1> SUFFICES ASSUME NEW R \in SUBSET e.objects, p \in R, ClosedUnderNewer(e, R)
               PROVE  Visited(d, p) \subseteq R
    BY <1>0, VisitedClosed DEF Visited
  <1>1. ASSUME NEW q \in R \cap d.objects, d.obsoletedBy[q] \in d.objects
        PROVE  d.obsoletedBy[q] \in R
    <2> DEFINE b == d.obsoletedBy[q]
    <2>1. CASE q # m.obsoletes
      BY <1>0, <1>1, <2>1 DEF ClosedUnderNewer
    <2>2. CASE q = m.obsoletes
      <3>1. x \in R
        BY <1>0, <2>2 DEF ClosedUnderNewer
      <3>2. d.obsoletes[b] = q
        BY <1>1 DEF ImportLinks, LinksAgree
      <3>3. e.obsoletes[b] # e.obsoletes[x]
        BY <1>0, <1>1, <2>2 DEF UniqueLinks
      <3>4. b = m.obsoletedBy
        BY <1>0, <1>1, <2>2, <3>2, <3>3
      <3>5. e.obsoletedBy[x] = b /\ b \in e.objects
        BY <1>0, <1>1, <3>4
      <3> QED BY <3>1, <3>5 DEF ClosedUnderNewer
    <2> QED BY <2>1, <2>2
  <1>2. ClosedUnderNewer(d, R \cap d.objects)
    BY <1>1 DEF ClosedUnderNewer
  <1>3. Visited(d, p) \subseteq R \cap d.objects
    BY <1>2, VisitedInClosed
  <1> QED BY <1>3

LEMMA StoredLinksSound ==
    ASSUME NEW d \in Db, ImportLinks(d), NEW m \in Sysmeta, Fits(d, m),
           NEW e \in Db, StoredLinks(d, e, m), UniqueLinks(e), FindHeadOk(e, m.pid)
    PROVE  ImportLinks(e)
  <1>1. WalksStop(d) /\ e.objects \subseteq d.objects \cup {m.pid}
    BY DEF ImportLinks, StoredLinks
  <1>2. \A q \in e.objects \ {m.pid} : e.obsoletedBy[q] \in {m.pid, d.obsoletedBy[q]}
    BY StoredLinksAre DEF StoredLinks, Db
  <1>3. WalksStop(e)
    BY <1>1, <1>2, WalksStillStop
  <1> QED BY <1>3, StoredLinksAgree, StoredRowsKnown DEF ImportLinks

(* A walk that stops has no object that is its own neighbour. *)
LEMMA NoLinkToItself ==
    ASSUME NEW d \in Db, ImportLinks(d), NEW p \in d.objects
    PROVE  d.obsoletedBy[p] # p /\ d.obsoletes[p] # p
  <1>1. ASSUME d.obsoletedBy[p] = p PROVE FALSE
    <2>1. {p} \in SUBSET d.objects /\ ClosedUnderNewer(d, {p})
      BY <1>1 DEF ClosedUnderNewer
    <2>2. Visited(d, p) \subseteq {p}
      BY <2>1, VisitedInClosed
    <2> QED BY <1>1, <2>2 DEF ImportLinks, WalksStop, FindHeadOk, WalkStops
  <1> QED BY <1>1 DEF ImportLinks, LinksAgree

(* Nor does it have one object both before and after it. *)
LEMMA NoTwoCycle ==
    ASSUME NEW d \in Db, ImportLinks(d), NEW p \in d.objects, d.obsoletes[p] \in d.objects
    PROVE  d.obsoletes[p] # d.obsoletedBy[p]
  <1> SUFFICES ASSUME d.obsoletedBy[p] = d.obsoletes[p] PROVE FALSE
    OBVIOUS
  <1> DEFINE q == d.obsoletes[p]
  <1>1. d.obsoletedBy[p] = q /\ d.obsoletedBy[q] = p
    BY DEF ImportLinks, LinksAgree
  <1>2. {p, q} \in SUBSET d.objects /\ ClosedUnderNewer(d, {p, q})
    BY <1>1 DEF ClosedUnderNewer
  <1>3. Visited(d, p) \subseteq {p, q}
    BY <1>2, VisitedInClosed
  <1> QED BY <1>1, <1>3 DEF ImportLinks, WalksStop, FindHeadOk, WalkStops

(* p can be cut from its neighbours: those it has are local objects. *)
Cuttable(d, p) ==
    p \in d.objects /\ {d.obsoletes[p], d.obsoletedBy[p]} \subseteq Opt(d.objects)

(* What deleting p does to the links. *)
CutLinks(d, e, p) ==
    /\ e.objects = d.objects \ {p}
    /\ \A q \in Did :
         /\ e.obsoletes[q] = IF q = p THEN None
                             ELSE IF q = d.obsoletedBy[p] THEN d.obsoletes[p]
                             ELSE d.obsoletes[q]
         /\ e.obsoletedBy[q] = IF q = p THEN None
                               ELSE IF q = d.obsoletes[p] THEN d.obsoletedBy[p]
                               ELSE d.obsoletedBy[q]

(* What is known of the neighbours of p. *)
LEMMA Neighbours ==
    ASSUME NEW d \in Db, ImportLinks(d), NEW p, Cuttable(d, p)
    PROVE  /\ p \in Did /\ d.objects \subseteq Did /\ None \notin Did
           /\ d.obsoletedBy[p] # p /\ d.obsoletes[p] # p
           /\ \A q \in d.objects : /\ d.obsoletedBy[q] = p <=> q = d.obsoletes[p]
                                   /\ d.obsoletes[q] = p <=> q = d.obsoletedBy[p]
  <1>1. d.objects \subseteq Did /\ None \notin Did /\ p \in d.objects
    BY StoreAssumption DEF Db, Cuttable
  <1>2. d.obsoletedBy[p] # p /\ d.obsoletes[p] # p
    BY <1>1, NoLinkToItself
  <1> QED BY <1>1, <1>2 DEF ImportLinks, LinksAgree

LEMMA CutLinksAgree ==
    ASSUME NEW d \in Db, ImportLinks(d), NEW p, Cuttable(d, p), NEW e, CutLinks(d, e, p)
    PROVE  LinksAgree(e) /\ RowsKnown(e) /\ DanglingKnown(e)
  <1>0. /\ p \in Did /\ d.objects \subseteq Did /\ None \notin Did /\ p \in d.objects
        /\ d.obsoletedBy[p] # p /\ d.obsoletes[p] # p
        /\ \A q \in d.objects : /\ d.obsoletedBy[q] = p <=> q = d.obsoletes[p]
                                /\ d.obsoletes[q] = p <=> q = d.obsoletedBy[p]
        /\ d.obsoletes[p] \in Opt(d.objects) /\ d.obsoletedBy[p] \in Opt(d.objects)
    BY Neighbours DEF Cuttable
  <1>1. /\ e.objects = d.objects \ {p}
        /\ \A q \in Did :
             /\ e.obsoletes[q] = IF q = p THEN None
                                 ELSE IF q = d.obsoletedBy[p] THEN d.obsoletes[p]
                                 ELSE d.obsoletes[q]
             /\ e.obsoletedBy[q] = IF q = p THEN None
                                   ELSE IF q = d.obsoletes[p] THEN d.obsoletedBy[p]
                                   ELSE d.obsoletedBy[q]
    BY DEF CutLinks
  <1>2. ASSUME NEW a \in e.objects, NEW b \in e.objects
        PROVE  e.obsoletedBy[a] = b <=> e.obsoletes[b] = a
    <2>1. d.obsoletedBy[a] = b <=> d.obsoletes[b] = a
      BY <1>1, <1>2 DEF ImportLinks, LinksAgree
    <2>2. a \in Did /\ b \in Did /\ a # p /\ b # p /\ a \in d.objects /\ b \in d.objects
      BY <1>0, <1>1, <1>2
    <2>3. CASE a = d.obsoletes[p] /\ b = d.obsoletedBy[p]
      BY <1>0, <1>1, <2>2, <2>3
    <2>4. CASE a = d.obsoletes[p] /\ b # d.obsoletedBy[p]
      BY <1>0, <1>1, <2>1, <2>2, <2>4
    <2>5. CASE a # d.obsoletes[p] /\ b = d.obsoletedBy[p]
      <3>1. d.obsoletes[b] = p
        BY <1>0, <2>2, <2>5
      <3> QED BY <1>0, <1>1, <2>1, <2>2, <2>5, <3>1
    <2>6. CASE a # d.obsoletes[p] /\ b # d.obsoletedBy[p]
      BY <1>1, <2>1, <2>2, <2>6
    <2> QED BY <2>3, <2>4, <2>5, <2>6
  <1>3. RowsKnown(e)
    <2>1. RowsKnown(d)
      BY DEF ImportLinks
    <2>2. \A q \in Did : e.obsoletes[q] \in Opt(ObjectIds) /\ e.obsoletedBy[q] \in Opt(ObjectIds)
      BY <1>0, <1>1, <2>1 DEF RowsKnown, Opt
    <2>3. \A q \in Did \ e.objects : e.obsoletes[q] = None /\ e.obsoletedBy[q] = None
      BY <1>0, <1>1, <2>1 DEF RowsKnown, Opt
    <2> QED BY <1>1, <2>1, <2>2, <2>3 DEF RowsKnown
  <1>4. ASSUME NEW q \in e.objects
        PROVE  /\ e.obsoletes[q] \notin Opt(e.objects) =>
                    /\ e.obsoletes[q] = d.obsoletes[q]
                    /\ d.obsoletes[q] \notin Opt(d.objects)
               /\ e.obsoletedBy[q] \notin Opt(e.objects) =>
                    /\ e.obsoletedBy[q] = d.obsoletedBy[q]
                    /\ d.obsoletedBy[q] \notin Opt(d.objects)
    BY <1>0, <1>1, <1>4 DEF Opt
  <1>5. DanglingKnown(e)
    <2> SUFFICES ASSUME NEW q \in e.objects
                 PROVE /\ e.obsoletes[q] \notin Opt(e.objects) =>
                            \E m \in Foreign : m.pid = q /\ m.obsoletes = e.obsoletes[q]
                       /\ e.obsoletedBy[q] \notin Opt(e.objects) =>
                            \E m \in Foreign : m.pid = q /\ m.obsoletedBy = e.obsoletedBy[q]
      BY DEF DanglingKnown
    <2> QED BY <1>1, <1>4 DEF ImportLinks, DanglingKnown
  <1> QED BY <1>2, <1>3, <1>5 DEF LinksAgree

(* Deleting p takes p out of the walks that pass it, and nothing else. *)
LEMMA CutOrder ==
    ASSUME NEW d \in Db, ImportLinks(d), NEW p, Cuttable(d, p), NEW e, CutLinks(d, e, p),
           NEW q \in e.objects
    PROVE  Visited(d, q) \ {p} \subseteq Visited(e, q)
  <1>0. /\ p \in d.objects /\ d.objects \subseteq Did /\ q \in d.objects
        /\ d.obsoletedBy[p] # p /\ d.obsoletes[p] # p
        /\ \A t \in d.objects : d.obsoletedBy[t] = p <=> t = d.obsoletes[p]
        /\ e.objects = d.objects \ {p}
        /\ \A t \in e.objects : e.obsoletedBy[t] = IF t = d.obsoletes[p] THEN d.obsoletedBy[p]
                                                   ELSE d.obsoletedBy[t]
    BY Neighbours DEF Cuttable, CutLinks
  <1> SUFFICES ASSUME NEW r \in Visited(d, q) \ {p}, NEW R \in SUBSET e.objects,
                      q \in R, ClosedUnderNewer(e, R)
               PROVE  r \in R
    BY <1>0, VisitedClosed DEF Visited
  <1>3. ASSUME NEW t \in R, d.obsoletedBy[t] \in d.objects, t # d.obsoletes[p]
        PROVE  d.obsoletedBy[t] \in R
    BY <1>0, <1>3 DEF ClosedUnderNewer
  <1>4. CASE d.obsoletes[p] \in R
    <2>1. d.obsoletedBy[p] \in d.objects => d.obsoletedBy[p] \in R
      BY <1>0, <1>4 DEF ClosedUnderNewer
    <2>2. ClosedUnderNewer(d, R \cup {p})
      BY <1>0, <1>3, <1>4, <2>1 DEF ClosedUnderNewer
    <2> QED BY <1>0, <2>2, VisitedInClosed
  <1>5. CASE d.obsoletes[p] \notin R
    <2>1. ClosedUnderNewer(d, R)
      BY <1>3, <1>5 DEF ClosedUnderNewer
    <2> QED BY <1>0, <2>1, VisitedInClosed
  <1> QED BY <1>4, <1>5

(* A walk that stopped at p now stops at the one before it. *)
LEMMA CutWalksStop ==
    ASSUME NEW d \in Db, ImportLinks(d), NEW p, Cuttable(d, p), NEW e, CutLinks(d, e, p)
    PROVE  WalksStop(e)
  <1>0. /\ p \in d.objects /\ d.objects \subseteq Did /\ None \notin Did
        /\ d.obsoletedBy[p] # p /\ d.obsoletes[p] # p
        /\ \A t \in d.objects : d.obsoletedBy[t] = p <=> t = d.obsoletes[p]
        /\ e.objects = d.objects \ {p} /\ d.obsoletedBy[p] \in Opt(d.objects)
        /\ \A t \in e.objects : e.obsoletedBy[t] = IF t = d.obsoletes[p] THEN d.obsoletedBy[p]
                                                   ELSE d.obsoletedBy[t]
    BY Neighbours DEF Cuttable, CutLinks
  <1> SUFFICES ASSUME NEW q \in e.objects PROVE FindHeadOk(e, q)
    BY DEF WalksStop
  <1> DEFINE V == Visited(d, q)
  <1>1. V \subseteq d.objects /\ q \in V /\ ClosedUnderNewer(d, V) /\ V \ {p} \subseteq Visited(e, q)
    BY <1>0, VisitedClosed, CutOrder
  <1>2. PICK s \in V : WalkStops(d, s)
    BY <1>0 DEF ImportLinks, WalksStop, FindHeadOk
  <1>3. CASE s # p
    <2>1. s # d.obsoletes[p]
      BY <1>0, <1>1, <1>2 DEF WalkStops
    <2>2. WalkStops(e, s)
      BY <1>0, <1>1, <1>2, <1>3, <2>1 DEF WalkStops
    <2> QED BY <1>1, <1>3, <2>2 DEF FindHeadOk
  <1>4. CASE s = p
    <2>1. d.obsoletedBy[p] = None
      BY <1>0, <1>2, <1>4 DEF WalkStops, Opt
    <2>2. PICK t \in V \ {p} : d.obsoletedBy[t] = p
      <3>1. SUFFICES ASSUME \A t \in V \ {p} : d.obsoletedBy[t] # p PROVE FALSE
        OBVIOUS
      <3>2. ClosedUnderNewer(d, V \ {p}) /\ q \in V \ {p} /\ V \ {p} \subseteq d.objects
        BY <1>0, <1>1, <3>1 DEF ClosedUnderNewer
      <3>3. V \subseteq V \ {p}
        BY <3>2, VisitedInClosed
      <3> QED BY <1>2, <1>4, <3>3
    <2>3. t = d.obsoletes[p] /\ t \in e.objects
      BY <1>0, <1>1, <2>2
    <2>4. WalkStops(e, t)
      BY <1>0, <2>1, <2>3 DEF WalkStops
    <2> QED BY <1>1, <2>2, <2>4 DEF FindHeadOk
  <1> QED BY <1>3, <1>4

LEMMA CutLinksSound ==
    ASSUME NEW d \in Db, ImportLinks(d), NEW p, Cuttable(d, p), NEW e, CutLinks(d, e, p)
    PROVE  ImportLinks(e)
  BY CutLinksAgree, CutWalksStop DEF ImportLinks

-----------------------------------------------------------------------------
(* The chains of such a node.                                               *)

(* The functions that edit chains leave the links alone. *)
SameLinks(d, e) ==
    e.objects = d.objects /\ e.obsoletes = d.obsoletes /\ e.obsoletedBy = d.obsoletedBy

(* The head that is looked up is an object, and gets to be the head of the  *)
(* chain that it is a member of.                                            *)
LEMMA UpdateHeadChains ==
    ASSUME NEW d \in Db, ImportChains(d), NEW p \in Did, UpdateHeadOk(d, p)
    PROVE  ImportChains(UpdateHead(d, p)) /\ SameLinks(d, UpdateHead(d, p))
  <1> DEFINE h == FindHead(d, p)
             e == [d EXCEPT !.head[d.chain[h]] = h]
  <1>1. h \in d.objects /\ h \in Did /\ h # None
    BY FindHeadIsLocal, StoreAssumption DEF UpdateHeadOk
  <1>2. CASE d.chain[h] = None
    BY <1>2 DEF UpdateHead, SameLinks
  <1>3. CASE d.chain[h] # None
    <2> HIDE DEF h
    <2>1. d.chain[h] \in ChainId
      BY <1>1, <1>3 DEF Db, Opt
    <2>2. /\ SameLinks(d, e) /\ e.chain = d.chain /\ e.sid = d.sid
          /\ \A c \in ChainId : e.head[c] = IF c = d.chain[h] THEN h ELSE d.head[c]
      BY <2>1 DEF Db, SameLinks
    <2> HIDE DEF e
    <2>3. HeadsAreMembers(e)
      BY <1>1, <2>1, <2>2 DEF ImportChains, HeadsAreMembers, SameLinks
    <2>4. MembersHaveHead(e)
      BY <1>1, <2>1, <2>2 DEF ImportChains, MembersHaveHead, SameLinks, Db, Opt
    <2>5. UpdateHead(d, p) = e
      BY <1>3 DEF UpdateHead, h, e
    <2> QED BY <2>2, <2>3, <2>4, <2>5 DEF ImportChains
  <1> QED BY <1>2, <1>3

(* Only a chain that has a head is given a SID. *)
LEMMA SetChainSidChains ==
    ASSUME NEW d \in Db, ImportChains(d), NEW c \in ChainId, d.head[c] # None,
           NEW s \in Opt(SeriesIds)
    PROVE  LET e == SetChainSid(d, c, s)
           IN  /\ ImportChains(e) /\ SameLinks(d, e)
               /\ e.chain = d.chain /\ e.head = d.head
               /\ \A b \in ChainId \ {c} : e.sid[b] = d.sid[b]
  <1> DEFINE e == [d EXCEPT !.sid[c] = s, !.names = @ \cup {s}]
  <1>1. CASE s = None
    BY <1>1 DEF SetChainSid, SameLinks
  <1>2. CASE s # None
    <2>1. /\ SameLinks(d, e) /\ e.chain = d.chain /\ e.head = d.head
          /\ \A b \in ChainId : e.sid[b] = IF b = c THEN s ELSE d.sid[b]
      BY DEF Db, SameLinks
    <2>2. SetChainSid(d, c, s) = e
      BY <1>2 DEF SetChainSid
    <2> HIDE DEF e
    <2>3. HeadsAreMembers(e)
      BY <2>1 DEF ImportChains, HeadsAreMembers, SameLinks
    <2>4. MembersHaveHead(e)
      BY <2>1 DEF ImportChains, MembersHaveHead, SameLinks, Opt
    <2> QED BY <2>1, <2>2, <2>3, <2>4 DEF ImportChains
  <1> QED BY <1>1, <1>2

(* The members of b move to a; b keeps neither SID nor head. *)
LEMMA MergeChainsChains ==
    ASSUME NEW d \in Db, ImportChains(d), NEW a \in ChainId, d.head[a] # None,
           NEW b \in Opt(ChainId)
    PROVE  LET e == MergeChains(d, a, b)
           IN  /\ ImportChains(e) /\ SameLinks(d, e) /\ e.head[a] = d.head[a]
               /\ \A p \in Did : d.chain[p] = None => e.chain[p] = None
  <1>1. CASE b \in {None, a}
    BY <1>1 DEF MergeChains, SameLinks
  <1>2. CASE b \notin {None, a}
    <2> DEFINE f == SetChainSid(d, a, d.sid[b])
               e == [f EXCEPT !.chain = [p \in Did |-> IF d.chain[p] = b THEN a ELSE d.chain[p]],
                              !.sid[b] = None,
                              !.head[b] = None]
    <2>0. b \in ChainId /\ b # a /\ None \notin ChainId
      BY <1>2, StoreAssumption DEF Opt
    <2>1. d.sid[b] \in Opt(SeriesIds) /\ d.sid[b] \in Opt(Did)
      BY <2>0 DEF ImportChains, MembersHaveHead, Db
    <2>2. f \in Db /\ ImportChains(f) /\ SameLinks(d, f) /\ f.chain = d.chain /\ f.head = d.head
      BY <2>1, SetChainSidType, SetChainSidChains
    <2> HIDE DEF f
    <2>3. /\ SameLinks(d, e)
          /\ \A p \in Did : e.chain[p] = IF f.chain[p] = b THEN a ELSE f.chain[p]
          /\ \A c \in ChainId : /\ e.sid[c] = IF c = b THEN None ELSE f.sid[c]
                                /\ e.head[c] = IF c = b THEN None ELSE f.head[c]
      BY <2>0, <2>2 DEF Db, SameLinks
    <2>4. MergeChains(d, a, b) = e
      BY <1>2 DEF MergeChains, f
    <2> HIDE DEF e
    <2>5. f.objects \subseteq Did
      BY <2>2 DEF Db
    <2>6. HeadsAreMembers(e)
      BY <2>0, <2>2, <2>3, <2>5 DEF ImportChains, HeadsAreMembers, SameLinks
    <2>7. MembersHaveHead(e)
      BY <2>0, <2>2, <2>3 DEF ImportChains, MembersHaveHead, SameLinks, Db, Opt
    <2> QED BY <2>0, <2>2, <2>3, <2>4, <2>6, <2>7 DEF ImportChains
  <1> QED BY <1>1, <1>2

(* A chain that an object joins has a head. *)
LEMMA JoinedChainHasHead ==
    ASSUME NEW d \in Db, ImportChains(d), NEW m \in Sysmeta, JoinedChain(d, m) # None
    PROVE  JoinedChain(d, m) \in ChainId /\ d.head[JoinedChain(d, m)] # None
  <1>1. JoinedChain(d, m) \in ChainId
    BY JoinedChainType DEF Opt
  <1>2. None \notin Did /\ d.objects \subseteq Did
    BY StoreAssumption DEF Db
  <1>3. \A q \in Opt(Did) : ChainOf(d, q) # None => d.head[ChainOf(d, q)] # None
    BY <1>2 DEF ImportChains, MembersHaveHead, ChainOf, Opt
  <1>4. \A c \in ChainId : d.sid[c] # None => d.head[c] # None
    BY <1>2 DEF ImportChains, HeadsAreMembers
  <1>5. CASE ChainOf(d, m.obsoletes) # None \/ ChainOf(d, m.obsoletedBy) # None
    BY <1>1, <1>3, <1>5 DEF JoinedChain, Sysmeta
  <1>6. CASE ChainOf(d, m.obsoletes) = None /\ ChainOf(d, m.obsoletedBy) = None
    <2>1. m.seriesId # None /\ IsSid(d, m.seriesId)
          /\ JoinedChain(d, m) = CHOOSE c \in ChainId : d.sid[c] = m.seriesId
      BY <1>6 DEF JoinedChain
    <2>2. d.sid[JoinedChain(d, m)] = m.seriesId
      BY <2>1 DEF IsSid
    <2> QED BY <1>1, <1>4, <2>1, <2>2
  <1> QED BY <1>1, <1>5, <1>6

(* A stored object becomes the head of a chain of its own, or a member of one. *)
LEMMA AddSciobjChains ==
    ASSUME NEW d \in Db, ImportChains(d), NEW m \in Sysmeta, m.pid \in d.objects,
           m.seriesId \in Opt(SeriesIds), d.chain[m.pid] = None, AddSciobjOk(d, m)
    PROVE  ImportChains(AddSciobj(d, m)) /\ SameLinks(d, AddSciobj(d, m))
  <1>0. /\ m.pid \in Did /\ None \notin Did /\ d.objects \subseteq Did /\ None \notin ChainId
        /\ m.obsoletedBy \in Opt(Did)
    BY StoreAssumption DEF Sysmeta, Db
  <1>1. CASE JoinedChain(d, m) = None
    <2> DEFINE c == FreeChain(d)
               e == [d EXCEPT !.chain[m.pid] = c, !.head[c] = m.pid]
    <2>1. c \in ChainId /\ d.head[c] = None
      BY <1>1 DEF AddSciobjOk, FreeChain
    <2> HIDE DEF c
    <2>2. /\ e \in Db /\ SameLinks(d, e) /\ e.sid = d.sid
          /\ \A q \in Did : e.chain[q] = IF q = m.pid THEN c ELSE d.chain[q]
          /\ \A b \in ChainId : e.head[b] = IF b = c THEN m.pid ELSE d.head[b]
      BY <1>0, <2>1 DEF Db, Opt, SameLinks
    <2>3. AddSciobj(d, m) = SetChainSid(e, c, m.seriesId)
      BY <1>1 DEF AddSciobj, c
    <2> HIDE DEF e
    <2>4. HeadsAreMembers(e)
      BY <1>0, <2>1, <2>2 DEF ImportChains, HeadsAreMembers, SameLinks
    <2>5. MembersHaveHead(e)
      <3>1. \A q \in Did : d.chain[q] # None => d.chain[q] \in ChainId
        BY DEF Db, Opt
      <3> QED BY <1>0, <2>1, <2>2, <3>1 DEF ImportChains, MembersHaveHead, SameLinks
    <2>6. ImportChains(SetChainSid(e, c, m.seriesId)) /\ SameLinks(e, SetChainSid(e, c, m.seriesId))
      BY <1>0, <2>1, <2>2, <2>4, <2>5, SetChainSidChains DEF ImportChains
    <2> QED BY <2>2, <2>3, <2>6 DEF SameLinks
  <1>2. CASE JoinedChain(d, m) # None
    <2> DEFINE c == JoinedChain(d, m)
               b == ChainOf(d, m.obsoletedBy)
               e == MergeChains(d, c, b)
               f == [e EXCEPT !.chain[m.pid] = c]
    <2>1. c \in ChainId /\ d.head[c] # None
      BY <1>2, JoinedChainHasHead
    <2>2. b \in Opt(ChainId)
      BY <1>0 DEF ChainOf, Db, Opt
    <2>3. /\ e \in Db /\ ImportChains(e) /\ SameLinks(d, e) /\ e.head[c] # None
          /\ e.chain[m.pid] = None
      BY <1>0, <2>1, <2>2, MergeChainsType, MergeChainsChains
    <2>4. AddSciobj(d, m) = SetChainSid(f, c, m.seriesId)
      BY <1>2 DEF AddSciobj
    <2> HIDE DEF e, c, b
    <2>5. /\ f \in Db /\ SameLinks(e, f) /\ f.sid = e.sid /\ f.head = e.head
          /\ \A q \in Did : f.chain[q] = IF q = m.pid THEN c ELSE e.chain[q]
      BY <1>0, <2>1, <2>3 DEF Db, Opt, SameLinks
    <2> HIDE DEF f
    <2>6. e.objects \subseteq Did /\ m.pid \in e.objects
      BY <2>3 DEF SameLinks, Db
    <2>7. HeadsAreMembers(f)
      BY <1>0, <2>1, <2>3, <2>5, <2>6 DEF ImportChains, HeadsAreMembers, SameLinks
    <2>8. MembersHaveHead(f)
      BY <1>0, <2>1, <2>3, <2>5, <2>6 DEF ImportChains, MembersHaveHead, SameLinks
    <2>9. ImportChains(SetChainSid(f, c, m.seriesId)) /\ SameLinks(f, SetChainSid(f, c, m.seriesId))
      BY <2>1, <2>3, <2>5, <2>7, <2>8, SetChainSidChains DEF ImportChains
    <2> QED BY <2>3, <2>4, <2>5, <2>9 DEF SameLinks
  <1> QED BY <1>1, <1>2

LEMMA CreateOrUpdateChainChains ==
    ASSUME NEW d \in Db, ImportChains(d), NEW m \in Sysmeta, m.pid \in d.objects,
           m.seriesId \in Opt(SeriesIds), CreateOrUpdateChainOk(d, m)
    PROVE  ImportChains(CreateOrUpdateChain(d, m)) /\ SameLinks(d, CreateOrUpdateChain(d, m))
  <1>1. CASE d.chain[m.pid] # None
    <2>1. d.chain[m.pid] \in ChainId /\ d.head[d.chain[m.pid]] # None
      BY <1>1 DEF Sysmeta, Db, Opt, ImportChains, MembersHaveHead
    <2> QED BY <1>1, <2>1, SetChainSidChains DEF CreateOrUpdateChain
  <1>2. CASE d.chain[m.pid] = None
    BY <1>2, AddSciobjChains DEF CreateOrUpdateChain, CreateOrUpdateChainOk
  <1> QED BY <1>1, <1>2

(* create_or_update() keeps the chains, and its links are those that          *)
(* set_revision_links() sets.                                                 *)
LEMMA CreateOrUpdateChains ==
    ASSUME NEW d \in Db, ImportChains(d), NEW m \in Sysmeta,
           m.seriesId \in Opt(SeriesIds), CreateOrUpdateOk(d, m)
    PROVE  LET e == CreateOrUpdate(d, m)
           IN  /\ e \in Db /\ ImportChains(e) /\ SameLinks(Linked(d, m), e)
               /\ UniqueLinks(e) /\ FindHeadOk(e, m.pid)
  <1> DEFINE k == Linked(d, m)
             f == CreateOrUpdateChain(k, m)
             e == UpdateHead(f, m.pid)
  <1>0. m.pid \in Did /\ d.objects \subseteq Did
    BY DEF Sysmeta, Db
  <1>1. /\ k \in Db /\ k.objects = d.objects \cup {m.pid}
        /\ k.chain = d.chain /\ k.head = d.head /\ k.sid = d.sid
    BY LinkedType, LinkedColumns
  <1>2. UniqueLinks(k) /\ CreateOrUpdateChainOk(k, m) /\ UpdateHeadOk(f, m.pid)
    BY DEF CreateOrUpdateOk
  <1>3. CreateOrUpdate(d, m) = e
    BY DEF CreateOrUpdate
  <1> HIDE DEF k
  <1>4. ImportChains(k)
    BY <1>1 DEF ImportChains, HeadsAreMembers, MembersHaveHead
  <1>5. f \in Db /\ ImportChains(f) /\ SameLinks(k, f)
    BY <1>1, <1>2, <1>4, CreateOrUpdateChainType, CreateOrUpdateChainChains
  <1> HIDE DEF f
  <1>6. e \in Db /\ ImportChains(e) /\ SameLinks(f, e)
    BY <1>0, <1>2, <1>5, UpdateHeadType, UpdateHeadChains
  <1> HIDE DEF e
  <1>7. FindHeadOk(e, m.pid)
    BY <1>2, <1>5, <1>6, LinksOnly DEF UpdateHeadOk, SameLinks
  <1>8. SameLinks(k, e) /\ UniqueLinks(e)
    BY <1>2, <1>5, <1>6 DEF SameLinks, UniqueLinks
  <1> QED BY <1>3, <1>6, <1>7, <1>8 DEF k

-----------------------------------------------------------------------------
(* Deleting an object from such a node.                                     *)

(* While p is being deleted, a chain may still have p as its head. *)
HeadsAreMembersOr(d, p) ==
    \A c \in ChainId : d.sid[c] # None \/ d.head[c] # None =>
        d.head[c] = p \/ (d.head[c] \in d.objects /\ d.chain[d.head[c]] = c)

(* The object is cut out of its chain, and its neighbours are joined. *)
LEMMA DetachedCuts ==
    ASSUME NEW d \in Db, ImportLinks(d), ImportChains(d), NEW p, DeleteSciobjOk(d, p)
    PROVE  LET e == Detached(d, p)
           IN  /\ Cuttable(d, p)
               /\ e \in Db /\ ImportChains(e) /\ e.objects = d.objects
               /\ \A q \in Did :
                    /\ e.obsoletes[q] = IF q = p THEN None
                                        ELSE IF q = d.obsoletedBy[p] THEN d.obsoletes[p]
                                        ELSE d.obsoletes[q]
                    /\ e.obsoletedBy[q] = IF q = p THEN None
                                          ELSE IF q = d.obsoletes[p] THEN d.obsoletedBy[p]
                                          ELSE d.obsoletedBy[q]
  <1>0. p \in d.objects /\ p \in Did /\ None \notin Did
    BY StoreAssumption DEF DeleteSciobjOk, Db
  <1>1. CASE IsInRevisionChain(d, p)
    <2> DEFINE k == CloseGap(d, p)
               n == RemainingNeighbour(d, p)
               e == UpdateHead(k, n)
    <2>1. n \in Did
      BY <1>0, <1>1 DEF RemainingNeighbour, IsInRevisionChain, Db, Opt
    <2>2. Cuttable(d, p) /\ UpdateHeadOk(k, n)
      BY <1>0, <1>1 DEF DeleteSciobjOk, CutFromChainOk, Cuttable, Opt
    <2>3. /\ k.objects = d.objects /\ k.chain = d.chain /\ k.sid = d.sid /\ k.head = d.head
          /\ \A q \in Did :
               /\ k.obsoletes[q] = IF q = p THEN None
                                   ELSE IF q = d.obsoletedBy[p] THEN d.obsoletes[p]
                                   ELSE d.obsoletes[q]
               /\ k.obsoletedBy[q] = IF q = p THEN None
                                     ELSE IF q = d.obsoletes[p] THEN d.obsoletedBy[p]
                                     ELSE d.obsoletedBy[q]
      <3>1. p \notin {d.obsoletes[p], d.obsoletedBy[p]}
            /\ (d.obsoletes[p] = None \/ d.obsoletes[p] # d.obsoletedBy[p])
        BY <1>0, <2>2, NoLinkToItself, NoTwoCycle DEF Cuttable, Opt
      <3> QED BY <1>0, <3>1, CloseGapType, CloseGapIs
    <2>4. k \in Db
      BY <1>0, CloseGapType
    <2>5. Detached(d, p) = e
      BY <1>1 DEF Detached, CutFromChain
    <2> HIDE DEF k, n
    <2>6. ImportChains(k)
      BY <2>3 DEF ImportChains, HeadsAreMembers, MembersHaveHead
    <2>7. e \in Db /\ ImportChains(e) /\ SameLinks(k, e)
      BY <2>1, <2>2, <2>4, <2>6, UpdateHeadType, UpdateHeadChains
    <2> QED BY <2>2, <2>3, <2>5, <2>7 DEF SameLinks
  <1>2. CASE ~IsInRevisionChain(d, p)
    <2>1. Detached(d, p) = d /\ d.obsoletes[p] = None /\ d.obsoletedBy[p] = None
      BY <1>2 DEF Detached, IsInRevisionChain
    <2>2. Cuttable(d, p)
      BY <1>0, <2>1 DEF Cuttable, Opt
    <2> QED BY <1>0, <2>1, <2>2
  <1> QED BY <1>1, <1>2

(* The chain of p goes with its last member, and with its SID no object,     *)
(* because no identifier is both an object's and a series'.                  *)
LEMMA DeleteChainChains ==
    ASSUME ObjectIds \cap SeriesIds = {},
           NEW d \in Db, ImportChains(d), NEW p \in d.objects, d.chain[p] # None,
           d.objects \subseteq ObjectIds,
           \A q \in Did : d.obsoletes[q] \in Opt(ObjectIds) /\ d.obsoletedBy[q] \in Opt(ObjectIds)
    PROVE  LET f == DeleteChain(d, p)
           IN  SameLinks(d, f) /\ HeadsAreMembersOr(f, p) /\ MembersHaveHead(f)
  <1> DEFINE c == d.chain[p]
             e == [d EXCEPT !.chain[p] = None]
  <1>0. /\ p \in Did /\ c \in ChainId /\ d.objects \subseteq Did
        /\ None \notin Did /\ None \notin ChainId
    BY StoreAssumption DEF Db, Opt
  <1>1. /\ e \in Db /\ SameLinks(d, e) /\ e.sid = d.sid /\ e.head = d.head
        /\ \A q \in Did : e.chain[q] = IF q = p THEN None ELSE d.chain[q]
    BY <1>0 DEF Db, Opt, SameLinks
  <1>2. DeleteChain(d, p) = IF Members(e, c) # {} THEN e
                            ELSE IF d.sid[c] # None THEN DeleteDid(e, d.sid[c])
                            ELSE [e EXCEPT !.head[c] = None]
    BY DEF DeleteChain
  <1> HIDE DEF e
  <1>3. HeadsAreMembersOr(e, p) /\ MembersHaveHead(e)
    BY <1>0, <1>1 DEF ImportChains, HeadsAreMembers, HeadsAreMembersOr, MembersHaveHead, SameLinks
  <1>4. CASE Members(e, c) # {}
    BY <1>1, <1>2, <1>3, <1>4
  <1>5. CASE Members(e, c) = {} /\ d.sid[c] # None
    <2> DEFINE s == d.sid[c]
               f == DeleteDid(e, s)
               lost == {b \in ChainId : s \in {e.sid[b], e.head[b]}}
    <2>1. s \in SeriesIds /\ s \notin Opt(ObjectIds) /\ s \notin d.objects
      BY <1>0, <1>5 DEF ImportChains, MembersHaveHead, Opt
    <2>2. {q \in e.objects : s \in {q, e.obsoletes[q], e.obsoletedBy[q]}} = {}
      BY <1>0, <1>1, <2>1 DEF SameLinks
    <2>3. /\ SameLinks(e, f)
          /\ \A q \in Did : f.chain[q] = IF q = s \/ e.chain[q] \in lost THEN None ELSE e.chain[q]
          /\ \A b \in ChainId : /\ f.sid[b] = IF b \in lost THEN None ELSE e.sid[b]
                                /\ f.head[b] = IF b \in lost THEN None ELSE e.head[b]
      BY <1>1, <2>2 DEF DeleteDid, SameLinks, Db
    <2>4. \A q \in Did : e.chain[q] \in Opt(ChainId)
      BY <1>1 DEF Db
    <2> HIDE DEF s, f, lost
    <2>5. HeadsAreMembersOr(f, p)
      <3> SUFFICES ASSUME NEW b \in ChainId, f.sid[b] # None \/ f.head[b] # None, f.head[b] # p
                   PROVE  f.head[b] \in f.objects /\ f.chain[f.head[b]] = b
        BY DEF HeadsAreMembersOr
      <3>1. b \notin lost /\ f.head[b] = e.head[b] /\ f.sid[b] = e.sid[b]
        BY <2>3
      <3>2. e.head[b] \in e.objects /\ e.chain[e.head[b]] = b
        BY <1>3, <3>1 DEF HeadsAreMembersOr
      <3>3. e.head[b] \in Did /\ e.head[b] # s
        BY <1>0, <1>1, <2>1, <3>2 DEF SameLinks
      <3> QED BY <2>3, <3>1, <3>2, <3>3 DEF SameLinks
    <2>6. MembersHaveHead(f)
      BY <1>0, <1>3, <2>3, <2>4 DEF MembersHaveHead, SameLinks, Opt
    <2>7. DeleteChain(d, p) = f
      BY <1>2, <1>5 DEF f, s
    <2> QED BY <1>1, <2>3, <2>5, <2>6, <2>7 DEF SameLinks
  <1>6. CASE Members(e, c) = {} /\ d.sid[c] = None
    <2> DEFINE f == [e EXCEPT !.head[c] = None]
    <2>1. /\ SameLinks(e, f) /\ f.chain = e.chain /\ f.sid = e.sid
          /\ \A b \in ChainId : f.head[b] = IF b = c THEN None ELSE e.head[b]
      BY <1>1 DEF SameLinks, Db
    <2>2. \A q \in Did : e.chain[q] # c
      BY <1>6 DEF Members
    <2>3. \A q \in Did : e.chain[q] \in Opt(ChainId)
      BY <1>1 DEF Db
    <2>4. DeleteChain(d, p) = f
      BY <1>2, <1>6
    <2> HIDE DEF f, c
    <2>5. HeadsAreMembersOr(f, p)
      BY <1>0, <1>1, <1>3, <1>6, <2>1 DEF HeadsAreMembersOr, SameLinks
    <2>6. MembersHaveHead(f)
      BY <1>0, <1>3, <2>1, <2>2, <2>3 DEF MembersHaveHead, SameLinks, Opt
    <2> QED BY <1>1, <2>1, <2>4, <2>5, <2>6 DEF SameLinks
  <1> QED BY <1>4, <1>5, <1>6

(* Then the row of p goes, to which no link is left, and each chain whose    *)
(* head it still is.                                                         *)
LEMMA DeleteRowChains ==
    ASSUME NEW f, NEW p \in f.objects, HeadsAreMembersOr(f, p), MembersHaveHead(f),
           f.objects \subseteq Did, \A q \in Did : f.chain[q] \in Opt(ChainId),
           f.obsoletes \in [Did -> Opt(Did)], f.obsoletedBy \in [Did -> Opt(Did)],
           \A q \in f.objects : q # p => f.obsoletes[q] # p /\ f.obsoletedBy[q] # p
    PROVE  LET r == DeleteDid(f, p)
           IN  /\ ImportChains(r) /\ r.objects = f.objects \ {p}
               /\ \A q \in Did : /\ r.obsoletes[q] = IF q = p THEN None ELSE f.obsoletes[q]
                                 /\ r.obsoletedBy[q] = IF q = p THEN None ELSE f.obsoletedBy[q]
  <1> DEFINE r == DeleteDid(f, p)
             lost == {b \in ChainId : p \in {f.sid[b], f.head[b]}}
  <1>0. p \in Did /\ None \notin Did /\ None \notin ChainId
    BY StoreAssumption
  <1>1. {q \in f.objects : p \in {q, f.obsoletes[q], f.obsoletedBy[q]}} = {p}
    OBVIOUS
  <1>2. /\ r.objects = f.objects \ {p}
        /\ \A q \in Did : /\ r.obsoletes[q] = IF q = p THEN None ELSE f.obsoletes[q]
                          /\ r.obsoletedBy[q] = IF q = p THEN None ELSE f.obsoletedBy[q]
        /\ \A q \in Did : r.chain[q] = IF q = p \/ f.chain[q] \in lost THEN None ELSE f.chain[q]
        /\ \A b \in ChainId : /\ r.sid[b] = IF b \in lost THEN None ELSE f.sid[b]
                              /\ r.head[b] = IF b \in lost THEN None ELSE f.head[b]
    BY <1>1 DEF DeleteDid
  <1>3. \A b \in ChainId \ lost : f.head[b] # p
    OBVIOUS
  <1> HIDE DEF r, lost
  <1>4. HeadsAreMembers(r)
    <2> SUFFICES ASSUME NEW b \in ChainId, r.sid[b] # None \/ r.head[b] # None
                 PROVE  r.head[b] \in r.objects /\ r.chain[r.head[b]] = b
      BY DEF HeadsAreMembers
    <2>1. b \notin lost /\ r.head[b] = f.head[b] /\ r.sid[b] = f.sid[b]
      BY <1>2
    <2>2. f.head[b] \in f.objects /\ f.chain[f.head[b]] = b /\ f.head[b] # p
      BY <1>3, <2>1 DEF HeadsAreMembersOr
    <2> QED BY <1>2, <2>1, <2>2
  <1>5. MembersHaveHead(r)
    BY <1>0, <1>2 DEF MembersHaveHead, Opt
  <1> QED BY <1>2, <1>4, <1>5 DEF ImportChains, r

(* delete_sciobj_from_database(). *)
LEMMA DeleteSciobjCuts ==
    ASSUME ObjectIds \cap SeriesIds = {},
           NEW d \in Db, ImportLinks(d), ImportChains(d), NEW p, DeleteSciobjOk(d, p)
    PROVE  LET r == DeleteSciobj(d, p)
           IN  r \in Db /\ Cuttable(d, p) /\ CutLinks(d, r, p) /\ ImportChains(r)
  <1> DEFINE e == Detached(d, p)
             f == DeleteChain(e, p)
             r == DeleteDid(f, p)
  <1>1. /\ Cuttable(d, p) /\ p \in d.objects
        /\ e \in Db /\ ImportChains(e) /\ e.objects = d.objects
        /\ \A q \in Did :
             /\ e.obsoletes[q] = IF q = p THEN None
                                 ELSE IF q = d.obsoletedBy[p] THEN d.obsoletes[p]
                                 ELSE d.obsoletes[q]
             /\ e.obsoletedBy[q] = IF q = p THEN None
                                   ELSE IF q = d.obsoletes[p] THEN d.obsoletedBy[p]
                                   ELSE d.obsoletedBy[q]
        /\ e.chain[p] # None
    BY DetachedCuts DEF DeleteSciobjOk
  <1>2. /\ p \in Did /\ d.objects \subseteq Did /\ None \notin Did
        /\ d.obsoletedBy[p] # p /\ d.obsoletes[p] # p
        /\ \A q \in d.objects : /\ d.obsoletedBy[q] = p <=> q = d.obsoletes[p]
                                /\ d.obsoletes[q] = p <=> q = d.obsoletedBy[p]
    BY <1>1, Neighbours
  <1>3. r \in Db /\ DeleteSciobj(d, p) = r
    BY <1>2, DeleteSciobjType DEF DeleteSciobj
  <1> HIDE DEF e
  <1>4. /\ d.objects \subseteq ObjectIds
        /\ \A q \in Did : d.obsoletes[q] \in Opt(ObjectIds) /\ d.obsoletedBy[q] \in Opt(ObjectIds)
    BY DEF ImportLinks, RowsKnown
  <1>5. \A q \in Did : e.obsoletes[q] \in Opt(ObjectIds) /\ e.obsoletedBy[q] \in Opt(ObjectIds)
    BY <1>1, <1>2, <1>4 DEF Opt
  <1>6. SameLinks(e, f) /\ HeadsAreMembersOr(f, p) /\ MembersHaveHead(f)
    BY <1>1, <1>4, <1>5, DeleteChainChains
  <1>7. \A q \in Did : f.chain[q] \in Opt(ChainId)
    BY <1>1, DeleteDidType DEF DeleteChain, Db, Opt
  <1> HIDE DEF f
  <1>8. \A q \in f.objects : q # p => f.obsoletes[q] # p /\ f.obsoletedBy[q] # p
    BY <1>1, <1>2, <1>6 DEF SameLinks
  <1>9. /\ ImportChains(r) /\ r.objects = f.objects \ {p}
        /\ \A q \in Did : /\ r.obsoletes[q] = IF q = p THEN None ELSE f.obsoletes[q]
                          /\ r.obsoletedBy[q] = IF q = p THEN None ELSE f.obsoletedBy[q]
    <2>1. /\ p \in f.objects /\ f.objects \subseteq Did
          /\ f.obsoletes \in [Did -> Opt(Did)] /\ f.obsoletedBy \in [Did -> Opt(Did)]
      BY <1>1, <1>2, <1>6 DEF SameLinks, Db
    <2> QED BY <1>6, <1>7, <1>8, <2>1, DeleteRowChains
  <1> HIDE DEF r
  <1>10. CutLinks(d, r, p)
    BY <1>1, <1>6, <1>9 DEF CutLinks, SameLinks
  <1> QED BY <1>1, <1>3, <1>9, <1>10

-----------------------------------------------------------------------------
(* The recursion of _find_head_or_latest_connected().                       *)

(* A walk has one end. *)
LEMMA OneEnd ==
    ASSUME NEW d, NEW p \in d.objects, NEW g \in Visited(d, p), NEW h \in Visited(d, p),
           WalkStops(d, g), WalkStops(d, h)
    PROVE  g = h
  <1> DEFINE S == {q \in Visited(d, p) : h \in Visited(d, q)}
  <1>0. p \in Visited(d, p) /\ Visited(d, p) \subseteq d.objects
    BY VisitedClosed
  <1>1. ASSUME NEW q \in S, d.obsoletedBy[q] \in d.objects
        PROVE  d.obsoletedBy[q] \in S
    <2> DEFINE r == d.obsoletedBy[q]
    <2>1. r \in Visited(d, p)
      BY <1>1, VisitedClosed DEF ClosedUnderNewer
    <2>2. q # h
      BY <1>1 DEF WalkStops
    <2>3. h \in Visited(d, r)
      <3>1. ClosedUnderNewer(d, {q} \cup Visited(d, r)) /\ {q} \cup Visited(d, r) \subseteq d.objects
        BY <1>0, <1>1, VisitedClosed DEF ClosedUnderNewer
      <3>2. h \in {q} \cup Visited(d, r)
        BY <1>1, <3>1, VisitedInClosed
      <3> QED BY <2>2, <3>2
    <2> QED BY <2>1, <2>3
  <1>2. S \in SUBSET d.objects /\ ClosedUnderNewer(d, S) /\ p \in S
    BY <1>0, <1>1 DEF ClosedUnderNewer
  <1>3. h \in Visited(d, g)
    BY <1>2, VisitedInClosed
  <1>4. ClosedUnderNewer(d, {g}) /\ {g} \in SUBSET d.objects
    BY <1>0 DEF ClosedUnderNewer, WalkStops
  <1>5. Visited(d, g) \subseteq {g}
    BY <1>4, VisitedInClosed
  <1> QED BY <1>3, <1>5

(* One step of the walk does not change where it ends. *)
LEMMA FindHeadStep ==
    ASSUME NEW d \in Db, WalksStop(d), NEW p \in d.objects
    PROVE  FindHead(d, p) = IF d.obsoletedBy[p] \in d.objects
                            THEN FindHead(d, d.obsoletedBy[p]) ELSE p
  <1>1. \A q \in d.objects : FindHead(d, q) \in Visited(d, q) /\ WalkStops(d, FindHead(d, q))
    BY DEF WalksStop, FindHeadOk, FindHead
  <1>2. CASE d.obsoletedBy[p] \in d.objects
    <2>1. d.obsoletedBy[p] \in Visited(d, p)
      BY <1>2, VisitedClosed DEF ClosedUnderNewer
    <2>2. FindHead(d, d.obsoletedBy[p]) \in Visited(d, p)
      BY <1>1, <1>2, <2>1, VisitedOnward
    <2> QED BY <1>1, <1>2, <2>2, OneEnd
  <1>3. CASE d.obsoletedBy[p] \notin d.objects
    BY <1>1, <1>3, OneEnd, VisitedClosed DEF WalkStops
  <1> QED BY <1>2, <1>3

(* The recursion is well defined, for there is a function that solves it. *)
LEMMA LatestConnectedStep ==
    ASSUME NEW d \in Db, WalksStop(d)
    PROVE  LET f == LatestConnected(d)
           IN  \A p \in Opt(Did), last \in Opt(Did) :
                 f[p][last] = IF p \notin d.objects THEN last
                              ELSE IF d.obsoletedBy[p] = None THEN p
                              ELSE f[d.obsoletedBy[p]][p]
  <1> DEFINE R(f) == [p \in Opt(Did) |->
                        [last \in Opt(Did) |->
                            IF p \notin d.objects THEN last
                            ELSE IF d.obsoletedBy[p] = None THEN p
                            ELSE f[d.obsoletedBy[p]][p]]]
             g == [p \in Opt(Did) |->
                     [last \in Opt(Did) |-> IF p \in d.objects THEN FindHead(d, p) ELSE last]]
  <1>1. LatestConnected(d) = CHOOSE f : f = R(f)
    BY DEF LatestConnected
  <1>2. g = R(g)
    <2>1. ASSUME NEW p \in Opt(Did), NEW last \in Opt(Did)
          PROVE  g[p][last] = R(g)[p][last]
      <3>1. CASE p \notin d.objects
        BY <3>1
      <3>2. CASE p \in d.objects
        <4>1. p \in Did /\ p \in Opt(Did) /\ d.obsoletedBy[p] \in Opt(Did) /\ None \notin d.objects
          BY <3>2, StoreAssumption DEF Db, Opt
        <4>2. g[d.obsoletedBy[p]][p] = IF d.obsoletedBy[p] \in d.objects
                                       THEN FindHead(d, d.obsoletedBy[p]) ELSE p
          BY <4>1
        <4>3. g[p][last] = FindHead(d, p)
          BY <3>2
        <4>4. R(g)[p][last] = IF d.obsoletedBy[p] = None THEN p ELSE g[d.obsoletedBy[p]][p]
          <5> HIDE DEF g
          <5> QED BY <3>2
        <4> HIDE DEF g, R
        <4> QED BY <3>2, <4>1, <4>2, <4>3, <4>4, FindHeadStep
      <3> QED BY <3>1, <3>2
    <2>2. \A p \in Opt(Did) : g[p] = R(g)[p]
      BY <2>1
    <2> QED BY <2>2
  <1>3. LatestConnected(d) = R(LatestConnected(d))
    <2> HIDE DEF R, g
    <2> QED BY <1>1, <1>2, Zenon
  <1> QED BY <1>3

(* What the recursion returns is where the walk ends. *)
LEMMA LatestIsHead ==
    ASSUME NEW d \in Db, WalksStop(d), NEW p \in d.objects
    PROVE  FindHead(d, p) = LatestConnected(d)[p][None]
  <1> DEFINE f == LatestConnected(d)
             D == {q \in d.objects : \E last \in Opt(Did) : f[q][last] # FindHead(d, q)}
  <1>0. d.objects \subseteq Opt(Did) /\ None \in Opt(Did) /\ None \notin d.objects
        /\ \A q \in d.objects : d.obsoletedBy[q] \in Opt(Did)
    BY StoreAssumption DEF Db, Opt
  <1>1. \A q \in Opt(Did), last \in Opt(Did) :
          f[q][last] = IF q \notin d.objects THEN last
                       ELSE IF d.obsoletedBy[q] = None THEN q
                       ELSE f[d.obsoletedBy[q]][q]
    BY LatestConnectedStep
  <1> HIDE DEF f
  <1>2. \A q \in D : d.obsoletedBy[q] \in D
    <2> SUFFICES ASSUME NEW q \in d.objects, NEW last \in Opt(Did), f[q][last] # FindHead(d, q)
                 PROVE  d.obsoletedBy[q] \in D
      OBVIOUS
    <2> DEFINE r == d.obsoletedBy[q]
    <2>1. q \in Opt(Did) /\ r \in Opt(Did)
      BY <1>0
    <2>2. FindHead(d, q) = IF r \in d.objects THEN FindHead(d, r) ELSE q
      BY FindHeadStep
    <2>3. f[q][last] = IF r = None THEN q ELSE f[r][q]
      BY <1>1, <2>1
    <2>4. r \notin d.objects => f[r][q] = q
      BY <1>1, <2>1
    <2>5. r \in d.objects /\ f[r][q] # FindHead(d, r)
      BY <1>0, <2>2, <2>3, <2>4
    <2> QED BY <2>1, <2>5
  <1>3. ASSUME p \in D PROVE FALSE
    <2>1. D \in SUBSET d.objects /\ ClosedUnderNewer(d, D)
      BY <1>2 DEF ClosedUnderNewer
    <2>2. Visited(d, p) \subseteq D
      BY <1>3, <2>1, VisitedInClosed
    <2>3. PICK h \in Visited(d, p) : WalkStops(d, h)
      BY DEF WalksStop, FindHeadOk
    <2> QED BY <1>2, <2>1, <2>2, <2>3 DEF WalkStops
  <1>4. \A last \in Opt(Did) : f[p][last] = FindHead(d, p)
    BY <1>3
  <1> QED BY <1>0, <1>4 DEF f

-----------------------------------------------------------------------------
(* No walk gets onto a cycle, whatever links are stored and cut.            *)

(* The functions that edit chains leave the links alone. *)
LEMMA SetChainSidLinks ==
    ASSUME NEW d \in Db, NEW c, NEW s
    PROVE  SameLinks(d, SetChainSid(d, c, s))
  BY DEF SetChainSid, SameLinks, Db

LEMMA MergeChainsLinks ==
    ASSUME NEW d \in Db, NEW a \in ChainId, NEW b \in Opt(ChainId)
    PROVE  SameLinks(d, MergeChains(d, a, b))
  <1>1. CASE b \in {None, a}
    BY <1>1 DEF MergeChains, SameLinks
  <1>2. CASE b \notin {None, a}
    <2> DEFINE e == SetChainSid(d, a, d.sid[b])
    <2>1. d.sid[b] \in Opt(Did)
      BY <1>2 DEF Opt, Db
    <2>2. e \in Db /\ SameLinks(d, e)
      BY <2>1, SetChainSidType, SetChainSidLinks
    <2> HIDE DEF e
    <2>3. SameLinks(e, [e EXCEPT !.chain = [p \in Did |-> IF d.chain[p] = b THEN a ELSE d.chain[p]],
                                 !.sid[b] = None,
                                 !.head[b] = None])
      BY <2>2 DEF Db, SameLinks
    <2> QED BY <1>2, <2>2, <2>3 DEF MergeChains, SameLinks, e
  <1> QED BY <1>1, <1>2

LEMMA CreateOrUpdateChainLinks ==
    ASSUME NEW d \in Db, NEW m \in Sysmeta, CreateOrUpdateChainOk(d, m)
    PROVE  SameLinks(d, CreateOrUpdateChain(d, m))
  <1>0. m.pid \in Did /\ m.seriesId \in Opt(Did) /\ m.obsoletedBy \in Opt(Did)
    BY DEF Sysmeta
  <1>1. CASE d.chain[m.pid] # None
    BY <1>1, SetChainSidLinks DEF CreateOrUpdateChain
  <1>2. CASE d.chain[m.pid] = None /\ JoinedChain(d, m) = None
    <2> DEFINE c == FreeChain(d)
               e == [d EXCEPT !.chain[m.pid] = c, !.head[c] = m.pid]
    <2>1. c \in ChainId
      BY <1>2 DEF CreateOrUpdateChainOk, AddSciobjOk, FreeChain
    <2> HIDE DEF c
    <2>2. e \in Db /\ SameLinks(d, e)
      BY <1>0, <2>1 DEF Db, Opt, SameLinks
    <2> HIDE DEF e
    <2>3. SameLinks(e, SetChainSid(e, c, m.seriesId))
      BY <2>2, SetChainSidLinks
    <2> QED BY <1>2, <2>2, <2>3 DEF CreateOrUpdateChain, AddSciobj, SameLinks, c, e
  <1>3. CASE d.chain[m.pid] = None /\ JoinedChain(d, m) # None
    <2> DEFINE c == JoinedChain(d, m)
               b == ChainOf(d, m.obsoletedBy)
               e == MergeChains(d, c, b)
               f == [e EXCEPT !.chain[m.pid] = c]
    <2>1. c \in ChainId /\ b \in Opt(ChainId)
      BY <1>0, <1>3, JoinedChainType DEF ChainOf, Db, Opt
    <2>2. e \in Db /\ SameLinks(d, e)
      BY <2>1, MergeChainsType, MergeChainsLinks
    <2> HIDE DEF e, c
    <2>3. f \in Db /\ SameLinks(e, f)
      BY <1>0, <2>1, <2>2 DEF Db, Opt, SameLinks
    <2> HIDE DEF f
    <2>4. SameLinks(f, SetChainSid(f, c, m.seriesId))
      BY <2>3, SetChainSidLinks
    <2> QED BY <1>3, <2>2, <2>3, <2>4 DEF CreateOrUpdateChain, AddSciobj, SameLinks, c, e, f
  <1> QED BY <1>1, <1>2, <1>3

LEMMA UpdateHeadLinks ==
    ASSUME NEW d \in Db, NEW p
    PROVE  SameLinks(d, UpdateHead(d, p))
  BY DEF UpdateHead, SameLinks, Db

(* create_or_update(): the walk from the stored object is made. *)
LEMMA CreateOrUpdateLinks ==
    ASSUME NEW d \in Db, NEW m \in Sysmeta, CreateOrUpdateOk(d, m)
    PROVE  LET e == CreateOrUpdate(d, m)
           IN  e \in Db /\ SameLinks(Linked(d, m), e) /\ FindHeadOk(e, m.pid)
  <1> DEFINE k == Linked(d, m)
             f == CreateOrUpdateChain(k, m)
             e == UpdateHead(f, m.pid)
  <1>1. k \in Db /\ m.pid \in Did
    BY LinkedType DEF Sysmeta
  <1>2. CreateOrUpdateChainOk(k, m) /\ UpdateHeadOk(f, m.pid)
    BY DEF CreateOrUpdateOk
  <1>3. CreateOrUpdate(d, m) = e
    BY DEF CreateOrUpdate
  <1> HIDE DEF k
  <1>4. f \in Db /\ SameLinks(k, f)
    BY <1>1, <1>2, CreateOrUpdateChainType, CreateOrUpdateChainLinks
  <1> HIDE DEF f
  <1>5. e \in Db /\ SameLinks(f, e)
    BY <1>1, <1>2, <1>4, UpdateHeadType, UpdateHeadLinks
  <1> HIDE DEF e
  <1>6. FindHeadOk(e, m.pid)
    BY <1>2, <1>4, <1>5, LinksOnly DEF UpdateHeadOk, SameLinks
  <1> QED BY <1>3, <1>4, <1>5, <1>6 DEF k, SameLinks

LEMMA StoreWalks ==
    ASSUME NEW d \in Db, WalksStop(d), NEW m \in Sysmeta, CreateOrUpdateOk(d, m)
    PROVE  WalksStop(CreateOrUpdate(d, m))
  <1> DEFINE e == CreateOrUpdate(d, m)
             k == Linked(d, m)
  <1>1. SameLinks(k, e) /\ FindHeadOk(e, m.pid) /\ e \in Db
    BY CreateOrUpdateLinks
  <1>2. /\ k.objects = d.objects \cup {m.pid}
        /\ \A q \in Did \ {m.pid} : k.obsoletedBy[q] \in {m.pid, d.obsoletedBy[q]}
    BY LinkedColumns
  <1> HIDE DEF e, k
  <1>3. /\ e.objects \subseteq d.objects \cup {m.pid}
        /\ \A q \in e.objects \ {m.pid} : e.obsoletedBy[q] \in {m.pid, d.obsoletedBy[q]}
    BY <1>1, <1>2 DEF SameLinks, Db
  <1>4. WalksStop(e)
    BY <1>1, <1>3, WalksStillStop
  <1> QED BY <1>4 DEF e

(* Rows that go take no walk's end with them. *)
LEMMA DeleteDidWalks ==
    ASSUME NEW d \in Db, WalksStop(d), NEW x
    PROVE  WalksStop(DeleteDid(d, x))
  <1> DEFINE e == DeleteDid(d, x)
  <1>1. /\ e.objects \subseteq d.objects /\ d.objects \subseteq Did
        /\ \A q \in e.objects : e.obsoletedBy[q] = d.obsoletedBy[q]
    BY DEF DeleteDid, Db
  <1>2. None \notin e.objects
    BY <1>1, StoreAssumption
  <1> HIDE DEF e
  <1>3. WalksStop(e)
    BY <1>1, <1>2, WalksStillStop
  <1> QED BY <1>3 DEF e

(* The walk from the remaining neighbour is made. *)
LEMMA DetachedWalks ==
    ASSUME NEW d \in Db, WalksStop(d), NEW p, DeleteSciobjOk(d, p)
    PROVE  Detached(d, p) \in Db /\ WalksStop(Detached(d, p))
  <1>0. p \in d.objects /\ p \in Did /\ None \notin Did
    BY StoreAssumption DEF DeleteSciobjOk, Db
  <1>1. CASE IsInRevisionChain(d, p)
    <2> DEFINE k == CloseGap(d, p)
               n == RemainingNeighbour(d, p)
               e == UpdateHead(k, n)
    <2>1. n \in Did /\ UpdateHeadOk(k, n)
      BY <1>0, <1>1 DEF RemainingNeighbour, IsInRevisionChain, Db, Opt,
                        DeleteSciobjOk, CutFromChainOk
    <2>2. k \in Db /\ k.objects = d.objects
      BY <1>0, CloseGapType
    <2>3. \A q \in Did : k.obsoletedBy[q] \in {None, d.obsoletedBy[p], d.obsoletedBy[q]}
      <3> DEFINE f == CloseGapOlder(d, p)
      <3>1. \A q \in Did :
              f.obsoletedBy[q] = IF q = d.obsoletes[p] THEN d.obsoletedBy[p]
                                 ELSE IF q = p THEN None ELSE d.obsoletedBy[q]
        BY <1>0, CloseGapOlderType
      <3>2. \A q \in Did :
              k.obsoletedBy[q] = IF q = d.obsoletedBy[p] THEN d.obsoletedBy[q]
                                 ELSE f.obsoletedBy[q]
        BY <1>0, CloseGapType
      <3> HIDE DEF k, f
      <3> QED BY <3>1, <3>2
    <2>4. Detached(d, p) = e
      BY <1>1 DEF Detached, CutFromChain
    <2>5. d.obsoletedBy[p] \in {None, n}
      BY DEF RemainingNeighbour
    <2> HIDE DEF k, n
    <2>6. e \in Db /\ SameLinks(k, e)
      BY <2>1, <2>2, UpdateHeadType, UpdateHeadLinks
    <2> HIDE DEF e
    <2>7. FindHeadOk(e, n)
      BY <2>1, <2>2, <2>6, LinksOnly DEF SameLinks, UpdateHeadOk
    <2>8. /\ e.objects = d.objects /\ d.objects \subseteq Did
          /\ \A q \in e.objects :
               e.obsoletedBy[q] \in e.objects => e.obsoletedBy[q] \in {n, d.obsoletedBy[q]}
      BY <1>0, <2>2, <2>3, <2>5, <2>6 DEF SameLinks, Db
    <2>9. WalksStop(e)
      BY <2>7, <2>8, WalksStillStop
    <2> QED BY <2>4, <2>6, <2>9
  <1>2. CASE ~IsInRevisionChain(d, p)
    BY <1>2 DEF Detached
  <1> QED BY <1>1, <1>2

LEMMA DeleteWalks ==
    ASSUME NEW d \in Db, WalksStop(d), NEW p, DeleteSciobjOk(d, p)
    PROVE  WalksStop(DeleteSciobj(d, p))
  <1> DEFINE k == Detached(d, p)
             c == k.chain[p]
             e == [k EXCEPT !.chain[p] = None]
             f == DeleteChain(k, p)
  <1>1. k \in Db /\ WalksStop(k)
    BY DetachedWalks
  <1>2. c \in ChainId
    BY <1>1 DEF DeleteSciobjOk, Db, Opt
  <1>3. f = IF Members(e, c) # {} THEN e
            ELSE IF k.sid[c] # None THEN DeleteDid(e, k.sid[c])
            ELSE [e EXCEPT !.head[c] = None]
    BY DEF DeleteChain
  <1> HIDE DEF k, c
  <1>4. e \in Db /\ SameLinks(k, e)
    BY <1>1 DEF Db, Opt, SameLinks
  <1> HIDE DEF e
  <1>5. WalksStop(e)
    BY <1>1, <1>4, LinksOnly DEF SameLinks, WalksStop
  <1>6. [e EXCEPT !.head[c] = None] \in Db /\ WalksStop([e EXCEPT !.head[c] = None])
    <2> DEFINE g == [e EXCEPT !.head[c] = None]
    <2>1. g \in Db /\ SameLinks(e, g)
      BY <1>2, <1>4 DEF Db, Opt, SameLinks
    <2> HIDE DEF g
    <2>2. WalksStop(g)
      BY <1>4, <1>5, <2>1, LinksOnly DEF SameLinks, WalksStop
    <2> QED BY <2>1, <2>2 DEF g
  <1>7. f \in Db /\ WalksStop(f)
    BY <1>3, <1>4, <1>5, <1>6, DeleteDidType, DeleteDidWalks
  <1> HIDE DEF f
  <1>8. WalksStop(DeleteDid(f, p))
    BY <1>7, DeleteDidWalks
  <1> QED BY <1>8 DEF DeleteSciobj, f, k

(* A step of any of the specifications. *)
LEMMA WalksStep ==
    ASSUME TypeOK, WalksStop(db), [Next]_vars
    PROVE  WalksStop(db')
  <1>0. db \in Db
    BY DEF TypeOK
  <1>1. ASSUME NEW m \in Sysmeta, StoreObject(m) \/ Replace(m)
        PROVE  WalksStop(db')
    BY <1>0, <1>1, StoreWalks DEF StoreObject, Replace
  <1>2. ASSUME NEW p \in Pids, NEW s \in Opt(Sids), NEW spooled \in BOOLEAN,
               Create(p, s, spooled)
        PROVE  WalksStop(db')
    <2>1. NewSysmeta(p, None, s) \in Sysmeta
      BY DidParts DEF NewSysmeta, Sysmeta, Opt
    <2> QED BY <1>1, <1>2, <2>1 DEF Create
  <1>3. ASSUME NEW old \in db.objects, NEW p \in Pids, NEW s \in SidsFor(db, old),
               NEW spooled \in BOOLEAN, Update(old, p, s, spooled)
        PROVE  WalksStop(db')
    <2>1. s \in Opt(Did) /\ old \in Did
      BY <1>0, DidParts DEF SidsFor, SidOf, Db, Opt
    <2>2. NewSysmeta(p, old, s) \in Sysmeta
      BY <2>1, DidParts DEF NewSysmeta, Sysmeta, Opt
    <2> QED BY <1>1, <1>3, <2>2 DEF Update
  <1>4. ASSUME NEW p \in db.objects, NEW links \in LinksFor(p), NEW s \in SidsFor(db, p),
               NEW archived \in BOOLEAN, PutMeta(p, links, s, archived)
        PROVE  WalksStop(db')
    BY <1>1, <1>4, PutMetaDocument
  <1>5. ASSUME NEW x \in Did, Delete(x)
        PROVE  WalksStop(db')
    BY <1>0, <1>5, DeleteWalks DEF Delete
  <1>6. ASSUME NEW m \in Foreign, Import(m)
        PROVE  WalksStop(db')
    BY <1>1, <1>6, StoreAssumption DEF Import
  <1>7. ASSUME db' \in Db, SameLinks(db, db')
        PROVE  WalksStop(db')
    BY <1>0, <1>7, LinksOnly DEF SameLinks, WalksStop
  <1>8. ASSUME (\E x \in Did : Archive(x)) \/ (\E p \in Pids : Replicate(p))
               \/ (\E x \in Did : DeleteCrash(x)) \/ UNCHANGED vars
        PROVE  WalksStop(db')
    <2>1. SameLinks(db, db')
      BY <1>0, <1>8 DEF Archive, Replicate, DeleteCrash, vars, SameLinks, Db
    <2>2. db' \in Db
      BY TypeStep DEF TypeOK
    <2> QED BY <1>7, <2>1, <2>2
  <1> QED
    BY <1>2, <1>3, <1>4, <1>5, <1>6, <1>8 DEF Next, ImportNext, NativeNext

-----------------------------------------------------------------------------
(* The steps of a node that objects are imported to, as long as no document *)
(* has changed links.                                                       *)

(* A step stores one object, deletes one, or leaves objects and links alone. *)
ImportStored(d, e) ==
    \E m \in Sysmeta : Fits(d, m) /\ StoredLinks(d, e, m) /\ UniqueLinks(e) /\ FindHeadOk(e, m.pid)

ImportCut(d, e) == \E p \in d.objects : Cuttable(d, p) /\ CutLinks(d, e, p)

ImportEffect(d, e) ==
    e \in Db /\ ImportChains(e) /\ (ImportStored(d, e) \/ ImportCut(d, e) \/ SameLinks(d, e))

LEMMA ImportEffectSound ==
    ASSUME NEW d \in Db, ImportLinks(d), NEW e, ImportEffect(d, e)
    PROVE  ImportLinks(e)
  <1>0. e \in Db
    BY DEF ImportEffect
  <1>1. CASE ImportStored(d, e)
    BY <1>0, <1>1, StoredLinksSound DEF ImportStored
  <1>2. CASE ImportCut(d, e)
    BY <1>2, CutLinksSound DEF ImportCut
  <1>3. CASE SameLinks(d, e)
    BY <1>0, <1>3, LinksOnly DEF SameLinks
  <1> QED BY <1>1, <1>2, <1>3 DEF ImportEffect

(* Flags, replicas and names. *)
LEMMA OtherColumns ==
    ASSUME NEW d \in Db, ImportChains(d), NEW e \in Db, SameLinks(d, e),
           e.chain = d.chain, e.sid = d.sid, e.head = d.head
    PROVE  ImportEffect(d, e)
  BY DEF ImportEffect, ImportChains, HeadsAreMembers, MembersHaveHead, SameLinks

LEMMA StoreObjectEffect ==
    ASSUME NEW m \in Sysmeta, TypeOK, ImportLinks(db), ImportChains(db), Fits(db, m),
           m.seriesId \in Opt(SeriesIds), StoreObject(m)
    PROVE  ImportEffect(db, db')
  <1>0. db \in Db /\ ImportLinks(db) /\ ImportChains(db)
    BY DEF TypeOK
  <1>1. CASE db' = db
    BY <1>0, <1>1, OtherColumns DEF SameLinks
  <1>2. CASE CreateOrUpdateOk(db, m) /\ db' = CreateOrUpdate(db, m)
    <2>1. /\ db' \in Db /\ ImportChains(db') /\ SameLinks(Linked(db, m), db')
          /\ UniqueLinks(db') /\ FindHeadOk(db', m.pid)
      BY <1>0, <1>2, CreateOrUpdateChains
    <2>2. StoredLinks(db, db', m)
      <3> DEFINE k == Linked(db, m)
      <3>0. m.pid \in Did /\ m.pid \notin {m.obsoletes, m.obsoletedBy}
        BY DEF Sysmeta, Fits
      <3>1. /\ k.objects = db.objects \cup {m.pid}
            /\ k.obsoletes[m.pid] = IF m.obsoletes # None THEN m.obsoletes
                                    ELSE db.obsoletes[m.pid]
            /\ k.obsoletedBy[m.pid] = IF m.obsoletedBy # None THEN m.obsoletedBy
                                      ELSE db.obsoletedBy[m.pid]
            /\ \A q \in Did \ {m.pid} :
                 /\ k.obsoletes[q] = IF q = m.obsoletedBy /\ q \in db.objects THEN m.pid
                                     ELSE db.obsoletes[q]
                 /\ k.obsoletedBy[q] = IF q = m.obsoletes /\ q \in db.objects THEN m.pid
                                       ELSE db.obsoletedBy[q]
        BY <1>0, LinkedColumns
      <3> HIDE DEF k
      <3>2. SameLinks(k, db')
        BY <2>1 DEF k
      <3> QED BY <3>0, <3>1, <3>2 DEF StoredLinks, SameLinks
    <2> QED BY <2>1, <2>2 DEF ImportEffect, ImportStored
  <1> QED BY <1>1, <1>2 DEF StoreObject

(* The SID of an object is that of a series. *)
LEMMA SidsForKnown ==
    ASSUME TypeOK, ImportChains(db), NEW p \in db.objects, NEW s \in SidsFor(db, p)
    PROVE  s \in Opt(SeriesIds) /\ s \in Opt(Did)
  <1>1. p \in Did
    BY DEF TypeOK, Db
  <1>2. SidOf(db, p) \in Opt(SeriesIds) /\ SidOf(db, p) \in Opt(Did)
    BY <1>1 DEF SidOf, TypeOK, Db, Opt, ImportChains, MembersHaveHead
  <1> QED BY <1>2, DidParts DEF SidsFor, SeriesIds, Opt

(* What create() and update() store: an identifier that nothing refers to,   *)
(* and at most one link, to a local object.                                  *)
LEMMA NewSysmetaFits ==
    ASSUME TypeOK, ImportLinks(db), NEW p \in Pids, NEW old \in Opt(db.objects), NEW s \in Opt(Did),
           IsValidPidForCreate(db, p)
    PROVE  /\ NewSysmeta(p, old, s) \in Sysmeta /\ Fits(db, NewSysmeta(p, old, s))
           /\ NewSysmeta(p, old, s).seriesId = s
  <1> DEFINE m == NewSysmeta(p, old, s)
  <1>1. /\ m.pid = p /\ m.obsoletes = old /\ m.obsoletedBy = None /\ m.seriesId = s
        /\ db.objects \subseteq Did /\ None \notin Did /\ p \in Did
    BY DidParts, StoreAssumption DEF NewSysmeta, TypeOK, Db
  <1>2. m \in Sysmeta
    BY <1>1 DEF NewSysmeta, Sysmeta, Opt
  <1>3. p \in ObjectIds /\ db.objects \subseteq ObjectIds
    BY DEF ObjectIds, ImportLinks, RowsKnown
  <1>4. p \notin db.objects /\ \A q \in db.objects : db.obsoletes[q] # p /\ db.obsoletedBy[q] # p
    BY DEF IsValidPidForCreate, IsRevision
  <1> HIDE DEF m
  <1>5. Fits(db, m)
    BY <1>1, <1>3, <1>4 DEF Fits, Opt
  <1> QED BY <1>1, <1>2, <1>5 DEF m

LEMMA CreateEffectOnImport ==
    ASSUME TypeOK, ImportLinks(db), ImportChains(db),
           NEW p \in Pids, NEW s \in Opt(Sids), NEW spooled,
           Create(p, s, spooled)
    PROVE  ImportEffect(db, db')
  <1>1. s \in Opt(Did) /\ s \in Opt(SeriesIds) /\ None \in Opt(db.objects)
    BY DidParts DEF Opt, SeriesIds
  <1> QED BY <1>1, NewSysmetaFits, StoreObjectEffect DEF Create

LEMMA UpdateEffectOnImport ==
    ASSUME TypeOK, ImportLinks(db), ImportChains(db), NEW old \in db.objects, NEW p \in Pids,
           NEW s \in SidsFor(db, old), NEW spooled, Update(old, p, s, spooled)
    PROVE  ImportEffect(db, db')
  <1>1. s \in Opt(Did) /\ s \in Opt(SeriesIds) /\ old \in Opt(db.objects)
    BY SidsForKnown DEF Opt
  <1> QED BY <1>1, NewSysmetaFits, StoreObjectEffect DEF Update

(* A document that changes no links leaves them as they are. *)
LEMMA PutMetaEffectOnImport ==
    ASSUME TypeOK, ImportLinks(db), ImportChains(db), NEW m \in Sysmeta, m.pid \in db.objects,
           m.seriesId \in Opt(SeriesIds), ~Relinks(db, m), Replace(m)
    PROVE  ImportEffect(db, db')
  <1> DEFINE p == m.pid
             k == Linked(db, m)
  <1>0. /\ db \in Db /\ p \in db.objects
        /\ p \in Did /\ db.objects \subseteq Did /\ None \notin Did
    BY StoreAssumption DEF TypeOK, Db
  <1>2. m.obsoletes \in {None, db.obsoletes[p]} /\ m.obsoletedBy \in {None, db.obsoletedBy[p]}
    BY DEF Relinks
  <1>3. db' = (IF CreateOrUpdateOk(db, m) THEN CreateOrUpdate(db, m) ELSE db)
    BY DEF Replace
  <1>4. SameLinks(db, k)
    <2>1. /\ k \in Db /\ k.objects = db.objects \cup {p}
          /\ k.obsoletes[p] = IF m.obsoletes # None THEN m.obsoletes ELSE db.obsoletes[p]
          /\ k.obsoletedBy[p] = IF m.obsoletedBy # None THEN m.obsoletedBy ELSE db.obsoletedBy[p]
          /\ \A q \in Did \ {p} :
               /\ k.obsoletes[q] = IF q = m.obsoletedBy /\ q \in db.objects THEN p
                                   ELSE db.obsoletes[q]
               /\ k.obsoletedBy[q] = IF q = m.obsoletes /\ q \in db.objects THEN p
                                     ELSE db.obsoletedBy[q]
      BY <1>0, LinkedType, LinkedColumns
    <2> HIDE DEF k, p
    <2>2. k.objects = db.objects
      BY <1>0, <2>1
    <2>3. ASSUME NEW q \in Did
          PROVE  k.obsoletes[q] = db.obsoletes[q] /\ k.obsoletedBy[q] = db.obsoletedBy[q]
      BY <1>0, <1>2, <2>1, <2>2 DEF ImportLinks, LinksAgree
    <2>4. k.obsoletes = db.obsoletes /\ k.obsoletedBy = db.obsoletedBy
      BY <1>0, <2>1, <2>3 DEF Db
    <2> QED BY <2>2, <2>4 DEF SameLinks
  <1>5. CASE CreateOrUpdateOk(db, m)
    BY <1>0, <1>3, <1>4, <1>5, CreateOrUpdateChains DEF ImportEffect, SameLinks
  <1>6. CASE ~CreateOrUpdateOk(db, m)
    BY <1>0, <1>3, <1>6, OtherColumns DEF SameLinks
  <1> QED BY <1>5, <1>6

(* Links that a document has changed are remembered as such. *)
LEMMA RelinksGrow ==
    ASSUME TypeOK, [Next]_vars
    PROVE  relinks' # 0 \/ relinks = 0
  <1>1. relinks \in Nat
    BY DEF TypeOK
  <1>2. ASSUME NEW m, StoreObject(m) \/ Replace(m)
        PROVE  relinks' # 0 \/ relinks = 0
    BY <1>1, <1>2 DEF StoreObject, Replace
  <1>3. ASSUME UNCHANGED relinks
        PROVE  relinks' # 0 \/ relinks = 0
    BY <1>3
  <1> QED
    BY <1>2, <1>3 DEF Next, ImportNext, NativeNext, Create, Update, PutMeta, Archive, Delete,
                      Replicate, Import, DeleteCrash, vars

(* A document of the source fits what is there: if a local object's link     *)
(* names the new object, a document of the source says so, and they agree.   *)
LEMMA ImportFits ==
    ASSUME TypeOK, ImportLinks(db), NEW m \in Foreign, m.pid \notin db.objects
    PROVE  m \in Sysmeta /\ Fits(db, m) /\ m.seriesId \in Opt(SeriesIds)
  <1>1. m \in Sysmeta /\ m.pid \in Did /\ None \notin Did
    BY StoreAssumption DEF Sysmeta
  <1>2. m.pid \notin {m.obsoletes, m.obsoletedBy}
    BY ForeignAssumption
  <1>3. /\ m.pid \in ObjectIds /\ m.obsoletes \in Opt(ObjectIds) /\ m.obsoletedBy \in Opt(ObjectIds)
        /\ m.seriesId \in Opt(SeriesIds)
    BY <1>1 DEF ObjectIds, SeriesIds, Opt
  <1>4. ASSUME NEW q \in db.objects
        PROVE  /\ db.obsoletedBy[q] = m.pid => m.obsoletes = q
               /\ db.obsoletes[q] = m.pid => m.obsoletedBy = q
    <2>1. m.pid \notin Opt(db.objects)
      BY <1>1 DEF Opt
    <2>2. DanglingKnown(db)
      BY DEF ImportLinks
    <2>3. ASSUME db.obsoletedBy[q] = m.pid PROVE m.obsoletes = q
      <3>1. PICK n \in Foreign : n.pid = q /\ n.obsoletedBy = m.pid
        BY <2>1, <2>2, <2>3 DEF DanglingKnown
      <3> QED BY <3>1, ForeignAssumption
    <2>4. ASSUME db.obsoletes[q] = m.pid PROVE m.obsoletedBy = q
      <3>1. PICK n \in Foreign : n.pid = q /\ n.obsoletes = m.pid
        BY <2>1, <2>2, <2>4 DEF DanglingKnown
      <3> QED BY <3>1, ForeignAssumption
    <2> QED BY <2>3, <2>4
  <1> QED BY <1>1, <1>2, <1>3, <1>4 DEF Fits

LEMMA ImportStepEffect ==
    ASSUME ObjectIds \cap SeriesIds = {}, TypeOK, ImportInv, [Next]_vars, relinks' = 0
    PROVE  relinks = 0 /\ ImportLinks(db) /\ ImportChains(db) /\ ImportEffect(db, db')
  <1>0. /\ db \in Db /\ ImportLinks(db) /\ ImportChains(db) /\ db.objects \subseteq Did
        /\ relinks = 0
    BY RelinksGrow DEF TypeOK, ImportInv, Db
  <1>1. CASE db' = db
    BY <1>0, <1>1, OtherColumns DEF SameLinks
  <1>2. ASSUME NEW x \in Did, Archive(x)
        PROVE  ImportEffect(db, db')
    <2>1. SameLinks(db, db') /\ db'.chain = db.chain /\ db'.sid = db.sid /\ db'.head = db.head
      BY <1>0, <1>2 DEF Archive, SameLinks, Db
    <2>2. db' \in Db
      BY <1>0, <1>2 DEF Archive, Db
    <2> QED BY <1>0, <2>1, <2>2, OtherColumns
  <1>3. ASSUME NEW p \in Pids, Replicate(p)
        PROVE  ImportEffect(db, db')
    <2>1. SameLinks(db, db') /\ db'.chain = db.chain /\ db'.sid = db.sid /\ db'.head = db.head
      BY <1>0, <1>3 DEF Replicate, SameLinks, Db
    <2>2. db' \in Db
      BY <1>0, <1>3, DidParts DEF Replicate, Db
    <2> QED BY <1>0, <2>1, <2>2, OtherColumns
  <1>4. ASSUME NEW x \in Did, Delete(x)
        PROVE  ImportEffect(db, db')
    <2> DEFINE p == ResolveSid(db, x)
    <2>1. p \in db.objects
          /\ db' = IF DeleteSciobjOk(db, p) THEN DeleteSciobj(db, p) ELSE db
      BY <1>4 DEF Delete
    <2> HIDE DEF p
    <2>2. CASE DeleteSciobjOk(db, p)
      BY <1>0, <2>1, <2>2, DeleteSciobjCuts DEF ImportEffect, ImportCut
    <2> QED BY <1>1, <2>1, <2>2
  <1>5. ASSUME NEW m \in Foreign, Import(m)
        PROVE  ImportEffect(db, db')
    BY <1>0, <1>5, ImportFits, StoreObjectEffect DEF Import
  <1>6. ASSUME NEW x \in Did, DeleteCrash(x)
        PROVE  ImportEffect(db, db')
    BY <1>1, <1>6 DEF DeleteCrash
  <1>7. ASSUME NEW p \in db.objects, NEW links \in LinksFor(p), NEW s \in SidsFor(db, p),
               NEW archived \in BOOLEAN, PutMeta(p, links, s, archived)
        PROVE  ImportEffect(db, db')
    <2>1. PICK m \in Sysmeta : m.pid = p /\ m.seriesId = s /\ Replace(m)
      BY <1>7, PutMetaDocument
    <2>2. s \in Opt(SeriesIds)
      BY <1>0, <1>7, SidsForKnown
    <2>3. CASE Relinks(db, m)
      BY <1>0, <1>1, <2>1, <2>3 DEF Replace
    <2>4. CASE ~Relinks(db, m)
      BY <1>0, <2>1, <2>2, <2>4, PutMetaEffectOnImport
    <2> QED BY <2>3, <2>4
  <1>8. CASE UNCHANGED vars
    BY <1>1, <1>8 DEF vars
  <1>9. ImportEffect(db, db')
    BY <1>0, <1>2, <1>3, <1>4, <1>5, <1>6, <1>7, <1>8,
       CreateEffectOnImport, UpdateEffectOnImport
    DEF Next, ImportNext, NativeNext
  <1> QED BY <1>0, <1>9

LEMMA InitImportInv == Init => ImportInv
  <1> SUFFICES ASSUME Init PROVE ImportInv
    OBVIOUS
  <1>1. /\ db.objects = {}
        /\ \A q \in Did : db.obsoletes[q] = None /\ db.obsoletedBy[q] = None /\ db.chain[q] = None
        /\ \A c \in ChainId : db.sid[c] = None /\ db.head[c] = None
    BY DEF Init
  <1> QED BY <1>1 DEF ImportInv, ImportLinks, RowsKnown, LinksAgree, DanglingKnown, WalksStop,
                      ImportChains, HeadsAreMembers, MembersHaveHead, Opt

(* The invariant is inductive. *)
LEMMA ImportInvariant ==
    ASSUME ObjectIds \cap SeriesIds = {}
    PROVE  Spec => [](TypeOK /\ ImportInv)
  <1>1. Init => TypeOK /\ ImportInv
    BY InitImportInv, StoreAssumption DEF Init, TypeOK, Db, Opt
  <1>2. TypeOK /\ ImportInv /\ [Next]_vars => (TypeOK /\ ImportInv)'
    <2> SUFFICES ASSUME TypeOK, ImportInv, [Next]_vars PROVE (TypeOK /\ ImportInv)'
      OBVIOUS
    <2>1. ASSUME relinks' = 0
          PROVE  ImportLinks(db') /\ ImportChains(db')
      <3>1. ImportEffect(db, db') /\ db \in Db /\ ImportLinks(db)
        BY <2>1, ImportStepEffect DEF TypeOK
      <3> QED BY <3>1, ImportEffectSound DEF ImportEffect
    <2> QED BY <2>1, TypeStep DEF ImportInv
  <1> QED BY <1>1, <1>2, PTL DEF Spec

(* Nodes that are not imported to, and nodes whose process never ends within *)
(* a request, are special cases.                                             *)
LEMMA SpecsNested == (NativeSpec => ImportSpec) /\ (ImportSpec => Spec)
  <1>1. [NativeNext]_vars => [ImportNext]_vars
    BY DEF ImportNext
  <1>2. [ImportNext]_vars => [Next]_vars
    BY DEF Next
  <1> QED BY <1>1, <1>2, PTL DEF NativeSpec, ImportSpec, Spec

(* Whatever order the revisions of a series arrive in, and whatever clients  *)
(* do in between, short of sending a document with other links, the two ends *)
(* of a link between local objects agree: each is what set_revision_links()  *)
(* made of one document, and no later one of the source contradicts it.      *)
THEOREM ImportLinksAgree ==
    ASSUME ObjectIds \cap SeriesIds = {}
    PROVE  Spec => []LocalLinksAgree
  <1>1. ImportInv => LocalLinksAgree
    BY DEF ImportInv, ImportLinks, LocalLinksAgree
  <1> QED BY <1>1, ImportInvariant, PTL

(* Until a document changes links, a SID resolves to a local member of its   *)
(* series, also after chains were merged, their heads were deleted, or a     *)
(* delete was cut short.                                                     *)
THEOREM ImportHeads ==
    ASSUME ObjectIds \cap SeriesIds = {}
    PROVE  Spec => []HeadIsMember
  <1>1. ImportInv => HeadIsMember
    BY DEF ImportInv, ImportChains, HeadIsMember
  <1> QED BY <1>1, ImportInvariant, PTL

(* In every committed state the recursion of                                 *)
(* _find_head_or_latest_connected() returns, and it returns FindHead: the    *)
(* walk from a stored object, and from the neighbour of one that is cut out, *)
(* is made in the same transaction, and no step, imports, updates, deletes   *)
(* and documents with whatever links in any order, closes a cycle.           *)
THEOREM ImportWalksEnd == Spec => []HeadWalkEnds
  <1>1. Init => WalksStop(db)
    BY DEF Init, WalksStop
  <1>2. TypeOK /\ WalksStop(db) /\ [Next]_vars => WalksStop(db)'
    BY WalksStep
  <1>3. TypeOK /\ WalksStop(db) => HeadWalkEnds
    BY LatestIsHead DEF TypeOK, HeadWalkEnds
  <1> QED BY <1>1, <1>2, <1>3, TypeCorrect, PTL DEF Spec

(* Until a document changes links, a delete that joins the neighbours first  *)
(* removes none of them, although the database deletes with a row every row  *)
(* that refers to it.                                                        *)
THEOREM ImportOneDeleted ==
    ASSUME ObjectIds \cap SeriesIds = {}
    PROVE  Spec => OnlyOneObjectDeleted
  <1>1. ASSUME TypeOK, ImportInv, [Next]_vars, relinks' = 0
        PROVE  vars' = vars \/ \E x \in Did : db.objects \ {x} \subseteq db'.objects
    <2>0. ImportEffect(db, db') /\ db.objects \subseteq Did
      BY <1>1, ImportStepEffect DEF TypeOK, Db
    <2>1. CASE db.objects = {}
      <3>1. CASE Did = {}
        <4>1. Pids = {} /\ Foreign = {}
          BY <3>1, DidParts, StoreAssumption DEF Sysmeta
        <4> QED BY <1>1, <2>1, <3>1, <4>1 DEF Next, ImportNext, NativeNext
      <3> QED BY <2>1, <3>1
    <2>2. CASE ImportCut(db, db')
      BY <2>0, <2>2 DEF ImportCut, CutLinks
    <2>3. CASE db.objects # {} /\ db.objects \subseteq db'.objects
      BY <2>0, <2>3
    <2>4. db.objects \subseteq db'.objects \/ ImportCut(db, db')
      BY <2>0 DEF ImportEffect, ImportStored, StoredLinks, SameLinks
    <2> QED BY <2>1, <2>2, <2>3, <2>4
  <1>2. ASSUME TypeOK, ImportInv, [Next]_vars
        PROVE  [relinks' = 0 => \E x \in Did : db.objects \ {x} \subseteq db.objects']_vars
    BY <1>1, <1>2
  <1> QED BY <1>2, ImportInvariant, PTL DEF Spec, OnlyOneObjectDeleted

(* Until a document changes links, an imported revision may be put between   *)
(* two others, and a deleted one taken out from between them; in each case   *)
(* the newer of the two stays reachable from the older.                      *)
THEOREM ImportOrderKept ==
    ASSUME ObjectIds \cap SeriesIds = {}
    PROVE  Spec => RevisionOrderKept
  <1>1. ASSUME TypeOK, ImportInv, [Next]_vars, relinks' = 0, NEW p \in db.objects \cap db'.objects
        PROVE  Visited(db, p) \cap db'.objects \subseteq Visited(db', p)
    <2>0. ImportEffect(db, db') /\ db \in Db /\ db' \in Db /\ ImportLinks(db)
      BY <1>1, ImportStepEffect DEF TypeOK, ImportEffect
    <2>1. CASE ImportStored(db, db')
      BY <1>1, <2>0, <2>1, StoredOrder DEF ImportStored
    <2>2. CASE ImportCut(db, db')
      <3>1. PICK q \in db.objects : Cuttable(db, q) /\ CutLinks(db, db', q)
        BY <2>2 DEF ImportCut
      <3>2. Visited(db, p) \ {q} \subseteq Visited(db', p) /\ q \notin db'.objects
        BY <1>1, <2>0, <3>1, CutOrder DEF CutLinks
      <3> QED BY <3>2
    <2>3. CASE SameLinks(db, db')
      BY <2>0, <2>3, LinksOnly DEF SameLinks
    <2> QED BY <2>0, <2>1, <2>2, <2>3 DEF ImportEffect
  <1>2. ASSUME TypeOK, ImportInv, [Next]_vars
        PROVE  [relinks' = 0 => \A p \in db.objects \cap db'.objects :
                  Visited(db, p) \cap db'.objects \subseteq Visited(db', p)]_vars
    BY <1>1, <1>2
  <1> QED BY <1>2, ImportInvariant, PTL DEF Spec, RevisionOrderKept

=============================================================================
