------------------------ MODULE GmnStoreNativeProofs ------------------------
(***************************************************************************)
(* The node that only its clients write to: the invariants of its revision *)
(* chains, that no delete loses the bytes of an object that stays, and     *)
(* that its rows amount to the series of GmnSeries, for any sets of        *)
(* identifiers in which no identifier is both a PID and a SID.             *)
(***************************************************************************)
EXTENDS GmnStoreProofs

-----------------------------------------------------------------------------
(* The walk to the head.                                                    *)

(* An object that no local object is obsoleted by is visited from itself only. *)
LEMMA VisitedFromElsewhere ==
    ASSUME NEW d, NEW p, NEW q \in d.objects, p # q,
           \A r \in d.objects : d.obsoletedBy[r] # p
    PROVE  p \notin Visited(d, q)
  <1>1. ClosedUnderNewer(d, d.objects \ {p})
    BY DEF ClosedUnderNewer
  <1> QED BY <1>1, VisitedInClosed

(* No object obsoletes itself: its walk would not reach the head. *)
LEMMA NoSelfLink ==
    ASSUME NEW d \in Db, Sound(d), NEW p \in d.objects
    PROVE  d.obsoletedBy[p] # p /\ d.obsoletes[p] # p
  <1>1. ASSUME d.obsoletedBy[p] = p
        PROVE  FALSE
    <2>1. ClosedUnderNewer(d, {p})
      BY <1>1 DEF ClosedUnderNewer
    <2>2. Visited(d, p) \subseteq {p}
      BY <2>1, VisitedInClosed
    <2>3. d.head[d.chain[p]] = p
      BY <2>2 DEF Sound, WalksSound
    <2>4. d.obsoletedBy[p] = None
      BY <2>3 DEF Sound, HeadsSound
    <2> QED BY <1>1, <2>4, StoreAssumption DEF Db
  <1>2. d.obsoletes[p] = p => d.obsoletedBy[p] = p
    BY StoreAssumption DEF Sound, LinksSound, Db
  <1> QED BY <1>1, <1>2

(* Nor is one object both before and after another. *)
LEMMA NoTwoCycleNative ==
    ASSUME NEW d \in Db, Sound(d), NEW p \in d.objects, d.obsoletes[p] # None
    PROVE  d.obsoletes[p] # d.obsoletedBy[p]
  <1> SUFFICES ASSUME d.obsoletedBy[p] = d.obsoletes[p] PROVE FALSE
    OBVIOUS
  <1> DEFINE q == d.obsoletes[p]
  <1>1. q \in d.objects /\ d.obsoletedBy[p] = q /\ d.obsoletedBy[q] = p
    BY DEF Sound, LinksSound
  <1>2. {p, q} \in SUBSET d.objects /\ ClosedUnderNewer(d, {p, q})
    BY <1>1 DEF ClosedUnderNewer
  <1>3. Visited(d, p) \subseteq {p, q}
    BY <1>2, VisitedInClosed
  <1>4. d.head[d.chain[p]] \in {p, q} /\ d.chain[q] = d.chain[p]
    BY <1>1, <1>3 DEF Sound, WalksSound, ChainsSound
  <1>5. d.obsoletedBy[p] = None \/ d.obsoletedBy[q] = None
    BY <1>1, <1>4 DEF Sound, HeadsSound
  <1> QED BY <1>1, <1>5, StoreAssumption DEF Db

(* The gap that p leaves is closed. *)
LEMMA GapClosed ==
    ASSUME NEW d \in Db, Sound(d), NEW p \in d.objects
    PROVE  LET e == CloseGap(d, p)
           IN  /\ e \in Db /\ e.objects = d.objects /\ e.names = d.names
               /\ e.chain = d.chain /\ e.sid = d.sid /\ e.head = d.head
               /\ \A q \in Did :
                    /\ e.obsoletes[q] = IF q = p THEN None
                                        ELSE IF q = d.obsoletedBy[p] THEN d.obsoletes[p]
                                        ELSE d.obsoletes[q]
                    /\ e.obsoletedBy[q] = IF q = p THEN None
                                          ELSE IF q = d.obsoletes[p] THEN d.obsoletedBy[p]
                                          ELSE d.obsoletedBy[q]
  <1>1. p \in Did /\ p \notin {d.obsoletes[p], d.obsoletedBy[p]}
    BY NoSelfLink DEF Db
  <1>2. d.obsoletes[p] = None \/ d.obsoletes[p] # d.obsoletedBy[p]
    BY NoTwoCycleNative
  <1> QED BY <1>1, <1>2, CloseGapType, CloseGapIs

(* Every object has a chain, whose head is a local object. *)
LEMMA ChainHasHead ==
    ASSUME NEW d \in Db, Sound(d), NEW p \in d.objects
    PROVE  /\ p \in Did
           /\ d.chain[p] \in ChainId
           /\ d.head[d.chain[p]] \in d.objects
           /\ d.chain[d.head[d.chain[p]]] = d.chain[p]
  <1>1. p \in Did /\ d.chain[p] \in ChainId
    BY DEF Sound, ChainsSound, Db, Opt
  <1>2. d.head[d.chain[p]] \in d.objects
    BY DEF Sound, WalksSound, Visited
  <1>3. d.head[d.chain[p]] # None
    BY <1>2, StoreAssumption DEF Db
  <1> QED BY <1>1, <1>2, <1>3 DEF Sound, ChainsSound

-----------------------------------------------------------------------------
(* Deleting.                                                                *)

(* The head of the chain of p when p is gone. *)
HeadAfter(d, p) ==
    IF d.head[d.chain[p]] = p THEN d.obsoletes[p] ELSE d.head[d.chain[p]]

(* cut_from_chain() succeeds, and finds the head of what is left. *)
LEMMA CutWorks ==
    ASSUME NEW d \in Db, Sound(d), NEW p \in d.objects, IsInRevisionChain(d, p)
    PROVE  /\ CutFromChainOk(d, p)
           /\ CutFromChain(d, p) =
                 [CloseGap(d, p) EXCEPT !.head[d.chain[p]] = HeadAfter(d, p)]
           /\ HeadAfter(d, p) \in d.objects \ {p}
           /\ d.chain[HeadAfter(d, p)] = d.chain[p]
           /\ CloseGap(d, p).obsoletedBy[HeadAfter(d, p)] = None
  <1> DEFINE c == d.chain[p]
             n == RemainingNeighbour(d, p)
             h == HeadAfter(d, p)
             e == CloseGap(d, p)
             S == {q \in d.objects \ {p} : d.chain[q] = c}
  <1>0. /\ p \in Did /\ None \notin Did /\ d.objects \subseteq Did
        /\ c \in ChainId /\ d.head[c] \in d.objects /\ d.chain[d.head[c]] = c
    BY ChainHasHead, StoreAssumption DEF Db
  <1>1. /\ e \in Db /\ e.objects = d.objects /\ e.chain = d.chain /\ e.head = d.head
        /\ \A q \in Did : e.obsoletedBy[q] = IF q = p THEN None
                                             ELSE IF q = d.obsoletes[p] THEN d.obsoletedBy[p]
                                             ELSE d.obsoletedBy[q]
        /\ \A q \in Did : e.obsoletes[q] = IF q = p THEN None
                                           ELSE IF q = d.obsoletedBy[p] THEN d.obsoletes[p]
                                           ELSE d.obsoletes[q]
    BY GapClosed
  <1>2. d.obsoletedBy[p] # p /\ d.obsoletes[p] # p
    BY NoSelfLink
  <1>3. /\ d.obsoletes[p] # None => /\ d.obsoletes[p] \in d.objects
                                    /\ d.obsoletedBy[d.obsoletes[p]] = p
                                    /\ d.chain[d.obsoletes[p]] = c
        /\ d.obsoletedBy[p] # None => /\ d.obsoletedBy[p] \in d.objects
                                      /\ d.obsoletes[d.obsoletedBy[p]] = p
                                      /\ d.chain[d.obsoletedBy[p]] = c
    BY <1>0 DEF Sound, LinksSound, ChainsSound
  <1>4. n \in d.objects /\ n # p /\ d.chain[n] = c
    BY <1>2, <1>3 DEF RemainingNeighbour, IsInRevisionChain
  <1>5. h \in d.objects /\ h # p /\ d.chain[h] = c /\ e.obsoletedBy[h] = None
    <2>1. CASE d.head[c] = p
      <3>1. d.obsoletedBy[p] = None /\ d.obsoletes[p] # None
        BY <2>1 DEF Sound, HeadsSound, IsInRevisionChain
      <3> QED BY <1>0, <1>1, <1>2, <1>3, <2>1, <3>1 DEF HeadAfter
    <2>2. CASE d.head[c] # p
      <3>1. d.obsoletedBy[h] = None
        BY <1>0, <2>2 DEF Sound, HeadsSound, HeadAfter
      <3>2. h # d.obsoletes[p]
        BY <1>0, <1>3, <2>2, <3>1 DEF HeadAfter
      <3> QED BY <1>0, <1>1, <2>2, <3>1, <3>2 DEF HeadAfter
    <2> QED BY <2>1, <2>2
  <1>6. S \in SUBSET e.objects /\ n \in S /\ ClosedUnderNewer(e, S)
    <2>1. ASSUME NEW q \in S, e.obsoletedBy[q] \in e.objects
          PROVE  e.obsoletedBy[q] \in S
      <3>1. CASE q = d.obsoletes[p]
        BY <1>0, <1>1, <1>2, <1>3, <2>1, <3>1
      <3>2. CASE q # d.obsoletes[p]
        <4>1. e.obsoletedBy[q] = d.obsoletedBy[q] /\ d.obsoletedBy[q] # None
          BY <1>0, <1>1, <2>1, <3>2
        <4>2. d.obsoletes[d.obsoletedBy[q]] = q /\ d.chain[d.obsoletedBy[q]] = c
          BY <4>1 DEF Sound, LinksSound, ChainsSound
        <4> QED BY <1>1, <2>1, <3>2, <4>1, <4>2
      <3> QED BY <3>1, <3>2
    <2> QED BY <1>1, <1>4, <2>1 DEF ClosedUnderNewer
  <1>7. \A q \in S : WalkStops(e, q) => q = h
    <2> SUFFICES ASSUME NEW q \in S, WalkStops(e, q), q # h PROVE FALSE
      OBVIOUS
    <2>1. e.obsoletedBy[q] \notin d.objects
      BY <1>1 DEF WalkStops
    <2>2. CASE q = d.obsoletes[p]
      <3>1. d.obsoletedBy[p] = None
        BY <1>0, <1>1, <1>3, <2>1, <2>2
      <3>2. d.head[c] = p
        BY <3>1 DEF Sound, HeadsSound
      <3> QED BY <2>2, <3>2 DEF HeadAfter
    <2>3. CASE q # d.obsoletes[p]
      <3>1. d.obsoletedBy[q] = None
        BY <1>0, <1>1, <2>1, <2>3 DEF Sound, LinksSound
      <3>2. d.head[c] = q
        BY <3>1 DEF Sound, HeadsSound
      <3> QED BY <3>2 DEF HeadAfter
    <2> QED BY <2>2, <2>3
  <1>8. h \in Visited(e, n)
    <2> SUFFICES ASSUME NEW R \in SUBSET e.objects, n \in R, ClosedUnderNewer(e, R)
                 PROVE  h \in R
      BY <1>1, <1>5 DEF Visited
    <2>1. CASE d.obsoletedBy[p] = None
      <3>1. d.head[c] = p
        BY <2>1 DEF Sound, HeadsSound
      <3> QED BY <2>1, <3>1 DEF HeadAfter, RemainingNeighbour
    <2>2. CASE d.obsoletedBy[p] # None
      <3>1. n = d.obsoletedBy[p] /\ d.head[c] # p
        BY <2>2 DEF RemainingNeighbour, Sound, HeadsSound
      <3>2. ClosedUnderNewer(d, R \cup {p})
        <4> SUFFICES ASSUME NEW q \in R, q # p, d.obsoletedBy[q] \in d.objects
                     PROVE  d.obsoletedBy[q] \in R \cup {p}
          BY <3>1 DEF ClosedUnderNewer
        <4>1. CASE q = d.obsoletes[p]
          BY <1>0, <1>1, <1>3, <4>1
        <4>2. CASE q # d.obsoletes[p]
          BY <1>0, <1>1, <4>2 DEF ClosedUnderNewer
        <4> QED BY <4>1, <4>2
      <3>3. d.head[c] \in Visited(d, n)
        BY <1>4 DEF Sound, WalksSound
      <3>4. d.head[c] \in R \cup {p}
        BY <1>1, <3>2, <3>3, VisitedInClosed
      <3> QED BY <3>1, <3>4 DEF HeadAfter
    <2> QED BY <2>1, <2>2
  <1>9. FindHeadOk(e, n) /\ FindHead(e, n) = h
    <2>1. WalkStops(e, h)
      BY <1>0, <1>1, <1>5 DEF WalkStops
    <2> QED BY <1>6, <1>7, <1>8, <2>1, WalkEndsAt
  <1>10. UpdateHeadOk(e, n)
    <2> SUFFICES ASSUME NEW b \in ChainId \ {c}, d.head[b] = h PROVE FALSE
      BY <1>0, <1>1, <1>5, <1>9 DEF UpdateHeadOk
    <2> QED BY <1>0, <1>5 DEF Sound, ChainsSound
  <1>11. UniqueLinks(e) /\ UniqueLinks(CloseGapOlder(d, p))
    <2> DEFINE f == CloseGapOlder(d, p)
    <2> SUFFICES ASSUME NEW q \in Did, NEW r \in Did, q # r
                 PROVE  /\ e.obsoletes[q] = None \/ e.obsoletes[q] # e.obsoletes[r]
                        /\ e.obsoletedBy[q] = None \/ e.obsoletedBy[q] # e.obsoletedBy[r]
                        /\ f.obsoletes[q] = None \/ f.obsoletes[q] # f.obsoletes[r]
                        /\ f.obsoletedBy[q] = None \/ f.obsoletedBy[q] # f.obsoletedBy[r]
      BY DEF UniqueLinks
    <2>0. \A t \in Did : /\ d.obsoletes[t] # None => d.obsoletedBy[d.obsoletes[t]] = t
                         /\ d.obsoletedBy[t] # None => d.obsoletes[d.obsoletedBy[t]] = t
      BY DEF Sound, RowsSound, LinksSound
    <2>1. /\ d.obsoletes[q] = None \/ d.obsoletes[q] # d.obsoletes[r]
          /\ d.obsoletedBy[q] = None \/ d.obsoletedBy[q] # d.obsoletedBy[r]
      BY <2>0
    <2>2. \A t \in Did : /\ d.obsoletes[t] = d.obsoletes[p] /\ d.obsoletes[t] # None => t = p
                         /\ d.obsoletedBy[t] = d.obsoletedBy[p] /\ d.obsoletedBy[t] # None => t = p
      <3>1. p \in Did BY <1>0
      <3> QED BY <2>0, <3>1
    <2>3. \A t \in Did :
            /\ f.obsoletes[t] = IF t = d.obsoletes[p] THEN d.obsoletes[t]
                                ELSE IF t = p THEN None ELSE d.obsoletes[t]
            /\ f.obsoletedBy[t] = IF t = d.obsoletes[p] THEN d.obsoletedBy[p]
                                  ELSE IF t = p THEN None ELSE d.obsoletedBy[t]
      BY <1>0, CloseGapOlderType
    <2> HIDE DEF e, f
    <2>4. /\ f.obsoletes[q] = None \/ f.obsoletes[q] # f.obsoletes[r]
          /\ f.obsoletedBy[q] = None \/ f.obsoletedBy[q] # f.obsoletedBy[r]
      BY <1>2, <2>1, <2>2, <2>3
    <2> QED BY <1>1, <2>1, <2>2, <2>4
  <1>12. CutFromChainOk(d, p)
    BY <1>3, <1>10, <1>11 DEF CutFromChainOk
  <1>13. CutFromChain(d, p) = [e EXCEPT !.head[c] = h]
    <2>1. e.chain[FindHead(e, n)] = c /\ c # None
      BY <1>0, <1>1, <1>5, <1>9, StoreAssumption
    <2>2. UpdateHead(e, n) = [e EXCEPT !.head[c] = h]
      <3> HIDE DEF e, c, n, h
      <3> QED BY <1>9, <2>1 DEF UpdateHead
    <2> QED BY <2>2 DEF CutFromChain
  <1> QED BY <1>5, <1>12, <1>13

(* What deleting p leaves, column by column. *)
DeletedColumns(d, e, p) ==
    /\ e.objects = d.objects \ {p}
    /\ e.names \subseteq d.names
    /\ \A q \in Did :
         /\ e.obsoletes[q] = IF q = p THEN None
                             ELSE IF q = d.obsoletedBy[p] THEN d.obsoletes[p]
                             ELSE d.obsoletes[q]
         /\ e.obsoletedBy[q] = IF q = p THEN None
                               ELSE IF q = d.obsoletes[p] THEN d.obsoletedBy[p]
                               ELSE d.obsoletedBy[q]
         /\ e.chain[q] = IF q = p THEN None ELSE d.chain[q]
    /\ \A c \in ChainId :
         /\ e.head[c] = IF c = d.chain[p] THEN HeadAfter(d, p) ELSE d.head[c]
         /\ e.sid[c] = IF e.head[c] = None THEN None ELSE d.sid[c]
         /\ e.sid[c] # None => e.sid[c] \in e.names

(* Deleting an object of a longer chain. *)
LEMMA DeleteLinked ==
    ASSUME Pids \cap Sids = {},
           NEW d \in Db, Sound(d), NEW p \in d.objects, IsInRevisionChain(d, p)
    PROVE  DeleteSciobjOk(d, p) /\ DeletedColumns(d, DeleteSciobj(d, p), p)
  <1> DEFINE c == d.chain[p]
             h == HeadAfter(d, p)
             g == CloseGap(d, p)
             d1 == [g EXCEPT !.head[c] = h]
             d2 == [d1 EXCEPT !.chain[p] = None]
  <1>0. /\ p \in Did /\ None \notin Did /\ d.objects \subseteq Did /\ c \in ChainId
        /\ None \notin ChainId /\ p \in Pids
    BY ChainHasHead, StoreAssumption DEF Db, Sound, RowsSound
  <1>1. /\ CutFromChainOk(d, p) /\ CutFromChain(d, p) = d1
        /\ h \in d.objects \ {p} /\ d.chain[h] = c
    BY CutWorks
  <1>2. /\ g \in Db /\ g.objects = d.objects /\ g.chain = d.chain /\ g.head = d.head
        /\ g.sid = d.sid /\ g.names = d.names
        /\ \A q \in Did : g.obsoletedBy[q] = IF q = p THEN None
                                             ELSE IF q = d.obsoletes[p] THEN d.obsoletedBy[p]
                                             ELSE d.obsoletedBy[q]
        /\ \A q \in Did : g.obsoletes[q] = IF q = p THEN None
                                           ELSE IF q = d.obsoletedBy[p] THEN d.obsoletes[p]
                                           ELSE d.obsoletes[q]
    BY GapClosed
  <1>3. /\ d2 \in Db /\ d2.objects = d.objects /\ d2.sid = d.sid /\ d2.names = d.names
        /\ d2.obsoletes = g.obsoletes /\ d2.obsoletedBy = g.obsoletedBy
        /\ d2.chain = [d.chain EXCEPT ![p] = None]
        /\ d2.head = [d.head EXCEPT ![c] = h]
    <2> HIDE DEF g, h, c
    <2> QED BY <1>0, <1>1, <1>2 DEF Db, Opt
  <1>4. Detached(d, p) = d1 /\ d1.chain = d.chain /\ d1.sid = d.sid
    <2>1. Detached(d, p) = d1
      BY <1>1 DEF Detached
    <2> HIDE DEF g
    <2> QED BY <1>2, <2>1 DEF Db
  <1>5. DeleteSciobjOk(d, p)
    BY <1>0, <1>1, <1>4 DEF DeleteSciobjOk
  <1>6. DeleteChain(d1, p) = d2
    <2>1. d2.chain[h] = c
      BY <1>0, <1>1, <1>3 DEF Db
    <2>2. Members(d2, c) # {}
      BY <1>0, <1>1, <2>1 DEF Members
    <2> HIDE DEF d1, d2, c
    <2>3. d1.chain[p] = c
      BY <1>4 DEF c
    <2>4. d2 = [d1 EXCEPT !.chain[p] = None]
      BY DEF d2
    <2> QED BY <2>2, <2>3, <2>4 DEF DeleteChain
  <1> DEFINE e == DeleteSciobj(d, p)
  <1>7. e = DeleteDid(d2, p)
    BY <1>4, <1>6 DEF DeleteSciobj
  <1>8. {q \in d2.objects : p \in {q, d2.obsoletes[q], d2.obsoletedBy[q]}} = {p}
    <2>1. ASSUME NEW q \in d.objects, q # p
          PROVE  d2.obsoletes[q] # p /\ d2.obsoletedBy[q] # p
      <3>1. d.obsoletes[p] # p /\ d.obsoletedBy[p] # p
        BY NoSelfLink
      <3>2. d.obsoletes[q] = p => d.obsoletedBy[p] = q
        BY <1>0 DEF Sound, LinksSound
      <3>3. d.obsoletedBy[q] = p => d.obsoletes[p] = q
        BY <1>0 DEF Sound, LinksSound
      <3> QED BY <1>0, <1>2, <1>3, <2>1, <3>1, <3>2, <3>3
    <2> QED BY <1>3, <2>1
  <1>9. {b \in ChainId : p \in {d2.sid[b], d2.head[b]}} = {}
    <2> SUFFICES ASSUME NEW b \in ChainId, p \in {d2.sid[b], d2.head[b]} PROVE FALSE
      OBVIOUS
    <2>1. d.sid[b] # p
      BY <1>0 DEF Sound, RowsSound
    <2>2. b # c => d.head[b] # p
      BY <1>0 DEF Sound, ChainsSound
    <2>3. d2.head[b] = IF b = c THEN h ELSE d.head[b]
      BY <1>0, <1>3 DEF Db
    <2> QED BY <1>1, <1>3, <2>1, <2>2, <2>3
  <1>10. /\ e.objects = d.objects \ {p} /\ e.names = d.names \ {p}
         /\ \A q \in Did : /\ e.obsoletes[q] = IF q = p THEN None ELSE d2.obsoletes[q]
                           /\ e.obsoletedBy[q] = IF q = p THEN None ELSE d2.obsoletedBy[q]
                           /\ e.chain[q] = IF q = p \/ d2.chain[q] \in {} THEN None
                                           ELSE d2.chain[q]
         /\ \A b \in ChainId : e.sid[b] = d2.sid[b] /\ e.head[b] = d2.head[b]
    <2> HIDE DEF d2, e
    <2> QED BY <1>3, <1>7, <1>8, <1>9 DEF DeleteDid
  <1>11. ASSUME NEW b \in ChainId
         PROVE  /\ e.head[b] = IF b = c THEN h ELSE d.head[b]
                /\ e.sid[b] = IF e.head[b] = None THEN None ELSE d.sid[b]
                /\ e.sid[b] # None => e.sid[b] \in e.names
    <2>1. e.head[b] = (IF b = c THEN h ELSE d.head[b]) /\ e.sid[b] = d.sid[b]
      BY <1>0, <1>3, <1>10 DEF Db
    <2>2. d.sid[b] # None => d.sid[b] \in d.names /\ d.sid[b] # p /\ d.head[b] # None
      BY <1>0 DEF Sound, RowsSound, ChainsSound
    <2> QED BY <1>0, <1>1, <1>10, <2>1, <2>2
  <1>12. ASSUME NEW q \in Did
         PROVE  /\ e.obsoletes[q] = IF q = p THEN None
                                    ELSE IF q = d.obsoletedBy[p] THEN d.obsoletes[p]
                                    ELSE d.obsoletes[q]
                /\ e.obsoletedBy[q] = IF q = p THEN None
                                      ELSE IF q = d.obsoletes[p] THEN d.obsoletedBy[p]
                                      ELSE d.obsoletedBy[q]
                /\ e.chain[q] = IF q = p THEN None ELSE d.chain[q]
    BY <1>0, <1>2, <1>3, <1>10 DEF Db
  <1> HIDE DEF e, h, c
  <1>13. DeletedColumns(d, e, p)
    BY <1>10, <1>11, <1>12 DEF DeletedColumns, c, h
  <1> QED BY <1>5, <1>13 DEF e

(* Deleting a standalone object: its chain goes, too. *)
LEMMA DeleteStandalone ==
    ASSUME Pids \cap Sids = {},
           NEW d \in Db, Sound(d), NEW p \in d.objects, ~IsInRevisionChain(d, p)
    PROVE  DeleteSciobjOk(d, p) /\ DeletedColumns(d, DeleteSciobj(d, p), p)
  <1> DEFINE c == d.chain[p]
             x == d.sid[c]
             d1 == [d EXCEPT !.chain[p] = None]
             d2 == DeleteChain(d, p)
             e == DeleteSciobj(d, p)
  <1>0. /\ p \in Did /\ None \notin Did /\ d.objects \subseteq Did /\ c \in ChainId
        /\ None \notin ChainId /\ p \in Pids
    BY ChainHasHead, StoreAssumption DEF Db, Sound, RowsSound
  <1>1. d.obsoletes[p] = None /\ d.obsoletedBy[p] = None
    BY DEF IsInRevisionChain
  <1>2. d.head[c] = p
    BY <1>1 DEF Sound, HeadsSound
  <1>3. \A q \in d.objects : d.obsoletes[q] # p /\ d.obsoletedBy[q] # p
    BY <1>0, <1>1 DEF Sound, LinksSound
  <1>4. ASSUME NEW q \in Did, d.chain[q] = c
        PROVE  q = p
    <2>1. q \in d.objects
      BY <1>0, <1>4 DEF Sound, ChainsSound
    <2>2. p \in Visited(d, q)
      BY <1>2, <1>4, <2>1 DEF Sound, WalksSound
    <2> QED BY <1>3, <2>1, <2>2, VisitedFromElsewhere
  <1>5. Detached(d, p) = d
    BY DEF Detached
  <1>6. DeleteSciobjOk(d, p)
    BY <1>0, <1>5 DEF DeleteSciobjOk
  <1>7. /\ d1 \in Db /\ d1.objects = d.objects /\ d1.names = d.names
        /\ d1.obsoletes = d.obsoletes /\ d1.obsoletedBy = d.obsoletedBy
        /\ d1.sid = d.sid /\ d1.head = d.head
        /\ \A q \in Did : d1.chain[q] = IF q = p THEN None ELSE d.chain[q]
    <2> HIDE DEF c
    <2> QED BY <1>0 DEF Db, Opt
  <1>8. Members(d1, c) = {}
    BY <1>0, <1>4, <1>7 DEF Members
  <1>9. d2 = IF x # None THEN DeleteDid(d1, x) ELSE [d1 EXCEPT !.head[c] = None]
    <2> HIDE DEF d1
    <2>1. d1 = [d EXCEPT !.chain[p] = None]
      BY DEF d1
    <2> QED BY <1>8, <2>1 DEF DeleteChain
  <1>10. \A q \in Did : d1.chain[q] # c
    BY <1>0, <1>4, <1>7
  <1>11. /\ d2.objects = d.objects /\ d2.names \subseteq d.names
         /\ \A y \in d.names : y # x => y \in d2.names
         /\ \A q \in Did : /\ d2.obsoletes[q] = d.obsoletes[q]
                           /\ d2.obsoletedBy[q] = d.obsoletedBy[q]
                           /\ d2.chain[q] = d1.chain[q]
         /\ \A b \in ChainId : /\ d2.head[b] = IF b = c THEN None ELSE d.head[b]
                               /\ d2.sid[b] = IF b = c THEN None ELSE d.sid[b]
    <2>1. CASE x = None
      <3>1. d2 = [d1 EXCEPT !.head[c] = None]
        BY <1>9, <2>1
      <3> HIDE DEF d1, d2
      <3> QED BY <1>0, <1>7, <2>1, <3>1 DEF Db
    <2>2. CASE x # None
      <3>1. d2 = DeleteDid(d1, x) /\ x \in Sids /\ x \notin Pids
        BY <1>0, <1>9, <2>2 DEF Sound, RowsSound
      <3>2. {q \in d1.objects : x \in {q, d1.obsoletes[q], d1.obsoletedBy[q]}} = {}
        <4> SUFFICES ASSUME NEW q \in d.objects, x \in {q, d.obsoletes[q], d.obsoletedBy[q]}
                     PROVE  FALSE
          BY <1>7
        <4> QED BY <2>2, <3>1 DEF Sound, RowsSound, LinksSound
      <3>3. {b \in ChainId : x \in {d1.sid[b], d1.head[b]}} = {c}
        <4> SUFFICES ASSUME NEW b \in ChainId
                     PROVE  x \in {d.sid[b], d.head[b]} <=> b = c
          BY <1>0, <1>7
        <4>1. d.head[b] # None => d.head[b] \in Pids
          BY DEF Sound, ChainsSound, RowsSound
        <4> QED BY <1>0, <2>2, <3>1, <4>1 DEF Sound, RowsSound
      <3>4. /\ d2.objects = d1.objects \ {} /\ d2.names = d1.names \ {x}
            /\ \A q \in Did : /\ d2.obsoletes[q] = IF q \in {} THEN None ELSE d1.obsoletes[q]
                              /\ d2.obsoletedBy[q] = IF q \in {} THEN None ELSE d1.obsoletedBy[q]
                              /\ d2.chain[q] = IF q = x \/ d1.chain[q] \in {c} THEN None
                                               ELSE d1.chain[q]
            /\ \A b \in ChainId : /\ d2.sid[b] = IF b \in {c} THEN None ELSE d1.sid[b]
                                  /\ d2.head[b] = IF b \in {c} THEN None ELSE d1.head[b]
        <4> HIDE DEF d1, d2, x, c
        <4> QED BY <3>1, <3>2, <3>3 DEF DeleteDid
      <3>5. x \in Did => d.chain[x] = None
        BY <3>1 DEF Sound, ChainsSound, RowsSound
      <3> HIDE DEF d1, d2, x, c
      <3> QED BY <1>7, <1>10, <3>4, <3>5
    <2> QED BY <2>1, <2>2
  <1>12. {q \in d2.objects : p \in {q, d2.obsoletes[q], d2.obsoletedBy[q]}} = {p}
    BY <1>0, <1>3, <1>11
  <1>13. {b \in ChainId : p \in {d2.sid[b], d2.head[b]}} = {}
    <2> SUFFICES ASSUME NEW b \in ChainId, p \in {d2.sid[b], d2.head[b]} PROVE FALSE
      OBVIOUS
    <2>1. d.sid[b] # p
      BY <1>0 DEF Sound, RowsSound
    <2>2. b # c => d.head[b] # p
      BY <1>0 DEF Sound, ChainsSound
    <2> QED BY <1>0, <1>11, <2>1, <2>2
  <1>14. e = DeleteDid(d2, p)
    BY <1>5 DEF DeleteSciobj
  <1>15. /\ e.objects = d.objects \ {p} /\ e.names = d2.names \ {p}
         /\ \A q \in Did : /\ e.obsoletes[q] = IF q = p THEN None ELSE d2.obsoletes[q]
                           /\ e.obsoletedBy[q] = IF q = p THEN None ELSE d2.obsoletedBy[q]
                           /\ e.chain[q] = IF q = p \/ d2.chain[q] \in {} THEN None
                                           ELSE d2.chain[q]
         /\ \A b \in ChainId : e.sid[b] = d2.sid[b] /\ e.head[b] = d2.head[b]
    <2> HIDE DEF d2, e
    <2> QED BY <1>11, <1>12, <1>13, <1>14 DEF DeleteDid
  <1>16. ASSUME NEW b \in ChainId
         PROVE  /\ e.head[b] = IF b = c THEN HeadAfter(d, p) ELSE d.head[b]
                /\ e.sid[b] = IF e.head[b] = None THEN None ELSE d.sid[b]
                /\ e.sid[b] # None => e.sid[b] \in e.names
    <2>1. HeadAfter(d, p) = None
      BY <1>1, <1>2 DEF HeadAfter
    <2>2. d.sid[b] # None => d.sid[b] \in d.names /\ d.sid[b] # p /\ d.head[b] # None
      BY <1>0 DEF Sound, RowsSound, ChainsSound
    <2>3. d.sid[b] # None /\ b # c => d.sid[b] # x
      BY <1>0 DEF Sound, RowsSound
    <2> QED BY <1>11, <1>15, <2>1, <2>2, <2>3
  <1>17. ASSUME NEW q \in Did
         PROVE  /\ e.obsoletes[q] = IF q = p THEN None
                                    ELSE IF q = d.obsoletedBy[p] THEN d.obsoletes[p]
                                    ELSE d.obsoletes[q]
                /\ e.obsoletedBy[q] = IF q = p THEN None
                                      ELSE IF q = d.obsoletes[p] THEN d.obsoletedBy[p]
                                      ELSE d.obsoletedBy[q]
                /\ e.chain[q] = IF q = p THEN None ELSE d.chain[q]
    BY <1>0, <1>1, <1>7, <1>11, <1>15
  <1>18. e.names \subseteq d.names
    BY <1>11, <1>15
  <1> HIDE DEF e
  <1>19. DeletedColumns(d, e, p)
    BY <1>15, <1>16, <1>17, <1>18 DEF DeletedColumns
  <1> QED BY <1>6, <1>19 DEF e

(* The rows that a delete leaves are sound. *)
LEMMA DeletedSound ==
    ASSUME NEW d \in Db, Sound(d), NEW p \in d.objects, NEW e \in Db,
           DeletedColumns(d, e, p)
    PROVE  Sound(e)
  <1> DEFINE c == d.chain[p]
             h == HeadAfter(d, p)
  <1>0. /\ p \in Did /\ None \notin Did /\ d.objects \subseteq Did /\ c \in ChainId
        /\ None \notin ChainId /\ d.head[c] \in d.objects /\ d.chain[d.head[c]] = c
        /\ e.objects = d.objects \ {p}
    BY ChainHasHead, StoreAssumption DEF Db, DeletedColumns
  <1>1. \A q \in Did :
         /\ e.obsoletes[q] = IF q = p THEN None
                             ELSE IF q = d.obsoletedBy[p] THEN d.obsoletes[p]
                             ELSE d.obsoletes[q]
         /\ e.obsoletedBy[q] = IF q = p THEN None
                               ELSE IF q = d.obsoletes[p] THEN d.obsoletedBy[p]
                               ELSE d.obsoletedBy[q]
         /\ e.chain[q] = IF q = p THEN None ELSE d.chain[q]
    BY DEF DeletedColumns
  <1>2. \A b \in ChainId :
         /\ e.head[b] = IF b = c THEN h ELSE d.head[b]
         /\ e.sid[b] = IF e.head[b] = None THEN None ELSE d.sid[b]
         /\ e.sid[b] # None => e.sid[b] \in e.names
    BY DEF DeletedColumns
  <1>3. d.obsoletedBy[p] # p /\ d.obsoletes[p] # p
    BY NoSelfLink
  <1>4. /\ d.obsoletes[p] # None => /\ d.obsoletes[p] \in d.objects
                                    /\ d.obsoletedBy[d.obsoletes[p]] = p
                                    /\ d.chain[d.obsoletes[p]] = c
        /\ d.obsoletedBy[p] # None => /\ d.obsoletedBy[p] \in d.objects
                                      /\ d.obsoletes[d.obsoletedBy[p]] = p
                                      /\ d.chain[d.obsoletedBy[p]] = c
    BY <1>0 DEF Sound, LinksSound, ChainsSound
  <1>5. \A q \in d.objects :
          /\ d.obsoletes[q] = p => q = d.obsoletedBy[p]
          /\ d.obsoletedBy[q] = p => q = d.obsoletes[p]
    BY <1>0 DEF Sound, LinksSound
  <1>6. RowsSound(e)
    BY <1>0, <1>1, <1>2, <1>3, <1>4 DEF Sound, RowsSound
  <1>7. LinksSound(e)
    <2> SUFFICES ASSUME NEW q \in e.objects
                 PROVE  /\ e.obsoletes[q] # None =>
                             /\ e.obsoletes[q] \in e.objects
                             /\ e.obsoletedBy[e.obsoletes[q]] = q
                        /\ e.obsoletedBy[q] # None =>
                             /\ e.obsoletedBy[q] \in e.objects
                             /\ e.obsoletes[e.obsoletedBy[q]] = q
      BY DEF LinksSound
    <2>0. /\ q \in Did /\ q # p /\ q \in d.objects
          /\ d.obsoletes[q] # None => /\ d.obsoletes[q] \in d.objects
                                      /\ d.obsoletedBy[d.obsoletes[q]] = q
          /\ d.obsoletedBy[q] # None => /\ d.obsoletedBy[q] \in d.objects
                                        /\ d.obsoletes[d.obsoletedBy[q]] = q
      BY <1>0 DEF Sound, LinksSound
    <2>1. e.obsoletes[q] # None => /\ e.obsoletes[q] \in e.objects
                                   /\ e.obsoletedBy[e.obsoletes[q]] = q
      <3>1. CASE q = d.obsoletedBy[p]
        BY <1>0, <1>1, <1>3, <1>4, <2>0, <3>1
      <3>2. CASE q # d.obsoletedBy[p]
        BY <1>0, <1>1, <1>4, <1>5, <2>0, <3>2
      <3> QED BY <3>1, <3>2
    <2>2. e.obsoletedBy[q] # None => /\ e.obsoletedBy[q] \in e.objects
                                     /\ e.obsoletes[e.obsoletedBy[q]] = q
      <3>1. CASE q = d.obsoletes[p]
        BY <1>0, <1>1, <1>3, <1>4, <2>0, <3>1
      <3>2. CASE q # d.obsoletes[p]
        BY <1>0, <1>1, <1>4, <1>5, <2>0, <3>2
      <3> QED BY <3>1, <3>2
    <2> QED BY <2>1, <2>2
  <1>8. ChainsSound(e)
    <2>1. \A q \in Did : q \in e.objects <=> e.chain[q] # None
      BY <1>0, <1>1 DEF Sound, ChainsSound
    <2>2. ASSUME NEW q \in e.objects, e.obsoletedBy[q] # None
          PROVE  e.chain[e.obsoletedBy[q]] = e.chain[q]
      <3>1. /\ q \in Did /\ q # p /\ q \in d.objects
            /\ d.obsoletedBy[q] # None => /\ d.obsoletedBy[q] \in d.objects
                                          /\ d.chain[d.obsoletedBy[q]] = d.chain[q]
        BY <1>0 DEF Sound, ChainsSound, LinksSound
      <3>2. e.obsoletedBy[q] \in e.objects
        BY <1>7, <2>2 DEF LinksSound
      <3>3. CASE q = d.obsoletes[p]
        BY <1>0, <1>1, <1>4, <2>2, <3>1, <3>2, <3>3
      <3>4. CASE q # d.obsoletes[p]
        BY <1>0, <1>1, <2>2, <3>1, <3>2, <3>4
      <3> QED BY <3>3, <3>4
    <2>3. \A b \in ChainId : e.sid[b] # None => e.head[b] # None
      BY <1>2
    <2>4. ASSUME NEW b \in ChainId, e.head[b] # None
          PROVE  e.head[b] \in e.objects /\ e.chain[e.head[b]] = b
      <3>1. CASE b = c
        BY <1>0, <1>1, <1>2, <1>3, <1>4, <2>4, <3>1 DEF HeadAfter
      <3>2. CASE b # c
        BY <1>0, <1>1, <1>2, <2>4, <3>2 DEF Sound, ChainsSound
      <3> QED BY <3>1, <3>2
    <2> QED BY <2>1, <2>2, <2>3, <2>4 DEF ChainsSound
  <1>9. HeadsSound(e)
    <2> SUFFICES ASSUME NEW q \in e.objects
                 PROVE  e.obsoletedBy[q] = None <=> q = e.head[e.chain[q]]
      BY DEF HeadsSound
    <2>0. /\ q \in Did /\ q # p /\ q \in d.objects /\ d.chain[q] \in ChainId
          /\ d.obsoletedBy[q] = None <=> q = d.head[d.chain[q]]
          /\ d.obsoletedBy[p] = None <=> p = d.head[c]
      BY <1>0, ChainHasHead DEF Sound, HeadsSound
    <2>1. CASE q = d.obsoletes[p]
      BY <1>0, <1>1, <1>2, <1>4, <2>0, <2>1 DEF HeadAfter
    <2>2. CASE q # d.obsoletes[p]
      BY <1>0, <1>1, <1>2, <2>0, <2>2 DEF HeadAfter
    <2> QED BY <2>1, <2>2
  <1>10. WalksSound(e)
    <2> SUFFICES ASSUME NEW q \in e.objects
                 PROVE  e.head[e.chain[q]] \in Visited(e, q)
      BY DEF WalksSound
    <2> DEFINE b == d.chain[q]
    <2>0. /\ q \in Did /\ q # p /\ q \in d.objects /\ b \in ChainId /\ e.chain[q] = b
          /\ d.head[b] \in Visited(d, q) /\ d.head[b] \in d.objects /\ d.chain[d.head[b]] = b
      BY <1>0, <1>1, ChainHasHead DEF Sound, WalksSound
    <2>1. ASSUME NEW R \in SUBSET e.objects, q \in R, ClosedUnderNewer(e, R)
          PROVE  e.head[b] \in R
      <3>1. ASSUME NEW r \in R, d.obsoletedBy[r] \in d.objects, r # d.obsoletes[p]
            PROVE  d.obsoletedBy[r] \in R
        BY <1>0, <1>1, <1>5, <2>1, <3>1 DEF ClosedUnderNewer
      <3>2. CASE d.obsoletes[p] \in R
        <4>1. d.obsoletedBy[p] \in d.objects => d.obsoletedBy[p] \in R
          BY <1>0, <1>1, <1>3, <2>1, <3>2 DEF ClosedUnderNewer
        <4>2. d.obsoletedBy[d.obsoletes[p]] = p
          BY <1>0, <1>4, <3>2
        <4>3. ClosedUnderNewer(d, R \cup {p})
          BY <3>1, <4>1, <4>2 DEF ClosedUnderNewer
        <4>4. d.head[b] \in R \cup {p}
          BY <1>0, <2>0, <2>1, <4>3, VisitedInClosed
        <4> QED BY <1>0, <1>2, <2>0, <3>2, <4>4 DEF HeadAfter
      <3>3. CASE d.obsoletes[p] \notin R
        <4>1. ClosedUnderNewer(d, R)
          BY <3>1, <3>3 DEF ClosedUnderNewer
        <4>2. d.head[b] \in R
          BY <1>0, <2>0, <2>1, <4>1, VisitedInClosed
        <4> QED BY <1>0, <1>2, <2>0, <4>2 DEF HeadAfter
      <3> QED BY <3>2, <3>3
    <2>2. e.head[b] \in e.objects
      BY <2>0, <2>1 DEF ClosedUnderNewer
    <2> QED BY <2>0, <2>1, <2>2 DEF Visited
  <1> QED BY <1>6, <1>7, <1>8, <1>9, <1>10 DEF Sound

(* delete_sciobj_from_database() always succeeds, and keeps the rows sound. *)
LEMMA DeleteWorks ==
    ASSUME Pids \cap Sids = {}, NEW d \in Db, Sound(d), NEW p \in d.objects
    PROVE  /\ DeleteSciobjOk(d, p)
           /\ DeletedColumns(d, DeleteSciobj(d, p), p)
           /\ DeleteSciobj(d, p) \in Db
           /\ Sound(DeleteSciobj(d, p))
  <1>1. DeleteSciobjOk(d, p) /\ DeletedColumns(d, DeleteSciobj(d, p), p)
    BY DeleteLinked, DeleteStandalone
  <1>2. DeleteSciobj(d, p) \in Db
    BY <1>1, DeleteSciobjType, ChainHasHead
  <1> QED BY <1>1, <1>2, DeletedSound

-----------------------------------------------------------------------------
(* Storing.                                                                 *)

(* What storing the new object p leaves, column by column.  It is appended   *)
(* to old, and to its chain c, or begins the chain c when old is None.       *)
StoredColumns(d, e, p, old, c, s) ==
    /\ e.objects = d.objects \cup {p}
    /\ d.names \subseteq e.names /\ (s # None => s \in e.names)
    /\ \A q \in Did :
         /\ e.obsoletes[q] = IF q = p THEN old ELSE d.obsoletes[q]
         /\ e.obsoletedBy[q] = IF q = old THEN p ELSE d.obsoletedBy[q]
         /\ e.chain[q] = IF q = p THEN c ELSE d.chain[q]
    /\ \A b \in ChainId :
         /\ e.head[b] = IF b = c THEN p ELSE d.head[b]
         /\ e.sid[b] = IF b = c /\ s # None THEN s ELSE d.sid[b]
         /\ s # None /\ b # c => d.sid[b] # s

LEMMA StoredSound ==
    ASSUME NEW d \in Db, Sound(d), NEW p \in Pids \ d.objects, NEW e \in Db,
           NEW old \in Opt(d.objects), NEW c \in ChainId, NEW s \in Opt(Sids),
           StoredColumns(d, e, p, old, c, s),
           old = None => d.head[c] = None,
           old # None => d.obsoletedBy[old] = None /\ d.chain[old] = c
    PROVE  Sound(e)
  <1>0. /\ p \in Did /\ None \notin Did /\ None \notin ChainId /\ d.objects \subseteq Did
        /\ e.objects = d.objects \cup {p} /\ p \notin d.objects
        /\ old # None => old \in d.objects
    BY DidParts, StoreAssumption DEF Db, StoredColumns, Opt
  <1>1. \A q \in Did :
         /\ e.obsoletes[q] = IF q = p THEN old ELSE d.obsoletes[q]
         /\ e.obsoletedBy[q] = IF q = old THEN p ELSE d.obsoletedBy[q]
         /\ e.chain[q] = IF q = p THEN c ELSE d.chain[q]
    BY DEF StoredColumns
  <1>2. \A b \in ChainId :
         /\ e.head[b] = IF b = c THEN p ELSE d.head[b]
         /\ e.sid[b] = IF b = c /\ s # None THEN s ELSE d.sid[b]
         /\ s # None /\ b # c => d.sid[b] # s
    BY DEF StoredColumns
  <1>3. d.obsoletes[p] = None /\ d.obsoletedBy[p] = None
    BY <1>0 DEF Sound, RowsSound
  <1>4. RowsSound(e)
    <2>1. e.objects \subseteq Pids
      BY <1>0 DEF Sound, RowsSound
    <2>2. \A q \in Did \ e.objects : {e.obsoletes[q], e.obsoletedBy[q]} = {None}
      BY <1>0, <1>1 DEF Sound, RowsSound
    <2>3. \A b \in ChainId : e.sid[b] # None => e.sid[b] \in Sids \cap e.names
      BY <1>2 DEF Sound, RowsSound, StoredColumns, Opt
    <2>4. \A b \in ChainId, f \in ChainId : e.sid[b] # None /\ e.sid[b] = e.sid[f] => b = f
      BY <1>2 DEF Sound, RowsSound
    <2> QED BY <2>1, <2>2, <2>3, <2>4 DEF RowsSound
  <1>5. LinksSound(e)
    <2> SUFFICES ASSUME NEW q \in e.objects
                 PROVE  /\ e.obsoletes[q] # None =>
                             /\ e.obsoletes[q] \in e.objects
                             /\ e.obsoletedBy[e.obsoletes[q]] = q
                        /\ e.obsoletedBy[q] # None =>
                             /\ e.obsoletedBy[q] \in e.objects
                             /\ e.obsoletes[e.obsoletedBy[q]] = q
      BY DEF LinksSound
    <2>1. CASE q = p
      BY <1>0, <1>1, <1>3, <2>1
    <2>2. CASE q # p
      <3>1. /\ q \in Did /\ q \in d.objects
            /\ d.obsoletes[q] # None => /\ d.obsoletes[q] \in d.objects
                                        /\ d.obsoletedBy[d.obsoletes[q]] = q
            /\ d.obsoletedBy[q] # None => /\ d.obsoletedBy[q] \in d.objects
                                          /\ d.obsoletes[d.obsoletedBy[q]] = q
        BY <1>0, <2>2 DEF Sound, LinksSound
      <3> QED BY <1>0, <1>1, <2>2, <3>1
    <2> QED BY <2>1, <2>2
  <1>6. ChainsSound(e)
    <2>1. \A q \in Did : q \in e.objects <=> e.chain[q] # None
      BY <1>0, <1>1 DEF Sound, ChainsSound
    <2>2. \A q \in e.objects : e.obsoletedBy[q] # None => e.chain[e.obsoletedBy[q]] = e.chain[q]
      BY <1>0, <1>1, <1>3 DEF Sound, ChainsSound, LinksSound
    <2>3. \A b \in ChainId : e.sid[b] # None => e.head[b] # None
      BY <1>0, <1>2 DEF Sound, ChainsSound
    <2>4. \A b \in ChainId : e.head[b] # None =>
                e.head[b] \in e.objects /\ e.chain[e.head[b]] = b
      BY <1>0, <1>1, <1>2 DEF Sound, ChainsSound
    <2> QED BY <2>1, <2>2, <2>3, <2>4 DEF ChainsSound
  <1>7. HeadsSound(e)
    <2> SUFFICES ASSUME NEW q \in e.objects
                 PROVE  e.obsoletedBy[q] = None <=> q = e.head[e.chain[q]]
      BY DEF HeadsSound
    <2>1. CASE q = p
      BY <1>0, <1>1, <1>2, <1>3, <2>1
    <2>2. CASE q # p
      <3>1. /\ q \in Did /\ q \in d.objects /\ d.chain[q] \in ChainId
            /\ d.head[d.chain[q]] \in d.objects
            /\ d.obsoletedBy[q] = None <=> q = d.head[d.chain[q]]
        BY <1>0, <2>2, ChainHasHead DEF Sound, HeadsSound
      <3>2. old # None => old = d.head[c]
        BY <1>0 DEF Sound, HeadsSound
      <3> QED BY <1>0, <1>1, <1>2, <2>2, <3>1, <3>2
    <2> QED BY <2>1, <2>2
  <1>8. WalksSound(e)
    <2> SUFFICES ASSUME NEW q \in e.objects, NEW R \in SUBSET e.objects,
                        q \in R, ClosedUnderNewer(e, R)
                 PROVE  e.head[e.chain[q]] \in R
      <3>1. ClosedUnderNewer(e, e.objects)
        BY DEF ClosedUnderNewer
      <3> QED BY <3>1 DEF WalksSound, Visited
    <2>1. CASE q = p
      BY <1>0, <1>1, <1>2, <2>1
    <2>2. CASE q # p
      <3> DEFINE b == d.chain[q]
      <3>1. /\ q \in Did /\ q \in d.objects /\ b \in ChainId /\ e.chain[q] = b
            /\ d.head[b] \in Visited(d, q) /\ d.head[b] \in d.objects
        BY <1>0, <1>1, <2>2, ChainHasHead DEF Sound, WalksSound
      <3>2. ClosedUnderNewer(d, R \cap d.objects)
        BY <1>0, <1>1 DEF ClosedUnderNewer
      <3>3. d.head[b] \in R
        BY <3>1, <3>2, VisitedInClosed
      <3>4. CASE b = c
        <4>1. old # None /\ old = d.head[c]
          BY <1>0, <3>1, <3>4 DEF Sound, HeadsSound
        <4>2. e.obsoletedBy[old] = p
          BY <1>0, <1>1, <4>1
        <4> QED BY <1>0, <1>2, <3>1, <3>3, <3>4, <4>1, <4>2 DEF ClosedUnderNewer
      <3>5. CASE b # c
        BY <1>2, <3>1, <3>3, <3>5
      <3> QED BY <3>4, <3>5
    <2> QED BY <2>1, <2>2
  <1> QED BY <1>4, <1>5, <1>6, <1>7, <1>8 DEF Sound

(* The head of a chain whose newest object nothing local obsoletes. *)
LEMMA UpdateHeadOfNewest ==
    ASSUME NEW d \in Db, NEW p \in d.objects, d.obsoletedBy[p] = None,
           d.chain[p] # None
    PROVE  UpdateHead(d, p) = [d EXCEPT !.head[d.chain[p]] = p]
  <1>1. WalkStops(d, p)
    BY StoreAssumption DEF WalkStops, Db
  <1>2. p \in Visited(d, p)
    BY DEF Visited
  <1>3. ClosedUnderNewer(d, {p})
    BY <1>1 DEF ClosedUnderNewer, WalkStops
  <1>4. FindHead(d, p) = p
    BY <1>1, <1>2, <1>3, WalkEndsAt
  <1> QED BY <1>4 DEF UpdateHead

(* MNStorage.create() begins a chain. *)
LEMMA CreateSound ==
    ASSUME NEW d \in Db, Sound(d), NEW p \in Pids \ d.objects,
           NEW s \in Opt(Sids), IsValidSidForNewStandalone(d, s),
           CreateOrUpdateOk(d, NewSysmeta(p, None, s))
    PROVE  /\ Sound(CreateOrUpdate(d, NewSysmeta(p, None, s)))
           /\ \E c \in ChainId :
                 d.head[c] = None /\
                 StoredColumns(d, CreateOrUpdate(d, NewSysmeta(p, None, s)), p, None, c, s)
  <1> DEFINE m == NewSysmeta(p, None, s)
             L == Linked(d, m)
             f == FreeChain(L)
             B == [L EXCEPT !.chain[p] = f, !.head[f] = p]
             A == SetChainSid(B, f, s)
             e == CreateOrUpdate(d, m)
  <1>0. /\ p \in Did /\ None \notin Did /\ None \notin ChainId /\ d.objects \subseteq Did
        /\ p \notin d.objects /\ s \in Opt(Did)
    BY DidParts, StoreAssumption DEF Db, Opt
  <1>1. /\ m \in Sysmeta /\ m.pid = p /\ m.obsoletes = None /\ m.obsoletedBy = None
        /\ m.seriesId = s
    BY <1>0 DEF NewSysmeta, Sysmeta, Opt
  <1> HIDE DEF m
  <1>2. /\ L \in Db /\ L.objects = d.objects \cup {p} /\ L.chain = d.chain /\ L.head = d.head
        /\ L.sid = d.sid /\ d.names \subseteq L.names
        /\ \A q \in Did : L.obsoletes[q] = d.obsoletes[q] /\ L.obsoletedBy[q] = d.obsoletedBy[q]
    <2>1. L \in Db
      BY <1>1, LinkedType
    <2> QED BY <1>0, <1>1, <2>1, LinkedColumns
  <1> HIDE DEF L
  <1>3. d.chain[p] = None /\ d.obsoletedBy[p] = None
    BY <1>0 DEF Sound, ChainsSound, RowsSound
  <1>4. JoinedChain(L, m) = None
    <2>1. s # None => ~IsSid(L, s)
      BY <1>2 DEF IsSid, IsValidSidForNewStandalone, Sound, RowsSound
    <2> QED BY <1>1, <2>1 DEF JoinedChain, ChainOf
  <1>5. AddSciobjOk(L, m) /\ CreateOrUpdateChain(L, m) = A
    BY <1>1, <1>2, <1>3, <1>4
    DEF CreateOrUpdateOk, CreateOrUpdateChainOk, CreateOrUpdateChain, AddSciobj, L, m
  <1>6. f \in ChainId /\ d.head[f] = None /\ d.sid[f] = None
    <2>1. f \in ChainId /\ L.head[f] = None
      BY <1>4, <1>5 DEF AddSciobjOk, FreeChain
    <2> QED BY <1>2, <2>1 DEF Sound, ChainsSound
  <1> HIDE DEF f
  <1>7. /\ B \in Db /\ B.objects = L.objects /\ B.names = L.names /\ B.sid = L.sid
        /\ B.obsoletes = L.obsoletes /\ B.obsoletedBy = L.obsoletedBy
        /\ B.chain = [L.chain EXCEPT ![p] = f] /\ B.head = [L.head EXCEPT ![f] = p]
    BY <1>0, <1>2, <1>6 DEF Db, Opt
  <1> HIDE DEF B
  <1>8. /\ A \in Db /\ A.objects = B.objects /\ A.chain = B.chain /\ A.head = B.head
        /\ A.obsoletes = B.obsoletes /\ A.obsoletedBy = B.obsoletedBy
        /\ B.names \subseteq A.names /\ (s # None => s \in A.names)
        /\ \A b \in ChainId : A.sid[b] = IF b = f /\ s # None THEN s ELSE d.sid[b]
    <2>1. A \in Db
      BY <1>0, <1>6, <1>7, SetChainSidType
    <2> QED BY <1>2, <1>6, <1>7, <2>1 DEF SetChainSid, Db
  <1> HIDE DEF A
  <1>9. p \in A.objects /\ A.chain[p] = f /\ A.obsoletedBy[p] = None
    BY <1>0, <1>2, <1>3, <1>7, <1>8 DEF Db
  <1>10. e = [A EXCEPT !.head[f] = p]
    <2>1. e = UpdateHead(A, p)
      BY <1>1, <1>5 DEF CreateOrUpdate, L
    <2> QED BY <1>0, <1>6, <1>8, <1>9, <2>1, UpdateHeadOfNewest
  <1>11. e \in Db
    BY <1>1, CreateOrUpdateType DEF m
  <1> HIDE DEF e
  <1>12. StoredColumns(d, e, p, None, f, s)
    <2>1. \A b \in ChainId : s # None => d.sid[b] # s
      BY DEF IsValidSidForNewStandalone, Sound, RowsSound
    <2>2. d.obsoletes[p] = None
      BY <1>0 DEF Sound, RowsSound
    <2>3. /\ e.objects = A.objects /\ e.names = A.names /\ e.sid = A.sid
          /\ e.obsoletes = A.obsoletes /\ e.obsoletedBy = A.obsoletedBy
          /\ e.chain = A.chain /\ e.head = [A.head EXCEPT ![f] = p]
      BY <1>8, <1>10 DEF Db
    <2> QED BY <1>0, <1>2, <1>6, <1>7, <1>8, <2>1, <2>2, <2>3 DEF StoredColumns, Db
  <1>13. Sound(e)
    BY <1>0, <1>6, <1>11, <1>12, StoredSound DEF Opt
  <1> QED BY <1>6, <1>12, <1>13 DEF e, m

(* MNStorage.update() appends to the chain of old. *)
LEMMA UpdateSound ==
    ASSUME NEW d \in Db, Sound(d), NEW p \in Pids \ d.objects,
           NEW old \in d.objects, d.obsoletedBy[old] = None, NEW s \in Opt(Sids),
           CreateOrUpdateOk(d, NewSysmeta(p, old, s))
    PROVE  /\ Sound(CreateOrUpdate(d, NewSysmeta(p, old, s)))
           /\ StoredColumns(d, CreateOrUpdate(d, NewSysmeta(p, old, s)), p, old,
                            d.chain[old], s)
           /\ s # None => d.sid[d.chain[old]] \in {None, s}
  <1> DEFINE m == NewSysmeta(p, old, s)
             L == Linked(d, m)
             c == d.chain[old]
             B == [L EXCEPT !.chain[p] = c]
             A == SetChainSid(B, c, s)
             e == CreateOrUpdate(d, m)
  <1>0. /\ p \in Did /\ None \notin Did /\ None \notin ChainId /\ d.objects \subseteq Did
        /\ p \notin d.objects /\ s \in Opt(Did) /\ old \in Did /\ old # p /\ c \in ChainId
    BY DidParts, StoreAssumption, ChainHasHead DEF Db, Opt
  <1>1. /\ m \in Sysmeta /\ m.pid = p /\ m.obsoletes = old /\ m.obsoletedBy = None
        /\ m.seriesId = s
    BY <1>0 DEF NewSysmeta, Sysmeta, Opt
  <1> HIDE DEF m
  <1>2. /\ L \in Db /\ L.objects = d.objects \cup {p} /\ L.chain = d.chain /\ L.head = d.head
        /\ L.sid = d.sid /\ d.names \subseteq L.names
        /\ \A q \in Did : /\ L.obsoletes[q] = IF q = p THEN old ELSE d.obsoletes[q]
                          /\ L.obsoletedBy[q] = IF q = old THEN p ELSE d.obsoletedBy[q]
    <2>1. L \in Db
      BY <1>1, LinkedType
    <2> QED BY <1>0, <1>1, <2>1, LinkedColumns
  <1> HIDE DEF L
  <1>3. d.chain[p] = None /\ d.obsoletedBy[p] = None
    BY <1>0 DEF Sound, ChainsSound, RowsSound
  <1>4. /\ JoinedChain(L, m) = c /\ ChainOf(L, m.obsoletedBy) = None
        /\ MergeChains(L, c, None) = L
    BY <1>0, <1>1, <1>2 DEF JoinedChain, ChainOf, MergeChains
  <1>5. AddSciobjOk(L, m) /\ CreateOrUpdateChain(L, m) = A
    <2>1. AddSciobjOk(L, m) /\ CreateOrUpdateChain(L, m) = AddSciobj(L, m)
      BY <1>1, <1>2, <1>3
      DEF CreateOrUpdateOk, CreateOrUpdateChainOk, CreateOrUpdateChain, L, m
    <2> HIDE DEF c
    <2> QED BY <1>0, <1>1, <1>4, <2>1 DEF AddSciobj
  <1>6. SetChainSidOk(L, c, s)
    <2> HIDE DEF c
    <2> QED BY <1>0, <1>1, <1>4, <1>5 DEF AddSciobjOk
  <1> HIDE DEF c
  <1>7. /\ B \in Db /\ B.objects = L.objects /\ B.names = L.names /\ B.sid = L.sid
        /\ B.obsoletes = L.obsoletes /\ B.obsoletedBy = L.obsoletedBy
        /\ B.chain = [L.chain EXCEPT ![p] = c] /\ B.head = L.head
    BY <1>0, <1>2 DEF Db, Opt
  <1> HIDE DEF B
  <1>8. /\ A \in Db /\ A.objects = B.objects /\ A.chain = B.chain /\ A.head = B.head
        /\ A.obsoletes = B.obsoletes /\ A.obsoletedBy = B.obsoletedBy
        /\ B.names \subseteq A.names /\ (s # None => s \in A.names)
        /\ \A b \in ChainId : A.sid[b] = IF b = c /\ s # None THEN s ELSE d.sid[b]
    <2>1. A \in Db
      BY <1>0, <1>7, SetChainSidType
    <2> QED BY <1>0, <1>2, <1>7, <2>1 DEF SetChainSid, Db
  <1> HIDE DEF A
  <1>9. p \in A.objects /\ A.chain[p] = c /\ A.obsoletedBy[p] = None
    BY <1>0, <1>2, <1>3, <1>7, <1>8 DEF Db
  <1>10. e = [A EXCEPT !.head[c] = p]
    <2>1. e = UpdateHead(A, p)
      BY <1>1, <1>5 DEF CreateOrUpdate, L
    <2> QED BY <1>0, <1>8, <1>9, <2>1, UpdateHeadOfNewest
  <1>11. e \in Db
    BY <1>1, CreateOrUpdateType DEF m
  <1> HIDE DEF e
  <1>12. StoredColumns(d, e, p, old, c, s)
    <2>1. \A b \in ChainId : s # None /\ b # c => d.sid[b] # s
      BY <1>2, <1>6 DEF SetChainSidOk
    <2>3. /\ e.objects = A.objects /\ e.names = A.names /\ e.sid = A.sid
          /\ e.obsoletes = A.obsoletes /\ e.obsoletedBy = A.obsoletedBy
          /\ e.chain = A.chain /\ e.head = [A.head EXCEPT ![c] = p]
      BY <1>8, <1>10 DEF Db
    <2> QED BY <1>0, <1>2, <1>7, <1>8, <2>1, <2>3 DEF StoredColumns, Db
  <1>13. Sound(e)
    BY <1>0, <1>11, <1>12, StoredSound DEF Opt, c
  <1>14. s # None => d.sid[c] \in {None, s}
    BY <1>2, <1>6 DEF SetChainSidOk
  <1> QED BY <1>12, <1>13, <1>14 DEF e, m, c

(* What a request that stores no new object leaves: the same rows, but for   *)
(* the SID of one chain.                                                     *)
KeptColumns(d, e, c, s) ==
    /\ e.objects = d.objects /\ e.chain = d.chain /\ e.head = d.head
    /\ e.obsoletes = d.obsoletes /\ e.obsoletedBy = d.obsoletedBy
    /\ d.names \subseteq e.names /\ (s # None => s \in e.names)
    /\ \A b \in ChainId :
         /\ e.sid[b] = IF b = c /\ s # None THEN s ELSE d.sid[b]
         /\ s # None /\ b # c => d.sid[b] # s

LEMMA KeptSound ==
    ASSUME NEW d \in Db, Sound(d), NEW e \in Db, NEW c, NEW s \in Opt(Sids),
           s # None => d.head[c] # None, KeptColumns(d, e, c, s)
    PROVE  Sound(e)
  <1>1. /\ e.objects = d.objects /\ e.chain = d.chain /\ e.head = d.head
        /\ e.obsoletes = d.obsoletes /\ e.obsoletedBy = d.obsoletedBy
        /\ d.names \subseteq e.names /\ (s # None => s \in e.names)
        /\ \A b \in ChainId :
             /\ e.sid[b] = IF b = c /\ s # None THEN s ELSE d.sid[b]
             /\ s # None /\ b # c => d.sid[b] # s
    BY DEF KeptColumns
  <1>2. RowsSound(e)
    BY <1>1 DEF Sound, RowsSound, Opt
  <1>3. LinksSound(e) /\ HeadsSound(e)
    BY <1>1 DEF Sound, LinksSound, HeadsSound
  <1>4. ChainsSound(e)
    BY <1>1 DEF Sound, ChainsSound
  <1>5. WalksSound(e)
    BY <1>1 DEF Sound, WalksSound, Visited, ClosedUnderNewer
  <1> QED BY <1>2, <1>3, <1>4, <1>5 DEF Sound

(* MNStorage.updateSystemMetadata() of a document that changes no links. *)
LEMMA PutMetaSound ==
    ASSUME NEW d \in Db, Sound(d), NEW m \in Sysmeta, m.pid \in d.objects,
           m.seriesId \in Opt(Sids), ~Relinks(d, m), CreateOrUpdateOk(d, m)
    PROVE  LET e == CreateOrUpdate(d, m)
           IN  /\ KeptColumns(d, e, d.chain[m.pid], m.seriesId)
               /\ m.seriesId # None => d.sid[d.chain[m.pid]] \in {None, m.seriesId}
               /\ Sound(e)
  <1> DEFINE p == m.pid
             s == m.seriesId
             c == d.chain[p]
             h == d.head[c]
             L == Linked(d, m)
             A == SetChainSid(L, c, s)
             e == CreateOrUpdate(d, m)
             S == {q \in d.objects : d.chain[q] = c}
  <1>0. /\ p \in Did /\ None \notin Did /\ None \notin ChainId /\ d.objects \subseteq Did
        /\ c \in ChainId /\ h \in d.objects /\ d.chain[h] = c
    BY StoreAssumption, ChainHasHead DEF Db, Opt
  <1>1. s \in Opt(Sids) /\ s \in Opt(Did)
    BY <1>0, DidParts DEF Opt
  <1>2. /\ m.pid = p /\ m.seriesId = s /\ p \in d.objects
        /\ m.obsoletes \in {None, d.obsoletes[p]} /\ m.obsoletedBy \in {None, d.obsoletedBy[p]}
    BY DEF Relinks
  <1> HIDE DEF p, s
  <1>3. /\ L \in Db /\ L.objects = d.objects /\ L.chain = d.chain /\ L.head = d.head
        /\ L.sid = d.sid /\ d.names \subseteq L.names
        /\ L.obsoletes = d.obsoletes /\ L.obsoletedBy = d.obsoletedBy
    <2>1. L \in Db
      BY <1>2, LinkedType
    <2>2. /\ L.objects = d.objects /\ L.chain = d.chain /\ L.head = d.head
          /\ L.sid = d.sid /\ d.names \subseteq L.names
      <3>1. /\ L.objects = d.objects \cup {m.pid} /\ L.chain = d.chain /\ L.head = d.head
            /\ L.sid = d.sid /\ d.names \subseteq L.names
        BY <1>2, LinkedColumns
      <3> HIDE DEF L
      <3> QED BY <1>2, <3>1
    <2>3. ASSUME NEW q \in Did
          PROVE  L.obsoletes[q] = d.obsoletes[q] /\ L.obsoletedBy[q] = d.obsoletedBy[q]
      <3>1. /\ L.obsoletes[p] = d.obsoletes[p] /\ L.obsoletedBy[p] = d.obsoletedBy[p]
            /\ q # p =>
                 /\ L.obsoletes[q] = IF q = m.obsoletedBy /\ q \in d.objects THEN p
                                     ELSE d.obsoletes[q]
                 /\ L.obsoletedBy[q] = IF q = m.obsoletes /\ q \in d.objects THEN p
                                       ELSE d.obsoletedBy[q]
        BY <1>2, LinkedColumns
      <3>2. /\ q = m.obsoletedBy => d.obsoletes[q] = p
            /\ q = m.obsoletes => d.obsoletedBy[q] = p
        BY <1>0, <1>2 DEF Sound, LinksSound
      <3> QED BY <3>1, <3>2
    <2> HIDE DEF L
    <2> QED BY <2>1, <2>2, <2>3 DEF Db
  <1> HIDE DEF L
  <1>4. CreateOrUpdateChain(L, m) = A /\ SetChainSidOk(L, c, s)
    BY <1>0, <1>2, <1>3 DEF CreateOrUpdateChain, CreateOrUpdateChainOk, CreateOrUpdateOk, L
  <1>5. /\ A \in Db /\ A.objects = d.objects /\ A.chain = d.chain /\ A.head = d.head
        /\ A.obsoletes = d.obsoletes /\ A.obsoletedBy = d.obsoletedBy
        /\ d.names \subseteq A.names /\ (s # None => s \in A.names)
        /\ \A b \in ChainId : A.sid[b] = IF b = c /\ s # None THEN s ELSE d.sid[b]
    <2>1. A \in Db
      BY <1>0, <1>1, <1>3, SetChainSidType
    <2> HIDE DEF c
    <2> QED BY <1>0, <1>3, <2>1 DEF SetChainSid, Db
  <1> HIDE DEF A
  <1>6. FindHead(A, p) = h
    <2>1. h \in Visited(A, p)
      BY <1>2, <1>5 DEF Sound, WalksSound, Visited, ClosedUnderNewer
    <2>2. WalkStops(A, h)
      BY <1>0, <1>5 DEF WalkStops, Sound, HeadsSound
    <2>3. ClosedUnderNewer(A, S)
      BY <1>0, <1>5 DEF ClosedUnderNewer, Sound, ChainsSound
    <2>4. \A q \in S : WalkStops(A, q) => q = h
      BY <1>0, <1>5 DEF WalkStops, Sound, LinksSound, HeadsSound
    <2> QED BY <1>2, <1>5, <2>1, <2>2, <2>3, <2>4, WalkEndsAt
  <1>7. e = A
    <2>1. e = UpdateHead(A, p)
      <3>1. e = UpdateHead(CreateOrUpdateChain(L, m), m.pid)
        BY DEF CreateOrUpdate, L
      <3> QED BY <1>2, <1>4, <3>1
    <2>2. A.head[A.chain[h]] = h /\ A.chain[h] \in ChainId /\ A.chain[h] # None
      BY <1>0, <1>5
    <2>3. UpdateHead(A, p) = [A EXCEPT !.head[A.chain[h]] = h]
      BY <1>6, <2>2 DEF UpdateHead
    <2>4. \A k \in Db, b \in ChainId : [k EXCEPT !.head[b] = k.head[b]] = k
      BY DEF Db
    <2>5. [A EXCEPT !.head[A.chain[h]] = A.head[A.chain[h]]] = A
      BY <1>5, <2>2, <2>4
    <2>6. UpdateHead(A, p) = [A EXCEPT !.head[A.chain[h]] = A.head[A.chain[h]]]
      BY <2>2, <2>3, Zenon
    <2> QED BY <2>1, <2>5, <2>6, Zenon
  <1>8. KeptColumns(d, e, c, s) /\ (s # None => d.sid[c] \in {None, s})
    <2> HIDE DEF e, c
    <2> QED BY <1>3, <1>4, <1>5, <1>7 DEF KeptColumns, SetChainSidOk
  <1>9. Sound(e)
    <2> HIDE DEF e
    <2> QED BY <1>0, <1>1, <1>5, <1>7, <1>8, KeptSound
  <1> QED BY <1>8, <1>9 DEF p, s

-----------------------------------------------------------------------------
(* A step of such a node, or a delete that a crash cuts short. *)
NativeStep == NativeNext \/ \E x \in Did : DeleteCrash(x)

-----------------------------------------------------------------------------
(* What a step may do to the rows.                                          *)

(* A new object p begins the chain c, or follows the newest object of it. *)
StoredStep(d, e) ==
    \E p \in Pids \ d.objects, old \in Opt(d.objects), c \in ChainId, s \in Opt(Sids) :
        /\ StoredColumns(d, e, p, old, c, s)
        /\ old = None => d.head[c] = None
        /\ old # None => d.obsoletedBy[old] = None /\ d.chain[old] = c
        /\ s # None => d.sid[c] \in {None, s}

(* At most a chain gets its SID. *)
KeptStep(d, e) ==
    \E c \in Opt(ChainId), s \in Opt(Sids) :
        /\ KeptColumns(d, e, c, s)
        /\ s # None => d.head[c] # None /\ d.sid[c] \in {None, s}

DeletedStep(d, e) == \E p \in d.objects : DeletedColumns(d, e, p)

NativeEffect(d, e) ==
    /\ StoredStep(d, e) \/ KeptStep(d, e) \/ DeletedStep(d, e)
    /\ e \in Db
    /\ Sound(e)

(* The bytes follow the rows: an object that is left has them. *)
FilesFollow == db.objects \subseteq files => db'.objects \subseteq files'

(* The rows stay as they are but for flags, replicas and names. *)
LEMMA NothingStored ==
    ASSUME NEW d \in Db, Sound(d), NEW e \in Db, KeptColumns(d, e, None, None)
    PROVE  NativeEffect(d, e)
  <1>1. Sound(e)
    BY KeptSound DEF Opt
  <1>2. KeptStep(d, e)
    BY DEF KeptStep, Opt
  <1> QED BY <1>1, <1>2 DEF NativeEffect

LEMMA UnchangedRows ==
    ASSUME NEW d \in Db, Sound(d)
    PROVE  NativeEffect(d, d)
  <1>1. KeptColumns(d, d, None, None)
    BY DEF KeptColumns
  <1> QED BY <1>1, NothingStored

LEMMA CreateEffect ==
    ASSUME TypeOK, Sound(db), NEW p \in Pids, NEW s \in Opt(Sids), NEW spooled,
           Create(p, s, spooled)
    PROVE  NativeEffect(db, db') /\ FilesFollow
  <1> DEFINE m == NewSysmeta(p, None, s)
  <1>0. db \in Db /\ p \notin db.objects /\ StoreObject(m) /\ m.pid = p
    BY DEF TypeOK, Create, IsValidPidForCreate, NewSysmeta
  <1>1. CASE db' = db
    BY <1>0, <1>1, UnchangedRows DEF FilesFollow, StoreObject
  <1>2. CASE CreateOrUpdateOk(db, m) /\ db' = CreateOrUpdate(db, m)
    <2>1. PICK c \in ChainId : db.head[c] = None /\ StoredColumns(db, db', p, None, c, s)
      BY <1>0, <1>2, CreateSound DEF Create
    <2>2. Sound(db')
      BY <1>0, <1>2, CreateSound DEF Create
    <2>3. db' \in Db
      <3>1. m \in Sysmeta
        BY DidParts DEF NewSysmeta, Sysmeta, Opt
      <3> QED BY <1>0, <1>2, <3>1, CreateOrUpdateType
    <2>4. s # None => db.sid[c] \in {None, s}
      BY <1>0, <2>1 DEF Sound, ChainsSound
    <2>5. StoredStep(db, db')
      BY <1>0, <2>1, <2>4 DEF StoredStep, Opt
    <2>6. db'.objects = db.objects \cup {p} /\ files' = files \cup {p}
      BY <1>0, <2>1 DEF StoredColumns, StoreObject
    <2> QED BY <2>2, <2>3, <2>5, <2>6 DEF NativeEffect, FilesFollow
  <1> QED BY <1>0, <1>1, <1>2 DEF StoreObject

(* A SID that a client can send for an object is one of Sids. *)
LEMMA SidsForType ==
    ASSUME NEW d \in Db, Sound(d), NEW p \in Did, NEW s \in SidsFor(d, p)
    PROVE  s \in Opt(Sids)
  BY DEF SidsFor, SidOf, Opt, Sound, RowsSound, Db

LEMMA UpdateEffect ==
    ASSUME TypeOK, Sound(db), NEW old \in db.objects, NEW p \in Pids,
           NEW s \in SidsFor(db, old), NEW spooled, Update(old, p, s, spooled)
    PROVE  NativeEffect(db, db') /\ FilesFollow
  <1> DEFINE m == NewSysmeta(p, old, s)
  <1>0. /\ db \in Db /\ Sound(db) /\ p \notin db.objects /\ StoreObject(m) /\ m.pid = p
        /\ old \in Did /\ db.obsoletedBy[old] = None
    BY DEF TypeOK, Update, IsValidPidForCreate, IsValidPidToBeUpdated, NewSysmeta, Db
  <1>1. CASE db' = db
    BY <1>0, <1>1, UnchangedRows DEF FilesFollow, StoreObject
  <1>2. CASE CreateOrUpdateOk(db, m) /\ db' = CreateOrUpdate(db, m)
    <2>0. s \in Opt(Sids) /\ db.chain[old] \in ChainId
      BY <1>0, SidsForType, ChainHasHead
    <2>1. /\ StoredColumns(db, db', p, old, db.chain[old], s) /\ Sound(db')
          /\ s # None => db.sid[db.chain[old]] \in {None, s}
      BY <1>0, <1>2, <2>0, UpdateSound
    <2>2. db' \in Db
      <3>1. m \in Sysmeta
        BY <1>0, <2>0, DidParts DEF NewSysmeta, Sysmeta, Opt
      <3> QED BY <1>0, <1>2, <3>1, CreateOrUpdateType
    <2>3. old # None
      BY <1>0, StoreAssumption
    <2>4. StoredStep(db, db')
      BY <1>0, <2>0, <2>1, <2>3 DEF StoredStep, Opt
    <2>5. db'.objects = db.objects \cup {p} /\ files' = files \cup {p}
      BY <1>0, <2>1 DEF StoredColumns, StoreObject
    <2> QED BY <2>1, <2>2, <2>4, <2>5 DEF NativeEffect, FilesFollow
  <1> QED BY <1>0, <1>1, <1>2 DEF StoreObject

(* A document changes links, of which the history takes note, or keeps them. *)
LEMMA PutMetaEffect ==
    ASSUME TypeOK, Sound(db), relinks = 0, relinks' = 0, NEW p \in db.objects,
           NEW links \in LinksFor(p), NEW s \in SidsFor(db, p), NEW archived \in BOOLEAN,
           PutMeta(p, links, s, archived)
    PROVE  NativeEffect(db, db') /\ FilesFollow
  <1>0. db \in Db /\ p \in Did
    BY DEF TypeOK, Db
  <1>1. PICK m \in Sysmeta : m.pid = p /\ m.seriesId = s /\ Replace(m)
    BY PutMetaDocument
  <1>2. files' = files
    BY <1>1 DEF Replace
  <1>3. CASE db' = db
    BY <1>0, <1>2, <1>3, UnchangedRows DEF FilesFollow
  <1>4. CASE CreateOrUpdateOk(db, m) /\ db' = CreateOrUpdate(db, m) /\ ~Relinks(db, m)
    <2>0. s \in Opt(Sids) /\ db.chain[p] \in ChainId /\ db.head[db.chain[p]] # None
      BY <1>0, SidsForType, ChainHasHead, StoreAssumption DEF Db
    <2>1. /\ KeptColumns(db, db', db.chain[p], s) /\ Sound(db')
          /\ s # None => db.sid[db.chain[p]] \in {None, s}
      BY <1>0, <1>1, <1>4, <2>0, PutMetaSound
    <2>2. db' \in Db
      BY <1>0, <1>4, CreateOrUpdateType
    <2>3. KeptStep(db, db')
      BY <2>0, <2>1 DEF KeptStep, Opt
    <2> QED BY <1>2, <2>1, <2>2, <2>3 DEF NativeEffect, FilesFollow, KeptColumns
  <1> QED BY <1>1, <1>3, <1>4 DEF Replace

LEMMA ArchiveEffect ==
    ASSUME TypeOK, Sound(db), NEW x \in Did, Archive(x)
    PROVE  NativeEffect(db, db') /\ FilesFollow
  <1> DEFINE p == ResolveSid(db, x)
  <1>1. db \in Db /\ Sound(db) /\ p \in db.objects /\ files' = files
        /\ db' = [db EXCEPT !.archived = @ \cup {p}]
    BY DEF TypeOK, Archive
  <1> HIDE DEF p
  <1>2. db' \in Db /\ KeptColumns(db, db', None, None) /\ db'.objects = db.objects
    BY <1>1 DEF Db, KeptColumns
  <1> QED BY <1>1, <1>2, NothingStored DEF FilesFollow

LEMMA ReplicateEffect ==
    ASSUME TypeOK, Sound(db), NEW p \in Pids, Replicate(p)
    PROVE  NativeEffect(db, db') /\ FilesFollow
  <1>1. db \in Db /\ Sound(db) /\ p \in Did /\ files' = files
        /\ db' = [db EXCEPT !.replica = @ \cup {p}, !.names = @ \cup {p}]
    BY DidParts DEF TypeOK, Replicate
  <1>2. db' \in Db /\ KeptColumns(db, db', None, None) /\ db'.objects = db.objects
    BY <1>1 DEF Db, KeptColumns
  <1> QED BY <1>1, <1>2, NothingStored DEF FilesFollow

LEMMA DeleteEffect ==
    ASSUME Pids \cap Sids = {}, TypeOK, Sound(db), NEW x \in Did, Delete(x)
    PROVE  NativeEffect(db, db') /\ FilesFollow
  <1> DEFINE p == ResolveSid(db, x)
  <1>1. db \in Db /\ Sound(db) /\ p \in db.objects /\ files' = files \ {p}
        /\ db' = IF DeleteSciobjOk(db, p) THEN DeleteSciobj(db, p) ELSE db
    BY DEF TypeOK, Delete
  <1> HIDE DEF p
  <1>2. DeletedColumns(db, db', p) /\ db' \in Db /\ Sound(db')
    BY <1>1, DeleteWorks
  <1>3. db'.objects = db.objects \ {p}
    BY <1>2 DEF DeletedColumns
  <1> QED BY <1>1, <1>2, <1>3 DEF NativeEffect, DeletedStep, FilesFollow

(* Until a document changes links, every step of such a node stores a new    *)
(* newest object, deletes one object, or leaves objects, links and chains    *)
(* alone.                                                                    *)
LEMMA NativeStepEffect ==
    ASSUME Pids \cap Sids = {}, TypeOK, NativeInv, [NativeStep]_vars, relinks' = 0
    PROVE  /\ relinks = 0 /\ Sound(db)
           /\ NativeEffect(db, db')
           /\ [NativeNext]_vars => FilesFollow
  <1>a. relinks = 0
    BY RelinksGrow DEF NativeStep, Next, ImportNext
  <1>0. db \in Db /\ Sound(db) /\ db.objects \subseteq Did
    BY <1>a DEF TypeOK, NativeInv, Db
  <1>1. CASE NativeNext
    <2>1. ASSUME NEW p \in Pids, NEW s \in Opt(Sids), NEW spooled \in BOOLEAN,
                 Create(p, s, spooled)
          PROVE  NativeEffect(db, db') /\ FilesFollow
      BY <1>0, <2>1, CreateEffect
    <2>2. ASSUME NEW old \in db.objects, NEW p \in Pids, NEW s \in SidsFor(db, old),
                 NEW spooled \in BOOLEAN, Update(old, p, s, spooled)
          PROVE  NativeEffect(db, db') /\ FilesFollow
      BY <1>0, <2>2, UpdateEffect
    <2>3. ASSUME NEW p \in db.objects, NEW links \in LinksFor(p), NEW s \in SidsFor(db, p),
                 NEW archived \in BOOLEAN, PutMeta(p, links, s, archived)
          PROVE  NativeEffect(db, db') /\ FilesFollow
      BY <1>a, <1>0, <2>3, PutMetaEffect
    <2>4. ASSUME NEW x \in Did, Archive(x)
          PROVE  NativeEffect(db, db') /\ FilesFollow
      BY <1>0, <2>4, ArchiveEffect
    <2>5. ASSUME NEW x \in Did, Delete(x)
          PROVE  NativeEffect(db, db') /\ FilesFollow
      BY <1>0, <2>5, DeleteEffect
    <2>6. ASSUME NEW p \in Pids, Replicate(p)
          PROVE  NativeEffect(db, db') /\ FilesFollow
      BY <1>0, <2>6, ReplicateEffect
    <2> QED BY <1>a, <1>0, <1>1, <2>1, <2>2, <2>3, <2>4, <2>5, <2>6 DEF NativeNext
  <1>2. CASE UNCHANGED vars
    BY <1>0, <1>2, UnchangedRows DEF vars, FilesFollow
  <1>3. ASSUME NEW x \in Did, DeleteCrash(x)
        PROVE  NativeEffect(db, db')
    BY <1>0, <1>3, UnchangedRows DEF DeleteCrash
  <1>4. CASE \E x \in Did : DeleteCrash(x)
    <2>1. NativeEffect(db, db')
      BY <1>3, <1>4
    <2>2. [NativeNext]_vars => FilesFollow
      BY <1>1, <1>2
    <2> QED BY <1>a, <1>0, <2>1, <2>2
  <1> QED BY <1>a, <1>0, <1>1, <1>2, <1>4 DEF NativeStep

-----------------------------------------------------------------------------
(* The invariants.                                                          *)

LEMMA InitSound == Init => NativeInv
  <1> SUFFICES ASSUME Init PROVE NativeInv
    OBVIOUS
  <1>1. /\ db.objects = {} /\ db.names = {}
        /\ \A p \in Did : /\ db.obsoletes[p] = None /\ db.obsoletedBy[p] = None
                          /\ db.chain[p] = None
        /\ \A c \in ChainId : db.sid[c] = None /\ db.head[c] = None
    BY DEF Init
  <1> QED BY <1>1
          DEF NativeInv, Sound, RowsSound, LinksSound, ChainsSound, HeadsSound, WalksSound

(* The invariants that the runs check are consequences of NativeInv. *)
LEMMA InvariantParts ==
    ASSUME TypeOK, NativeInv
    PROVE  LinksMutual /\ ChainsPartitionObjects /\ HeadIsNewest
  <1> SUFFICES ASSUME relinks = 0
               PROVE  LinksMutual /\ ChainsPartitionObjects /\ HeadIsNewest
    BY DEF LinksMutual, ChainsPartitionObjects, HeadIsNewest
  <1>0. db \in Db /\ Sound(db) /\ db.objects \subseteq Did
    BY DEF TypeOK, NativeInv, Db
  <1>1. LinksMutual
    BY <1>0 DEF Sound, LinksSound, LinksMutual
  <1>2. ChainsPartitionObjects
    <2>1. db.objects = {p \in Did : db.chain[p] # None}
      BY <1>0 DEF Sound, ChainsSound
    <2>2. \A p \in db.objects : db.obsoletedBy[p] # None =>
                db.chain[p] = db.chain[db.obsoletedBy[p]]
      BY <1>0 DEF Sound, ChainsSound
    <2>3. ASSUME NEW c \in ChainId, Members(db, c) = {}
          PROVE  db.head[c] = None /\ db.sid[c] = None
      BY <1>0, <2>3 DEF Sound, ChainsSound, Members
    <2> QED BY <2>1, <2>2, <2>3 DEF ChainsPartitionObjects
  <1>3. HeadIsNewest
    <2> SUFFICES ASSUME NEW c \in ChainId, NEW p \in Members(db, c)
                 PROVE  p = db.head[c] <=> db.obsoletedBy[p] = None
      BY DEF HeadIsNewest
    <2>1. p \in db.objects /\ db.chain[p] = c
      BY <1>0, StoreAssumption DEF Members, Sound, ChainsSound
    <2> QED BY <1>0, <2>1 DEF Sound, HeadsSound
  <1> QED BY <1>1, <1>2, <1>3

(* Both hold throughout. *)
LEMMA NativeInvariant ==
    ASSUME Pids \cap Sids = {}
    PROVE  Init /\ [][NativeStep]_vars => [](TypeOK /\ NativeInv)
  <1>1. Init => TypeOK /\ NativeInv
    <2>1. Init => TypeOK
      BY StoreAssumption DEF Init, TypeOK, Db, Opt
    <2> QED BY <2>1, InitSound
  <1>2. TypeOK /\ NativeInv /\ [NativeStep]_vars => TypeOK' /\ NativeInv'
    <2> SUFFICES ASSUME TypeOK, NativeInv, [NativeStep]_vars PROVE TypeOK' /\ NativeInv'
      OBVIOUS
    <2>1. [Next]_vars
      BY DEF NativeStep, Next, ImportNext
    <2> QED BY <2>1, TypeStep, NativeStepEffect DEF NativeEffect, NativeInv
  <1> QED BY <1>1, <1>2, PTL

LEMMA NativeSpecSteps == NativeSpec => Init /\ [][NativeStep]_vars
  <1>1. [NativeNext]_vars => [NativeStep]_vars
    BY DEF NativeStep
  <1> QED BY <1>1, PTL DEF NativeSpec

(* Until a document changes links, the links of the objects agree at both    *)
(* ends, whatever the clients create, update, archive, replace and delete.   *)
THEOREM NativeLinks ==
    ASSUME Pids \cap Sids = {}
    PROVE  NativeSpec => []LinksMutual
  <1>1. TypeOK /\ NativeInv => LinksMutual
    BY InvariantParts
  <1> QED BY <1>1, NativeInvariant, NativeSpecSteps, PTL

(* Until a document changes links, the chains partition the objects, along   *)
(* the links and no further, and one that has lost its last member leaves no *)
(* row and no SID behind.                                                    *)
THEOREM NativeChains ==
    ASSUME Pids \cap Sids = {}
    PROVE  NativeSpec => []ChainsPartitionObjects
  <1>1. TypeOK /\ NativeInv => ChainsPartitionObjects
    BY InvariantParts
  <1> QED BY <1>1, NativeInvariant, NativeSpecSteps, PTL

(* Until a document changes links, a SID resolves to the newest revision of  *)
(* its series.                                                               *)
THEOREM NativeHeads ==
    ASSUME Pids \cap Sids = {}
    PROVE  NativeSpec => []HeadIsNewest
  <1>1. TypeOK /\ NativeInv => HeadIsNewest
    BY InvariantParts
  <1> QED BY <1>1, NativeInvariant, NativeSpecSteps, PTL

(* The inductive invariant of the three, until a document changes links.     *)
THEOREM NativeInvHolds ==
    ASSUME Pids \cap Sids = {}
    PROVE  NativeSpec => []NativeInv
  <1> QED BY NativeInvariant, NativeSpecSteps, PTL

(* Until a document changes links, a delete never fails on a node that       *)
(* nothing is imported to, even after any number of deletes that a crash cut *)
(* short.                                                                    *)
THEOREM NativeDeletable ==
    ASSUME Pids \cap Sids = {}, Foreign = {}
    PROVE  Spec => []EveryObjectDeletable
  <1>1. [Next]_vars => [NativeStep]_vars
    BY DEF Next, ImportNext, NativeStep
  <1>2. TypeOK /\ NativeInv => EveryObjectDeletable
    BY DeleteWorks DEF TypeOK, NativeInv, EveryObjectDeletable
  <1>3. Spec => Init /\ [][NativeStep]_vars
    BY <1>1, PTL DEF Spec
  <1> QED BY <1>2, <1>3, NativeInvariant, PTL

(* Until a document changes links, delete_sciobj() cannot fail once the file *)
(* is gone, and so no object that is left has lost its bytes.                *)
THEOREM NativeBytes ==
    ASSUME Pids \cap Sids = {}
    PROVE  NativeSpec => []BytesPresent
  <1>1. Init => BytesPresent
    BY DEF Init, BytesPresent
  <1>2. TypeOK /\ NativeInv /\ BytesPresent /\ [NativeNext]_vars => BytesPresent'
    BY NativeStepEffect DEF NativeStep, FilesFollow, BytesPresent
  <1>3. NativeSpec => [](TypeOK /\ NativeInv)
    BY NativeInvariant, NativeSpecSteps, PTL
  <1> QED BY <1>1, <1>2, <1>3, PTL DEF NativeSpec

-----------------------------------------------------------------------------
(* What no step does.                                                       *)

(* Until a document changes links, deleting a revision leaves all the others *)
(* in place.                                                                 *)
THEOREM NativeOneDeleted ==
    ASSUME Pids \cap Sids = {}
    PROVE  NativeSpec => OnlyOneObjectDeleted
  <1>1. ASSUME TypeOK, NativeInv, [NativeNext]_vars, relinks' = 0, vars' # vars
        PROVE  \E x \in Did : db.objects \ {x} \subseteq db.objects'
    <2>2. CASE db.objects # {}
      <3>0. db.objects \subseteq Did
        BY <1>1 DEF TypeOK, Db
      <3>1. PICK x \in Did : x \in db.objects
        BY <2>2, <3>0
      <3>2. NativeEffect(db, db')
        BY <1>1, NativeStepEffect DEF NativeStep
      <3>3. db.objects \subseteq db'.objects
            \/ \E p \in db.objects : db'.objects = db.objects \ {p}
        BY <3>2 DEF NativeEffect, StoredStep, KeptStep, DeletedStep,
                    StoredColumns, KeptColumns, DeletedColumns
      <3> QED BY <3>0, <3>1, <3>3
    <2>3. CASE db.objects = {} /\ Did # {}
      BY <2>3
    <2>4. CASE Did = {} /\ NativeNext
      BY <1>1, <2>4, DidParts DEF NativeNext, TypeOK, Db
    <2> QED BY <1>1, <2>2, <2>3, <2>4 DEF vars
  <1>2. TypeOK /\ NativeInv /\ [NativeNext]_vars =>
          [relinks' = 0 => \E x \in Did : db.objects \ {x} \subseteq db.objects']_vars
    BY <1>1
  <1>3. NativeSpec => [](TypeOK /\ NativeInv)
    BY NativeInvariant, NativeSpecSteps, PTL
  <1> QED BY <1>2, <1>3, PTL DEF NativeSpec, OnlyOneObjectDeleted

(* Until a document changes links, the series an object belongs to stays the *)
(* same while the object exists.                                             *)
THEOREM NativeSeriesKept ==
    ASSUME Pids \cap Sids = {}
    PROVE  NativeSpec => SeriesKept
  <1>1. ASSUME TypeOK, NativeInv, [NativeNext]_vars, relinks' = 0,
               NEW p \in db.objects \cap db'.objects, SidOf(db, p) # None
        PROVE  SidOf(db', p) = SidOf(db, p)
    <2>0. /\ db \in Db /\ Sound(db) /\ db' \in Db /\ Sound(db') /\ p \in Did
          /\ db.chain[p] \in ChainId /\ None \notin ChainId /\ None \notin Did
          /\ NativeEffect(db, db')
      BY <1>1, NativeStepEffect, ChainHasHead, StoreAssumption
      DEF NativeStep, NativeEffect, TypeOK, NativeInv
    <2>1. CASE StoredStep(db, db')
      <3>1. PICK q \in Pids \ db.objects, old \in Opt(db.objects), c \in ChainId,
                 s \in Opt(Sids) :
              /\ StoredColumns(db, db', q, old, c, s)
              /\ s # None => db.sid[c] \in {None, s}
        BY <2>1 DEF StoredStep
      <3> QED BY <1>1, <2>0, <3>1 DEF StoredColumns, SidOf
    <2>2. CASE KeptStep(db, db')
      <3>1. PICK c \in Opt(ChainId), s \in Opt(Sids) :
              KeptColumns(db, db', c, s) /\ (s # None => db.sid[c] \in {None, s})
        BY <2>2 DEF KeptStep
      <3> QED BY <1>1, <2>0, <3>1 DEF KeptColumns, SidOf
    <2>3. CASE DeletedStep(db, db')
      <3>1. PICK q \in db.objects : DeletedColumns(db, db', q)
        BY <2>3 DEF DeletedStep
      <3>2. db'.chain[p] = db.chain[p] /\ db'.head[db'.chain[p]] # None
        BY <1>1, <2>0, <3>1, ChainHasHead DEF DeletedColumns, Db
      <3> QED BY <2>0, <3>1, <3>2 DEF DeletedColumns, SidOf
    <2> QED BY <2>0, <2>1, <2>2, <2>3 DEF NativeEffect
  <1>2. TypeOK /\ NativeInv /\ [NativeNext]_vars =>
          [relinks' = 0 =>
             \A p \in db.objects \cap db'.objects :
                SidOf(db, p) # None => SidOf(db', p) = SidOf(db, p)]_vars
    BY <1>1
  <1>3. NativeSpec => [](TypeOK /\ NativeInv)
    BY NativeInvariant, NativeSpecSteps, PTL
  <1> QED BY <1>2, <1>3, PTL DEF NativeSpec, SeriesKept

(* Deleting p takes p out of the walks that pass it, and nothing else. *)
LEMMA VisitedAfterDelete ==
    ASSUME NEW d \in Db, Sound(d), NEW p \in d.objects, NEW e, DeletedColumns(d, e, p),
           NEW q \in e.objects, NEW r \in Visited(d, q), r # p,
           NEW R \in SUBSET e.objects, q \in R, ClosedUnderNewer(e, R)
    PROVE  r \in R
  <1>0. /\ p \in Did /\ d.objects \subseteq Did /\ e.objects = d.objects \ {p}
        /\ \A t \in Did : e.obsoletedBy[t] = IF t = p THEN None
                                             ELSE IF t = d.obsoletes[p] THEN d.obsoletedBy[p]
                                             ELSE d.obsoletedBy[t]
    BY DEF Db, DeletedColumns
  <1>1. /\ \A t \in d.objects : d.obsoletedBy[t] = p => t = d.obsoletes[p]
        /\ d.obsoletes[p] \in d.objects => d.obsoletedBy[d.obsoletes[p]] = p
    BY <1>0, StoreAssumption DEF Sound, LinksSound
  <1>2. d.obsoletedBy[p] # p /\ d.obsoletes[p] # p
    BY NoSelfLink
  <1>3. ASSUME NEW t \in R, d.obsoletedBy[t] \in d.objects, t # d.obsoletes[p]
        PROVE  d.obsoletedBy[t] \in R
    BY <1>0, <1>1, <1>3 DEF ClosedUnderNewer
  <1>4. CASE d.obsoletes[p] \in R
    <2>1. d.obsoletedBy[p] \in d.objects => d.obsoletedBy[p] \in R
      BY <1>0, <1>2, <1>4 DEF ClosedUnderNewer
    <2>2. ClosedUnderNewer(d, R \cup {p})
      BY <1>0, <1>1, <1>3, <1>4, <2>1 DEF ClosedUnderNewer
    <2> QED BY <1>0, <2>2, VisitedInClosed
  <1>5. CASE d.obsoletes[p] \notin R
    <2>1. ClosedUnderNewer(d, R)
      BY <1>3, <1>5 DEF ClosedUnderNewer
    <2> QED BY <1>0, <2>1, VisitedInClosed
  <1> QED BY <1>4, <1>5

(* Until a document changes links, as long as two revisions exist, the newer *)
(* stays reachable from the older.                                           *)
THEOREM NativeOrderKept ==
    ASSUME Pids \cap Sids = {}
    PROVE  NativeSpec => RevisionOrderKept
  <1>1. ASSUME TypeOK, NativeInv, [NativeNext]_vars, relinks' = 0,
               NEW q \in db.objects \cap db'.objects,
               NEW r \in Visited(db, q) \cap db'.objects
        PROVE  r \in Visited(db', q)
    <2>0. /\ db \in Db /\ Sound(db) /\ NativeEffect(db, db') /\ r \in db.objects
          /\ db.objects \subseteq Did /\ None \notin Did
      BY <1>1, NativeStepEffect, StoreAssumption
      DEF NativeStep, TypeOK, NativeInv, Db, Visited
    <2> SUFFICES ASSUME NEW R \in SUBSET db'.objects, q \in R, ClosedUnderNewer(db', R)
                 PROVE  r \in R
      BY <1>1 DEF Visited
    <2>1. CASE StoredStep(db, db')
      <3>1. PICK p \in Pids \ db.objects, old \in Opt(db.objects), c \in ChainId,
                 s \in Opt(Sids) :
              /\ StoredColumns(db, db', p, old, c, s)
              /\ old # None => db.obsoletedBy[old] = None
        BY <2>1 DEF StoredStep
      <3>2. ClosedUnderNewer(db, R \cap db.objects)
        BY <2>0, <3>1 DEF ClosedUnderNewer, StoredColumns
      <3> QED BY <1>1, <3>2, VisitedInClosed
    <2>2. CASE KeptStep(db, db')
      <3>1. db'.objects = db.objects /\ db'.obsoletedBy = db.obsoletedBy
        BY <2>2 DEF KeptStep, KeptColumns
      <3> QED BY <1>1, <3>1, VisitedInClosed DEF ClosedUnderNewer
    <2>3. CASE DeletedStep(db, db')
      <3>1. PICK p \in db.objects : DeletedColumns(db, db', p)
        BY <2>3 DEF DeletedStep
      <3>2. r # p
        BY <1>1, <3>1 DEF DeletedColumns
      <3> QED BY <1>1, <2>0, <3>1, <3>2, VisitedAfterDelete
    <2> QED BY <2>0, <2>1, <2>2, <2>3 DEF NativeEffect
  <1>2. TypeOK /\ NativeInv /\ [NativeNext]_vars =>
          [relinks' = 0 =>
             \A p \in db.objects \cap db'.objects :
                Visited(db, p) \cap db'.objects \subseteq Visited(db', p)]_vars
    BY <1>1
  <1>3. NativeSpec => [](TypeOK /\ NativeInv)
    BY NativeInvariant, NativeSpecSteps, PTL
  <1> QED BY <1>2, <1>3, PTL DEF NativeSpec, RevisionOrderKept

-----------------------------------------------------------------------------
(* Such a node implements GmnSeries. First, the walk along obsoletedBy.     *)

(* A walk gets to an object that it does not start at through the object     *)
(* that it obsoletes.                                                        *)
LEMMA VisitedThroughOlder ==
    ASSUME NEW d \in Db, Sound(d), NEW q \in d.objects, NEW t \in Visited(d, q), t # q,
           NEW o \in d.objects, d.obsoletedBy[o] = t
    PROVE  o \in Visited(d, q)
  <1>0. d.objects \subseteq Did /\ None \notin Did BY StoreAssumption DEF Db
  <1>1. t \in d.objects BY VisitedClosed
  <1>2. \A r \in d.objects : d.obsoletedBy[r] = t => r = o
    BY <1>0, <1>1 DEF Sound, LinksSound
  <1>3. ASSUME o \notin Visited(d, q) PROVE FALSE
    <2>1. ClosedUnderNewer(d, Visited(d, q) \ {t})
      BY <1>2, <1>3, VisitedClosed DEF ClosedUnderNewer
    <2>2. Visited(d, q) \subseteq Visited(d, q) \ {t}
      <3>1. Visited(d, q) \ {t} \in SUBSET d.objects /\ q \in Visited(d, q) \ {t}
        BY VisitedClosed
      <3> QED BY <2>1, <3>1, VisitedInClosed
    <2> QED BY <2>2
  <1> QED BY <1>3

(* Of two objects of a chain, one is visited from the other: a chain is a    *)
(* linear history.                                                           *)
LEMMA ChainsLinear ==
    ASSUME NEW d \in Db, Sound(d), NEW p \in d.objects, NEW q \in d.objects,
           d.chain[p] = d.chain[q]
    PROVE  p \in Visited(d, q) \/ q \in Visited(d, p)
  <1> DEFINE h == d.head[d.chain[p]]
             S == {t \in d.objects : t \in Visited(d, q) \/ q \in Visited(d, t)}
  <1>1. h \in Visited(d, p) /\ h \in Visited(d, q)
    BY DEF Sound, WalksSound
  <1>2. h \in S BY <1>1, VisitedClosed
  <1>3. ASSUME NEW t \in d.objects, d.obsoletedBy[t] \in S
        PROVE  t \in S
    <2> DEFINE n == d.obsoletedBy[t]
    <2>1. n \in d.objects /\ n \in Visited(d, t)
      BY <1>3, VisitedClosed DEF ClosedUnderNewer
    <2>2. CASE q \in Visited(d, n)
      BY <2>1, <2>2, VisitedOnward
    <2>3. CASE n \in Visited(d, q) /\ n # q
      BY <2>3, VisitedThroughOlder
    <2>4. CASE n = q
      BY <2>1, <2>4
    <2> QED BY <1>3, <2>2, <2>3, <2>4
  <1>4. ASSUME p \notin S PROVE FALSE
    <2>1. ClosedUnderNewer(d, d.objects \ S)
      BY <1>3 DEF ClosedUnderNewer
    <2>2. Visited(d, p) \subseteq d.objects \ S
      BY <1>4, <2>1, VisitedInClosed
    <2> QED BY <1>1, <1>2, <2>2
  <1> QED BY <1>4

(* The walk stays in the chain. *)
LEMMA VisitedInChain ==
    ASSUME NEW d \in Db, Sound(d), NEW p \in d.objects, NEW q \in Visited(d, p)
    PROVE  q \in d.objects /\ d.chain[q] = d.chain[p]
  <1> DEFINE S == {t \in d.objects : d.chain[t] = d.chain[p]}
  <1>1. None \notin d.objects BY StoreAssumption DEF Db
  <1>2. ClosedUnderNewer(d, S) BY <1>1 DEF ClosedUnderNewer, Sound, ChainsSound
  <1> QED BY <1>2, VisitedInClosed

(* The series of an object, as clients see it, are the members of its chain. *)
LEMMA SeriesIsChain ==
    ASSUME TypeOK, Sound(db), NEW p \in db.objects
    PROVE  SeriesView!Series(p) = {q \in db.objects : db.chain[q] = db.chain[p]}
  <1>0. db \in Db /\ Sound(db) BY DEF TypeOK
  <1>1. ASSUME NEW q \in db.objects, db.chain[q] = db.chain[p]
        PROVE  q = p \/ <<p, q>> \in Later(db) \/ <<q, p>> \in Later(db)
    BY <1>0, <1>1, ChainsLinear DEF Later
  <1>2. ASSUME NEW q \in db.objects, <<p, q>> \in Later(db) \/ <<q, p>> \in Later(db)
        PROVE  db.chain[q] = db.chain[p]
    BY <1>0, <1>2, VisitedInChain DEF Later
  <1> QED BY <1>1, <1>2 DEF SeriesView!Series

-----------------------------------------------------------------------------
(* What steps do to the order of revisions.                                 *)

(* A new object is later than the objects of the chain that it joins. *)
LEMMA LaterStored ==
    ASSUME NEW d \in Db, Sound(d), NEW e \in Db, Sound(e), NEW p \in Pids \ d.objects,
           NEW old \in Opt(d.objects), NEW c \in ChainId, NEW s,
           StoredColumns(d, e, p, old, c, s),
           old = None => d.head[c] = None,
           old # None => d.obsoletedBy[old] = None /\ d.chain[old] = c
    PROVE  Later(e) = Later(d) \cup {<<q, p>> : q \in {t \in d.objects : d.chain[t] = c}}
  <1>0. /\ e.objects = d.objects \cup {p} /\ p \notin d.objects /\ d.objects \subseteq Did
        /\ p \in Did /\ None \notin Did
    BY DidParts, StoreAssumption DEF Db, StoredColumns
  <1>1. \A q \in Did : /\ e.obsoletedBy[q] = IF q = old THEN p ELSE d.obsoletedBy[q]
                       /\ e.chain[q] = IF q = p THEN c ELSE d.chain[q]
    BY DEF StoredColumns
  <1>2. Visited(e, p) = {p}
    <2>1. e.obsoletedBy[p] = None
      BY <1>0, <1>1 DEF Sound, RowsSound, Opt
    <2>2. ClosedUnderNewer(e, {p}) BY <1>0, <2>1 DEF ClosedUnderNewer
    <2>3. {p} \in SUBSET e.objects BY <1>0
    <2> QED BY <2>2, <2>3, VisitedInClosed, VisitedClosed
  <1>3. ASSUME NEW q \in d.objects
        PROVE  Visited(d, q) \subseteq Visited(e, q) /\ Visited(e, q) \subseteq Visited(d, q) \cup {p}
    <2>1. q \in e.objects /\ q \in Did BY <1>0
    <2>2. Visited(d, q) \subseteq Visited(e, q)
      <3>1. ClosedUnderNewer(d, Visited(e, q) \cap d.objects)
        <4> SUFFICES ASSUME NEW t \in Visited(e, q) \cap d.objects, d.obsoletedBy[t] \in d.objects
                     PROVE  d.obsoletedBy[t] \in Visited(e, q)
          BY DEF ClosedUnderNewer
        <4>1. t # old BY <1>0
        <4>2. e.obsoletedBy[t] = d.obsoletedBy[t] BY <1>0, <1>1, <4>1
        <4> QED BY <1>0, <2>1, <4>2, VisitedClosed DEF ClosedUnderNewer
      <3>2. q \in Visited(e, q) BY <2>1, VisitedClosed
      <3> QED BY <3>1, <3>2, VisitedInClosed
    <2>3. ClosedUnderNewer(e, Visited(d, q) \cup {p})
      <3> SUFFICES ASSUME NEW t \in Visited(d, q) \cup {p}, e.obsoletedBy[t] \in e.objects
                   PROVE  e.obsoletedBy[t] \in Visited(d, q) \cup {p}
        BY DEF ClosedUnderNewer
      <3>1. CASE t = p
        <4>1. e.obsoletedBy[p] = None BY <1>0, <1>1 DEF Sound, RowsSound, Opt
        <4> QED BY <1>0, <3>1, <4>1
      <3>2. CASE t \in Visited(d, q)
        <4>1. t \in d.objects /\ t \in Did BY <1>0, <3>2, VisitedClosed
        <4>2. CASE e.obsoletedBy[t] = p BY <4>2
        <4>3. CASE e.obsoletedBy[t] = d.obsoletedBy[t] /\ d.obsoletedBy[t] \in d.objects
          BY <3>2, <4>3, VisitedClosed DEF ClosedUnderNewer
        <4> QED BY <1>0, <1>1, <4>1, <4>2, <4>3
      <3> QED BY <3>1, <3>2
    <2>4. Visited(d, q) \cup {p} \in SUBSET e.objects /\ q \in Visited(d, q) \cup {p}
      BY <1>0, VisitedClosed
    <2>5. Visited(e, q) \subseteq Visited(d, q) \cup {p} BY <2>3, <2>4, VisitedInClosed
    <2> QED BY <2>2, <2>5
  <1>4. ASSUME NEW q \in d.objects, d.chain[q] = c
        PROVE  p \in Visited(e, q)
    <2>1. d.head[c] \in Visited(d, q) /\ d.head[c] \in d.objects
      BY <1>4, VisitedClosed DEF Sound, WalksSound
    <2>2. old # None /\ old \in d.objects BY <1>0, <2>1 DEF Opt
    <2>3. old = d.head[c] BY <2>2 DEF Sound, HeadsSound
    <2>4. old \in Visited(e, q) /\ e.obsoletedBy[old] = p
      BY <1>0, <1>1, <1>3, <2>1, <2>2, <2>3
    <2> QED BY <1>0, <2>4, VisitedClosed DEF ClosedUnderNewer
  <1>5. ASSUME NEW q \in d.objects, d.chain[q] # c
        PROVE  p \notin Visited(e, q)
    <2>1. e.chain[q] # e.chain[p] BY <1>0, <1>1, <1>5
    <2> QED BY <1>0, <2>1, VisitedInChain
  <1>6. ASSUME NEW q \in e.objects, NEW r \in e.objects
        PROVE  <<q, r>> \in Later(e) <=>
                 <<q, r>> \in Later(d) \/ (r = p /\ q \in d.objects /\ d.chain[q] = c)
    <2>1. CASE q = p
      BY <1>0, <1>2, <2>1 DEF Later
    <2>2. CASE q # p /\ r = p
      BY <1>0, <1>4, <1>5, <2>2 DEF Later
    <2>3. CASE q # p /\ r # p
      BY <1>0, <1>3, <2>3 DEF Later
    <2> QED BY <2>1, <2>2, <2>3
  <1>7. Later(e) \subseteq e.objects \X e.objects /\ Later(d) \subseteq d.objects \X d.objects
    BY DEF Later
  <1> QED BY <1>0, <1>6, <1>7

(* Deleting an object takes it out of the order, and nothing else. *)
LEMMA LaterDeleted ==
    ASSUME NEW d \in Db, Sound(d), NEW e \in Db, Sound(e), NEW p \in d.objects,
           DeletedColumns(d, e, p)
    PROVE  Later(e) = {l \in Later(d) : p \notin {l[1], l[2]}}
  <1>0. /\ e.objects = d.objects \ {p} /\ d.objects \subseteq Did /\ None \notin Did
        /\ \A t \in Did : e.obsoletedBy[t] = IF t = p THEN None
                                             ELSE IF t = d.obsoletes[p] THEN d.obsoletedBy[p]
                                             ELSE d.obsoletedBy[t]
    BY StoreAssumption DEF Db, DeletedColumns
  <1>1. ASSUME NEW q \in e.objects, NEW r \in e.objects
        PROVE  r \in Visited(e, q) <=> r \in Visited(d, q)
    <2>1. q \in d.objects /\ r \in d.objects /\ q # p /\ r # p BY <1>0
    <2>2. ASSUME r \in Visited(d, q) PROVE r \in Visited(e, q)
      <3> SUFFICES ASSUME NEW R \in SUBSET e.objects, q \in R, ClosedUnderNewer(e, R)
                   PROVE  r \in R
        BY DEF Visited
      <3> QED BY <2>1, <2>2, VisitedAfterDelete
    <2>3. ClosedUnderNewer(e, Visited(d, q) \ {p})
      <3> SUFFICES ASSUME NEW t \in Visited(d, q) \ {p}, e.obsoletedBy[t] \in e.objects
                   PROVE  e.obsoletedBy[t] \in Visited(d, q)
        BY <1>0 DEF ClosedUnderNewer
      <3>1. t \in d.objects /\ t \in Did BY <1>0, <2>1, VisitedClosed
      <3>2. CASE t = d.obsoletes[p]
        <4>1. d.obsoletedBy[t] = p
          BY <1>0, <3>1, <3>2 DEF Sound, LinksSound
        <4>2. p \in Visited(d, q)
          BY <2>1, <4>1, VisitedClosed DEF ClosedUnderNewer
        <4>3. e.obsoletedBy[t] = d.obsoletedBy[p] BY <1>0, <3>1, <3>2
        <4> QED BY <1>0, <2>1, <4>2, <4>3, VisitedClosed DEF ClosedUnderNewer
      <3>3. CASE t # d.obsoletes[p]
        <4>1. e.obsoletedBy[t] = d.obsoletedBy[t] BY <1>0, <3>1, <3>3
        <4> QED BY <1>0, <2>1, <4>1, VisitedClosed DEF ClosedUnderNewer
      <3> QED BY <3>2, <3>3
    <2>4. Visited(d, q) \ {p} \in SUBSET e.objects /\ q \in Visited(d, q) \ {p}
      BY <1>0, <2>1, VisitedClosed
    <2>5. Visited(e, q) \subseteq Visited(d, q) BY <2>3, <2>4, VisitedInClosed
    <2> QED BY <2>2, <2>5
  <1> QED BY <1>0, <1>1 DEF Later

(* Steps that keep the objects and links keep the order. *)
LEMMA LaterKept ==
    ASSUME NEW d, NEW e, e.objects = d.objects, e.obsoletedBy = d.obsoletedBy
    PROVE  Later(e) = Later(d)
  <1>1. \A p : Visited(e, p) = Visited(d, p) BY DEF Visited, ClosedUnderNewer
  <1> QED BY <1>1 DEF Later

-----------------------------------------------------------------------------
(* Steps.                                                                   *)

SidView(d) == [p \in Pids |-> SidOf(d, p)]

(* The SID of an object is that of its chain. *)
LEMMA SidOfObject ==
    ASSUME NEW d \in Db, Sound(d)
    PROVE  /\ d.objects \subseteq Pids /\ None \notin ChainId /\ None \notin Did
           /\ \A p \in d.objects : /\ d.chain[p] \in ChainId
                                   /\ d.head[d.chain[p]] \in d.objects
                                   /\ SidOf(d, p) = d.sid[d.chain[p]]
                                   /\ SidOf(d, p) \in Opt(Sids)
           /\ \A p \in Pids \ d.objects : SidOf(d, p) = None
           /\ \A b \in ChainId : d.head[b] = None => d.sid[b] = None
  <1>1. d.objects \subseteq Pids /\ None \notin ChainId /\ None \notin Did
    BY StoreAssumption DEF Sound, RowsSound
  <1>2. ASSUME NEW p \in d.objects
        PROVE  /\ d.chain[p] \in ChainId /\ d.head[d.chain[p]] \in d.objects
               /\ SidOf(d, p) = d.sid[d.chain[p]] /\ SidOf(d, p) \in Opt(Sids)
    BY <1>1, ChainHasHead DEF SidOf, Sound, RowsSound, Opt
  <1>3. ASSUME NEW p \in Pids \ d.objects PROVE SidOf(d, p) = None
    <2>1. p \in Did BY DidParts
    <2> QED BY <2>1 DEF SidOf, Sound, ChainsSound
  <1>4. \A b \in ChainId : d.head[b] = None => d.sid[b] = None
    BY DEF Sound, ChainsSound
  <1> QED BY <1>1, <1>2, <1>3, <1>4

(* Storing a new object begins a series or follows the newest revision of one. *)
LEMMA SeriesStored ==
    ASSUME TypeOK, Sound(db), TypeOK', Sound(db'), StoredStep(db, db')
    PROVE  SeriesView!Next
  <1>0. db \in Db /\ Sound(db) /\ db' \in Db /\ Sound(db') BY DEF TypeOK
  <1>1. PICK p \in Pids \ db.objects, old \in Opt(db.objects), c \in ChainId, s \in Opt(Sids) :
          /\ StoredColumns(db, db', p, old, c, s)
          /\ old = None => db.head[c] = None
          /\ old # None => db.obsoletedBy[old] = None /\ db.chain[old] = c
          /\ s # None => db.sid[c] \in {None, s}
    BY DEF StoredStep
  <1> DEFINE M == {q \in db.objects : db.chain[q] = c}
             t == IF s = None THEN db.sid[c] ELSE s
  <1>2. Later(db') = Later(db) \cup {<<q, p>> : q \in M}
    BY <1>0, <1>1, LaterStored
  <1>3. /\ db'.objects = db.objects \cup {p}
        /\ \A q \in Did : db'.chain[q] = IF q = p THEN c ELSE db.chain[q]
        /\ \A b \in ChainId : /\ db'.sid[b] = IF b = c /\ s # None THEN s ELSE db.sid[b]
                              /\ s # None /\ b # c => db.sid[b] # s
    BY <1>1 DEF StoredColumns
  <1>4. /\ db.objects \subseteq Pids /\ None \notin ChainId /\ Pids \subseteq Did
        /\ \A q \in db.objects : db.chain[q] \in ChainId /\ SidOf(db, q) = db.sid[db.chain[q]]
                                 /\ SidOf(db, q) \in Opt(Sids) /\ db.head[db.chain[q]] \in db.objects
        /\ \A q \in Pids \ db.objects : SidOf(db, q) = None /\ db.chain[q] = None
        /\ db.head[c] = None => db.sid[c] = None
    BY <1>0, SidOfObject, DidParts DEF Sound, ChainsSound
  <1>5. \A q \in Pids : SidOf(db', q) = IF q \in M \cup {p} THEN t ELSE SidOf(db, q)
    BY <1>3, <1>4 DEF SidOf
  <1>6. SidView(db)' = [q \in Pids |-> IF q \in M \cup {p} THEN t ELSE SidView(db)[q]]
    BY <1>5 DEF SidView
  <1>7. ASSUME NEW q \in db.objects \ M PROVE t # None => SidOf(db, q) # t
    BY <1>0, <1>3, <1>4 DEF Sound, RowsSound
  <1>8. CASE old = None
    <2>1. M = {} /\ t = s
      BY <1>1, <1>4, <1>8, <1>0, SidOfObject DEF Db
    <2>2. SeriesView!Create(p, s)
      BY <1>2, <1>3, <1>4, <1>6, <1>7, <2>1
      DEF SeriesView!Create, SeriesView!SidFree, SeriesView!SidOfAll, SidView
    <2> QED BY <2>2 DEF SeriesView!Next, Opt
  <1>9. CASE old # None
    <2>1. old \in db.objects /\ db.chain[old] = c BY <1>1, <1>9 DEF Opt
    <2>2. SeriesView!Series(old) = M BY <2>1, SeriesIsChain
    <2>3. Visited(db, old) = {old}
      <3>1. None \notin db.objects BY StoreAssumption, <1>0 DEF Db
      <3>2. ClosedUnderNewer(db, {old}) BY <1>1, <1>9, <3>1 DEF ClosedUnderNewer
      <3> QED BY <2>1, <3>2, VisitedInClosed, VisitedClosed
    <2>4. \A q \in db.objects : <<old, q>> \notin Later(db) BY <2>3 DEF Later
    <2>5. t \in Opt(Sids) /\ SidOf(db, old) \in {None, t} BY <1>1, <1>4, <2>1
    <2>6. SeriesView!Update(old, p, t)
      BY <1>2, <1>3, <1>4, <1>6, <1>7, <2>1, <2>2, <2>4, <2>5
      DEF SeriesView!Update, SeriesView!SidFree, SeriesView!SidOfAll, SidView
    <2> QED BY <2>1, <2>5, <2>6 DEF SeriesView!Next, Opt
  <1> QED BY <1>8, <1>9

(* At most a series that has no SID gets one. *)
LEMMA SeriesKeptStep ==
    ASSUME TypeOK, Sound(db), TypeOK', Sound(db'), KeptStep(db, db')
    PROVE  SeriesView!Next \/ UNCHANGED <<db.objects, Later(db), SidView(db)>>
  <1>0. db \in Db /\ Sound(db) /\ db' \in Db /\ Sound(db') BY DEF TypeOK
  <1>1. PICK c \in Opt(ChainId), s \in Opt(Sids) :
          /\ KeptColumns(db, db', c, s)
          /\ s # None => db.head[c] # None /\ db.sid[c] \in {None, s}
    BY DEF KeptStep
  <1>2. db'.objects = db.objects /\ db'.chain = db.chain /\ Later(db') = Later(db)
    BY <1>1, LaterKept DEF KeptColumns
  <1>3. \A b \in ChainId : /\ db'.sid[b] = IF b = c /\ s # None THEN s ELSE db.sid[b]
                           /\ s # None /\ b # c => db.sid[b] # s
    BY <1>1 DEF KeptColumns
  <1>4. /\ db.objects \subseteq Pids /\ None \notin ChainId /\ Pids \subseteq Did
        /\ \A q \in db.objects : db.chain[q] \in ChainId /\ SidOf(db, q) = db.sid[db.chain[q]]
        /\ \A q \in Pids \ db.objects : SidOf(db, q) = None /\ db.chain[q] = None
    BY <1>0, SidOfObject, DidParts DEF Sound, ChainsSound
  <1>5. CASE s = None \/ db.sid[c] = s \/ c \notin ChainId
    <2>1. ASSUME NEW b \in ChainId PROVE db'.sid[b] = db.sid[b]
      <3>1. db'.sid[b] = IF b = c /\ s # None THEN s ELSE db.sid[b] BY <1>3
      <3>2. CASE b = c BY <1>5, <3>1, <3>2
      <3>3. CASE b # c BY <3>1, <3>3
      <3> QED BY <3>2, <3>3
    <2>2. \A q \in Pids : SidOf(db', q) = SidOf(db, q) BY <1>2, <1>4, <2>1 DEF SidOf
    <2>3. SidView(db)' = SidView(db) BY <2>2 DEF SidView
    <2> QED BY <1>2, <2>3
  <1>6. CASE s # None /\ db.sid[c] # s /\ c \in ChainId
    <2> DEFINE h == db.head[c]
               M == {q \in db.objects : db.chain[q] = c}
    <2>1. h \in db.objects /\ db.chain[h] = c /\ db.sid[c] = None
      BY <1>0, <1>1, <1>6 DEF Sound, ChainsSound
    <2>2. SeriesView!Series(h) = M BY <2>1, SeriesIsChain
    <2>3. ASSUME NEW q \in Pids
          PROVE  SidOf(db', q) = IF q \in M THEN s ELSE SidOf(db, q)
      <3>1. CASE q \in db.objects
        <4> DEFINE b == db.chain[q]
        <4>1. b \in ChainId /\ b # None /\ db'.chain[q] = b /\ SidOf(db, q) = db.sid[b]
          BY <1>2, <1>4, <3>1
        <4>2. SidOf(db', q) = db'.sid[b] BY <4>1 DEF SidOf
        <4>3. db'.sid[b] = IF b = c THEN s ELSE db.sid[b] BY <1>3, <1>6, <4>1
        <4> QED BY <3>1, <4>1, <4>2, <4>3
      <3>2. CASE q \notin db.objects
        BY <1>2, <1>4, <3>2 DEF SidOf
      <3> QED BY <3>1, <3>2
    <2>4. SidView(db)' = [q \in Pids |-> IF q \in M THEN s ELSE SidView(db)[q]]
      BY <2>3 DEF SidView
    <2>5. ASSUME NEW q \in db.objects PROVE SidOf(db, q) # s
      <3>1. db.chain[q] \in ChainId /\ SidOf(db, q) = db.sid[db.chain[q]] BY <1>4
      <3>2. CASE db.chain[q] = c BY <1>6, <2>1, <3>1, <3>2
      <3>3. CASE db.chain[q] # c BY <1>3, <1>6, <3>1, <3>3
      <3> QED BY <3>2, <3>3
    <2>6. SeriesView!AssignSid(h, s)
      BY <1>2, <1>4, <2>1, <2>2, <2>4, <2>5
      DEF SeriesView!AssignSid, SeriesView!SidFree, SeriesView!SidOfAll, SidView
    <2> QED BY <1>4, <2>1, <2>6 DEF SeriesView!Next, Opt
  <1> QED BY <1>5, <1>6

(* Deleting takes one object out of its series. *)
LEMMA SeriesDeleted ==
    ASSUME TypeOK, Sound(db), TypeOK', Sound(db'), DeletedStep(db, db')
    PROVE  SeriesView!Next
  <1>0. db \in Db /\ Sound(db) /\ db' \in Db /\ Sound(db') BY DEF TypeOK
  <1>1. PICK p \in db.objects : DeletedColumns(db, db', p) BY DEF DeletedStep
  <1>2. Later(db') = {l \in Later(db) : p \notin {l[1], l[2]}}
    BY <1>0, <1>1, LaterDeleted
  <1>3. /\ db'.objects = db.objects \ {p}
        /\ \A q \in Did : db'.chain[q] = IF q = p THEN None ELSE db.chain[q]
        /\ \A b \in ChainId : db'.sid[b] = IF db'.head[b] = None THEN None ELSE db.sid[b]
    BY <1>1 DEF DeletedColumns
  <1>4. /\ db.objects \subseteq Pids /\ None \notin ChainId /\ Pids \subseteq Did /\ None \notin Did
        /\ \A q \in db.objects : db.chain[q] \in ChainId /\ SidOf(db, q) = db.sid[db.chain[q]]
        /\ \A q \in Pids \ db.objects : SidOf(db, q) = None
    BY <1>0, SidOfObject, DidParts
  <1>5. ASSUME NEW q \in Pids
        PROVE  SidOf(db', q) = IF q = p THEN None ELSE SidOf(db, q)
    <2>1. CASE q \in db'.objects
      <3>1. q \in db.objects /\ q # p /\ db'.chain[q] = db.chain[q] BY <1>3, <1>4, <2>1
      <3>2. db'.head[db'.chain[q]] \in db'.objects /\ SidOf(db', q) = db'.sid[db'.chain[q]]
        BY <1>0, <2>1, SidOfObject
      <3>3. db'.head[db'.chain[q]] # None BY <1>3, <1>4, <3>2
      <3> QED BY <1>3, <1>4, <3>1, <3>2, <3>3
    <2>2. CASE q \notin db'.objects
      BY <1>0, <1>3, <1>4, <2>2, SidOfObject
    <2> QED BY <2>1, <2>2
  <1>6. SidView(db)' = [q \in Pids |-> IF q \in {p} THEN None ELSE SidView(db)[q]]
    BY <1>5 DEF SidView
  <1>7. SeriesView!Delete(p)
    BY <1>2, <1>3, <1>6 DEF SeriesView!Delete, SeriesView!SidOfAll, SidView
  <1> QED BY <1>7 DEF SeriesView!Next

-----------------------------------------------------------------------------
(* Until a document changes links, a node that only its clients write to is  *)
(* to them a set of linear histories with a SID each: every request begins   *)
(* one, adds to its newest end, names it, takes one revision out, or changes *)
(* none.                                                                     *)
THEOREM NativeKeepsSeries ==
    ASSUME Pids \cap Sids = {}
    PROVE  NativeSpec => KeepsSeries
  <1>1. Init => SeriesView!Init
    <2> SUFFICES ASSUME Init PROVE SeriesView!Init OBVIOUS
    <2>1. db.objects = {} /\ Later(db) = {} BY DEF Init, Later
    <2>2. \A p \in Pids : SidOf(db, p) = None BY DidParts DEF Init, SidOf
    <2> QED BY <2>1, <2>2 DEF SeriesView!Init
  <1>2. TypeOK /\ NativeInv /\ TypeOK' /\ [NativeNext]_vars =>
          [relinks' = 0 => SeriesView!Next]_<<db.objects, Later(db),
                                              [p \in Pids |-> SidOf(db, p)]>>
    <2> SUFFICES ASSUME TypeOK, NativeInv, TypeOK', [NativeNext]_vars, relinks' = 0
                 PROVE  SeriesView!Next \/ UNCHANGED <<db.objects, Later(db), SidView(db)>>
      BY DEF SidView
    <2>1. Sound(db) /\ NativeEffect(db, db') BY NativeStepEffect DEF NativeStep
    <2> QED BY <2>1, SeriesStored, SeriesKeptStep, SeriesDeleted DEF NativeEffect
  <1>3. NativeSpec => [](TypeOK /\ NativeInv)
    BY NativeInvariant, NativeSpecSteps, PTL
  <1> QED BY <1>1, <1>2, <1>3, PTL DEF NativeSpec, KeepsSeries

(* Objects are linked to the next ones in their series.                     *)
LEMMA LinkedToNext ==
    ASSUME NEW d \in Db, Sound(d), NEW p \in d.objects
    PROVE  LET q == d.obsoletedBy[p]
           IN  IF q = None THEN \A r \in d.objects : <<p, r>> \notin Later(d)
               ELSE /\ <<p, q>> \in Later(d)
                    /\ \A r \in d.objects : <<p, r>> \in Later(d) => r = q \/ <<q, r>> \in Later(d)
  <1> DEFINE q == d.obsoletedBy[p]
  <1>0. None \notin d.objects
    BY StoreAssumption DEF Db
  <1>1. CASE q = None
    <2>1. ClosedUnderNewer(d, {p})
      BY <1>0, <1>1 DEF ClosedUnderNewer
    <2>2. Visited(d, p) \subseteq {p}
      BY <2>1, VisitedInClosed
    <2> QED BY <1>1, <2>2 DEF Later
  <1>2. CASE q # None
    <2>1. q \in d.objects /\ q # p
      BY <1>2, NoSelfLink DEF Sound, LinksSound
    <2>2. q \in Visited(d, p)
      BY <2>1, VisitedClosed DEF ClosedUnderNewer
    <2>3. /\ {p} \cup Visited(d, q) \in SUBSET d.objects
          /\ ClosedUnderNewer(d, {p} \cup Visited(d, q))
      BY <2>1, VisitedClosed DEF ClosedUnderNewer
    <2>4. Visited(d, p) \subseteq {p} \cup Visited(d, q)
      BY <2>3, VisitedInClosed
    <2> QED BY <1>2, <2>1, <2>2, <2>4 DEF Later
  <1> QED BY <1>1, <1>2

(* And to the previous ones.                                                *)
LEMMA LinkedToPrevious ==
    ASSUME NEW d \in Db, Sound(d), NEW p \in d.objects
    PROVE  LET q == d.obsoletes[p]
           IN  IF q = None THEN \A r \in d.objects : <<r, p>> \notin Later(d)
               ELSE /\ <<q, p>> \in Later(d)
                    /\ \A r \in d.objects : <<r, p>> \in Later(d) => r = q \/ <<r, q>> \in Later(d)
  <1> DEFINE q == d.obsoletes[p]
  <1>0. None \notin d.objects
    BY StoreAssumption DEF Db
  <1>1. CASE q = None
    <2>1. \A r \in d.objects : d.obsoletedBy[r] # p
      BY <1>0, <1>1 DEF Sound, LinksSound
    <2>2. \A r \in d.objects : r # p => p \notin Visited(d, r)
      BY <2>1, VisitedFromElsewhere
    <2> QED BY <1>1, <2>2 DEF Later
  <1>2. CASE q # None
    <2>1. q \in d.objects /\ q # p /\ d.obsoletedBy[q] = p
      BY <1>2, NoSelfLink DEF Sound, LinksSound
    <2>2. p \in Visited(d, q)
      BY <2>1, VisitedClosed DEF ClosedUnderNewer
    <2>3. ASSUME NEW r \in d.objects, p # r, p \in Visited(d, r)
          PROVE  q \in Visited(d, r)
      BY <2>1, <2>3, VisitedThroughOlder
    <2> QED BY <1>2, <2>1, <2>2, <2>3 DEF Later
  <1> QED BY <1>1, <1>2

(* Until a document changes links, the documents of a node that only clients *)
(* write to link the neighbours in a series: what ChainReader takes for      *)
(* granted of the documents that it reads.                                   *)
THEOREM NativeNeighbours ==
    ASSUME Pids \cap Sids = {}
    PROVE  NativeSpec => []LinksToNeighbours
  <1>1. TypeOK /\ NativeInv => LinksToNeighbours
    <2> SUFFICES ASSUME TypeOK, NativeInv, relinks = 0, NEW p \in db.objects
                 PROVE  /\ SeriesView!IsPrevious(p, db.obsoletes[p])
                        /\ SeriesView!IsNext(p, db.obsoletedBy[p])
      BY DEF LinksToNeighbours, CurrentSysmeta
    <2>1. db \in Db /\ Sound(db)
      BY DEF TypeOK, NativeInv
    <2> QED BY <2>1, LinkedToNext, LinkedToPrevious DEF SeriesView!IsPrevious, SeriesView!IsNext
  <1>2. NativeSpec => [](TypeOK /\ NativeInv)
    BY NativeInvariant, NativeSpecSteps, PTL
  <1> QED BY <1>1, <1>2, PTL
-----------------------------------------------------------------------------
(* What holds whatever links documents bring, and frees a deleted PID.      *)

(* An object that names another as its neighbour is named back, or the other *)
(* names an object that is not there.  (Object and neighbour may be the same.)*)
EndsMeet(d) ==
    \A p \in d.objects, q \in d.objects : p # q =>
        /\ d.obsoletes[q] = p => d.obsoletedBy[p] = q \/ d.obsoletedBy[p] \notin Opt(d.objects)
        /\ d.obsoletedBy[q] = p => d.obsoletes[p] = q \/ d.obsoletes[p] \notin Opt(d.objects)

NoRowNoLinks(d) == \A p \in Did \ d.objects : d.obsoletes[p] = None /\ d.obsoletedBy[p] = None

LinksTraced(d) == UniqueLinks(d) /\ NoRowNoLinks(d) /\ EndsMeet(d)

IdsApart(d) == d.objects \subseteq Pids /\ \A c \in ChainId : d.sid[c] \in Opt(Sids)

(* The columns of links that a store or cut leaves. *)
LEMMA TracedColumns ==
    ASSUME NEW d, NEW e, SameLinks(d, e), LinksTraced(d)
    PROVE  LinksTraced(e)
  BY DEF SameLinks, LinksTraced, UniqueLinks, NoRowNoLinks, EndsMeet

LEMMA StoreTraced ==
    ASSUME NEW d \in Db, LinksTraced(d), NEW m \in Sysmeta, CreateOrUpdateOk(d, m),
           m.pid \in d.objects \/ ~IsRevision(d, m.pid)
    PROVE  LinksTraced(CreateOrUpdate(d, m))
  <1> DEFINE p == m.pid
             t == NeighboursTold(SaveRow(d, m), m)
             k == Linked(d, m)
             e == CreateOrUpdate(d, m)
  <1>0. p \in Did /\ None \notin Did /\ d.objects \subseteq Did
    BY StoreAssumption DEF Sysmeta, Db
  <1>1. SameLinks(k, e)
    BY CreateOrUpdateLinks
  <1>2. UniqueLinks(t) /\ UniqueLinks(k)
    BY DEF CreateOrUpdateOk
  <1>3. \A q \in Did :
          /\ t.obsoletes[q] = IF q = m.obsoletedBy /\ q \in d.objects \cup {p} THEN p
                              ELSE d.obsoletes[q]
          /\ t.obsoletedBy[q] = IF q = m.obsoletes /\ q \in d.objects \cup {p} THEN p
                                ELSE d.obsoletedBy[q]
    BY <1>0 DEF NeighboursTold, SaveRow, Db
  <1>4. /\ k.objects = d.objects \cup {p}
        /\ k.obsoletes[p] = IF m.obsoletes # None THEN m.obsoletes ELSE d.obsoletes[p]
        /\ k.obsoletedBy[p] = IF m.obsoletedBy # None THEN m.obsoletedBy ELSE d.obsoletedBy[p]
        /\ \A q \in Did \ {p} :
             /\ k.obsoletes[q] = IF q = m.obsoletedBy /\ q \in d.objects THEN p
                                 ELSE d.obsoletes[q]
             /\ k.obsoletedBy[q] = IF q = m.obsoletes /\ q \in d.objects THEN p
                                   ELSE d.obsoletedBy[q]
    BY LinkedColumns
  <1>5. p \notin d.objects =>
          \A q \in d.objects : d.obsoletes[q] # p /\ d.obsoletedBy[q] # p
    BY DEF IsRevision
  <1>6. \A q \in Did \ d.objects : d.obsoletes[q] = None /\ d.obsoletedBy[q] = None
    BY DEF LinksTraced, NoRowNoLinks
  <1> HIDE DEF p, t, k, e
  <1>7. NoRowNoLinks(k)
    BY <1>0, <1>4, <1>6 DEF NoRowNoLinks
  <1>8. ASSUME NEW a \in k.objects, NEW b \in k.objects, a # b, k.obsoletes[b] = a
        PROVE  k.obsoletedBy[a] = b \/ k.obsoletedBy[a] \notin Opt(k.objects)
    <2>0. a \in Did /\ b \in Did /\ a # None /\ b # None
      BY <1>0, <1>4
    <2>1. CASE b = p
      <3>1. CASE m.obsoletes # None
        BY <1>0, <1>4, <1>8, <2>0, <2>1, <3>1
      <3>2. CASE m.obsoletes = None
        <4>1. d.obsoletes[p] = a /\ p \in d.objects /\ a \in d.objects
          BY <1>0, <1>4, <1>6, <1>8, <2>0, <2>1, <3>2
        <4>2. k.obsoletedBy[a] = d.obsoletedBy[a] /\ k.objects = d.objects
          BY <1>4, <1>8, <2>0, <2>1, <3>2, <4>1
        <4> QED BY <1>8, <2>1, <4>1, <4>2 DEF LinksTraced, EndsMeet
      <3> QED BY <3>1, <3>2
    <2>2. CASE b # p /\ b = m.obsoletedBy
      BY <1>4, <1>8, <2>0, <2>2
    <2>3. CASE b # p /\ b # m.obsoletedBy
      <3>1. d.obsoletes[b] = a /\ b \in d.objects /\ a \in d.objects
        BY <1>4, <1>5, <1>8, <2>0, <2>3
      <3>2. d.obsoletedBy[a] = b \/ d.obsoletedBy[a] \notin Opt(d.objects)
        BY <1>8, <3>1 DEF LinksTraced, EndsMeet
      <3>3. CASE a = p /\ m.obsoletedBy = None
        BY <1>4, <2>0, <3>1, <3>2, <3>3 DEF Opt
      <3>4. CASE a = p /\ m.obsoletedBy # None /\ m.obsoletedBy \in k.objects
        <4>1. m.obsoletedBy \in Did /\ m.obsoletedBy # b
          BY <1>0, <1>4, <2>3, <3>4
        <4>2. t.obsoletes[m.obsoletedBy] = p /\ t.obsoletes[b] = p
          BY <1>3, <1>4, <2>0, <2>3, <3>1, <3>4, <4>1
        <4> QED BY <1>2, <2>0, <3>4, <4>1, <4>2 DEF UniqueLinks
      <3>5. CASE a = p /\ m.obsoletedBy # None /\ m.obsoletedBy \notin k.objects
        BY <1>4, <3>5 DEF Opt
      <3>6. CASE a # p /\ a = m.obsoletes
        <4>1. k.obsoletes[p] = a /\ k.obsoletes[b] = a
          BY <1>4, <1>8, <2>0, <3>6
        <4> QED BY <1>0, <1>2, <2>0, <2>3, <4>1 DEF UniqueLinks
      <3>7. CASE a # p /\ a # m.obsoletes
        <4>1. k.obsoletedBy[a] = d.obsoletedBy[a]
          BY <1>4, <2>0, <3>7
        <4>2. p \notin d.objects => d.obsoletedBy[a] # p
          BY <1>5, <3>1
        <4> QED BY <1>4, <3>2, <4>1, <4>2 DEF Opt
      <3> QED BY <3>3, <3>4, <3>5, <3>6, <3>7
    <2> QED BY <2>1, <2>2, <2>3
  <1>9. ASSUME NEW a \in k.objects, NEW b \in k.objects, a # b, k.obsoletedBy[b] = a
        PROVE  k.obsoletes[a] = b \/ k.obsoletes[a] \notin Opt(k.objects)
    <2>0. a \in Did /\ b \in Did /\ a # None /\ b # None
      BY <1>0, <1>4
    <2>1. CASE b = p
      <3>1. CASE m.obsoletedBy # None
        BY <1>0, <1>4, <1>9, <2>0, <2>1, <3>1
      <3>2. CASE m.obsoletedBy = None
        <4>1. d.obsoletedBy[p] = a /\ p \in d.objects /\ a \in d.objects
          BY <1>0, <1>4, <1>6, <1>9, <2>0, <2>1, <3>2
        <4>2. k.obsoletes[a] = d.obsoletes[a] /\ k.objects = d.objects
          BY <1>4, <1>9, <2>0, <2>1, <3>2, <4>1
        <4> QED BY <1>9, <2>1, <4>1, <4>2 DEF LinksTraced, EndsMeet
      <3> QED BY <3>1, <3>2
    <2>2. CASE b # p /\ b = m.obsoletes
      BY <1>4, <1>9, <2>0, <2>2
    <2>3. CASE b # p /\ b # m.obsoletes
      <3>1. d.obsoletedBy[b] = a /\ b \in d.objects /\ a \in d.objects
        BY <1>4, <1>5, <1>9, <2>0, <2>3
      <3>2. d.obsoletes[a] = b \/ d.obsoletes[a] \notin Opt(d.objects)
        BY <1>9, <3>1 DEF LinksTraced, EndsMeet
      <3>3. CASE a = p /\ m.obsoletes = None
        BY <1>4, <2>0, <3>1, <3>2, <3>3 DEF Opt
      <3>4. CASE a = p /\ m.obsoletes # None /\ m.obsoletes \in k.objects
        <4>1. m.obsoletes \in Did /\ m.obsoletes # b
          BY <1>0, <1>4, <2>3, <3>4
        <4>2. t.obsoletedBy[m.obsoletes] = p /\ t.obsoletedBy[b] = p
          BY <1>3, <1>4, <2>0, <2>3, <3>1, <3>4, <4>1
        <4> QED BY <1>2, <2>0, <3>4, <4>1, <4>2 DEF UniqueLinks
      <3>5. CASE a = p /\ m.obsoletes # None /\ m.obsoletes \notin k.objects
        BY <1>4, <3>5 DEF Opt
      <3>6. CASE a # p /\ a = m.obsoletedBy
        <4>1. k.obsoletedBy[p] = a /\ k.obsoletedBy[b] = a
          BY <1>4, <1>9, <2>0, <3>6
        <4> QED BY <1>0, <1>2, <2>0, <2>3, <4>1 DEF UniqueLinks
      <3>7. CASE a # p /\ a # m.obsoletedBy
        <4>1. k.obsoletes[a] = d.obsoletes[a]
          BY <1>4, <2>0, <3>7
        <4>2. p \notin d.objects => d.obsoletes[a] # p
          BY <1>5, <3>1
        <4> QED BY <1>4, <3>2, <4>1, <4>2 DEF Opt
      <3> QED BY <3>3, <3>4, <3>5, <3>6, <3>7
    <2> QED BY <2>1, <2>2, <2>3
  <1>10. LinksTraced(k)
    BY <1>2, <1>7, <1>8, <1>9 DEF LinksTraced, EndsMeet
  <1>11. LinksTraced(e)
    BY <1>1, <1>10, TracedColumns
  <1> QED BY <1>11 DEF e

(* Once p is cut from its neighbours, no other object names it. *)
LEMMA CutTraced ==
    ASSUME NEW d \in Db, LinksTraced(d), WalksStop(d), NEW p \in d.objects,
           IsInRevisionChain(d, p), CutFromChainOk(d, p)
    PROVE  LET k == CloseGap(d, p)
           IN  /\ LinksTraced(k)
               /\ \A q \in d.objects \ {p} : p \notin {k.obsoletes[q], k.obsoletedBy[q]}
               /\ \A q \in Did : {k.obsoletes[q], k.obsoletedBy[q]} \subseteq
                                    {d.obsoletes[r] : r \in Did} \cup {d.obsoletedBy[r] : r \in Did}
                                      \cup {None}
  <1> DEFINE f == CloseGapOlder(d, p)
             k == CloseGap(d, p)
             o == d.obsoletes[p]
             n == d.obsoletedBy[p]
  <1>0. p \in Did /\ None \notin Did /\ d.objects \subseteq Did
    BY StoreAssumption DEF Db
  <1>1. /\ k.objects = d.objects
        /\ \A q \in Did :
             /\ k.obsoletes[q] = IF q = n THEN o ELSE f.obsoletes[q]
             /\ k.obsoletedBy[q] = IF q = n THEN d.obsoletedBy[q] ELSE f.obsoletedBy[q]
    BY <1>0, CloseGapType
  <1>2. \A q \in Did :
          /\ f.obsoletes[q] = IF q = o THEN d.obsoletes[q]
                              ELSE IF q = p THEN None ELSE d.obsoletes[q]
          /\ f.obsoletedBy[q] = IF q = o THEN n ELSE IF q = p THEN None ELSE d.obsoletedBy[q]
    BY <1>0, CloseGapOlderType
  <1>3. o \in Opt(d.objects) /\ n \in Opt(d.objects) /\ UniqueLinks(k) /\ UniqueLinks(d)
    BY DEF CutFromChainOk, LinksTraced, Opt
  <1>4. /\ \A q \in d.objects : q # p /\ d.obsoletes[q] = p => n = q
        /\ \A q \in d.objects : q # p /\ d.obsoletedBy[q] = p => o = q
    BY <1>3 DEF LinksTraced, EndsMeet
  <1>5. n # p /\ (o = n /\ o # None => d.obsoletedBy[o] # p)
    <2>1. SUFFICES ASSUME n \in d.objects, n = p \/ d.obsoletedBy[n] = p
                   PROVE  FALSE
      BY <1>0, <1>3 DEF Opt
    <2>2. {p, n} \in SUBSET d.objects /\ ClosedUnderNewer(d, {p, n})
      BY <2>1 DEF ClosedUnderNewer
    <2>3. Visited(d, p) \subseteq {p, n}
      BY <2>2, VisitedInClosed
    <2> QED BY <2>1, <2>3 DEF WalksStop, FindHeadOk, WalkStops
  <1>6. o = p => n = None
    <2> SUFFICES ASSUME o = p, n # None PROVE FALSE
      OBVIOUS
    <2>1. n \in Did /\ n # p
      BY <1>0, <1>3, <1>5 DEF Opt
    <2>2. k.obsoletes[n] = p /\ k.obsoletes[p] = p
      BY <1>0, <1>1, <1>2, <1>5, <2>1
    <2> QED BY <1>0, <1>3, <2>1, <2>2 DEF UniqueLinks
  <1>7. \A q \in Did :
          /\ k.obsoletes[q] = IF q = n THEN o ELSE IF q = p /\ o # p THEN None
                              ELSE d.obsoletes[q]
          /\ k.obsoletedBy[q] = IF q = n THEN d.obsoletedBy[q]
                                ELSE IF q = o THEN n ELSE IF q = p THEN None
                                ELSE d.obsoletedBy[q]
    BY <1>0, <1>1, <1>2
  <1>8. /\ d.obsoletes[p] = o /\ d.obsoletedBy[p] = n
        /\ \A q \in Did \ d.objects : d.obsoletes[q] = None /\ d.obsoletedBy[q] = None
    BY DEF LinksTraced, NoRowNoLinks
  <1>9. /\ \A q \in Did \ {p} : o # None => d.obsoletes[q] # o
        /\ \A q \in Did \ {p} : n # None => d.obsoletedBy[q] # n
    BY <1>0, <1>3, <1>8 DEF UniqueLinks
  <1> HIDE DEF f, k, o, n
  <1>10. \A q \in d.objects \ {p} : p \notin {k.obsoletes[q], k.obsoletedBy[q]}
    <2> SUFFICES ASSUME NEW q \in d.objects \ {p}
                 PROVE  k.obsoletes[q] # p /\ k.obsoletedBy[q] # p
      OBVIOUS
    <2>1. q \in Did /\ q # p /\ q # None
      BY <1>0
    <2>2. k.obsoletes[q] # p
      BY <1>4, <1>6, <1>7, <2>1
    <2>3. k.obsoletedBy[q] # p
      BY <1>4, <1>5, <1>7, <2>1
    <2> QED BY <2>2, <2>3
  <1>11. NoRowNoLinks(k)
    BY <1>0, <1>1, <1>3, <1>7, <1>8 DEF NoRowNoLinks, Opt
  <1>12. ASSUME NEW a \in d.objects, NEW b \in d.objects, a # b, k.obsoletes[b] = a
         PROVE  k.obsoletedBy[a] = b \/ k.obsoletedBy[a] \notin Opt(d.objects)
    <2>0. a \in Did /\ b \in Did /\ a # None /\ b # None /\ a # p
      BY <1>0, <1>6, <1>7, <1>10, <1>12
    <2>1. CASE b = n
      BY <1>7, <1>12, <2>0, <2>1
    <2>2. CASE b = p
      BY <1>6, <1>7, <1>8, <1>12, <2>0, <2>2
    <2>3. CASE b # n /\ b # p
      <3>1. d.obsoletes[b] = a /\ a # o
        BY <1>7, <1>9, <1>12, <2>0, <2>3
      <3>2. d.obsoletedBy[a] = b \/ d.obsoletedBy[a] \notin Opt(d.objects)
        BY <1>12, <3>1 DEF LinksTraced, EndsMeet
      <3>3. k.obsoletedBy[a] = d.obsoletedBy[a]
        BY <1>7, <2>0, <3>1
      <3> QED BY <3>2, <3>3
    <2> QED BY <2>1, <2>2, <2>3
  <1>13. ASSUME NEW a \in d.objects, NEW b \in d.objects, a # b, k.obsoletedBy[b] = a
         PROVE  k.obsoletes[a] = b \/ k.obsoletes[a] \notin Opt(d.objects)
    <2>0. a \in Did /\ b \in Did /\ a # None /\ b # None
      BY <1>0
    <2>1. CASE b = o /\ b # n
      BY <1>7, <1>13, <2>0, <2>1
    <2>2. CASE b = p /\ b # o
      BY <1>5, <1>7, <1>13, <2>0, <2>2
    <2>3. CASE b = n \/ (b # o /\ b # p)
      <3>1. b # p /\ d.obsoletedBy[b] = a /\ a # n
        BY <1>5, <1>7, <1>9, <1>13, <2>0, <2>3
      <3>2. d.obsoletes[a] = b \/ d.obsoletes[a] \notin Opt(d.objects)
        BY <1>13, <3>1 DEF LinksTraced, EndsMeet
      <3>3. a # p
        BY <1>10, <1>13, <3>1
      <3>4. k.obsoletes[a] = d.obsoletes[a]
        BY <1>7, <2>0, <3>1, <3>3
      <3> QED BY <3>2, <3>4
    <2> QED BY <2>1, <2>2, <2>3
  <1>14. LinksTraced(k)
    BY <1>1, <1>3, <1>11, <1>12, <1>13 DEF LinksTraced, EndsMeet
  <1>15. \A q \in Did : {k.obsoletes[q], k.obsoletedBy[q]} \subseteq
                          {d.obsoletes[r] : r \in Did} \cup {d.obsoletedBy[r] : r \in Did} \cup {None}
    BY <1>0, <1>7, <1>8
  <1> QED BY <1>10, <1>14, <1>15 DEF k

(* The cascade frees the identifier that is deleted. *)
LEMMA DeleteDidFrees ==
    ASSUME NEW d \in Db, NEW x \in Did
    PROVE  IsValidPidForCreate(DeleteDid(d, x), x)
  <1> DEFINE e == DeleteDid(d, x)
             gone == {p \in d.objects : x \in {p, d.obsoletes[p], d.obsoletedBy[p]}}
  <1>0. None \notin Did
    BY StoreAssumption
  <1>1. e.objects = d.objects \ gone /\ e.replica = d.replica \ {x}
    BY DEF DeleteDid
  <1>2. ~IsSid(e, x)
    BY <1>0 DEF DeleteDid, IsSid
  <1>3. \A p \in Did \ gone : e.obsoletes[p] = d.obsoletes[p] /\ e.obsoletedBy[p] = d.obsoletedBy[p]
    BY DEF DeleteDid
  <1>4. ~IsRevision(e, x)
    BY <1>1, <1>3 DEF IsRevision, Db
  <1> QED BY <1>1, <1>2, <1>4 DEF IsValidPidForCreate

LEMMA DeleteDidTraced ==
    ASSUME NEW d \in Db, LinksTraced(d), NEW x
    PROVE  LinksTraced(DeleteDid(d, x))
  <1> DEFINE e == DeleteDid(d, x)
             gone == {p \in d.objects : x \in {p, d.obsoletes[p], d.obsoletedBy[p]}}
  <1>1. /\ e.objects = d.objects \ gone
        /\ \A p \in Did : /\ e.obsoletes[p] = IF p \in gone THEN None ELSE d.obsoletes[p]
                          /\ e.obsoletedBy[p] = IF p \in gone THEN None ELSE d.obsoletedBy[p]
    BY DEF DeleteDid
  <1>2. d.objects \subseteq Did
    BY DEF Db
  <1> HIDE DEF e, gone
  <1>3. UniqueLinks(e)
    BY <1>1 DEF UniqueLinks, LinksTraced
  <1>4. NoRowNoLinks(e)
    BY <1>1 DEF NoRowNoLinks, LinksTraced
  <1>5. EndsMeet(e)
    BY <1>1, <1>2 DEF EndsMeet, LinksTraced, Opt
  <1> QED BY <1>3, <1>4, <1>5 DEF LinksTraced, e

(* Chains get their SIDs from documents and from each other. *)
SidsKnown(d) == \A c \in ChainId : d.sid[c] \in Opt(Sids)

LEMMA SetChainSidSids ==
    ASSUME NEW d \in Db, SidsKnown(d), NEW c \in ChainId, NEW s \in Opt(Sids)
    PROVE  SidsKnown(SetChainSid(d, c, s))
  BY DEF SetChainSid, SidsKnown, Db

LEMMA MergeChainsSids ==
    ASSUME NEW d \in Db, SidsKnown(d), NEW a \in ChainId, NEW b \in Opt(ChainId)
    PROVE  SidsKnown(MergeChains(d, a, b))
  <1>1. CASE b \in {None, a}
    BY <1>1 DEF MergeChains
  <1>2. CASE b \notin {None, a}
    <2> DEFINE e == SetChainSid(d, a, d.sid[b])
    <2>1. b \in ChainId /\ d.sid[b] \in Opt(Sids) /\ d.sid[b] \in Opt(Did)
      BY <1>2 DEF SidsKnown, Opt, Db
    <2>2. SidsKnown(e) /\ e \in Db
      BY <2>1, SetChainSidSids, SetChainSidType
    <2> HIDE DEF e
    <2>3. MergeChains(d, a, b) =
            [e EXCEPT !.chain = [p \in Did |-> IF d.chain[p] = b THEN a ELSE d.chain[p]],
                      !.sid[b] = None, !.head[b] = None]
      BY <1>2 DEF MergeChains, e
    <2> QED BY <2>1, <2>2, <2>3 DEF SidsKnown, Opt, Db
  <1> QED BY <1>1, <1>2

LEMMA CreateOrUpdateSids ==
    ASSUME NEW d \in Db, SidsKnown(d), NEW m \in Sysmeta, m.seriesId \in Opt(Sids),
           CreateOrUpdateOk(d, m)
    PROVE  SidsKnown(CreateOrUpdate(d, m))
  <1> DEFINE k == Linked(d, m)
             f == CreateOrUpdateChain(k, m)
  <1>0. m.pid \in Did /\ m.obsoletedBy \in Opt(Did)
    BY DEF Sysmeta
  <1>1. k \in Db /\ SidsKnown(k)
    BY LinkedType, LinkedColumns DEF SidsKnown
  <1>2. CreateOrUpdateChainOk(k, m)
    BY DEF CreateOrUpdateOk
  <1> HIDE DEF k
  <1>3. CASE k.chain[m.pid] # None
    <2>1. k.chain[m.pid] \in ChainId
      BY <1>0, <1>1, <1>3 DEF Db, Opt
    <2> QED BY <1>1, <1>3, <2>1, SetChainSidSids
            DEF CreateOrUpdateChain, CreateOrUpdate, UpdateHead, SidsKnown, k
  <1>4. CASE k.chain[m.pid] = None /\ JoinedChain(k, m) = None
    <2> DEFINE c == FreeChain(k)
               e == [k EXCEPT !.chain[m.pid] = c, !.head[c] = m.pid]
    <2>1. c \in ChainId
      BY <1>2, <1>4 DEF CreateOrUpdateChainOk, AddSciobjOk, FreeChain
    <2> HIDE DEF c
    <2>2. e \in Db /\ SidsKnown(e)
      BY <1>0, <1>1, <2>1 DEF Db, Opt, SidsKnown
    <2> HIDE DEF e
    <2>3. SidsKnown(SetChainSid(e, c, m.seriesId))
      BY <2>1, <2>2, SetChainSidSids
    <2> QED BY <1>4, <2>3
            DEF CreateOrUpdateChain, AddSciobj, CreateOrUpdate, UpdateHead, SidsKnown, c, e, k
  <1>5. CASE k.chain[m.pid] = None /\ JoinedChain(k, m) # None
    <2> DEFINE c == JoinedChain(k, m)
               b == ChainOf(k, m.obsoletedBy)
               e == MergeChains(k, c, b)
               g == [e EXCEPT !.chain[m.pid] = c]
    <2>1. c \in ChainId /\ b \in Opt(ChainId)
      BY <1>0, <1>1, <1>5, JoinedChainType DEF ChainOf, Db, Opt
    <2>2. e \in Db /\ SidsKnown(e)
      BY <1>1, <2>1, MergeChainsType, MergeChainsSids
    <2> HIDE DEF c, e
    <2>3. g \in Db /\ SidsKnown(g)
      BY <1>0, <2>1, <2>2 DEF Db, Opt, SidsKnown
    <2> HIDE DEF g
    <2>4. SidsKnown(SetChainSid(g, c, m.seriesId))
      BY <2>1, <2>3, SetChainSidSids
    <2> QED BY <1>5, <2>4
            DEF CreateOrUpdateChain, AddSciobj, CreateOrUpdate, UpdateHead, SidsKnown, c, e, g, k
  <1> QED BY <1>3, <1>4, <1>5

(* delete_sciobj_from_database() removes the one row, unless a document that *)
(* names a series goes with the series.                                      *)
LEMMA DeleteTraced ==
    ASSUME Pids \cap Sids = {}, NEW d \in Db, LinksTraced(d), IdsApart(d), WalksStop(d),
           NEW p, DeleteSciobjOk(d, p)
    PROVE  LET e == DeleteSciobj(d, p)
           IN  /\ LinksTraced(e) /\ IdsApart(e)
               /\ ~NamesSeries(d) => e.objects = d.objects \ {p}
               /\ IsValidPidForCreate(e, p)
  <1> DEFINE k == Detached(d, p)
             c == k.chain[p]
             e == [k EXCEPT !.chain[p] = None]
             f == DeleteChain(k, p)
             Named == {d.obsoletes[r] : r \in Did} \cup {d.obsoletedBy[r] : r \in Did} \cup {None}
  <1>0. p \in d.objects /\ p \in Did /\ p \in Pids /\ None \notin Did /\ d.objects \subseteq Did
    BY StoreAssumption DEF DeleteSciobjOk, Db, IdsApart
  <1>1. /\ k \in Db /\ LinksTraced(k) /\ k.objects = d.objects /\ k.sid = d.sid
        /\ \A q \in d.objects \ {p} : p \notin {k.obsoletes[q], k.obsoletedBy[q]}
        /\ \A q \in Did : {k.obsoletes[q], k.obsoletedBy[q]} \subseteq Named
    <2>1. CASE IsInRevisionChain(d, p)
      <3> DEFINE g == CloseGap(d, p)
      <3>1. CutFromChainOk(d, p) /\ k = UpdateHead(g, RemainingNeighbour(d, p))
        BY <2>1 DEF DeleteSciobjOk, Detached, CutFromChain
      <3>2. /\ LinksTraced(g)
            /\ \A q \in d.objects \ {p} : p \notin {g.obsoletes[q], g.obsoletedBy[q]}
            /\ \A q \in Did : {g.obsoletes[q], g.obsoletedBy[q]} \subseteq Named
        BY <1>0, <2>1, <3>1, CutTraced
      <3>3. g \in Db /\ g.objects = d.objects /\ g.sid = d.sid
        BY <1>0, CloseGapType
      <3>4. k \in Db
        BY DetachedWalks
      <3> HIDE DEF g, k, Named
      <3>5. SameLinks(g, k) /\ k.sid = g.sid
        BY <3>1, <3>3, UpdateHeadLinks DEF UpdateHead, Db
      <3> QED BY <3>2, <3>3, <3>4, <3>5, TracedColumns DEF SameLinks
    <2>2. CASE ~IsInRevisionChain(d, p)
      <3>1. k = d
        BY <2>2 DEF Detached
      <3>2. d.obsoletes[p] = None /\ d.obsoletedBy[p] = None
        BY <2>2 DEF IsInRevisionChain
      <3>3. \A q \in d.objects \ {p} : d.obsoletes[q] # p /\ d.obsoletedBy[q] # p
        BY <1>0, <3>2 DEF LinksTraced, EndsMeet, Opt
      <3>4. \A q \in Did : {d.obsoletes[q], d.obsoletedBy[q]} \subseteq Named
        OBVIOUS
      <3> HIDE DEF k, Named
      <3> QED BY <3>1, <3>3, <3>4
    <2> QED BY <2>1, <2>2
  <1>2. c \in ChainId
    BY <1>0, <1>1 DEF DeleteSciobjOk, Db, Opt
  <1>3. f = IF Members(e, c) # {} THEN e
            ELSE IF k.sid[c] # None THEN DeleteDid(e, k.sid[c])
            ELSE [e EXCEPT !.head[c] = None]
    BY DEF DeleteChain
  <1> HIDE DEF k, c
  <1>4. e \in Db /\ SameLinks(k, e) /\ e.sid = k.sid
    BY <1>0, <1>1 DEF Db, Opt, SameLinks
  <1> HIDE DEF e
  <1>5. LinksTraced(e) /\ IdsApart(e)
    BY <1>1, <1>4, TracedColumns DEF IdsApart, SameLinks
  <1>6. /\ f \in Db /\ LinksTraced(f) /\ IdsApart(f)
        /\ f.objects \subseteq e.objects
        /\ \A q \in f.objects : /\ f.obsoletes[q] = e.obsoletes[q]
                                /\ f.obsoletedBy[q] = e.obsoletedBy[q]
        /\ ~NamesSeries(d) => f.objects = e.objects
    <2>1. CASE Members(e, c) # {}
      BY <1>3, <1>4, <1>5, <2>1
    <2>2. CASE Members(e, c) = {} /\ k.sid[c] = None
      <3>1. f = [e EXCEPT !.head[c] = None]
        BY <1>3, <2>2
      <3>2. f \in Db /\ SameLinks(e, f) /\ f.sid = e.sid
        BY <1>2, <1>4, <3>1 DEF Db, Opt, SameLinks
      <3> QED BY <1>5, <3>2, TracedColumns DEF IdsApart, SameLinks
    <2>3. CASE Members(e, c) = {} /\ k.sid[c] # None
      <3> DEFINE x == k.sid[c]
                 gone == {q \in e.objects : x \in {q, e.obsoletes[q], e.obsoletedBy[q]}}
      <3>1. f = DeleteDid(e, x)
        BY <1>3, <2>3
      <3>2. f \in Db /\ LinksTraced(f)
        BY <1>4, <1>5, <3>1, DeleteDidType, DeleteDidTraced
      <3>3. /\ f.objects = e.objects \ gone
            /\ \A q \in Did : /\ f.obsoletes[q] = IF q \in gone THEN None ELSE e.obsoletes[q]
                              /\ f.obsoletedBy[q] = IF q \in gone THEN None ELSE e.obsoletedBy[q]
            /\ \A b \in ChainId : f.sid[b] \in {None, e.sid[b]}
        BY <3>1 DEF DeleteDid
      <3>4. IdsApart(f)
        BY <1>5, <3>3 DEF IdsApart, Opt
      <3>5. x \in Sids /\ x # None /\ IsSid(d, x)
        BY <1>1, <1>2, <2>3 DEF IsSid, IdsApart, Opt
      <3>6. ~NamesSeries(d) => gone = {}
        <4> SUFFICES ASSUME ~NamesSeries(d), NEW q \in e.objects,
                            x \in {q, e.obsoletes[q], e.obsoletedBy[q]}
                     PROVE  FALSE
          OBVIOUS
        <4>1. q \in d.objects /\ q \in Did /\ q # x
          BY <1>0, <1>1, <1>4, <3>5 DEF SameLinks, IdsApart
        <4>2. x \in Named
          BY <1>1, <1>4, <4>1 DEF SameLinks
        <4>3. PICK r \in Did : x \in {d.obsoletes[r], d.obsoletedBy[r]}
          BY <3>5, <4>2
        <4>4. r \in d.objects
          BY <3>5, <4>3 DEF LinksTraced, NoRowNoLinks
        <4> QED BY <3>5, <4>3, <4>4 DEF NamesSeries
      <3> HIDE DEF gone, x
      <3>7. e.objects \subseteq Did
        BY <1>4 DEF Db
      <3> QED BY <3>2, <3>3, <3>4, <3>6, <3>7
    <2> QED BY <2>1, <2>2, <2>3
  <1>7. DeleteSciobj(d, p) = DeleteDid(f, p)
    BY DEF DeleteSciobj, f, k
  <1> HIDE DEF f
  <1>8. LinksTraced(DeleteDid(f, p)) /\ IsValidPidForCreate(DeleteDid(f, p), p)
    BY <1>0, <1>6, DeleteDidTraced, DeleteDidFrees
  <1>9. IdsApart(DeleteDid(f, p))
    BY <1>6 DEF IdsApart, DeleteDid, Opt
  <1>10. DeleteDid(f, p).objects = f.objects \ {p}
    <2>1. \A q \in f.objects \ {p} : p \notin {f.obsoletes[q], f.obsoletedBy[q]}
      BY <1>1, <1>4, <1>6 DEF SameLinks
    <2> QED BY <2>1 DEF DeleteDid
  <1>11. ~NamesSeries(d) => f.objects = d.objects
    BY <1>1, <1>4, <1>6 DEF SameLinks
  <1> QED BY <1>7, <1>8, <1>9, <1>10, <1>11

(* The steps of a node that only clients write to. *)
LEMMA TracedStep ==
    ASSUME Pids \cap Sids = {}, TypeOK, LinksTraced(db), IdsApart(db), WalksStop(db),
           [NativeNext]_vars
    PROVE  /\ LinksTraced(db') /\ IdsApart(db')
           /\ ~NamesSeries(db) =>
                \A p \in db.objects \ db'.objects :
                   IsValidPidForCreate(db', p) /\ p \notin files'
  <1>0. db \in Db /\ SidsKnown(db)
    BY DEF TypeOK, IdsApart, SidsKnown
  <1>1. ASSUME NEW m \in Sysmeta, m.pid \in Pids, m.seriesId \in Opt(Sids),
               m.pid \in db.objects \/ ~IsRevision(db, m.pid),
               db' = db \/ (CreateOrUpdateOk(db, m) /\ db' = CreateOrUpdate(db, m))
        PROVE  LinksTraced(db') /\ IdsApart(db') /\ db.objects \subseteq db'.objects
    <2>1. CASE db' = db
      BY <2>1
    <2>2. CASE CreateOrUpdateOk(db, m) /\ db' = CreateOrUpdate(db, m)
      <3>1. db'.objects = db.objects \cup {m.pid}
        BY <1>0, <2>2, CreateOrUpdateLinks, LinkedColumns DEF SameLinks
      <3> QED BY <1>0, <1>1, <2>2, <3>1, StoreTraced, CreateOrUpdateSids DEF IdsApart, SidsKnown
    <2> QED BY <1>1, <2>1, <2>2
  <1>2. \A p \in db.objects : \A s \in SidsFor(db, p) : s \in Opt(Sids) /\ p \in Pids
    BY <1>0 DEF SidsFor, SidOf, SidsKnown, IdsApart, Opt, Db
  <1>3. \A m : StoreObject(m) \/ Replace(m) =>
                 db' = db \/ (CreateOrUpdateOk(db, m) /\ db' = CreateOrUpdate(db, m))
    BY DEF StoreObject, Replace
  <1>4. ASSUME NEW p \in Pids, NEW s \in Opt(Sids), NEW spooled \in BOOLEAN,
               Create(p, s, spooled)
        PROVE  LinksTraced(db') /\ IdsApart(db') /\ db.objects \subseteq db'.objects
    <2> DEFINE m == NewSysmeta(p, None, s)
    <2>1. m \in Sysmeta /\ m.pid = p /\ m.seriesId = s
      BY DidParts DEF NewSysmeta, Sysmeta, Opt
    <2>2. StoreObject(m) /\ ~IsRevision(db, p)
      BY <1>4 DEF Create, IsValidPidForCreate
    <2> QED BY <1>1, <1>3, <2>1, <2>2
  <1>5. ASSUME NEW old \in db.objects, NEW p \in Pids, NEW s \in SidsFor(db, old),
               NEW spooled \in BOOLEAN, Update(old, p, s, spooled)
        PROVE  LinksTraced(db') /\ IdsApart(db') /\ db.objects \subseteq db'.objects
    <2> DEFINE m == NewSysmeta(p, old, s)
    <2>1. s \in Opt(Sids) /\ old \in Did
      BY <1>0, <1>2 DEF Db
    <2>2. m \in Sysmeta /\ m.pid = p /\ m.seriesId = s
      BY <2>1, DidParts DEF NewSysmeta, Sysmeta, Opt
    <2>3. StoreObject(m) /\ ~IsRevision(db, p)
      BY <1>5 DEF Update, IsValidPidForCreate
    <2> QED BY <1>1, <1>3, <2>1, <2>2, <2>3
  <1>6. ASSUME NEW p \in db.objects, NEW links \in LinksFor(p), NEW s \in SidsFor(db, p),
               NEW archived \in BOOLEAN, PutMeta(p, links, s, archived)
        PROVE  LinksTraced(db') /\ IdsApart(db') /\ db.objects \subseteq db'.objects
    <2>1. PICK m \in Sysmeta : m.pid = p /\ m.seriesId = s /\ Replace(m)
      BY <1>6, PutMetaDocument
    <2> QED BY <1>1, <1>2, <1>3, <2>1
  <1>7. ASSUME NEW x \in Did, Delete(x)
        PROVE  /\ LinksTraced(db') /\ IdsApart(db')
               /\ ~NamesSeries(db) =>
                    \A p \in db.objects \ db'.objects :
                       IsValidPidForCreate(db', p) /\ p \notin files'
    <2> DEFINE p == ResolveSid(db, x)
    <2>1. p \in db.objects /\ files' = files \ {p}
          /\ db' = IF DeleteSciobjOk(db, p) THEN DeleteSciobj(db, p) ELSE db
      BY <1>7 DEF Delete
    <2> HIDE DEF p
    <2> QED BY <1>0, <2>1, DeleteTraced
  <1>8. ASSUME (\E x \in Did : Archive(x)) \/ (\E p \in Pids : Replicate(p)) \/ UNCHANGED vars
        PROVE  LinksTraced(db') /\ IdsApart(db') /\ db.objects \subseteq db'.objects
    <2>1. SameLinks(db, db') /\ db'.sid = db.sid
      BY <1>0, <1>8 DEF Archive, Replicate, vars, SameLinks, Db
    <2> QED BY <2>1, TracedColumns DEF SameLinks, IdsApart
  <1> QED BY <1>4, <1>5, <1>6, <1>7, <1>8 DEF NativeNext

(* A deleted PID can be created again, whatever links documents have brought *)
(* so far, unless they name a series: no row that is left refers to the PID, *)
(* and its file is gone.                                                     *)
THEOREM NativePidReusable ==
    ASSUME Pids \cap Sids = {}
    PROVE  NativeSpec => DeletedPidReusable
  <1>1. Init => LinksTraced(db) /\ IdsApart(db)
    BY DEF Init, LinksTraced, UniqueLinks, NoRowNoLinks, EndsMeet, IdsApart, Opt
  <1>2. TypeOK /\ HeadWalkEnds /\ LinksTraced(db) /\ IdsApart(db) /\ [NativeNext]_vars =>
          LinksTraced(db)' /\ IdsApart(db)'
    BY TracedStep DEF HeadWalkEnds
  <1>3. TypeOK /\ HeadWalkEnds /\ LinksTraced(db) /\ IdsApart(db) /\ [NativeNext]_vars =>
          [~NamesSeries(db) => \A p \in db.objects \ db'.objects :
                                  IsValidPidForCreate(db', p) /\ p \notin files']_vars
    BY TracedStep DEF HeadWalkEnds
  <1>4. NativeSpec => [](TypeOK /\ HeadWalkEnds)
    BY SpecsNested, TypeCorrect, ImportWalksEnd, PTL
  <1> QED BY <1>1, <1>2, <1>3, <1>4, PTL DEF NativeSpec, DeletedPidReusable
=============================================================================
