------------------------ MODULE GmnSysmetaLockProofs ------------------------
(***************************************************************************)
(* No change of a client is lost to a document that was read when the      *)
(* second of its time stamp was over, while requests run one after the     *)
(* other: for any identifiers, any number of clients, and whatever         *)
(* documents they hold.  What each request does to the archived flags of   *)
(* the objects that it does not give a new time stamp is all that the      *)
(* proof needs to know.                                                    *)
(***************************************************************************)
EXTENDS GmnStoreProofs, GmnSysmetaLock

(* Documents that were read when the second of their time stamp was over are *)
(* those of objects that exist and have no newer time stamp, and have the    *)
(* archived flag of the row.                                                 *)
HeldSound ==
    /\ TypeOK
    /\ held \subseteq Held
    /\ \A h \in held : h.settled =>
          /\ h.doc.pid \in db.objects \ fresh
          /\ h.doc.archived <=> h.doc.pid \in db.archived

(* The objects other than those in S keep their archived flag from d to e. *)
FlagsKept(d, e, S) ==
    \A p \in (d.objects \cap e.objects) \ S : p \in d.archived <=> p \in e.archived

(* A request that keeps the flags of the objects it does not stamp leaves    *)
(* the documents held sound.                                                 *)
LEMMA RestampSound ==
    ASSUME HeldSound, TypeOK', NEW S, Restamp(S), FlagsKept(db, db', S)
    PROVE  HeldSound'
  BY DEF HeldSound, Restamp, FlagsKept, Held

-----------------------------------------------------------------------------
(* The flags that the operators of the store keep.                          *)

LEMMA SetChainSidFlags ==
    ASSUME NEW d \in Db, NEW c, NEW s
    PROVE  SetChainSid(d, c, s).archived = d.archived
  BY DEF SetChainSid, Db

LEMMA AddSciobjFlags ==
    ASSUME NEW d \in Db, NEW m \in Sysmeta, AddSciobjOk(d, m)
    PROVE  AddSciobj(d, m).archived = d.archived
  <1> DEFINE c == JoinedChain(d, m)
             b == ChainOf(d, m.obsoletedBy)
             e == MergeChains(d, c, b)
             free == [d EXCEPT !.chain[m.pid] = FreeChain(d), !.head[FreeChain(d)] = m.pid]
  <1>0. m.pid \in Did /\ m.seriesId \in Opt(Did)
    BY DEF Sysmeta
  <1>1. CASE c = None
    <2>1. \E f \in ChainId : d.head[f] = None
      BY <1>1 DEF AddSciobjOk
    <2>2. FreeChain(d) \in ChainId
      BY <2>1 DEF FreeChain
    <2>3. free \in Db /\ free.archived = d.archived
      BY <1>0, <2>2 DEF Db, Opt
    <2> QED BY <1>1, <2>3, SetChainSidFlags DEF AddSciobj
  <1>2. CASE c # None
    <2>1. c \in ChainId /\ b \in Opt(ChainId)
      BY <1>2, JoinedChainType, StoreAssumption DEF ChainOf, Sysmeta, Db, Opt
    <2>2. MergeChainsOk(d, c, b)
      BY <1>2 DEF AddSciobjOk
    <2>3. e \in Db /\ e.archived = d.archived
      <3> HIDE DEF c, b
      <3>1. SetChainSid(d, c, d.sid[b]).archived = d.archived
        BY SetChainSidFlags
      <3>2. e \in Db
        BY <2>1, <2>2, MergeChainsType
      <3>3. e.archived = d.archived
        BY <2>1, <3>1 DEF MergeChains, SetChainSid, Db
      <3> QED BY <3>2, <3>3
    <2>4. [e EXCEPT !.chain[m.pid] = c] \in Db
      <3> HIDE DEF e, c
      <3> QED BY <1>0, <2>1, <2>3 DEF Db, Opt
    <2>5. [e EXCEPT !.chain[m.pid] = c].archived = d.archived
      BY <2>3 DEF Db
    <2>6. AddSciobj(d, m) = SetChainSid([e EXCEPT !.chain[m.pid] = c], c, m.seriesId)
      BY <1>2 DEF AddSciobj
    <2> DEFINE joined == [e EXCEPT !.chain[m.pid] = c]
    <2>7. joined \in Db /\ joined.archived = d.archived
      BY <2>4, <2>5
    <2>8. AddSciobj(d, m) = SetChainSid(joined, c, m.seriesId)
      BY <2>6
    <2> HIDE DEF joined, c
    <2> QED BY <2>7, <2>8, SetChainSidFlags
  <1> QED BY <1>1, <1>2

(* create_or_update() writes the flag of the one object it is given. *)
LEMMA CreateOrUpdateFlags ==
    ASSUME NEW d \in Db, NEW m \in Sysmeta, CreateOrUpdateOk(d, m)
    PROVE  FlagsKept(d, CreateOrUpdate(d, m), {m.pid})
  <1> DEFINE linked == Linked(d, m)
             chained == CreateOrUpdateChain(linked, m)
  <1>1. linked \in Db /\ \A p \in d.objects \ {m.pid} : p \in d.archived <=> p \in linked.archived
    <2> DEFINE saved == SaveRow(d, m)
    <2>1. saved \in Db /\ \A p \in d.objects \ {m.pid} : p \in d.archived <=> p \in saved.archived
      BY DEF SaveRow, Db, Sysmeta
    <2>2. linked = SetRevisionLinks(saved, m)
      BY DEF Linked
    <2> HIDE DEF saved
    <2>3. SetRevisionLinks(saved, m).archived = saved.archived
      BY <2>1 DEF SetRevisionLinks, NeighboursTold, Db
    <2> QED BY <2>1, <2>2, <2>3, LinkedType
  <1>2. chained \in Db
    BY <1>1, CreateOrUpdateChainType DEF CreateOrUpdateOk
  <1>3. chained.archived = linked.archived
    BY <1>1, AddSciobjFlags, SetChainSidFlags DEF CreateOrUpdateOk, CreateOrUpdateChain, CreateOrUpdateChainOk
  <1>4. CreateOrUpdate(d, m).archived = chained.archived
    <2> HIDE DEF chained
    <2>1. CreateOrUpdate(d, m) = UpdateHead(chained, m.pid)
      BY DEF CreateOrUpdate, chained
    <2> QED BY <1>2, <2>1 DEF UpdateHead, Db
  <1> QED BY <1>1, <1>3, <1>4 DEF FlagsKept

LEMMA DeleteDidFlags ==
    ASSUME NEW d, NEW x
    PROVE  /\ DeleteDid(d, x).archived \subseteq d.archived
           /\ DeleteDid(d, x).objects \subseteq d.objects
           /\ \A q \in DeleteDid(d, x).objects :
                 q \in d.archived => q \in DeleteDid(d, x).archived
  BY DEF DeleteDid

(* A delete writes the rows of the neighbours, but not their flags. *)
LEMMA DeleteFlags ==
    ASSUME NEW d \in Db, NEW p \in Did, DeleteSciobjOk(d, p)
    PROVE  FlagsKept(d, DeleteSciobj(d, p), {})
  <1> DEFINE cut == Detached(d, p)
             e == [cut EXCEPT !.chain[p] = None]
             unchained == DeleteChain(cut, p)
  <1>1. cut.archived = d.archived /\ cut.objects = d.objects /\ cut \in Db
    <2>1. CASE IsInRevisionChain(d, p)
      <3> DEFINE f == CloseGap(d, p)
                 q == RemainingNeighbour(d, p)
      <3>1. q \in Did
        BY <2>1 DEF RemainingNeighbour, IsInRevisionChain, Db, Opt
      <3>2. f \in Db /\ f.archived = d.archived /\ f.objects = d.objects
        <4>1. CloseGap(d, p).archived = d.archived /\ CloseGap(d, p).objects = d.objects
          BY DEF CloseGap, CloseGapOlder, SaveLinks, Db
        <4> QED BY <4>1, CloseGapType
      <3>3. UpdateHeadOk(f, q)
        BY <2>1 DEF DeleteSciobjOk, CutFromChainOk
      <3>4. cut = UpdateHead(f, q)
        BY <2>1 DEF Detached, CutFromChain
      <3> HIDE DEF f, q, cut
      <3>5. cut \in Db
        BY <3>1, <3>2, <3>3, <3>4, UpdateHeadType
      <3>6. cut.archived = f.archived /\ cut.objects = f.objects
        BY <3>2, <3>4 DEF UpdateHead, Db
      <3> QED BY <3>2, <3>5, <3>6
    <2> QED BY <2>1 DEF Detached
  <1>2. unchained.archived \subseteq d.archived /\ unchained.objects \subseteq d.objects
        /\ \A q \in unchained.objects : q \in d.archived => q \in unchained.archived
    <2> HIDE DEF cut
    <2>1. e.archived = d.archived /\ e.objects = d.objects
          /\ [e EXCEPT !.head[cut.chain[p]] = None].archived = d.archived
          /\ [e EXCEPT !.head[cut.chain[p]] = None].objects = d.objects
      BY <1>1 DEF Db
    <2>2. unchained \in {e, DeleteDid(e, cut.sid[cut.chain[p]]),
                         [e EXCEPT !.head[cut.chain[p]] = None]}
      BY DEF DeleteChain
    <2> DEFINE freed == DeleteDid(e, cut.sid[cut.chain[p]])
    <2> HIDE DEF e, unchained
    <2>3. /\ freed.archived \subseteq e.archived /\ freed.objects \subseteq e.objects
          /\ \A q \in freed.objects : q \in e.archived => q \in freed.archived
      BY DeleteDidFlags
    <2> HIDE DEF freed
    <2>4. CASE unchained = freed
      BY <1>1, <2>1, <2>3, <2>4
    <2>5. CASE unchained \in {e, [e EXCEPT !.head[cut.chain[p]] = None]}
      BY <1>1, <2>1, <2>5
    <2> QED BY <2>2, <2>4, <2>5 DEF freed
  <1> HIDE DEF unchained
  <1>3. DeleteSciobj(d, p) = DeleteDid(unchained, p)
    BY DEF DeleteSciobj, unchained
  <1> QED BY <1>2, <1>3 DEF FlagsKept, DeleteDid

-----------------------------------------------------------------------------
(* The requests.                                                            *)

(* create() and update() write the row of an object that did not exist. *)
LEMMA StoreObjectFlags ==
    ASSUME TypeOK, NEW m \in Sysmeta, StoreObject(m), m.pid \notin db.objects
    PROVE  TypeOK' /\ FlagsKept(db, db', {})
  <1>1. TypeOK'
    BY StoreObjectType
  <1>2. db' = db \/ FlagsKept(db, db', {m.pid})
    BY CreateOrUpdateFlags DEF StoreObject, TypeOK
  <1> QED BY <1>1, <1>2 DEF FlagsKept

(* The requests give a time stamp to the objects they write, or change       *)
(* nothing.                                                                  *)
LEMMA StampsSound ==
    ASSUME HeldSound, TypeOK', NEW S, Stamps(S), FlagsKept(db, db', S)
    PROVE  HeldSound'
  <1>1. PICK T : Restamp(T) /\ (T = S \/ db' = db)
    BY DEF Stamps
  <1>2. FlagsKept(db, db', T)
    BY <1>1 DEF FlagsKept
  <1> QED BY <1>1, <1>2, RestampSound

LEMMA HeldStep == HeldSound /\ [LockNext]_lockVars => HeldSound'
  <1> SUFFICES ASSUME HeldSound, [LockNext]_lockVars PROVE HeldSound'
    OBVIOUS
  <1>0. /\ TypeOK /\ db \in Db /\ db.objects \subseteq Did /\ files \subseteq Did
        /\ held \subseteq Held /\ db.chain \in [Did -> Opt(ChainId)]
    BY DEF HeldSound, TypeOK, Db
  <1>1. CASE UNCHANGED lockVars
    BY <1>1 DEF lockVars, HeldSound, TypeOK
  <1>2. CASE Tick
    BY <1>2 DEF Tick, HeldSound, TypeOK, vars
  <1>3. ASSUME NEW p \in db.objects, GetMeta(p) PROVE HeldSound'
    <2> DEFINE h == [doc |-> CurrentSysmeta(db, p), settled |-> p \notin fresh]
    <2>1. h \in Held
      BY <1>0, CurrentSysmetaType DEF Held
    <2>2. /\ h.doc.pid = p
          /\ h.doc.archived <=> p \in db.archived
          /\ h.settled <=> p \notin fresh
      BY DEF CurrentSysmeta
    <2>3. held' = held \cup {h} /\ UNCHANGED <<vars, fresh>>
      BY <1>3 DEF GetMeta
    <2> HIDE DEF h
    <2> QED BY <2>1, <2>2, <2>3 DEF HeldSound, TypeOK, vars
  <1>4. ASSUME NEW p \in Pids, NEW s \in Opt(Sids), CreateObject(p, s) PROVE HeldSound'
    <2>1. NewSysmeta(p, None, s) \in Sysmeta /\ NewSysmeta(p, None, s).pid = p
      BY DidParts DEF NewSysmeta, Sysmeta, Opt
    <2>2. StoreObject(NewSysmeta(p, None, s)) /\ p \notin db.objects /\ Stamps({p})
      BY <1>4 DEF CreateObject, Create, IsValidPidForCreate
    <2>3. TypeOK' /\ FlagsKept(db, db', {p})
      BY <1>0, <2>1, <2>2, StoreObjectFlags DEF FlagsKept
    <2> QED BY <2>2, <2>3, StampsSound
  <1>5. ASSUME NEW old \in db.objects, NEW p \in Pids, NEW s \in SidsFor(db, old),
               UpdateObject(old, p, s)
        PROVE  HeldSound'
    <2>1. NewSysmeta(p, old, s) \in Sysmeta /\ NewSysmeta(p, old, s).pid = p
      BY <1>0, DidParts DEF NewSysmeta, Sysmeta, SidsFor, SidOf, Db, Opt
    <2>2. StoreObject(NewSysmeta(p, old, s)) /\ p \notin db.objects /\ Stamps({old, p})
      BY <1>5 DEF UpdateObject, Update, IsValidPidForCreate
    <2>3. TypeOK' /\ FlagsKept(db, db', {old, p})
      BY <1>0, <2>1, <2>2, StoreObjectFlags DEF FlagsKept
    <2> QED BY <2>2, <2>3, StampsSound
  <1>6. ASSUME NEW x \in Did, ArchiveObject(x) PROVE HeldSound'
    <2> DEFINE p == ResolveSid(db, x)
    <2>1. /\ p \in db.objects /\ db' = [db EXCEPT !.archived = @ \cup {p}]
          /\ UNCHANGED <<files, relinks>> /\ Restamp({p})
      BY <1>6 DEF ArchiveObject, Archive
    <2> HIDE DEF p
    <2>2. TypeOK' /\ FlagsKept(db, db', {p})
      BY <1>0, <2>1 DEF TypeOK, Db, FlagsKept
    <2> QED BY <2>1, <2>2, RestampSound
  <1>7. ASSUME NEW x \in Did, DeleteObject(x) PROVE HeldSound'
    <2> DEFINE p == ResolveSid(db, x)
    <2>1. /\ p \in Did /\ files' = files \ {p} /\ Restamp({}) /\ relinks' = relinks
          /\ db' = (IF DeleteSciobjOk(db, p) THEN DeleteSciobj(db, p) ELSE db)
      BY <1>0, <1>7 DEF DeleteObject, Delete
    <2> HIDE DEF p
    <2>2. TypeOK' /\ FlagsKept(db, db', {})
      BY <1>0, <2>1, DeleteSciobjType, DeleteFlags DEF TypeOK, FlagsKept
    <2> QED BY <2>1, <2>2, RestampSound
  <1>8. ASSUME NEW h \in held, NEW s \in SidsFor(db, h.doc.pid), NEW archived \in BOOLEAN,
               PutHeld(h.doc, s, archived)
        PROVE  HeldSound'
    <2> DEFINE m == h.doc
               new == Edited(m, s, archived)
    <2>1. m \in Sysmeta /\ m.pid \in Did
      BY <1>0 DEF Held, Sysmeta
    <2>2. s \in Opt(Did)
      BY <1>0, <2>1, DidParts DEF SidsFor, SidOf, Db, Opt
    <2>3. /\ new \in Sysmeta /\ new.pid = m.pid
          /\ new.obsoletes = m.obsoletes /\ new.obsoletedBy = m.obsoletedBy
      BY <2>1, <2>2, EditedType
    <2>4. /\ <<m.obsoletes, m.obsoletedBy>> \in LinksFor(m.pid) /\ Replace(new)
          /\ Restamp(IF CreateOrUpdateOk(db, new) THEN {m.pid} ELSE {})
      BY <1>8 DEF PutHeld
    <2> HIDE DEF m, new
    <2>5. relinks < MaxRelinks \/ ~Relinks(db, new)
      <3> DEFINE links == <<m.obsoletes, m.obsoletedBy>>
      <3>1. links[1] = m.obsoletes /\ links[2] = m.obsoletedBy /\ links \in LinksFor(m.pid)
        BY <2>4
      <3> HIDE DEF links
      <3> QED BY <1>0, <2>1, <2>3, <3>1, LinksForType DEF Relinks
    <2>6. TypeOK'
      BY <1>0, <2>3, <2>4, <2>5, ReplaceType
    <2>7. FlagsKept(db, db', IF CreateOrUpdateOk(db, new) THEN {m.pid} ELSE {})
      <3>1. CASE CreateOrUpdateOk(db, new)
        BY <1>0, <2>3, <2>4, <3>1, CreateOrUpdateFlags DEF Replace
      <3>2. CASE ~CreateOrUpdateOk(db, new)
        BY <2>4, <3>2 DEF Replace, FlagsKept
      <3> QED BY <3>1, <3>2
    <2> QED BY <2>4, <2>6, <2>7, RestampSound
  <1> QED BY <1>1, <1>2, <1>3, <1>4, <1>5, <1>6, <1>7, <1>8 DEF LockNext

(* While requests run one after the other, no document that was read when    *)
(* the second of its time stamp was over undoes an archive() or an           *)
(* updateSystemMetadata() of another client.  This is what                   *)
(* has_matching_modified_timestamp() does of what set_mn_controlled_values() *)
(* says; a document read within that second can undo one.                    *)
THEOREM LockKeepsUpdates == LockSpec => []SettledUpdatesKept
  <1>1. LockInit => HeldSound
    BY StoreAssumption DEF LockInit, Init, HeldSound, TypeOK, Db, Opt
  <1>2. HeldSound => SettledUpdatesKept
    BY DEF HeldSound, SettledUpdatesKept, Current
  <1> QED BY <1>1, <1>2, HeldStep, PTL DEF LockSpec
=============================================================================
