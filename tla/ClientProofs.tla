---------------------------- MODULE ClientProofs ----------------------------
(***************************************************************************)
(* Proofs about what clients use: the sort and the list of revisions of    *)
(* the common library, for any histories of any objects, and the caches of *)
(* ONEDrive, for any keys and limits.                                      *)
(***************************************************************************)
EXTENDS TopologicalSort, ChainReader, DiskCache, MemoryCache, FiniteSetTheorems, TLAPS

LEMMA RangeAppend ==
    ASSUME NEW S, NEW s \in Seq(S), NEW e \in S
    PROVE  /\ Append(s, e) \in Seq(S)
           /\ Range(Append(s, e)) = Range(s) \cup {e}
           /\ Len(Append(s, e)) = Len(s) + 1
           /\ Append(s, e)[Len(s) + 1] = e
           /\ \A i \in 1 .. Len(s) : Append(s, e)[i] = s[i]
  <1> DEFINE t == Append(s, e)
             n == Len(s)
  <1>1. /\ t \in Seq(S) /\ n \in Nat /\ Len(t) = n + 1
        /\ DOMAIN s = 1 .. n /\ DOMAIN t = 1 .. n + 1
        /\ t[n + 1] = e /\ \A i \in 1 .. n : t[i] = s[i]
    OBVIOUS
  <1> HIDE DEF t, n
  <1>2. 1 .. n + 1 = 1 .. n \cup {n + 1}
    BY <1>1
  <1>3. Range(t) = Range(s) \cup {e}
    BY <1>1, <1>2 DEF Range
  <1> QED BY <1>1, <1>3 DEF t, n

-----------------------------------------------------------------------------
(* TopologicalSort                                                          *)

LEMMA InitSorts == SortInit => SortInv
  <1> SUFFICES ASSUME SortInit PROVE SortInv
    OBVIOUS
  <1>1. PICK K \in SUBSET Pid : obsoletes \in [K -> Pid \cup {NoPid}]
    BY DEF SortInit
  <1>2. Keys = K
    BY <1>1 DEF Keys
  <1>3. sorted = <<>> /\ sorted \in Seq(Pid) /\ DOMAIN sorted = {} /\ Range(sorted) = {}
    BY DEF SortInit, Range
  <1>4. SortTypeOK
    BY <1>1, <1>2, <1>3 DEF SortInit, SortTypeOK
  <1> QED BY <1>3, <1>4 DEF SortInit, SortInv, InOrder

LEMMA BeginPassSorts ==
    ASSUME SortInv, BeginPass
    PROVE  SortInv'
  <1>1. UNCHANGED <<obsoletes, unconnected, sorted>> /\ found' = FALSE /\ left' = unconnected
    BY DEF BeginPass
  <1>2. SortTypeOK'
    BY <1>1 DEF SortInv, SortTypeOK, Keys
  <1>3. InOrder'
    BY <1>1 DEF SortInv, InOrder
  <1> QED BY <1>1, <1>2, <1>3 DEF SortInv, Keys, Dangling

(* An object is sorted: what it obsoletes comes before it, and is in no      *)
(* dangling history.                                                         *)
LEMMA VisitSorts ==
    ASSUME SortInv, NEW p \in Pid, Visit(p), Available(p)
    PROVE  SortInv'
  <1>1. /\ p \in left /\ left' = left \ {p} /\ found' = TRUE /\ UNCHANGED obsoletes
        /\ sorted' = Append(sorted, p) /\ unconnected' = unconnected \ {p}
    BY DEF Visit, FoundBy
  <1>2. p \in unconnected /\ p \in Keys /\ p \notin Range(sorted)
    BY <1>1 DEF SortInv, SortTypeOK
  <1>3. /\ sorted' \in Seq(Pid) /\ Range(sorted)' = Range(sorted) \cup {p}
        /\ Len(sorted') = Len(sorted) + 1 /\ sorted'[Len(sorted) + 1] = p
        /\ \A i \in 1 .. Len(sorted) : sorted'[i] = sorted[i]
    BY <1>1, RangeAppend DEF SortInv, SortTypeOK
  <1>4. /\ Len(sorted) \in Nat /\ DOMAIN sorted = 1 .. Len(sorted)
        /\ DOMAIN sorted' = 1 .. Len(sorted) + 1
    BY <1>3 DEF SortInv, SortTypeOK
  <1>5. SortTypeOK'
    BY <1>1, <1>3 DEF SortInv, SortTypeOK, Keys
  <1>6. \A i \in 1 .. Len(sorted) : sorted[i] # p
    BY <1>2, <1>4 DEF Range
  <1>7. \A i \in DOMAIN sorted', j \in DOMAIN sorted' : sorted'[i] = sorted'[j] => i = j
    <2> SUFFICES ASSUME NEW i \in DOMAIN sorted', NEW j \in DOMAIN sorted',
                        sorted'[i] = sorted'[j]
                 PROVE  i = j
      OBVIOUS
    <2>1. CASE i = Len(sorted) + 1 /\ j = Len(sorted) + 1
      BY <2>1
    <2>2. CASE i \in 1 .. Len(sorted) /\ j \in 1 .. Len(sorted)
      BY <1>3, <1>4, <2>2 DEF SortInv, InOrder
    <2>3. CASE i \in 1 .. Len(sorted) /\ j = Len(sorted) + 1
      BY <1>3, <1>6, <2>3
    <2>4. CASE i = Len(sorted) + 1 /\ j \in 1 .. Len(sorted)
      BY <1>3, <1>6, <2>4
    <2> QED BY <1>4, <2>1, <2>2, <2>3, <2>4
  <1>8. ASSUME NEW i \in DOMAIN sorted'
        PROVE  \/ obsoletes[sorted'[i]] = NoPid
               \/ \E j \in 1 .. i - 1 : sorted'[j] = obsoletes[sorted'[i]]
    <2>1. CASE i \in 1 .. Len(sorted)
      <3>1. \/ obsoletes[sorted[i]] = NoPid
            \/ \E j \in 1 .. i - 1 : sorted[j] = obsoletes[sorted[i]]
        BY <1>4, <2>1 DEF SortInv, InOrder
      <3>2. \A j \in 1 .. i - 1 : j \in 1 .. Len(sorted)
        BY <1>4, <2>1
      <3> QED BY <1>3, <2>1, <3>1, <3>2
    <2>2. CASE i = Len(sorted) + 1
      <3>1. obsoletes[p] = NoPid \/ \E j \in 1 .. Len(sorted) : sorted[j] = obsoletes[p]
        BY <1>4 DEF Available, Range
      <3>2. i - 1 = Len(sorted) /\ sorted'[i] = p
        BY <1>3, <1>4, <2>2
      <3> QED BY <1>3, <3>1, <3>2
    <2> QED BY <1>4, <2>1, <2>2
  <1>9. InOrder'
    BY <1>1, <1>7, <1>8 DEF InOrder
  <1>10. ASSUME NEW S \in SUBSET Keys, Dangling(S)
         PROVE  S \cap (Range(sorted) \cup {p}) = {}
    <2>1. S \cap Range(sorted) = {}
      BY <1>10 DEF SortInv
    <2>2. ASSUME p \in S PROVE FALSE
      <3>1. obsoletes[p] \in S \/ obsoletes[p] \notin Keys \cup {NoPid}
        BY <1>10, <2>2 DEF Dangling
      <3>2. obsoletes[p] \in S \/ obsoletes[p] \notin {NoPid} \cup Range(sorted)
        BY <3>1 DEF SortInv
      <3>3. NoPid \notin S
        BY NoPidAssumption DEF SortInv, SortTypeOK
      <3> QED BY <2>1, <3>2, <3>3 DEF Available
    <2> QED BY <2>1, <2>2
  <1>11. \A S \in SUBSET Keys' : Dangling(S)' => S \cap Range(sorted)' = {}
    BY <1>1, <1>3, <1>10 DEF Keys, Dangling
  <1>12. Range(sorted)' = Keys' \ unconnected'
    BY <1>1, <1>2, <1>3 DEF SortInv, Keys
  <1> QED BY <1>1, <1>5, <1>9, <1>11, <1>12 DEF SortInv

LEMMA VisitPassesOver ==
    ASSUME SortInv, NEW p \in Pid, Visit(p), ~Available(p)
    PROVE  SortInv'
  <1>1. /\ p \in left /\ left' = left \ {p} /\ found' = found
        /\ UNCHANGED <<obsoletes, sorted, unconnected>>
    BY DEF Visit, FoundBy, SortInv, SortTypeOK
  <1>2. SortTypeOK'
    BY <1>1 DEF SortInv, SortTypeOK, Keys
  <1>3. InOrder'
    BY <1>1 DEF SortInv, InOrder
  <1>4. (~found => \A q \in unconnected \ left : ~Available(q))'
    BY <1>1 DEF SortInv, Available
  <1> QED BY <1>1, <1>2, <1>3, <1>4 DEF SortInv, Keys, Dangling

(* What the sort keeps true at every step. *)
THEOREM SortInvariant == SortSpec => []SortInv
  <1>1. SortInit => SortInv
    BY InitSorts
  <1>2. SortInv /\ [SortNext]_sortVars => SortInv'
    <2> SUFFICES ASSUME SortInv, [SortNext]_sortVars PROVE SortInv'
      OBVIOUS
    <2>1. CASE BeginPass
      BY <2>1, BeginPassSorts
    <2>2. ASSUME NEW p \in Pid, Visit(p) PROVE SortInv'
      BY <2>2, VisitSorts, VisitPassesOver
    <2>3. CASE UNCHANGED sortVars
      BY <2>3 DEF sortVars, SortInv, SortTypeOK, InOrder, Keys, Dangling, Available
    <2> QED BY <2>1, <2>2, <2>3 DEF SortNext
  <1> QED BY <1>1, <1>2, PTL DEF SortSpec

(* Also while objects are found in any order, each comes once and after the  *)
(* one that it obsoletes: topological_sort() of d1_common/revision.py.       *)
THEOREM SortOrders == SortSpec => [](SortTypeOK /\ InOrder)
  <1>1. SortInv => SortTypeOK /\ InOrder
    BY DEF SortInv
  <1> QED BY <1>1, SortInvariant, PTL

(* When topological_sort() returns, unconnected_dict holds exactly the       *)
(* objects whose histories lead to one that is not there, or in a circle.    *)
THEOREM SortLeavesDangling == SortSpec => []LeavesDangling
  <1>1. SortInv => LeavesDangling
    <2> SUFFICES ASSUME SortInv, Returned PROVE Dangling(unconnected) /\
              (\A S \in SUBSET Keys : Dangling(S) => S \subseteq unconnected) /\
              Range(sorted) = Keys \ unconnected
      BY DEF LeavesDangling
    <2>1. Range(sorted) = Keys \ unconnected
      BY DEF SortInv
    <2>2. \A p \in unconnected : ~Available(p)
      BY DEF SortInv, Returned
    <2>3. Dangling(unconnected)
      BY <2>1, <2>2 DEF Dangling, Available
    <2>4. \A S \in SUBSET Keys : Dangling(S) => S \subseteq unconnected
      BY <2>1 DEF SortInv
    <2> QED BY <2>1, <2>3, <2>4
  <1> QED BY <1>1, SortInvariant, PTL

(* topological_sort() puts in order what can be, and returns the rest apart. *)
THEOREM SortSorts == SortSpec => []SortsHistories
  <1>1. InOrder /\ LeavesDangling => SortsHistories
    BY DEF SortsHistories
  <1> QED BY <1>1, SortOrders, SortLeavesDangling, PTL

-----------------------------------------------------------------------------
(* ChainReader                                                              *)

(* No request but the creation of an object adds to the order, and that only *)
(* puts it after all of a series.                                           *)
LEMMA ServedInLine ==
    ASSUME ReadTypeOK, InLine, Node!Next
    PROVE  /\ objects' \in SUBSET Pids /\ later' \in SUBSET (objects' \X objects')
           /\ \A p \in objects \cap objects', q \in objects \cap objects' :
                 <<p, q>> \in later' <=> <<p, q>> \in later
           /\ InLine'
  <1>1. CASE \E p \in Pids, s \in Sids \cup {None} : Node!Create(p, s) \/ Node!AssignSid(p, s)
    <2>1. PICK p \in Pids, s \in Sids \cup {None} : Node!Create(p, s) \/ Node!AssignSid(p, s)
      BY <1>1
    <2>2. later' = later /\ objects \subseteq objects' /\ objects' \subseteq objects \cup {p}
      BY <2>1 DEF Node!Create, Node!AssignSid
    <2>3. later \in SUBSET (objects \X objects)
      BY DEF ReadTypeOK
    <2>4. \A q \in objects', r \in objects' : <<q, r>> \in later' => q \in objects /\ r \in objects
      BY <2>2, <2>3
    <2>5. InLine'
      BY <2>2, <2>4 DEF InLine
    <2> QED BY <2>2, <2>3, <2>5 DEF ReadTypeOK
  <1>2. CASE \E old \in objects, p \in Pids, s \in Sids \cup {None} : Node!Update(old, p, s)
    <2>1. PICK old \in objects, p \in Pids, s \in Sids \cup {None} : Node!Update(old, p, s)
      BY <1>2
    <2> DEFINE line == Node!Series(old)
    <2>2. /\ p \notin objects /\ objects' = objects \cup {p}
          /\ later' = later \cup {<<q, p>> : q \in line}
          /\ \A q \in objects : <<old, q>> \notin later
      BY <2>1 DEF Node!Update
    <2>3. /\ line \subseteq objects
          /\ \A q \in objects : q \in line <=> q = old \/ <<q, old>> \in later
      BY <2>2 DEF Node!Series
    <2>4. later \in SUBSET (objects \X objects)
      BY DEF ReadTypeOK
    <2> HIDE DEF line
    <2>5. /\ \A q \in objects, r \in objects : <<q, r>> \in later' <=> <<q, r>> \in later
          /\ \A q \in objects' : <<p, q>> \notin later'
          /\ \A q \in objects : <<q, p>> \in later' <=> q = old \/ <<q, old>> \in later
      BY <2>2, <2>3, <2>4
    <2>6. \A q \in objects' : <<q, q>> \notin later'
      BY <2>2, <2>5 DEF InLine
    <2>7. ASSUME NEW q \in objects', NEW r \in objects', NEW t \in objects',
                 <<q, r>> \in later', <<r, t>> \in later'
          PROVE  <<q, t>> \in later'
      <3>1. q \in objects /\ r \in objects
        BY <2>2, <2>5, <2>7
      <3>2. CASE t \in objects
        BY <2>5, <2>7, <3>1, <3>2 DEF InLine
      <3>3. CASE t = p
        BY <2>5, <2>7, <3>1, <3>3 DEF InLine
      <3> QED BY <2>2, <3>2, <3>3
    <2>8. ASSUME NEW q \in objects', NEW r \in objects', NEW t \in objects',
                 <<q, r>> \in later', <<q, t>> \in later'
          PROVE  r = t \/ <<r, t>> \in later' \/ <<t, r>> \in later'
      <3>1. q \in objects
        BY <2>2, <2>5, <2>8
      <3>2. CASE r \in objects /\ t \in objects
        BY <2>5, <2>8, <3>1, <3>2 DEF InLine
      <3>3. ASSUME NEW u \in objects, <<q, u>> \in later', <<q, p>> \in later'
            PROVE  <<u, p>> \in later'
        BY <2>2, <2>5, <3>1, <3>3 DEF InLine
      <3> QED BY <2>2, <2>8, <3>2, <3>3
    <2>9. ASSUME NEW q \in objects', NEW r \in objects', NEW t \in objects',
                 <<r, q>> \in later', <<t, q>> \in later'
          PROVE  r = t \/ <<r, t>> \in later' \/ <<t, r>> \in later'
      <3>1. r \in objects /\ t \in objects
        BY <2>2, <2>5, <2>9
      <3>2. CASE q \in objects
        BY <2>5, <2>9, <3>1, <3>2 DEF InLine
      <3>3. CASE q = p
        BY <2>5, <2>9, <3>1, <3>3 DEF InLine
      <3> QED BY <2>2, <3>2, <3>3
    <2>10. InLine'
      BY <2>6, <2>7, <2>8, <2>9 DEF InLine
    <2>11. objects' \in SUBSET Pids /\ later' \in SUBSET (objects' \X objects')
      BY <2>2, <2>3, <2>4 DEF ReadTypeOK
    <2> QED BY <2>5, <2>10, <2>11
  <1>3. CASE \E p \in objects : Node!Delete(p)
    <2>1. PICK p \in objects : Node!Delete(p)
      BY <1>3
    <2>2. objects' = objects \ {p} /\ later' = {l \in later : p \notin {l[1], l[2]}}
      BY <2>1 DEF Node!Delete
    <2>3. later \in SUBSET (objects \X objects)
      BY DEF ReadTypeOK
    <2>4. \A q \in objects', r \in objects' : <<q, r>> \in later' <=> <<q, r>> \in later
      BY <2>2
    <2>5. InLine'
      BY <2>2, <2>4 DEF InLine
    <2>6. later' \in SUBSET (objects' \X objects')
      BY <2>2, <2>3
    <2> QED BY <2>2, <2>4, <2>5, <2>6 DEF ReadTypeOK
  <1> QED BY <1>1, <1>2, <1>3 DEF Node!Next

(* While other clients are served, what is to be listed stays ahead of the   *)
(* walk, as long as no identifier is used again.                             *)
LEMMA ServeReads ==
    ASSUME ReaderInv, Serve
    PROVE  ReaderInv'
  <1>1. /\ objects' \in SUBSET Pids /\ later' \in SUBSET (objects' \X objects')
        /\ \A p \in objects \cap objects', q \in objects \cap objects' :
              <<p, q>> \in later' <=> <<p, q>> \in later
        /\ InLine'
    BY ServedInLine DEF ReaderInv, Serve
  <1>2. UNCHANGED <<phase, doc, chain>>
    BY DEF Serve, call
  <1>3. CASE phase = "idle"
    <2>1. UNCHANGED <<stayed, gone, reused>>
      BY <1>3 DEF Serve, noted
    <2>2. stayed = {} /\ doc = NoDocument
      BY <1>3 DEF ReaderInv, ReadTypeOK
    <2> QED BY <1>1, <1>2, <1>3, <2>1, <2>2 DEF ReaderInv, ReadTypeOK
  <1>4. CASE phase # "idle"
    <2>1. /\ stayed' = stayed \cap objects' /\ gone' = gone \cup (objects \ objects')
          /\ reused' = (reused \/ gone \cap objects' # {})
      BY <1>4 DEF Serve
    <2>2. ReadTypeOK'
      BY <1>1, <1>2, <2>1 DEF ReaderInv, ReadTypeOK
    <2>3. ASSUME ~reused'
          PROVE  LinksKnown' /\ Ascending' /\
                 (IF phase = "toTail" /\ ~AtTail THEN GoesToTail ELSE GoesToHead)'
      <3>1. /\ ~reused /\ gone \cap objects' = {} /\ stayed \subseteq objects
            /\ LinksKnown /\ Ascending
            /\ IF phase = "toTail" /\ ~AtTail THEN GoesToTail ELSE GoesToHead
        BY <1>4, <2>1, <2>3 DEF ReaderInv, ReadTypeOK
      <3>2. Listed' = Listed /\ (AtTail' <=> AtTail)
        BY <1>2 DEF Listed, AtTail
      <3>8. objects' \subseteq Pids /\ None \notin objects'
        BY <2>2, ReaderAssumption DEF ReadTypeOK
      <3>3. LinksKnown'
        <4>1. gone' \cap objects' = {} /\ Known \subseteq Known'
          BY <2>1, <3>1 DEF LinksKnown, Known
        <4> QED BY <1>2, <3>1, <3>2, <4>1 DEF LinksKnown, Opt
      (* What is known and there was there before. *)
      <3>4. \A p \in Known \cap objects' : p \in objects
        BY <3>1 DEF Known
      <3>5. \A p \in Known \cap objects', q \in Known \cap objects' :
                <<p, q>> \in later' <=> <<p, q>> \in later
        BY <1>1, <3>4
      <3>6. Ascending'
        <4>1. ASSUME NEW p \in Listed \cap objects', doc.obsoletedBy \in objects'
              PROVE  <<p, doc.obsoletedBy>> \in later'
          <5>1. doc.obsoletedBy \in Known /\ p \in Known
            BY <3>1, <3>8, <4>1 DEF LinksKnown, Opt
          <5>2. <<p, doc.obsoletedBy>> \in later
            BY <3>1, <3>4, <4>1, <5>1 DEF Ascending
          <5> QED BY <3>5, <4>1, <5>1, <5>2
        <4>2. ASSUME NEW i \in DOMAIN chain, NEW j \in DOMAIN chain, i < j
              PROVE  /\ chain[i] # chain[j]
                     /\ {chain[i], chain[j]} \subseteq objects' => <<chain[i], chain[j]>> \in later'
          <5>1. /\ chain[i] # chain[j]
                /\ {chain[i], chain[j]} \subseteq objects => <<chain[i], chain[j]>> \in later
            BY <3>1, <4>2 DEF Ascending
          <5>2. phase = "toHead" => chain[i] \in Known /\ chain[j] \in Known
            BY <3>1, <4>2 DEF LinksKnown, Listed, Range
          <5>3. phase = "toTail" => chain = <<>>
            BY DEF ReaderInv
          <5>4. DOMAIN <<>> = {}
            OBVIOUS
          <5>5. phase = "toHead"
            BY <1>4, <4>2, <5>3, <5>4 DEF ReaderInv, ReadTypeOK
          <5> QED BY <3>4, <3>5, <5>1, <5>2, <5>5
        <4> QED BY <1>2, <3>2, <4>1, <4>2 DEF Ascending
      <3>7. \A r \in stayed' : r \in objects /\ r \in objects' /\ r \in stayed
        BY <2>1, <3>1
      <3>9. CASE phase = "toTail" /\ ~AtTail
        <4>1. ASSUME doc.obsoletes \in objects', NEW r \in stayed'
              PROVE  r = doc.obsoletes \/ <<doc.obsoletes, r>> \in later' \/ <<r, doc.obsoletes>> \in later'
          <5>1. doc.obsoletes \in objects
            BY <3>1, <3>4, <3>8, <4>1 DEF LinksKnown, Opt
          <5>2. r = doc.obsoletes \/ <<doc.obsoletes, r>> \in later \/ <<r, doc.obsoletes>> \in later
            BY <3>1, <3>7, <3>9, <4>1, <5>1 DEF GoesToTail, Node!Series
          <5> QED BY <1>1, <3>7, <4>1, <5>1, <5>2
        <4>2. GoesToTail'
          BY <1>2, <3>7, <4>1 DEF GoesToTail, Node!Series
        <4> QED BY <1>2, <3>2, <3>3, <3>6, <3>9, <4>2
      <3>10. CASE ~(phase = "toTail" /\ ~AtTail)
        <4>1. doc.obsoletedBy = None => stayed' \subseteq Listed
          BY <3>1, <3>7, <3>10 DEF GoesToHead
        <4>2. ASSUME doc.obsoletedBy \in objects', NEW r \in stayed' \ Listed
              PROVE  r = doc.obsoletedBy \/ <<doc.obsoletedBy, r>> \in later'
          <5>1. doc.obsoletedBy \in objects
            BY <3>1, <3>4, <3>8, <4>2 DEF LinksKnown, Opt
          <5>2. r = doc.obsoletedBy \/ <<doc.obsoletedBy, r>> \in later
            BY <3>1, <3>7, <3>10, <4>2, <5>1 DEF GoesToHead
          <5> QED BY <1>1, <3>7, <4>2, <5>1, <5>2
        <4>3. GoesToHead'
          BY <1>2, <3>2, <4>1, <4>2 DEF GoesToHead
        <4> QED BY <1>2, <3>2, <3>3, <3>6, <3>10, <4>3
      <3> QED BY <3>9, <3>10
    <2>4. (phase # "toHead" => chain = <<>>)'
      BY <1>2 DEF ReaderInv
    <2> QED BY <1>1, <1>2, <1>4, <2>2, <2>3, <2>4 DEF ReaderInv
  <1> QED BY <1>3, <1>4

(* What the document of an object tells of its series.                      *)
LEMMA DocumentTells ==
    ASSUME ReadTypeOK, InLine, NEW q, NEW d \in DocumentOf(q)
    PROVE  /\ q \in objects /\ d \in Document /\ d.pid = q
           /\ {d.obsoletes, d.obsoletedBy} \subseteq Opt(objects)
           /\ d.obsoletes \in objects => Node!Series(q) \subseteq Node!Series(d.obsoletes)
           /\ d.obsoletes = None => \A r \in objects : <<r, q>> \notin later
           /\ d.obsoletedBy = None => \A r \in objects : <<q, r>> \notin later
           /\ d.obsoletedBy \in objects =>
                 /\ <<q, d.obsoletedBy>> \in later
                 /\ \A r \in objects : <<q, r>> \in later => r = d.obsoletedBy \/ <<d.obsoletedBy, r>> \in later
  <1>1. /\ q \in objects /\ d \in Document /\ d.pid = q
        /\ Node!IsPrevious(q, d.obsoletes) /\ Node!IsNext(q, d.obsoletedBy)
    BY DEF DocumentOf
  <1>2. objects \subseteq Pids /\ None \notin objects /\ later \subseteq objects \X objects
    BY ReaderAssumption DEF ReadTypeOK
  <1>3. d.obsoletes = None \/ d.obsoletes \in objects
    BY <1>1, <1>2 DEF Node!IsPrevious
  <1>4. d.obsoletedBy = None \/ d.obsoletedBy \in objects
    BY <1>1, <1>2 DEF Node!IsNext
  <1>5. ASSUME d.obsoletes \in objects
        PROVE  Node!Series(q) \subseteq Node!Series(d.obsoletes)
    <2>1. /\ <<d.obsoletes, q>> \in later
          /\ \A r \in objects : <<r, q>> \in later => r = d.obsoletes \/ <<r, d.obsoletes>> \in later
      BY <1>1, <1>2, <1>5 DEF Node!IsPrevious
    <2>2. \A r \in objects : <<q, r>> \in later => <<d.obsoletes, r>> \in later
      BY <1>1, <1>5, <2>1 DEF InLine
    <2> QED BY <2>1, <2>2 DEF Node!Series
  <1>6. d.obsoletes = None => \A r \in objects : <<r, q>> \notin later
    BY <1>1 DEF Node!IsPrevious
  <1>7. /\ d.obsoletedBy = None => \A r \in objects : <<q, r>> \notin later
        /\ d.obsoletedBy \in objects =>
              /\ <<q, d.obsoletedBy>> \in later
              /\ \A r \in objects : <<q, r>> \in later => r = d.obsoletedBy \/ <<d.obsoletedBy, r>> \in later
    BY <1>1, <1>2 DEF Node!IsNext
  <1> QED BY <1>1, <1>3, <1>4, <1>5, <1>6, <1>7 DEF Opt

(* An object is read on the way to the tail, in whose series all is that is  *)
(* to be listed.                                                            *)
LEMMA TowardsTail ==
    ASSUME ReadTypeOK, InLine, NEW q, doc' \in DocumentOf(q), UNCHANGED node,
           phase' = "toTail", chain' = <<>>,
           stayed' \subseteq Node!Series(q), gone' \cap objects = {}
    PROVE  LinksKnown' /\ Ascending' /\
           (IF phase = "toTail" /\ ~AtTail THEN GoesToTail ELSE GoesToHead)'
  <1>1. UNCHANGED <<objects, later, sid>>
    BY DEF node
  <1>2. /\ q \in objects /\ doc' \in Document /\ doc'.pid = q
        /\ {doc'.obsoletes, doc'.obsoletedBy} \subseteq Opt(objects)
        /\ doc'.obsoletes \in objects => Node!Series(q) \subseteq Node!Series(doc'.obsoletes)
        /\ doc'.obsoletes = None => \A r \in objects : <<r, q>> \notin later
        /\ doc'.obsoletedBy = None => \A r \in objects : <<q, r>> \notin later
        /\ doc'.obsoletedBy \in objects =>
              /\ <<q, doc'.obsoletedBy>> \in later
              /\ \A r \in objects : <<q, r>> \in later => r = doc'.obsoletedBy \/ <<doc'.obsoletedBy, r>> \in later
    BY DocumentTells
  <1>3. Listed' = {q}
    BY <1>2 DEF Listed
  <1>4. LinksKnown'
    BY <1>1, <1>2, <1>3 DEF LinksKnown, Known, Opt
  <1>5. DOMAIN chain' = {}
    OBVIOUS
  <1>6. Ascending'
    BY <1>1, <1>2, <1>3, <1>5 DEF Ascending
  <1>7. CASE AtTail'
    <2>1. doc'.obsoletes = None
      BY <1>7 DEF AtTail
    <2>2. \A r \in stayed' : r = q \/ (r \in objects /\ <<q, r>> \in later)
      BY <1>2, <2>1 DEF Node!Series
    <2>3. GoesToHead'
      BY <1>1, <1>2, <1>3, <2>2 DEF GoesToHead
    <2> QED BY <1>4, <1>6, <1>7, <2>3
  <1>8. CASE ~AtTail'
    <2>1. GoesToTail'
      <3>1. doc'.obsoletes \in objects => stayed' \subseteq Node!Series(doc'.obsoletes)
        BY <1>2
      <3> QED BY <1>1, <3>1 DEF GoesToTail, Node!Series
    <2> QED BY <1>4, <1>6, <1>8, <2>1
  <1> QED BY <1>7, <1>8

LEMMA InitReads == ReadInit => ReaderInv
  <1> SUFFICES ASSUME ReadInit PROVE ReaderInv
    OBVIOUS
  <1>1. objects = {} /\ later = {}
    BY DEF ReadInit, Node!Init
  <1>2. phase = "idle" /\ doc = NoDocument /\ stayed = {} /\ gone = {} /\ reused = FALSE
    BY DEF ReadInit
  <1>3. chain = <<>> /\ chain \in Seq(Pids)
    BY DEF ReadInit
  <1>4. ReadTypeOK
    BY <1>1, <1>2, <1>3 DEF ReadTypeOK
  <1> QED BY <1>1, <1>2, <1>3, <1>4 DEF ReaderInv, InLine

LEMMA BeginReads ==
    ASSUME ReaderInv, NEW did, Begin(did)
    PROVE  ReaderInv'
  <1>1. PICK p \in Resolved(did) : doc' \in DocumentOf(p) /\ stayed' = Node!Series(p)
    BY DEF Begin
  <1>2. /\ UNCHANGED <<objects, later, sid>> /\ phase' = "toTail" /\ gone' = {} /\ reused' = FALSE
        /\ chain' = <<>> /\ UNCHANGED node
    <2>1. phase = "idle" /\ UNCHANGED chain
      BY DEF Begin
    <2> QED BY <2>1 DEF Begin, node, ReaderInv
  <1>3. doc' \in Document
    BY <1>1 DEF DocumentOf
  <1>4. stayed' \subseteq objects'
    BY <1>1, <1>2 DEF Node!Series
  <1>5. chain' \in Seq(Pids)
    BY <1>2
  <1>6. ReadTypeOK'
    BY <1>2, <1>3, <1>4, <1>5 DEF ReaderInv, ReadTypeOK
  <1>7. InLine'
    BY <1>2 DEF ReaderInv, InLine
  <1>8. LinksKnown' /\ Ascending' /\
        (IF phase = "toTail" /\ ~AtTail THEN GoesToTail ELSE GoesToHead)'
    BY <1>1, <1>2, TowardsTail DEF ReaderInv
  <1> QED BY <1>2, <1>6, <1>7, <1>8 DEF ReaderInv

LEMMA EndReads ==
    ASSUME ReaderInv, End
    PROVE  ReaderInv'
  <1>1. /\ UNCHANGED <<objects, later, sid>> /\ phase' = "idle" /\ doc' = NoDocument
        /\ stayed' = {} /\ gone' = {} /\ reused' = FALSE
    BY DEF End, node
  <1>2. chain' = <<>> /\ chain' \in Seq(Pids)
    BY DEF End
  <1>3. ReadTypeOK'
    BY <1>1, <1>2 DEF ReaderInv, ReadTypeOK
  <1>4. InLine'
    BY <1>1 DEF ReaderInv, InLine
  <1> QED BY <1>1, <1>2, <1>3, <1>4 DEF ReaderInv

LEMMA ToTailReads ==
    ASSUME ReaderInv, ToTail
    PROVE  ReaderInv'
  <1>1. CASE NotFound(doc.obsoletes)
    BY <1>1, EndReads DEF NotFound
  <1>2. CASE doc' \in DocumentOf(doc.obsoletes) /\ UNCHANGED <<node, phase, chain, noted>>
    <2>1. /\ phase = "toTail" /\ ~AtTail /\ phase' = "toTail" /\ chain' = <<>>
          /\ UNCHANGED <<objects, later, sid, stayed, gone, reused, chain>> /\ UNCHANGED node
      BY <1>2 DEF ToTail, node, noted, ReaderInv
    <2>2. doc' \in Document /\ doc.obsoletes \in objects
      BY <1>2 DEF DocumentOf
    <2>3. ReadTypeOK' /\ InLine'
      BY <2>1, <2>2 DEF ReaderInv, ReadTypeOK, InLine
    <2>4. ASSUME ~reused
          PROVE  LinksKnown' /\ Ascending' /\
                 (IF phase = "toTail" /\ ~AtTail THEN GoesToTail ELSE GoesToHead)'
      <3>1. LinksKnown /\ GoesToTail
        BY <2>1, <2>4 DEF ReaderInv
      <3>2. stayed' \subseteq Node!Series(doc.obsoletes) /\ gone' \cap objects = {}
        BY <2>1, <2>2, <3>1 DEF GoesToTail, LinksKnown
      <3> QED BY <1>2, <2>1, <3>2, TowardsTail DEF ReaderInv
    <2> QED BY <2>1, <2>3, <2>4 DEF ReaderInv
  <1> QED BY <1>1, <1>2 DEF ToTail

LEMMA TurnAroundReads ==
    ASSUME ReaderInv, TurnAround
    PROVE  ReaderInv'
  <1>1. /\ phase = "toTail" /\ AtTail /\ phase' = "toHead" /\ chain' = <<doc.pid>>
        /\ UNCHANGED <<objects, later, sid, doc, stayed, gone, reused>>
    BY DEF TurnAround, AtTail, node, noted
  <1>2. doc \in Document /\ doc.pid \in Pids
    BY <1>1 DEF ReaderInv, ReadTypeOK, Document
  <1>3. chain' \in Seq(Pids) /\ DOMAIN chain' = {1} /\ Range(chain') = {doc.pid}
    BY <1>1, <1>2 DEF Range
  <1>4. Listed' = Listed
    BY <1>1, <1>3 DEF Listed
  <1>5. ReadTypeOK' /\ InLine'
    BY <1>1, <1>2, <1>3 DEF ReaderInv, ReadTypeOK, InLine
  <1>6. ASSUME ~reused
        PROVE  LinksKnown' /\ Ascending' /\ GoesToHead'
    <2>1. LinksKnown /\ Ascending /\ GoesToHead
      BY <1>1, <1>6 DEF ReaderInv
    <2>2. LinksKnown'
      BY <1>1, <1>4, <2>1 DEF LinksKnown, Known
    <2>3. Ascending'
      BY <1>1, <1>3, <1>4, <2>1 DEF Ascending
    <2>4. GoesToHead'
      BY <1>1, <1>4, <2>1 DEF GoesToHead
    <2> QED BY <2>2, <2>3, <2>4
  <1> QED BY <1>1, <1>5, <1>6 DEF ReaderInv

(* The newest document's successor comes after all that is listed, and is   *)
(* the first of what is to be listed still.                                 *)
LEMMA ToHeadReads ==
    ASSUME ReaderInv, ToHead
    PROVE  ReaderInv'
  <1> DEFINE n == doc.obsoletedBy
  <1>1. CASE NotFound(n)
    BY <1>1, EndReads DEF NotFound
  <1>2. CASE doc' \in DocumentOf(n) /\ chain' = Append(chain, doc'.pid) /\ UNCHANGED <<node, phase, noted>>
    <2>1. /\ phase = "toHead" /\ phase' = "toHead"
          /\ UNCHANGED <<objects, later, sid, stayed, gone, reused>>
      BY <1>2 DEF ToHead, node, noted
    <2>2. /\ n \in objects /\ doc' \in Document /\ doc'.pid = n
          /\ {doc'.obsoletes, doc'.obsoletedBy} \subseteq Opt(objects)
          /\ doc'.obsoletedBy = None => \A r \in objects : <<n, r>> \notin later
          /\ doc'.obsoletedBy \in objects =>
                /\ <<n, doc'.obsoletedBy>> \in later
                /\ \A r \in objects : <<n, r>> \in later => r = doc'.obsoletedBy \/ <<doc'.obsoletedBy, r>> \in later
      <3> HIDE DEF n
      <3> QED BY <1>2, DocumentTells DEF ReaderInv
    <2> HIDE DEF n
    <2>3. objects \subseteq Pids /\ chain \in Seq(Pids)
      BY DEF ReaderInv, ReadTypeOK
    <2>4. chain' = Append(chain, n)
      BY <1>2, <2>2
    <2>5. /\ chain' \in Seq(Pids) /\ Range(chain') = Range(chain) \cup {n}
          /\ Len(chain') = Len(chain) + 1 /\ chain'[Len(chain) + 1] = n
          /\ \A i \in 1 .. Len(chain) : chain'[i] = chain[i]
      BY <2>2, <2>3, <2>4, RangeAppend
    <2>6. Listed = Range(chain) /\ Listed' = Listed \cup {n}
      BY <2>1, <2>5 DEF Listed
    <2>7. ReadTypeOK' /\ InLine'
      BY <2>1, <2>2, <2>5 DEF ReaderInv, ReadTypeOK, InLine
    <2>8. ASSUME ~reused
          PROVE  LinksKnown' /\ Ascending' /\ GoesToHead'
      <3>1. LinksKnown /\ Ascending /\ GoesToHead
        BY <2>1, <2>8 DEF ReaderInv
      <3>2. \A p \in Listed \cap objects : <<p, n>> \in later
        BY <2>2, <3>1 DEF Ascending, n
      <3>3. n \notin Listed
        BY <2>2, <3>2 DEF ReaderInv, InLine
      <3>4. LinksKnown'
        BY <2>1, <2>2, <2>6, <3>1 DEF LinksKnown, Known, Opt
      <3>5. ASSUME NEW p \in Listed' \cap objects, doc'.obsoletedBy \in objects
            PROVE  <<p, doc'.obsoletedBy>> \in later
        BY <2>2, <2>6, <3>2, <3>5 DEF ReaderInv, InLine
      <3>6. ASSUME NEW i \in DOMAIN chain', NEW j \in DOMAIN chain', i < j
            PROVE  /\ chain'[i] # chain'[j]
                   /\ {chain'[i], chain'[j]} \subseteq objects => <<chain'[i], chain'[j]>> \in later
        <4>1. /\ DOMAIN chain = 1 .. Len(chain) /\ Len(chain) \in Nat
              /\ DOMAIN chain' = 1 .. Len(chain) + 1
          BY <2>3, <2>5
        <4>2. i \in DOMAIN chain /\ chain'[i] = chain[i] /\ chain[i] \in Listed
          <5>1. i \in 1 .. Len(chain)
            BY <3>6, <4>1
          <5> QED BY <2>5, <2>6, <4>1, <5>1 DEF Range
        <4>3. CASE j \in DOMAIN chain
          <5>1. chain'[j] = chain[j]
            BY <2>5, <4>1, <4>3
          <5> QED BY <3>1, <3>6, <4>2, <4>3, <5>1 DEF Ascending
        <4>4. CASE j \notin DOMAIN chain
          <5>1. chain'[j] = n
            BY <2>5, <4>1, <4>4
          <5> QED BY <3>2, <3>3, <4>2, <5>1
        <4> QED BY <4>3, <4>4
      <3>7. Ascending'
        BY <2>1, <3>5, <3>6 DEF Ascending
      <3>8. \A r \in stayed \ Listed : r = n \/ <<n, r>> \in later
        BY <2>2, <3>1 DEF GoesToHead, n
      <3>9. stayed \subseteq objects
        BY DEF ReaderInv, ReadTypeOK
      <3>10. GoesToHead'
        BY <2>1, <2>2, <2>6, <3>8, <3>9 DEF GoesToHead
      <3> QED BY <3>4, <3>7, <3>10
    <2> QED BY <2>1, <2>7, <2>8 DEF ReaderInv
  <1> QED BY <1>1, <1>2 DEF ToHead

(* However requests of others come between those of a call, for any objects  *)
(* and any length of a chain.                                               *)
THEOREM ReaderInvariant == ReadSpec => []ReaderInv
  <1>1. ReadInit => ReaderInv
    BY InitReads
  <1>2. ReaderInv /\ [ReadNext]_readVars => ReaderInv'
    <2> SUFFICES ASSUME ReaderInv, [ReadNext]_readVars PROVE ReaderInv'
      OBVIOUS
    <2>1. CASE UNCHANGED readVars
      <3>1. UNCHANGED <<objects, later, sid, phase, doc, chain, stayed, gone, reused>>
        BY <2>1 DEF readVars, node, call, noted
      <3> QED BY <3>1 DEF ReaderInv, ReadTypeOK, InLine, LinksKnown, Ascending, GoesToTail,
                          GoesToHead, AtTail, Listed, Known, Node!Series
    <2>2. CASE Serve
      BY <2>2, ServeReads
    <2>3. CASE \E did \in Pids \cup Sids : Begin(did)
      BY <2>3, BeginReads
    <2>4. CASE ToTail
      BY <2>4, ToTailReads
    <2>5. CASE TurnAround
      BY <2>5, TurnAroundReads
    <2>6. CASE ToHead
      BY <2>6, ToHeadReads
    <2>7. CASE ReturnList
      BY <2>7, EndReads DEF ReturnList
    <2> QED BY <2>1, <2>2, <2>3, <2>4, <2>5, <2>6, <2>7 DEF ReadNext
  <1> QED BY <1>1, <1>2, PTL DEF ReadSpec

(* The state of a call has its types.                                       *)
THEOREM ReaderTypes == ReadSpec => []ReadTypeOK
  <1>1. ReaderInv => ReadTypeOK
    BY DEF ReaderInv
  <1> QED BY <1>1, ReaderInvariant, PTL

(* The list lacks no revision that was there during the whole call.         *)
THEOREM ReaderListsAll == ReadSpec => []ListsAll
  <1>1. ReaderInv => ListsAll
    BY DEF ReaderInv, ListsAll, AtHead, GoesToHead, Listed
  <1> QED BY <1>1, ReaderInvariant, PTL

(* The list is in the order of the series, and names no object twice.       *)
THEOREM ReaderListsInOrder == ReadSpec => []ListsInOrder
  <1>1. ReaderInv => ListsInOrder
    BY DEF ReaderInv, ListsInOrder, AtHead, Ascending
  <1> QED BY <1>1, ReaderInvariant, PTL

(* get_pids_in_revision_chain() returns all of the series and in its order,  *)
(* while the node serves others between its requests.                       *)
THEOREM ReaderListsChain == ReadSpec => []ListsChain
  <1>1. ListsAll /\ ListsInOrder => ListsChain
    BY DEF ListsChain
  <1> QED BY <1>1, ReaderListsAll, ReaderListsInOrder, PTL

-----------------------------------------------------------------------------
(* DiskCache                                                                *)

(* What is left is counted, and is less than the limit if it was not more.  *)
LEMMA EvictedCounted ==
    ASSUME DiskInv, NEW S, NEW n, Evicted(S, n)
    PROVE  /\ S \subseteq files /\ IsFiniteSet(S)
           /\ n = Cardinality(S) /\ n \in Nat /\ n <= n_items
           /\ n_items <= limit => n < limit
  <1>1. IsFiniteSet(files) /\ n_items = Cardinality(files) /\ n_items \in Nat /\ limit \in Nat \ {0}
    BY DiskAssumption DEF DiskInv, DiskTypeOK, CountsFiles
  <1>2. CASE Full
    <2>1. PICK k \in files : S = files \ {k} /\ n = n_items - 1
      BY <1>2 DEF Evicted
    <2>2. IsFiniteSet(S) /\ Cardinality(S) = Cardinality(files) - 1
      BY <1>1, <2>1, FS_RemoveElement
    <2> QED BY <1>1, <1>2, <2>1, <2>2, FS_CardinalityType DEF Full
  <1>3. CASE ~Full
    BY <1>1, <1>3 DEF Evicted, Full
  <1> QED BY <1>2, <1>3

(* A file is added that was not there.                                      *)
LEMMA SetItemCounted ==
    ASSUME DiskInv, SetItem
    PROVE  DiskInv' /\ (n_items <= limit => n_items' <= limit')
  <1>1. PICK S \in SUBSET files, n \in 0 .. n_items :
            Evicted(S, n) /\ files' = S \cup {fetching} /\ n_items' = Counted(n)
    BY DEF SetItem
  <1>2. /\ fetching \in DiskKey \ files /\ fetching' = NoFetch /\ UNCHANGED <<limit, inherited>>
    BY DEF SetItem, DiskInv, DiskTypeOK
  <1>3. /\ IsFiniteSet(S) /\ n = Cardinality(S) /\ n \in Nat
        /\ n_items <= limit => n < limit
    BY <1>1, EvictedCounted
  <1>4. IsFiniteSet(files') /\ Cardinality(files') = Cardinality(S) + 1
    BY <1>1, <1>2, <1>3, FS_AddElement
  <1>5. n_items' = n + 1
    BY <1>1 DEF Counted
  <1>6. limit \in Nat
    BY DiskAssumption DEF DiskInv, DiskTypeOK
  <1> QED BY <1>1, <1>2, <1>3, <1>4, <1>5, <1>6, DiskAssumption DEF DiskInv, DiskTypeOK, CountsFiles

LEMMA MissCounted ==
    ASSUME DiskInv, NEW k \in DiskKey, Miss(k)
    PROVE  DiskInv' /\ (n_items <= limit => n_items' <= limit')
  <1>1. k \notin files /\ fetching' = k /\ UNCHANGED <<limit, inherited>>
    BY DEF Miss
  <1>2. limit \in Nat /\ n_items \in Nat
    BY DiskAssumption DEF DiskInv, DiskTypeOK
  <1>3. /\ files' \subseteq files /\ IsFiniteSet(files')
        /\ n_items' = Cardinality(files') /\ n_items' \in Nat
        /\ n_items <= limit => n_items' <= limit
    <2>1. CASE Evicted(files', n_items')
      BY <1>2, <2>1, EvictedCounted
    <2>2. CASE UNCHANGED <<files, n_items>>
      BY <2>2 DEF DiskInv, DiskTypeOK, CountsFiles
    <2> QED BY <2>1, <2>2 DEF Miss
  <1> QED BY <1>1, <1>3 DEF DiskInv, DiskTypeOK, CountsFiles

LEMMA DiskStep ==
    ASSUME DiskInv, [DiskNext]_diskVars
    PROVE  /\ DiskInv'
           /\ (\A m \in Limits, n \in Limits : m = n) /\ RoomInv => RoomInv'
  <1>1. CASE UNCHANGED diskVars
    BY <1>1 DEF diskVars, DiskInv, DiskTypeOK, CountsFiles, RoomInv
  <1>2. CASE Restart
    <2>1. /\ limit' \in Limits /\ files' = files /\ n_items' = Cardinality(files)
          /\ inherited' = Cardinality(files) /\ fetching' = NoFetch
      BY <1>2 DEF Restart
    <2>2. Cardinality(files) \in Nat
      BY FS_CardinalityType DEF DiskInv, DiskTypeOK
    <2> QED BY <2>1, <2>2, DiskAssumption DEF DiskInv, DiskTypeOK, CountsFiles, RoomInv
  <1>3. CASE \E k \in DiskKey : Miss(k)
    <2>1. UNCHANGED <<limit, inherited>>
      BY <1>3 DEF Miss
    <2> QED BY <1>3, <2>1, MissCounted DEF RoomInv, DiskInv, CountsFiles
  <1>4. CASE FetchFails
    BY <1>4, DiskAssumption DEF FetchFails, DiskInv, DiskTypeOK, CountsFiles, RoomInv
  <1>5. CASE SetItem
    <2>1. UNCHANGED <<limit, inherited>>
      BY <1>5 DEF SetItem
    <2> QED BY <1>5, <2>1, SetItemCounted DEF RoomInv, DiskInv, CountsFiles
  <1> QED BY <1>1, <1>2, <1>3, <1>4, <1>5 DEF DiskNext

LEMMA DiskStart == DiskInit => DiskInv /\ RoomInv
  <1>1. IsFiniteSet({}) /\ Cardinality({}) = 0
    BY FS_EmptySet
  <1> QED BY <1>1, DiskAssumption DEF DiskInit, DiskInv, DiskTypeOK, CountsFiles, RoomInv

LEMMA DiskInvHolds == DiskSpec => []DiskInv
  <1>1. DiskInv /\ [DiskNext]_diskVars => DiskInv'
    BY DiskStep
  <1> QED BY <1>1, DiskStart, PTL DEF DiskSpec

(* The state of the cache has its types, whatever limits it is started with. *)
THEOREM DiskTypes == DiskSpec => []DiskTypeOK
  <1>1. DiskInv => DiskTypeOK
    BY DEF DiskInv
  <1> QED BY <1>1, DiskInvHolds, PTL

(* The counter is exact, whatever limits the program is started with, and    *)
(* wherever it was killed.                                                   *)
THEOREM DiskCountsFiles == DiskSpec => []CountsFiles
  <1>1. DiskInv => CountsFiles
    BY DEF DiskInv
  <1> QED BY <1>1, DiskInvHolds, PTL

(* A program that is always started with the same limit keeps it.           *)
THEOREM DiskWithinLimit ==
    ASSUME \A m \in Limits, n \in Limits : m = n
    PROVE  DiskSpec => []WithinLimit
  <1>1. DiskInv /\ RoomInv /\ [DiskNext]_diskVars => DiskInv' /\ RoomInv'
    BY DiskStep
  <1>2. DiskInv /\ RoomInv => WithinLimit
    BY DEF RoomInv, WithinLimit
  <1> QED BY <1>1, <1>2, DiskStart, PTL DEF DiskSpec

(* The cache directory stays within the limit, for any number of keys and    *)
(* restarts.                                                                *)
THEOREM DiskIsBounded ==
    ASSUME \A m \in Limits, n \in Limits : m = n
    PROVE  DiskSpec => []DiskBounded
  <1>1. CountsFiles /\ WithinLimit => DiskBounded
    BY DEF DiskBounded
  <1> QED BY <1>1, DiskCountsFiles, DiskWithinLimit, PTL

-----------------------------------------------------------------------------
(* MemoryCache                                                              *)

LEMMA RangeTail ==
    ASSUME NEW S, NEW s \in Seq(S), s # <<>>,
           \A i \in DOMAIN s, j \in DOMAIN s : s[i] = s[j] => i = j
    PROVE  /\ Tail(s) \in Seq(S) /\ Head(s) \in Range(s)
           /\ Range(Tail(s)) = Range(s) \ {Head(s)}
           /\ \A i \in DOMAIN Tail(s), j \in DOMAIN Tail(s) : Tail(s)[i] = Tail(s)[j] => i = j
  <1> DEFINE t == Tail(s)
             n == Len(s)
  <1>1. /\ t \in Seq(S) /\ n \in Nat /\ n >= 1 /\ DOMAIN s = 1 .. n
        /\ DOMAIN t = 1 .. n - 1 /\ Head(s) = s[1]
        /\ \A i \in 1 .. n - 1 : t[i] = s[i + 1]
    OBVIOUS
  <1> HIDE DEF t, n
  <1>2. 1 \in DOMAIN s /\ \A i \in DOMAIN t : i + 1 \in DOMAIN s /\ i \in Nat /\ t[i] = s[i + 1]
    BY <1>1
  <1>3. \A i \in DOMAIN s : i = 1 \/ (i - 1 \in DOMAIN t /\ t[i - 1] = s[i])
    BY <1>1
  <1>4. \A i \in DOMAIN t : t[i] \in Range(s) /\ t[i] # s[1]
    <2> SUFFICES ASSUME NEW i \in DOMAIN t
                 PROVE  t[i] \in Range(s) /\ t[i] # s[1]
      OBVIOUS
    <2>1. i + 1 \in DOMAIN s /\ i + 1 # 1 /\ t[i] = s[i + 1]
      BY <1>1, <1>2
    <2> QED BY <1>2, <2>1 DEF Range
  <1>5. Range(t) = Range(s) \ {s[1]}
    BY <1>3, <1>4 DEF Range
  <1>6. \A i \in DOMAIN t, j \in DOMAIN t : t[i] = t[j] => i = j
    <2> SUFFICES ASSUME NEW i \in DOMAIN t, NEW j \in DOMAIN t, t[i] = t[j]
                 PROVE  i = j
      OBVIOUS
    <2>1. i + 1 = j + 1
      BY <1>2
    <2> QED BY <1>2, <2>1
  <1> QED BY <1>1, <1>2, <1>5, <1>6 DEF t, Range

(* With one thread, the key that is admitted is not there: it is added to    *)
(* the list, and if the cache is full the oldest key has data.               *)
LEMMA AdmitKeeps ==
    ASSUME MemoryInv, \A t \in Thread, u \in Thread : t = u, NEW t \in Thread, Admit(t)
    PROVE  MemoryInv'
  <1> DEFINE k == want[t]
             added == Append(keys, k)
  <1>1. /\ at[t] = "lookup" /\ k \in Path \ data /\ keys \in Seq(Path)
        /\ data \subseteq Path /\ IsFiniteSet(data)
        /\ Cardinality(data) \in Nat /\ Cardinality(data) <= MaxItems /\ MaxItems \in Nat \ {0}
    BY MemoryAssumption, FS_CardinalityType
       DEF Admit, MemoryInv, MemoryTypeOK, WithinMaxItems
  <1>2. Thread = {t}
    OBVIOUS
  <1>3. Coming = {}
    BY <1>1, <1>2 DEF Coming
  <1>4. Range(keys) = data
    BY <1>3 DEF MemoryInv, KeysListData
  <1>5. /\ added \in Seq(Path) /\ Range(added) = data \cup {k}
        /\ Len(added) = Len(keys) + 1 /\ added[Len(keys) + 1] = k
        /\ \A i \in 1 .. Len(keys) : added[i] = keys[i]
    BY <1>1, <1>4, RangeAppend
  <1>6. KeysWith(want[t]) = added
    BY <1>1 DEF KeysWith
  <1> HIDE DEF added
  <1>7. \A i \in DOMAIN added, j \in DOMAIN added : added[i] = added[j] => i = j
    <2>1. /\ DOMAIN keys = 1 .. Len(keys) /\ DOMAIN added = 1 .. Len(keys) + 1 /\ Len(keys) \in Nat
      BY <1>1, <1>5
    <2>2. \A i \in DOMAIN keys : keys[i] # k
      BY <1>1, <1>4 DEF Range
    <2>3. \A i \in DOMAIN keys, j \in DOMAIN keys : keys[i] = keys[j] => i = j
      BY DEF MemoryInv, KeysListData
    <2>4. \A i \in DOMAIN added : i \in DOMAIN keys \/ i = Len(keys) + 1
      BY <2>1
    <2> QED BY <1>5, <2>1, <2>2, <2>3, <2>4
  <1>8. added # <<>>
    BY <1>1, <1>5
  <1>9. /\ at' = [at EXCEPT ![t] = "set"] /\ want' = want
        /\ keys' \in Seq(Path) /\ data' \subseteq data /\ IsFiniteSet(data')
        /\ Cardinality(data') < MaxItems
        /\ Range(keys') = data' \cup {k}
        /\ \A i \in DOMAIN keys', j \in DOMAIN keys' : keys'[i] = keys'[j] => i = j
    <2>1. Goes(t, "set", k) => at' = [at EXCEPT ![t] = "set"] /\ want' = want
      BY DEF Goes, MemoryInv, MemoryTypeOK
    <2>2. CASE ~IsFull
      <3>1. keys' = added /\ data' = data /\ Goes(t, "set", k)
        BY <1>6, <2>2 DEF Admit
      <3>2. Cardinality(data) < MaxItems
        BY <1>1, <2>2 DEF IsFull
      <3> QED BY <1>1, <1>5, <1>7, <2>1, <3>1, <3>2
    <2>3. CASE IsFull
      <3>1. Cardinality(data) = MaxItems
        BY <2>3 DEF IsFull
      <3>2. data # {}
        BY <1>1, <3>1, FS_EmptySet
      <3>3. Len(keys) >= 1
        <4>1. keys # <<>>
          BY <1>4, <3>2 DEF Range
        <4> QED BY <1>1, <4>1
      <3>4. Head(added) = keys[1] /\ keys[1] \in data
        <4>1. 1 \in 1 .. Len(keys) /\ DOMAIN keys = 1 .. Len(keys)
          BY <1>1, <3>3
        <4> QED BY <1>4, <1>5, <4>1 DEF Range
      <3>5. keys' = Tail(added) /\ data' = data \ {Head(added)} /\ Goes(t, "set", k)
        BY <1>6, <1>8, <2>3, <3>4 DEF Admit, WithoutOldest
      <3>6. /\ Tail(added) \in Seq(Path) /\ Range(Tail(added)) = Range(added) \ {Head(added)}
            /\ \A i \in DOMAIN Tail(added), j \in DOMAIN Tail(added) :
                  Tail(added)[i] = Tail(added)[j] => i = j
        BY <1>5, <1>7, <1>8, RangeTail
      <3>7. IsFiniteSet(data') /\ Cardinality(data') = MaxItems - 1
        <4>1. PICK h \in data : Head(added) = h
          BY <3>4
        <4>2. data' = data \ {h} /\ IsFiniteSet(data)
          BY <1>1, <3>5, <4>1
        <4>3. IsFiniteSet(data \ {h}) /\ Cardinality(data \ {h}) = Cardinality(data) - 1
          BY <4>2, FS_RemoveElement
        <4> QED BY <3>1, <4>2, <4>3
      <3>8. Range(keys') = data' \cup {k}
        BY <1>1, <1>5, <3>4, <3>5, <3>6
      <3> QED BY <1>1, <2>1, <3>5, <3>6, <3>7, <3>8
    <2> QED BY <2>2, <2>3
  <1>10. Coming' = {k} /\ at' \in [Thread -> {"idle", "lookup", "set"}]
    BY <1>2, <1>9 DEF Coming, MemoryInv, MemoryTypeOK
  <1>11. MemoryTypeOK'
    BY <1>1, <1>9, <1>10 DEF MemoryInv, MemoryTypeOK
  <1>12. KeysListData'
    BY <1>9, <1>10 DEF KeysListData
  <1>13. WithinMaxItems'
    <2>1. Cardinality(data') \in Nat
      BY <1>9, FS_CardinalityType
    <2> QED BY <1>1, <1>9, <2>1 DEF WithinMaxItems
  <1>14. \A u \in Thread : want'[u] \in Path \ data' /\ Cardinality(data') < MaxItems
    BY <1>1, <1>2, <1>9
  <1> QED BY <1>11, <1>12, <1>13, <1>14 DEF MemoryInv

LEMMA SetDataKeeps ==
    ASSUME MemoryInv, \A t \in Thread, u \in Thread : t = u, NEW t \in Thread, SetData(t)
    PROVE  MemoryInv'
  <1>1. /\ at[t] = "set" /\ want[t] \in Path \ data /\ Cardinality(data) < MaxItems
        /\ IsFiniteSet(data) /\ MaxItems \in Nat
    BY MemoryAssumption DEF SetData, MemoryInv, MemoryTypeOK
  <1>2. /\ keys' = keys /\ data' = data \cup {want[t]}
        /\ at' = [at EXCEPT ![t] = "idle"] /\ want' = [want EXCEPT ![t] = NoPath]
    BY DEF SetData, Goes
  <1>3. Thread = {t}
    OBVIOUS
  <1>4. /\ IsFiniteSet(data') /\ Cardinality(data') = Cardinality(data) + 1
        /\ Cardinality(data) \in Nat
    BY <1>1, <1>2, FS_AddElement, FS_CardinalityType
  <1>5. MemoryTypeOK'
    BY <1>1, <1>2, <1>4 DEF MemoryInv, MemoryTypeOK
  <1>6. at'[t] = "idle"
    BY <1>2 DEF MemoryInv, MemoryTypeOK
  <1>7. Coming = {want[t]} /\ Coming' = {}
    BY <1>1, <1>3, <1>6 DEF Coming
  <1>8. KeysListData'
    BY <1>2, <1>7 DEF MemoryInv, KeysListData
  <1>9. WithinMaxItems'
    BY <1>1, <1>4 DEF WithinMaxItems
  <1> QED BY <1>3, <1>5, <1>6, <1>8, <1>9 DEF MemoryInv

(* With one thread the list of keys and the data agree, and the cache is     *)
(* never beyond its limit, for any paths and any limit.                      *)
LEMMA MemoryInvHolds ==
    ASSUME \A t \in Thread, u \in Thread : t = u
    PROVE  MemorySpec => []MemoryInv
  <1>1. MemoryInit => MemoryInv
    <2> SUFFICES ASSUME MemoryInit PROVE MemoryInv
      OBVIOUS
    <2>1. /\ keys = <<>> /\ keys \in Seq(Path) /\ DOMAIN keys = {} /\ Range(keys) = {}
      BY DEF MemoryInit, Range
    <2>2. data = {} /\ IsFiniteSet(data) /\ Cardinality(data) = 0
      BY FS_EmptySet DEF MemoryInit
    <2>3. at = [t \in Thread |-> "idle"] /\ want = [t \in Thread |-> NoPath]
      BY DEF MemoryInit
    <2>4. Coming = {}
      BY <2>3 DEF Coming
    <2>5. MemoryTypeOK
      BY <2>1, <2>2, <2>3 DEF MemoryTypeOK
    <2>6. KeysListData
      BY <2>1, <2>2, <2>4 DEF KeysListData
    <2>7. WithinMaxItems
      BY <2>2, MemoryAssumption DEF WithinMaxItems
    <2> QED BY <2>3, <2>5, <2>6, <2>7 DEF MemoryInv
  <1>2. MemoryInv /\ [MemoryNext]_memoryVars => MemoryInv'
    <2> SUFFICES ASSUME MemoryInv, [MemoryNext]_memoryVars PROVE MemoryInv'
      OBVIOUS
    <2>1. CASE UNCHANGED memoryVars
      BY <2>1 DEF memoryVars, MemoryInv, MemoryTypeOK, KeysListData, Coming, WithinMaxItems
    <2>2. ASSUME NEW t \in Thread, NEW p \in Path, NotCached(t, p)
          PROVE  MemoryInv'
      <3>1. /\ at[t] = "idle" /\ p \notin data /\ UNCHANGED <<keys, data>>
            /\ at' = [at EXCEPT ![t] = "lookup"] /\ want' = [want EXCEPT ![t] = p]
        BY <2>2 DEF NotCached, Goes
      <3>2. Thread = {t}
        OBVIOUS
      <3>3. MemoryTypeOK'
        BY <3>1 DEF MemoryInv, MemoryTypeOK
      <3>4. at'[t] = "lookup" /\ want'[t] = p
        BY <3>1 DEF MemoryInv, MemoryTypeOK
      <3>5. Coming = {} /\ Coming' = {}
        BY <3>1, <3>2, <3>4 DEF Coming
      <3> QED BY <3>1, <3>2, <3>3, <3>4, <3>5 DEF MemoryInv, KeysListData, WithinMaxItems
    <2>3. ASSUME NEW t \in Thread, NoSuchFile(t)
          PROVE  MemoryInv'
      <3>1. /\ at[t] = "lookup" /\ UNCHANGED <<keys, data>>
            /\ at' = [at EXCEPT ![t] = "idle"] /\ want' = [want EXCEPT ![t] = NoPath]
        BY <2>3 DEF NoSuchFile, Goes
      <3>2. Thread = {t}
        OBVIOUS
      <3>3. MemoryTypeOK'
        BY <3>1 DEF MemoryInv, MemoryTypeOK
      <3>4. at'[t] = "idle"
        BY <3>1 DEF MemoryInv, MemoryTypeOK
      <3>5. Coming = {} /\ Coming' = {}
        BY <3>1, <3>2, <3>4 DEF Coming
      <3> QED BY <3>1, <3>2, <3>3, <3>4, <3>5 DEF MemoryInv, KeysListData, WithinMaxItems
    <2> QED BY <2>1, <2>2, <2>3, AdmitKeeps, SetDataKeeps DEF MemoryNext
  <1> QED BY <1>1, <1>2, PTL DEF MemorySpec

(* The state of the cache has its types.                                    *)
THEOREM MemoryTypes ==
    ASSUME \A t \in Thread, u \in Thread : t = u
    PROVE  MemorySpec => []MemoryTypeOK
  <1>1. MemoryInv => MemoryTypeOK
    BY DEF MemoryInv
  <1> QED BY <1>1, MemoryInvHolds, PTL

(* Called from one thread, the cache never holds more than its limit.       *)
THEOREM MemoryWithinLimit ==
    ASSUME \A t \in Thread, u \in Thread : t = u
    PROVE  MemorySpec => []WithinMaxItems
  <1>1. MemoryInv => WithinMaxItems
    BY DEF MemoryInv
  <1> QED BY <1>1, MemoryInvHolds, PTL

(* Called from one thread, everything in the cache is deleted in its turn:   *)
(* the list of keys, by which that is decided, has every key once.           *)
THEOREM MemoryKeysListData ==
    ASSUME \A t \in Thread, u \in Thread : t = u
    PROVE  MemorySpec => []KeysListData
  <1>1. MemoryInv => KeysListData
    BY DEF MemoryInv
  <1> QED BY <1>1, MemoryInvHolds, PTL

(* The memory cache stays within its limit, for any number of paths.        *)
THEOREM MemoryIsBounded ==
    ASSUME \A t \in Thread, u \in Thread : t = u
    PROVE  MemorySpec => []MemoryBounded
  <1>1. WithinMaxItems /\ KeysListData => MemoryBounded
    BY DEF MemoryBounded
  <1> QED BY <1>1, MemoryWithinLimit, MemoryKeysListData, PTL
=============================================================================
