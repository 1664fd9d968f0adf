-------------------------- MODULE IterMultiProofs ---------------------------
(***************************************************************************)
(* Proofs about IterMulti, for listings, pages, pools and queues of any    *)
(* size.                                                                   *)
(***************************************************************************)
EXTENDS IterMulti, TLAPS

-----------------------------------------------------------------------------
(* Pages: multiples of the page size.                                       *)

(* The number of pages is not negative, also when the listing is empty. *)
LEMMA PagesAreNat == NPages \in Nat
<1>1. Total \in Nat /\ PageSize \in Nat /\ PageSize > 0 BY IterAssumption
<1>2. (Total - 1) \div PageSize \in Int BY <1>1
<1>3. (Total - 1) \div PageSize >= -1 BY <1>1, SMTT(30)
<1> QED BY <1>2, <1>3 DEF NPages

(* A page holds items of the listing, between its multiples of the size. *)
LEMMA PageBounds ==
    ASSUME NEW p \in Nat
    PROVE  /\ LastOf(p) \in Nat /\ LastOf(p) <= Total
           /\ PageItems(p + 1) \subseteq Items
           /\ \A i \in PageItems(p + 1) : p * PageSize < i /\ i <= (p + 1) * PageSize
<1>1. Total \in Nat /\ PageSize \in Nat BY IterAssumption
<1>2. p * PageSize \in Nat /\ (p + 1) * PageSize \in Nat BY <1>1
<1>3. LastOf(p) \in Nat /\ LastOf(p) <= Total BY <1>1, <1>2 DEF LastOf
<1>4. LastOf(p + 1) \in Nat /\ LastOf(p + 1) <= Total /\ LastOf(p + 1) <= (p + 1) * PageSize
    BY <1>1, <1>2 DEF LastOf
<1>5. PageItems(p + 1) = p * PageSize + 1 .. LastOf(p + 1)
    BY DEF PageItems
<1> QED BY <1>1, <1>2, <1>3, <1>4, <1>5 DEF Items

(* The limits of consecutive pages. *)
LEMMA PageLimits ==
    ASSUME NEW p \in Nat
    PROVE  p * PageSize \in Nat /\ (p + 1) * PageSize \in Nat /\ p * PageSize <= (p + 1) * PageSize
<1>1. PageSize \in Nat BY IterAssumption
<1> QED BY <1>1

-----------------------------------------------------------------------------
(* The queue.                                                               *)

(* What is put arrives at the end. *)
LEMMA Appended ==
    ASSUME NEW S, NEW s \in Seq(S), NEW x \in S
    PROVE  /\ Append(s, x) \in Seq(S)
           /\ Len(s) \in Nat
           /\ Len(Append(s, x)) = Len(s) + 1
           /\ Append(s, x)[Len(s) + 1] = x
           /\ \A k \in 1 .. Len(s) : Append(s, x)[k] = s[k]
OBVIOUS

(* What is taken is the first. *)
LEMMA Taken ==
    ASSUME NEW S, NEW s \in Seq(S), s # <<>>
    PROVE  /\ Tail(s) \in Seq(S)
           /\ Head(s) \in S /\ Head(s) = s[1]
           /\ Len(s) \in Nat /\ Len(s) > 0
           /\ Len(Tail(s)) = Len(s) - 1
           /\ \A k \in 1 .. Len(Tail(s)) : k + 1 \in 1 .. Len(s) /\ Tail(s)[k] = s[k + 1]
OBVIOUS

-----------------------------------------------------------------------------
(* Types.                                                                   *)

LEMMA TypeInit == Init => TypeOK
<1> SUFFICES ASSUME Init PROVE TypeOK OBVIOUS
<1>1. NPages \in Nat BY PagesAreNat
<1>2. QueueSize \in Nat BY IterAssumption
<1>3. queue \in Seq(Items \cup {None}) /\ Len(queue) = 0 BY DEF Init
<1>4. submitted \in 0 .. NPages /\ handed \in 0 .. submitted /\ taken \in 0 .. handed /\ 0 \in 0 .. taken
    BY <1>1 DEF Init
<1>5. page \in [Workers -> 0 .. taken] /\ item \in [Workers -> Nat] BY <1>4 DEF Init
<1>6. worker \in [Workers -> {"idle", "start", "fetch", "next", "put", "killed"}] BY DEF Init
<1>7. yielded \subseteq Items /\ adrift \subseteq Items BY DEF Init
<1>8. client = "get" /\ stop = FALSE /\ sched = "loop" BY DEF Init
<1>9. Len(queue) <= QueueSize BY <1>2, <1>3
<1> QED BY <1>3, <1>4, <1>5, <1>6, <1>7, <1>8, <1>9 DEF TypeOK

(* Every step keeps the types.  That what a worker puts is an item of the    *)
(* listing is part of PoolSound.                                             *)
LEMMA TypeStep == TypeOK /\ PoolSound /\ [Next]_vars => TypeOK'
<1> SUFFICES ASSUME TypeOK, PoolSound, [Next]_vars PROVE TypeOK' OBVIOUS
<1> USE DEF TypeOK
<1>n. NPages \in Nat /\ QueueSize \in Nat BY PagesAreNat, IterAssumption
<1>1. CASE Get
    <2>1. queue # <<>> BY <1>1 DEF Get
    <2>2. Tail(queue) \in Seq(Items \cup {None}) /\ Head(queue) \in Items \cup {None}
          /\ Len(Tail(queue)) <= QueueSize
        BY <2>1, <1>n, Taken
    <2> QED BY <1>1, <2>2 DEF Get, schedVars, poolVars
<1>2. CASE Resume \/ Close \/ SetStop \/ Drained \/ Join
    BY <1>2 DEF Resume, Close, SetStop, Drained, Join, schedVars, poolVars
<1>3. CASE Drain
    <2>1. queue # <<>> BY <1>3 DEF Drain
    <2>2. Tail(queue) \in Seq(Items \cup {None}) /\ Len(Tail(queue)) <= QueueSize
        BY <2>1, <1>n, Taken
    <2> QED BY <1>3, <2>2 DEF Drain, clientVars, schedVars, poolVars
<1>4. CASE Submit
    BY <1>4, <1>n DEF Submit, clientVars, poolVars
<1>5. CASE Waited
    BY <1>5 DEF Waited, clientVars, poolVars
<1>6. CASE Terminate
    <2>1. PICK sent \in SUBSET {w \in Workers : worker[w] = "put"} : adrift' = {item[w] : w \in sent}
        BY <1>6 DEF Terminate
    <2>2. \A w \in sent : item[w] \in Items BY DEF PoolSound
    <2> QED BY <1>6, <2>1, <2>2 DEF Terminate, clientVars
<1>7. CASE Sentinel
    <2>1. Append(queue, None) \in Seq(Items \cup {None}) /\ Len(Append(queue, None)) <= QueueSize
        BY <1>7, <1>n, Appended DEF Sentinel, PutOk
    <2> QED BY <1>7, <2>1 DEF Sentinel, clientVars, poolVars
<1>8. CASE HandOver
    BY <1>8, <1>n DEF HandOver, clientVars, schedVars
<1>9. CASE Manager
    <2>1. PICK i \in adrift : PutAdrift(i) BY <1>9 DEF Manager
    <2>2. Append(queue, i) \in Seq(Items \cup {None}) /\ Len(Append(queue, i)) <= QueueSize
        BY <2>1, <1>n, Appended DEF PutAdrift, PutOk
    <2> QED BY <2>1, <2>2 DEF PutAdrift, clientVars, schedVars
<1>10. CASE \E w \in Workers : Worker(w)
    <2> PICK w \in Workers : Worker(w) BY <1>10
    <2>1. CASE Take(w)
        BY <2>1, <1>n DEF Take, Move, clientVars, schedVars
    <2>2. CASE Start(w)
        BY <2>2 DEF Start, Move, clientVars, schedVars
    <2>3. CASE Fetch(w)
        <3>1. CASE Move(w, "idle") /\ UNCHANGED item
            BY <2>3, <3>1 DEF Fetch, Move, clientVars, schedVars
        <3>2. CASE Move(w, "next") /\ item' = [item EXCEPT ![w] = (page[w] - 1) * PageSize + 1]
            <4>1. page[w] \in Nat /\ page[w] # 0
                BY <2>3, <1>n DEF Fetch, PoolSound
            <4>2. page[w] - 1 \in Nat BY <4>1
            <4>3. (page[w] - 1) * PageSize \in Nat BY <4>2, PageLimits
            <4>4. (page[w] - 1) * PageSize + 1 \in Nat BY <4>3
            <4> HIDE DEF TypeOK
            <4>5. item' \in [Workers -> Nat]
                <5>1. item \in [Workers -> Nat] BY DEF TypeOK
                <5> QED BY <3>2, <4>4, <5>1
            <4>6. worker' \in [Workers -> {"idle", "start", "fetch", "next", "put", "killed"}]
                BY <3>2 DEF Move, TypeOK
            <4> QED BY <2>3, <4>5, <4>6 DEF Fetch, clientVars, schedVars, TypeOK
        <3> QED BY <2>3, <3>1, <3>2 DEF Fetch
    <2>4. CASE NextItem(w)
        BY <2>4 DEF NextItem, Move, clientVars, schedVars
    <2>5. CASE Put(w)
        <3>1. item[w] \in Items BY <2>5 DEF Put, PoolSound
        <3>2. Append(queue, item[w]) \in Seq(Items \cup {None})
              /\ Len(Append(queue, item[w])) <= QueueSize
            BY <2>5, <3>1, <1>n, Appended DEF Put, PutOk
        <3> QED BY <2>5, <3>2 DEF Put, Move, clientVars, schedVars
    <2> QED BY <2>1, <2>2, <2>3, <2>4, <2>5 DEF Worker
<1>11. CASE UNCHANGED vars
    BY <1>11 DEF vars, clientVars, schedVars, poolVars
<1> QED
    BY <1>1, <1>2, <1>3, <1>4, <1>5, <1>6, <1>7, <1>8, <1>9, <1>10, <1>11
    DEF Next, Generator, Scheduler

-----------------------------------------------------------------------------
(* The inductive invariant.                                                 *)

LEMMA IterInit == Init => IterInv
<1> SUFFICES ASSUME Init PROVE IterInv OBVIOUS
<1>1. Len(queue) = 0 /\ \A w \in Workers : Pending(w) = {}
    BY DEF Init, Pending
<1>2. PoolRuns BY DEF Init, PoolRuns
<1> QED BY <1>1, <1>2 DEF Init, IterInv, ItemsInOnePlace, PoolSound

(* Steps that leave the items where they are keep ItemsInOnePlace.  Workers  *)
(* may lose what they have not put.                                          *)
LEMMA ItemsStay ==
    ASSUME ItemsInOnePlace, UNCHANGED <<yielded, queue, adrift, taken>>,
           \A w \in Workers : Pending(w)' \subseteq Pending(w)
    PROVE  ItemsInOnePlace'
BY DEF ItemsInOnePlace

(* Neither do steps of the generator and the scheduler touch the workers.    *)
LEMMA PoolStays ==
    ASSUME PoolSound, UNCHANGED <<worker, page, item, adrift>>, PoolRuns' <=> PoolRuns
    PROVE  PoolSound' /\ \A w \in Workers : Pending(w)' = Pending(w)
BY DEF PoolSound, Pending

(* Taking the first position of the queue, which goes to the client or is    *)
(* dropped.                                                                  *)
LEMMA QueueTaken ==
    ASSUME TypeOK, IterInv, queue # <<>>, queue' = Tail(queue),
           yielded' = yielded \/ (Head(queue) # None /\ yielded' = yielded \cup {Head(queue)}),
           UNCHANGED poolVars, UNCHANGED sched
    PROVE  IterInv'
<1>1. /\ Len(queue) \in Nat /\ 1 \in 1 .. Len(queue)
      /\ Head(queue) = queue[1]
      /\ Len(queue') = Len(queue) - 1
      /\ \A k \in 1 .. Len(queue') : k + 1 \in 1 .. Len(queue) /\ k + 1 # 1 /\ queue'[k] = queue[k + 1]
    BY Taken DEF TypeOK
<1>2. PoolSound' /\ \A w \in Workers : Pending(w)' = Pending(w)
    BY PoolStays DEF IterInv, poolVars, PoolRuns
<1>3. yielded' \subseteq yielded \cup {queue[1]} /\ adrift' = adrift /\ taken' = taken
    BY <1>1 DEF poolVars
<1>4. \A k \in 1 .. Len(queue') : queue'[k] \notin yielded' \cup adrift'
    <2> TAKE k \in 1 .. Len(queue')
    <2>1. k + 1 \in 1 .. Len(queue) /\ k + 1 # 1 /\ queue'[k] = queue[k + 1] BY <1>1
    <2>2. queue[k + 1] \notin yielded \cup adrift BY <2>1 DEF IterInv, ItemsInOnePlace
    <2>3. CASE yielded' = yielded BY <2>1, <2>2, <2>3, <1>3
    <2>4. CASE Head(queue) # None
        <3>1. queue[k + 1] # queue[1] BY <2>1, <2>4, <1>1 DEF IterInv, ItemsInOnePlace
        <3> QED BY <3>1, <2>1, <2>2, <1>3
    <2> QED BY <2>3, <2>4
<1>5. \A j \in 1 .. Len(queue'), k \in 1 .. Len(queue') : queue'[j] = queue'[k] /\ queue'[j] # None => j = k
    <2> TAKE j \in 1 .. Len(queue'), k \in 1 .. Len(queue')
    <2>1. j \in Int /\ k \in Int /\ j + 1 \in 1 .. Len(queue) /\ k + 1 \in 1 .. Len(queue)
          /\ queue'[j] = queue[j + 1] /\ queue'[k] = queue[k + 1]
        BY <1>1
    <2>2. queue[j + 1] = queue[k + 1] /\ queue[j + 1] # None => j + 1 = k + 1
        BY <2>1 DEF IterInv, ItemsInOnePlace
    <2> QED BY <2>1, <2>2
<1>6. adrift' \cap yielded' = {}
    BY <1>1, <1>3 DEF IterInv, ItemsInOnePlace
<1>7. ASSUME NEW i, i \notin yielded \cup adrift, \A k \in 1 .. Len(queue) : queue[k] # i
      PROVE  i \notin yielded' \cup adrift' /\ \A k \in 1 .. Len(queue') : queue'[k] # i
    BY <1>1, <1>3, <1>7
<1>8. ItemsInOnePlace'
    BY <1>2, <1>3, <1>4, <1>5, <1>6, <1>7 DEF IterInv, ItemsInOnePlace
<1> QED BY <1>2, <1>8 DEF IterInv

(* Putting an item that is in no other place, or the sentinel.               *)
LEMMA QueuePut ==
    ASSUME TypeOK, ItemsInOnePlace, NEW x \in Items \cup {None}, queue' = Append(queue, x),
           UNCHANGED <<yielded, taken>>, adrift' \subseteq adrift, x \notin adrift',
           x # None => /\ x \notin yielded
                       /\ \A k \in 1 .. Len(queue) : queue[k] # x
                       /\ x <= taken * PageSize,
           \A w \in Workers : Pending(w)' \subseteq Pending(w) /\ x \notin Pending(w)'
    PROVE  ItemsInOnePlace'
<1>1. /\ Len(queue) \in Nat
      /\ Len(queue') = Len(queue) + 1
      /\ queue'[Len(queue) + 1] = x
      /\ \A k \in 1 .. Len(queue) : queue'[k] = queue[k]
    BY Appended DEF TypeOK
<1>2. \A k \in 1 .. Len(queue') : k \in 1 .. Len(queue) \/ k = Len(queue) + 1
    BY <1>1
<1>3. None \notin yielded
    <2>1. yielded \subseteq Int /\ None \notin Int BY IterAssumption DEF TypeOK, Items
    <2> QED BY <2>1
<1>4. \A k \in 1 .. Len(queue') : queue'[k] \notin yielded' \cup adrift'
    BY <1>1, <1>2, <1>3 DEF ItemsInOnePlace
<1>5. \A j \in 1 .. Len(queue'), k \in 1 .. Len(queue') : queue'[j] = queue'[k] /\ queue'[j] # None => j = k
    BY <1>1, <1>2 DEF ItemsInOnePlace
<1>6. \A w \in Workers : \A i \in Pending(w)' :
        /\ i \notin yielded' \cup adrift'
        /\ \A k \in 1 .. Len(queue') : queue'[k] # i
        /\ \A v \in Workers \ {w} : i \notin Pending(v)'
    BY <1>1, <1>2 DEF ItemsInOnePlace
<1>7. \A i \in Items : i > taken' * PageSize =>
        /\ i \notin yielded' \cup adrift'
        /\ \A k \in 1 .. Len(queue') : queue'[k] # i
        /\ \A w \in Workers : i \notin Pending(w)'
    <2> TAKE i \in Items
    <2> HAVE i > taken' * PageSize
    <2>1. taken \in Nat /\ taken' = taken BY PagesAreNat DEF TypeOK
    <2>2. taken * PageSize \in Nat BY <2>1, PageLimits
    <2>3. i \in Int BY DEF Items
    <2>4. i # x
        <3>1. CASE x = None BY <3>1, <2>3, IterAssumption
        <3>2. CASE x # None
            <4>1. x \in Int /\ x <= taken * PageSize BY <3>2 DEF Items
            <4> QED BY <4>1, <2>1, <2>2, <2>3
        <3> QED BY <3>1, <3>2
    <2> QED BY <1>1, <1>2, <2>1, <2>4 DEF ItemsInOnePlace
<1>8. adrift' \cap yielded' = {} BY DEF ItemsInOnePlace
<1> QED BY <1>4, <1>5, <1>6, <1>7, <1>8 DEF ItemsInOnePlace

(* A step of one worker that may still put all it holds changes what no      *)
(* other worker holds.                                                       *)
LEMMA OthersKeep ==
    ASSUME TypeOK, NEW w \in Workers, NEW to, worker' = [worker EXCEPT ![w] = to],
           \A v \in Workers \ {w} : page'[v] = page[v] /\ item'[v] = item[v]
    PROVE  /\ worker'[w] = to
           /\ \A v \in Workers \ {w} : worker'[v] = worker[v] /\ Pending(v)' = Pending(v)
<1>1. worker'[w] = to /\ \A v \in Workers \ {w} : worker'[v] = worker[v] BY DEF TypeOK
<1> QED BY <1>1 DEF Pending

(* What an active worker holds is on pages that were taken. *)
LEMMA OnTakenPages ==
    ASSUME TypeOK, IterInv, NEW w \in Workers, NEW i \in Pending(w)
    PROVE  i \in Items /\ i <= taken * PageSize
<1>1. i \in Items BY DEF IterInv, PoolSound
<1>2. taken \in Nat BY PagesAreNat DEF TypeOK
<1>3. taken * PageSize \in Nat BY <1>2, PageLimits
<1>4. ~(i > taken * PageSize) BY <1>1 DEF IterInv, ItemsInOnePlace
<1> QED BY <1>1, <1>3, <1>4 DEF Items

(* Every step keeps the invariant. *)
LEMMA IterStep == TypeOK /\ IterInv /\ [Next]_vars => IterInv'
<1> SUFFICES ASSUME TypeOK, IterInv, [Next]_vars PROVE IterInv' OBVIOUS
<1> USE DEF IterInv
<1>t. page \in [Workers -> Nat] /\ taken \in Nat /\ item \in [Workers -> Nat]
    BY PagesAreNat DEF TypeOK
<1>1. CASE Get
    BY <1>1, QueueTaken DEF Get, schedVars
<1>2. CASE Drain
    BY <1>2, QueueTaken DEF Drain, schedVars, clientVars
<1>3. CASE Resume \/ Close \/ SetStop \/ Drained \/ Join \/ Submit \/ Waited \/ HandOver \/ UNCHANGED vars
    <2>1. UNCHANGED <<yielded, queue, adrift, taken, worker, page, item>> /\ (PoolRuns' <=> PoolRuns)
        BY <1>3 DEF Resume, Close, SetStop, Drained, Join, Submit, Waited, HandOver, PoolRuns,
                    vars, clientVars, schedVars, poolVars
    <2>2. PoolSound' /\ \A w \in Workers : Pending(w)' = Pending(w) BY <2>1, PoolStays
    <2> QED BY <2>1, <2>2, ItemsStay
<1>4. CASE Terminate
    <2>1. PICK sent \in SUBSET {w \in Workers : worker[w] = "put"} : adrift' = {item[w] : w \in sent}
        BY <1>4 DEF Terminate
    <2>2. /\ \A w \in Workers : worker'[w] = "killed" /\ Pending(w)' = {}
          /\ adrift = {} /\ ~PoolRuns'
          /\ UNCHANGED <<yielded, queue, taken>>
        BY <1>4 DEF Terminate, PoolSound, PoolRuns, Pending, clientVars
    <2>3. PoolSound' BY <2>2 DEF PoolSound
    <2>4. \A i \in adrift' : \E w \in Workers : i \in Pending(w)
        BY <2>1 DEF PoolSound
    <2>5. \A i \in adrift' : i \notin yielded /\ \A k \in 1 .. Len(queue) : queue[k] # i
        BY <2>4 DEF ItemsInOnePlace
    <2>6. \A i \in Items : i > taken * PageSize => i \notin adrift'
        BY <2>4 DEF ItemsInOnePlace
    <2>7. ItemsInOnePlace' BY <2>2, <2>5, <2>6 DEF ItemsInOnePlace
    <2> QED BY <2>3, <2>7
<1>5. CASE Sentinel
    <2>1. /\ queue' = Append(queue, None)
          /\ UNCHANGED <<yielded, taken, worker, page, item, adrift>>
          /\ PoolRuns' <=> PoolRuns
        BY <1>5 DEF Sentinel, PoolRuns, clientVars, poolVars
    <2>2. PoolSound' /\ \A w \in Workers : Pending(w)' = Pending(w) BY <2>1, PoolStays
    <2>3. None \notin Items BY IterAssumption DEF Items
    <2>4. None \notin adrift BY <2>3 DEF TypeOK
    <2>5. \A w \in Workers : None \notin Pending(w) BY <2>3 DEF PoolSound
    <2>6. ItemsInOnePlace' BY <2>1, <2>2, <2>4, <2>5, QueuePut
    <2> QED BY <2>2, <2>6
<1>6. CASE Manager
    <2>1. PICK i \in adrift : PutAdrift(i) BY <1>6 DEF Manager
    <2>2. /\ queue' = Append(queue, i) /\ adrift' = adrift \ {i}
          /\ UNCHANGED <<yielded, taken, worker, page, item, sched>>
        BY <2>1 DEF PutAdrift, clientVars, schedVars
    <2>3. i \in Items /\ i \notin yielded /\ \A k \in 1 .. Len(queue) : queue[k] # i
        BY DEF TypeOK, ItemsInOnePlace
    <2>4. i <= taken * PageSize
        <3>1. taken * PageSize \in Nat BY <1>t, PageLimits
        <3> QED BY <2>3, <3>1 DEF ItemsInOnePlace, Items
    <2>5. \A w \in Workers : Pending(w)' = Pending(w) /\ i \notin Pending(w)
        BY <2>2 DEF Pending, ItemsInOnePlace
    <2>6. ItemsInOnePlace' BY <2>2, <2>3, <2>4, <2>5, QueuePut
    <2>7. PoolSound' BY <2>2, <2>5 DEF PoolSound, PoolRuns
    <2> QED BY <2>6, <2>7
<1>7. CASE \E w \in Workers : Worker(w)
    <2> PICK w \in Workers : Worker(w) BY <1>7
    <2>r. PoolRuns /\ adrift = {} /\ worker[w] # "killed"
        <3>1. worker[w] # "killed" BY DEF Worker, Take, Start, Fetch, NextItem, Put
        <3> QED BY <3>1 DEF PoolSound
    <2>1. CASE Take(w)
        <3>1. /\ taken' = taken + 1 /\ worker' = [worker EXCEPT ![w] = "start"]
              /\ page' = [page EXCEPT ![w] = taken + 1]
              /\ UNCHANGED <<yielded, queue, adrift, item, sched>>
            BY <2>1 DEF Take, Move, clientVars, schedVars
        <3>2. /\ worker'[w] = "start" /\ page'[w] = taken + 1
              /\ \A v \in Workers \ {w} : worker'[v] = worker[v] /\ page'[v] = page[v] /\ Pending(v)' = Pending(v)
            BY <3>1, <1>t, OthersKeep
        <3>3. Pending(w)' = PageItems(taken + 1) BY <3>2 DEF Pending, PageItems, LastOf
        <3>4. PageItems(taken + 1) \subseteq Items
              /\ \A i \in PageItems(taken + 1) : taken * PageSize < i /\ i <= (taken + 1) * PageSize
            BY <1>t, PageBounds
        <3>5. taken * PageSize \in Nat /\ taken' * PageSize \in Nat /\ taken * PageSize <= taken' * PageSize
            BY <3>1, <1>t, PageLimits
        <3>6. \A i \in PageItems(taken + 1) :
                /\ i \notin yielded \cup adrift
                /\ \A k \in 1 .. Len(queue) : queue[k] # i
                /\ \A v \in Workers \ {w} : i \notin Pending(v)
            BY <3>4, <3>5 DEF ItemsInOnePlace, Items
        <3>7. \A i \in Items : i > taken' * PageSize => i > taken * PageSize /\ i \notin Pending(w)'
            BY <3>1, <3>3, <3>4, <3>5 DEF Items
        <3>8. ItemsInOnePlace'
            <4>1. \A v \in Workers : \A i \in Pending(v)' :
                    /\ i \notin yielded' \cup adrift'
                    /\ \A k \in 1 .. Len(queue') : queue'[k] # i
                    /\ \A u \in Workers \ {v} : i \notin Pending(u)'
                <5> TAKE v \in Workers
                <5> TAKE i \in Pending(v)'
                <5>1. CASE v = w
                    <6>1. i \in PageItems(taken + 1) BY <5>1, <3>3
                    <6>2. \A u \in Workers \ {w} : i \notin Pending(u)' BY <6>1, <3>2, <3>6
                    <6> QED BY <5>1, <6>1, <6>2, <3>1, <3>6
                <5>2. CASE v # w
                    <6>1. i \in Pending(v) BY <5>2, <3>2
                    <6>2. \A u \in Workers \ {v} : i \notin Pending(u) BY <6>1 DEF ItemsInOnePlace
                    <6>3. i \notin Pending(w)'
                        <7>1. i \notin PageItems(taken + 1) BY <6>1, <5>2, <3>6
                        <7> QED BY <7>1, <3>3
                    <6>4. \A u \in Workers \ {v} : i \notin Pending(u)'
                        BY <6>2, <6>3, <3>2
                    <6>5. i \notin yielded \cup adrift /\ \A k \in 1 .. Len(queue) : queue[k] # i
                        BY <6>1 DEF ItemsInOnePlace
                    <6> QED BY <3>1, <6>4, <6>5
                <5> QED BY <5>1, <5>2
            <4>2. \A i \in Items : i > taken' * PageSize =>
                    /\ i \notin yielded' \cup adrift'
                    /\ \A k \in 1 .. Len(queue') : queue'[k] # i
                    /\ \A v \in Workers : i \notin Pending(v)'
                BY <3>1, <3>2, <3>7 DEF ItemsInOnePlace
            <4> QED BY <3>1, <4>1, <4>2 DEF ItemsInOnePlace
        <3>9. PoolSound'
            BY <2>r, <3>1, <3>2, <3>3, <3>4, <1>t DEF PoolSound, PoolRuns
        <3> QED BY <3>8, <3>9
    <2>2. CASE Start(w) \/ NextItem(w)
        <3>1. UNCHANGED <<yielded, queue, adrift, taken, page, item, sched>>
            BY <2>2 DEF Start, NextItem, clientVars, schedVars
        <3>2. PICK to \in {"idle", "fetch", "put"} :
                /\ worker' = [worker EXCEPT ![w] = to]
                /\ to = "fetch" => worker[w] = "start"
                /\ to = "put" => worker[w] = "next" /\ item[w] <= LastOf(page[w])
            BY <2>2 DEF Start, NextItem, Move, ItemsLeft
        <3>3. worker'[w] = to /\ \A v \in Workers \ {w} : worker'[v] = worker[v] /\ Pending(v)' = Pending(v)
            BY <3>1, <3>2, OthersKeep
        <3>4. Pending(w)' \subseteq Pending(w) BY <3>1, <3>2, <3>3 DEF Pending, PageItems, LastOf
        <3>5. to = "put" => item[w] \in Pending(w)'
            <4>1. to = "put" => Pending(w)' = item[w] .. LastOf(page[w]) BY <3>1, <3>3 DEF Pending, LastOf
            <4>2. LastOf(page[w]) \in Nat BY <1>t, PageBounds
            <4> QED BY <4>1, <4>2, <3>2, <1>t
        <3>6. ItemsInOnePlace' BY <3>1, <3>3, <3>4, ItemsStay
        <3>7. PoolSound' BY <2>r, <3>1, <3>2, <3>3, <3>4, <3>5 DEF PoolSound, PoolRuns
        <3> QED BY <3>6, <3>7
    <2>3. CASE Fetch(w)
        <3>1. UNCHANGED <<yielded, queue, adrift, taken, page, sched>>
            BY <2>3 DEF Fetch, clientVars, schedVars
        <3>2. PICK to \in {"idle", "next"} :
                /\ worker' = [worker EXCEPT ![w] = to]
                /\ IF to = "next" THEN item' = [item EXCEPT ![w] = (page[w] - 1) * PageSize + 1] ELSE item' = item
            BY <2>3 DEF Fetch, Move
        <3>3. worker'[w] = to /\ \A v \in Workers \ {w} : worker'[v] = worker[v] /\ Pending(v)' = Pending(v)
            BY <3>1, <3>2, <1>t, OthersKeep
        <3>4. Pending(w)' \subseteq Pending(w)
            <4>1. Pending(w) = (page[w] - 1) * PageSize + 1 .. LastOf(page[w])
                BY <2>3 DEF Fetch, Pending, PageItems
            <4>2. CASE to = "next"
                <5>1. item'[w] = (page[w] - 1) * PageSize + 1 BY <4>2, <3>2, <1>t
                <5>2. Pending(w)' = item'[w] .. LastOf(page[w]) BY <4>2, <3>1, <3>3 DEF Pending, LastOf
                <5> QED BY <4>1, <5>1, <5>2
            <4>3. CASE to = "idle"
                BY <4>3, <3>3 DEF Pending
            <4> QED BY <4>2, <4>3
        <3>5. ItemsInOnePlace' BY <3>1, <3>3, <3>4, ItemsStay
        <3>6. page[w] # 0 BY <2>3 DEF Fetch, PoolSound
        <3>7. PoolSound'
            <4>1. \A v \in Workers \ {w} : item'[v] = item[v] BY <3>2, <1>t
            <4> QED BY <2>r, <3>1, <3>2, <3>3, <3>4, <3>6, <4>1 DEF PoolSound, PoolRuns
        <3> QED BY <3>5, <3>7
    <2>4. CASE Put(w)
        <3>1. /\ worker[w] = "put" /\ queue' = Append(queue, item[w])
              /\ worker' = [worker EXCEPT ![w] = "next"] /\ item' = [item EXCEPT ![w] = @ + 1]
              /\ UNCHANGED <<yielded, adrift, taken, page, sched>>
            BY <2>4 DEF Put, Move, clientVars, schedVars
        <3>2. worker'[w] = "next" /\ \A v \in Workers \ {w} : worker'[v] = worker[v] /\ Pending(v)' = Pending(v)
            BY <3>1, <1>t, OthersKeep
        <3>3. item[w] \in Pending(w) /\ page[w] # 0 BY <3>1 DEF PoolSound
        <3>4. item[w] \in Items /\ item[w] <= taken * PageSize BY <3>3, OnTakenPages
        <3>5. Pending(w)' \subseteq Pending(w) /\ item[w] \notin Pending(w)'
            <4>1. Pending(w) = item[w] .. LastOf(page[w]) BY <3>1 DEF Pending
            <4>2. item'[w] = item[w] + 1 BY <3>1, <1>t
            <4>3. Pending(w)' = item[w] + 1 .. LastOf(page[w]) BY <3>1, <3>2, <4>2 DEF Pending, LastOf
            <4>4. LastOf(page[w]) \in Nat /\ item[w] \in Nat BY <1>t, PageBounds
            <4> QED BY <4>1, <4>3, <4>4
        <3>6. \A v \in Workers \ {w} : item[w] \notin Pending(v)
            BY <3>3 DEF ItemsInOnePlace
        <3>7. ItemsInOnePlace'
            <4>1. /\ item[w] \notin yielded /\ item[w] \notin adrift'
                  /\ \A k \in 1 .. Len(queue) : queue[k] # item[w]
                BY <3>1, <3>3 DEF ItemsInOnePlace
            <4>2. \A v \in Workers : Pending(v)' \subseteq Pending(v) /\ item[w] \notin Pending(v)'
                BY <3>2, <3>5, <3>6
            <4> QED BY <3>1, <3>4, <4>1, <4>2, QueuePut
        <3>8. PoolSound'
            <4>1. \A v \in Workers \ {w} : item'[v] = item[v] BY <3>1, <1>t
            <4> QED BY <2>r, <3>1, <3>2, <3>3, <3>5, <4>1 DEF PoolSound, PoolRuns
        <3> QED BY <3>7, <3>8
    <2> QED BY <2>1, <2>2, <2>3, <2>4 DEF Worker
<1> QED
    BY <1>1, <1>2, <1>3, <1>4, <1>5, <1>6, <1>7 DEF Next, Generator, Scheduler

-----------------------------------------------------------------------------
(* The theorems.                                                            *)

(* The generator, scheduler, workers, manager and queue keep their types. *)
THEOREM IterTypes == Spec => []TypeOK
<1>1. Init => TypeOK /\ IterInv BY TypeInit, IterInit
<1>2. TypeOK /\ IterInv /\ [Next]_vars => (TypeOK /\ IterInv)'
    BY TypeStep, IterStep DEF IterInv
<1> QED BY <1>1, <1>2, PTL DEF Spec

(* No item is ever in two places: with the client, in the queue, with a      *)
(* worker or with the manager.                                               *)
THEOREM IterInvHolds == Spec => []IterInv
<1>1. Init => TypeOK /\ IterInv BY TypeInit, IterInit
<1>2. TypeOK /\ IterInv /\ [Next]_vars => (TypeOK /\ IterInv)'
    BY TypeStep, IterStep DEF IterInv
<1> QED BY <1>1, <1>2, PTL DEF Spec

(* The initial state of an iteration is one of ItemStream. *)
LEMMA StreamInit == Init => Stream!Init
BY DEF Init, Stream!Init, Phase

(* Every step of an iteration is a step of ItemStream, or none: an item that *)
(* is taken from the queue is new to the client, and after the sentinel or   *)
(* the client's close there are no more.                                     *)
LEMMA StreamStep == TypeOK /\ IterInv /\ [Next]_vars => [Stream!Next]_<<yielded, Phase>>
<1> SUFFICES ASSUME TypeOK, IterInv, [Next]_vars PROVE [Stream!Next]_<<yielded, Phase>>
    OBVIOUS
<1>1. CASE Get
    <2>1. CASE Head(queue) = None
        BY <1>1, <2>1 DEF Get, Phase, Stream!Next, Stream!End
    <2>2. CASE Head(queue) # None
        <3>1. /\ Head(queue) \in Items \cup {None} /\ Head(queue) = queue[1]
              /\ 1 \in 1 .. Len(queue)
            BY <1>1, Taken DEF Get, TypeOK
        <3>2. Head(queue) \in Items \ yielded
            BY <2>2, <3>1 DEF IterInv, ItemsInOnePlace
        <3>3. Phase = "asked" /\ Phase' = "given" /\ yielded' = yielded \cup {Head(queue)}
            BY <1>1, <2>2 DEF Get, Phase
        <3> QED BY <3>2, <3>3 DEF Stream!Next, Stream!Yield
    <2> QED BY <2>1, <2>2
<1>2. CASE Resume
    BY <1>2 DEF Resume, Phase, Stream!Next, Stream!Ask
<1>3. CASE Close \/ SetStop \/ Drained \/ Join
    BY <1>3 DEF Close, SetStop, Drained, Join, Phase, Stream!Next, Stream!End
<1>4. CASE Drain \/ Scheduler \/ HandOver \/ Manager \/ (\E w \in Workers : Worker(w)) \/ UNCHANGED vars
    <2>1. UNCHANGED clientVars
        BY <1>4 DEF Drain, Scheduler, Submit, Waited, Terminate, Sentinel, HandOver, Manager, PutAdrift,
                    Worker, Take, Start, Fetch, NextItem, Put, vars
    <2> QED BY <2>1 DEF clientVars, Phase
<1> QED BY <1>1, <1>2, <1>3, <1>4 DEF Next, Generator

(* The pool of page workers, with its shutdown, implements ItemStream: the   *)
(* client is given items of the listing, each at most once, and nothing      *)
(* after the end.                                                            *)
THEOREM IterStreams == Spec => Streams
<1>1. Init => Stream!Init BY StreamInit
<1>2. TypeOK /\ IterInv /\ [Next]_vars => [Stream!Next]_<<yielded, Phase>> BY StreamStep
<1> QED BY <1>1, <1>2, IterTypes, IterInvHolds, PTL DEF Spec, Streams, Stream!Spec

-----------------------------------------------------------------------------
LEMMA PageStart ==
    ASSUME NEW p \in Nat
    PROVE  PageItems(p + 1) = p * PageSize + 1 .. LastOf(p + 1)
<1>1. PageSize \in Nat BY IterAssumption
<1> QED BY <1>1 DEF PageItems

(* The limits of the pages: every item is on one of the pages 1 .. NPages.  *)
LEMMA EveryItemOnAPage ==
    ASSUME NEW i \in Items
    PROVE  \E p \in 1 .. NPages : i \in PageItems(p)
<1> DEFINE q == (i - 1) \div PageSize
           r == (Total - 1) \div PageSize
<1>1. Total \in Nat /\ PageSize \in Nat /\ PageSize > 0 /\ i \in Nat /\ 1 <= i /\ i <= Total
    BY IterAssumption DEF Items
<1>2. q \in Nat /\ PageSize * q <= i - 1 /\ i - 1 < PageSize * q + PageSize
    BY <1>1, SMTT(30)
<1>3. r \in Nat /\ PageSize * r <= Total - 1 /\ Total - 1 < PageSize * r + PageSize
    BY <1>1, SMTT(30)
<1> HIDE DEF q
<1>4. q <= r
    <2> HIDE DEF r
    <2> SUFFICES ASSUME q >= r + 1 PROVE FALSE
        BY <1>2, <1>3
    <2>1. PageSize * q >= PageSize * (r + 1)
        BY <1>1, <1>2, <1>3, SMTT(30)
    <2>2. PageSize * (r + 1) = PageSize * r + PageSize
        BY <1>1, <1>3
    <2> QED BY <1>1, <1>2, <1>3, <2>1, <2>2
<1>5. q + 1 \in 1 .. NPages
    BY <1>2, <1>3, <1>4 DEF NPages
<1>6. (q + 1) * PageSize = PageSize * q + PageSize
    BY <1>1, <1>2
<1>7. i \in PageItems(q + 1)
    <2>1. PageItems(q + 1) = PageSize * q + 1 .. LastOf(q + 1)
        <3>1. PageItems(q + 1) = q * PageSize + 1 .. LastOf(q + 1)
            BY <1>2, PageStart
        <3> QED BY <1>1, <1>2, <3>1
    <2>2. LastOf(q + 1) = IF PageSize * q + PageSize < Total THEN PageSize * q + PageSize ELSE Total
        BY <1>6 DEF LastOf
    <2>3. PageSize * q \in Nat
        BY <1>1, <1>2
    <2> QED BY <1>1, <1>2, <2>1, <2>2, <2>3
<1> QED BY <1>5, <1>7

(* The pool is given all pages unless the client has signalled to stop.      *)
PagesGiven == sched \in {"sentinel", "ended"} /\ ~stop => submitted = NPages

LEMMA PagesGivenStep == PagesGiven /\ [Next]_vars => PagesGiven'
<1> SUFFICES ASSUME PagesGiven, [Next]_vars PROVE PagesGiven' OBVIOUS
<1>1. CASE UNCHANGED vars
    BY <1>1 DEF vars, schedVars, PagesGiven
<1>2. CASE Generator \/ Resume \/ Close
    BY <1>2 DEF Generator, Get, SetStop, Drain, Drained, Join, Resume, Close, schedVars, PagesGiven
<1>3. CASE Scheduler
    BY <1>3 DEF Scheduler, Submit, Waited, Terminate, Sentinel, PagesGiven
<1>4. CASE HandOver \/ Manager
    BY <1>4 DEF HandOver, Manager, PutAdrift, schedVars, PagesGiven
<1>5. ASSUME NEW w \in Workers, Worker(w) PROVE PagesGiven'
    BY <1>5 DEF Worker, Take, Start, Fetch, NextItem, Put, schedVars, PagesGiven
<1> QED BY <1>1, <1>2, <1>3, <1>4, <1>5 DEF Next

(* An iteration that nobody stopped has given all items to the pool, for     *)
(* listings and pages of any size, the empty listing included.               *)
THEOREM IterAllSubmitted == Spec => []AllSubmitted
<1>1. Init => PagesGiven
    BY DEF Init, PagesGiven
<1>2. PagesGiven => AllSubmitted
    <2> SUFFICES ASSUME PagesGiven, sched \in {"sentinel", "ended"}, ~stop
                 PROVE  Items = UNION {PageItems(p) : p \in 1 .. NPages}
        BY DEF PagesGiven, AllSubmitted
    <2>1. Items \subseteq UNION {PageItems(p) : p \in 1 .. NPages}
        BY EveryItemOnAPage
    <2>2. ASSUME NEW p \in 1 .. NPages PROVE PageItems(p) \subseteq Items
        <3>1. p - 1 \in Nat /\ p = (p - 1) + 1
            BY PagesAreNat
        <3> QED BY <3>1, PageBounds
    <2> QED BY <2>1, <2>2
<1> QED BY <1>1, <1>2, PagesGivenStep, PTL DEF Spec
=============================================================================
