----------------------------- MODULE IterMulti ------------------------------
(***************************************************************************)
(* The multiprocessed iterators of the client library.  The generator that *)
(* the client iterates over starts a process, the scheduler, which hands   *)
(* the pages of the listing to a pool of worker processes.  The workers    *)
(* fetch pages and put their items in one bounded queue, which lives in a  *)
(* manager process and from which the generator takes them.  When all      *)
(* pages have been handed over, or when the client closes the generator,   *)
(* the scheduler leaves the with block of the pool, which terminates the   *)
(* workers, and puts a sentinel in the queue.                              *)
(*                                                                         *)
(* The listing has Total items when the iteration begins and does not      *)
(* change; item i is the i-th of it.  What the items are, and errors that  *)
(* are returned in place of an item, are left out.                         *)
(***************************************************************************)
EXTENDS Integers, Sequences

CONSTANTS
    Total,          \* number of items of the listing
    PageSize,       \* page_size
    Workers,        \* the worker processes, max_workers of them
    QueueSize,      \* max_result_queue_size
    TaskQueueSize,  \* max_task_queue_size
    FetchFails,     \* may a page be unavailable?
    None            \* the sentinel

ASSUME IterAssumption ==
    /\ Total \in Nat
    /\ PageSize \in Nat \ {0}
    /\ QueueSize \in Nat \ {0}
    /\ TaskQueueSize \in Nat
    /\ FetchFails \in BOOLEAN
    /\ None \notin Int

VARIABLES
    client,     \* where the generator is
    yielded,    \* history: the items that the client was given
    queue,      \* the result queue
    stop,       \* namespace.stop
    sched,      \* where the scheduler is
    submitted,  \* pages 1 .. submitted were given to the pool
    handed,     \* pages 1 .. handed have left pool._taskqueue
    taken,      \* pages 1 .. taken were taken by a worker
    worker,     \* worker[w]: where w is
    page,       \* page[w]: the page it works on
    item,       \* item[w]: the item whose turn it is
    adrift      \* items that the manager will put for workers that are gone

clientVars == <<client, yielded>>
schedVars == <<sched, submitted>>
poolVars == <<handed, taken, worker, page, item, adrift>>
vars == <<clientVars, queue, stop, schedVars, poolVars>>

-----------------------------------------------------------------------------
Items == 1 .. Total

(* Mutant: a page too few. *)
LastPageDropped == Total \div PageSize

NPages == (Total - 1) \div PageSize + 1

LastOf(p) == IF p * PageSize < Total THEN p * PageSize ELSE Total

PageItems(p) == (p - 1) * PageSize + 1 .. LastOf(p)

Init ==
    /\ client = "get"
    /\ yielded = {}
    /\ queue = <<>>
    /\ stop = FALSE
    /\ sched = "loop"
    /\ submitted = 0
    /\ handed = 0
    /\ taken = 0
    /\ worker = [w \in Workers |-> "idle"]
    /\ page = [w \in Workers |-> 0]
    /\ item = [w \in Workers |-> 0]
    /\ adrift = {}

(* queue.put() blocks while the queue is full. *)
PutOk == Len(queue) < QueueSize

-----------------------------------------------------------------------------
(* The generator. *)

(* queue.get() returns an item, which is yielded, or the sentinel. *)
Get ==
    /\ client = "get" /\ queue # <<>>
    /\ queue' = Tail(queue)
    /\ IF Head(queue) = None
       THEN client' = "stop" /\ UNCHANGED yielded
       ELSE client' = "item" /\ yielded' = yielded \cup {Head(queue)}
    /\ UNCHANGED <<stop, schedVars, poolVars>>

(* The client asks for the next item. *)
Resume ==
    /\ client = "item"
    /\ client' = "get"
    /\ UNCHANGED <<yielded, queue, stop, schedVars, poolVars>>

(* The client leaves its loop: GeneratorExit. *)
Close ==
    /\ client = "item"
    /\ client' = "stop"
    /\ UNCHANGED <<yielded, queue, stop, schedVars, poolVars>>

SetStop ==
    /\ client = "stop"
    /\ stop' = TRUE
    /\ client' = "drain"
    /\ UNCHANGED <<yielded, queue, schedVars, poolVars>>

(* Nobody else takes from the queue: between qsize() and get() it only grows. *)
Drain ==
    /\ client = "drain" /\ queue # <<>>
    /\ queue' = Tail(queue)
    /\ UNCHANGED <<clientVars, stop, schedVars, poolVars>>

Drained ==
    /\ client = "drain" /\ queue = <<>>
    /\ client' = "join"
    /\ UNCHANGED <<yielded, queue, stop, schedVars, poolVars>>

Join ==
    /\ client = "join" /\ sched = "ended"
    /\ client' = "done"
    /\ UNCHANGED <<yielded, queue, stop, schedVars, poolVars>>

Generator == Get \/ SetStop \/ Drain \/ Drained \/ Join

-----------------------------------------------------------------------------
(* The scheduler. *)

Submit ==
    /\ sched = "loop" /\ submitted < NPages /\ ~stop
    /\ submitted' = submitted + 1
    /\ sched' = "wait"
    /\ UNCHANGED <<clientVars, queue, stop, poolVars>>

(* As long as too many tasks are queued, it waits and looks for the signal. *)
Waited ==
    /\ sched = "wait"
    /\ submitted - handed <= TaskQueueSize \/ stop
    /\ sched' = "loop"
    /\ UNCHANGED <<submitted, clientVars, queue, stop, poolVars>>

(* The with block is left: Pool.__exit__() is terminate().  The workers are  *)
(* killed wherever they are; a put() that has reached the manager is still   *)
(* carried out by it.                                                        *)
Terminate ==
    /\ sched = "loop" /\ (submitted = NPages \/ stop)
    /\ sched' = "sentinel"
    /\ worker' = [w \in Workers |-> "killed"]
    /\ \E sent \in SUBSET {w \in Workers : worker[w] = "put"} :
            adrift' = {item[w] : w \in sent}
    /\ UNCHANGED <<submitted, clientVars, queue, stop, handed, taken, page, item>>

(* Mutant: the sentinel is not waited with until there is room. *)
SentinelUnlessFull ==
    /\ sched = "sentinel"
    /\ queue' = IF PutOk THEN Append(queue, None) ELSE queue
    /\ sched' = "ended"
    /\ UNCHANGED <<submitted, clientVars, stop, poolVars>>

Sentinel ==
    /\ sched = "sentinel" /\ PutOk
    /\ queue' = Append(queue, None)
    /\ sched' = "ended"
    /\ UNCHANGED <<submitted, clientVars, stop, poolVars>>

Scheduler == Submit \/ Waited \/ Terminate \/ Sentinel

-----------------------------------------------------------------------------
(* The pool and the manager. *)

PoolRuns == sched \in {"loop", "wait"}

(* The task handler thread moves a task to the pipe to the workers. *)
HandOver ==
    /\ PoolRuns /\ handed < submitted
    /\ handed' = handed + 1
    /\ UNCHANGED <<clientVars, queue, stop, schedVars, taken, worker, page, item, adrift>>

Move(w, to) == worker' = [worker EXCEPT ![w] = to]

(* Mutant: two workers may be given the same page. *)
TakeShared(w) ==
    /\ worker[w] = "idle" /\ taken < handed
    /\ taken' \in {taken, taken + 1}
    /\ page' = [page EXCEPT ![w] = taken + 1]
    /\ Move(w, "start")
    /\ UNCHANGED <<clientVars, queue, stop, schedVars, handed, item, adrift>>

Take(w) ==
    /\ worker[w] = "idle" /\ taken < handed
    /\ taken' = taken + 1
    /\ page' = [page EXCEPT ![w] = taken + 1]
    /\ Move(w, "start")
    /\ UNCHANGED <<clientVars, queue, stop, schedVars, handed, item, adrift>>

Start(w) ==
    /\ worker[w] = "start"
    /\ Move(w, IF stop THEN "idle" ELSE "fetch")
    /\ UNCHANGED <<clientVars, queue, stop, schedVars, handed, taken, page, item, adrift>>

(* A page that cannot be fetched is logged and skipped. *)
Fetch(w) ==
    /\ worker[w] = "fetch"
    /\ \/ /\ item' = [item EXCEPT ![w] = (page[w] - 1) * PageSize + 1]
          /\ Move(w, "next")
       \/ FetchFails /\ Move(w, "idle") /\ UNCHANGED item
    /\ UNCHANGED <<clientVars, queue, stop, schedVars, handed, taken, page, adrift>>

(* Mutant: the signal is not looked at between items. *)
ItemsLeftUnsignalled(w) == item[w] <= LastOf(page[w])

ItemsLeft(w) == item[w] <= LastOf(page[w]) /\ ~stop

NextItem(w) ==
    /\ worker[w] = "next"
    /\ Move(w, IF ItemsLeft(w) THEN "put" ELSE "idle")
    /\ UNCHANGED <<clientVars, queue, stop, schedVars, handed, taken, page, item, adrift>>

Put(w) ==
    /\ worker[w] = "put" /\ PutOk
    /\ queue' = Append(queue, item[w])
    /\ item' = [item EXCEPT ![w] = @ + 1]
    /\ Move(w, "next")
    /\ UNCHANGED <<clientVars, stop, schedVars, handed, taken, page, adrift>>

PutAdrift(i) ==
    /\ i \in adrift /\ PutOk
    /\ queue' = Append(queue, i)
    /\ adrift' = adrift \ {i}
    /\ UNCHANGED <<clientVars, stop, schedVars, handed, taken, worker, page, item>>

Worker(w) == Take(w) \/ Start(w) \/ Fetch(w) \/ NextItem(w) \/ Put(w)

Manager == \E i \in adrift : PutAdrift(i)

-----------------------------------------------------------------------------
Next ==
    \/ Generator \/ Resume \/ Close
    \/ Scheduler \/ HandOver \/ Manager
    \/ \E w \in Workers : Worker(w)

(* Every process goes on as long as it can.  The client need not: nothing is *)
(* said of Resume and Close.                                                 *)
Fairness ==
    /\ WF_vars(Generator) /\ WF_vars(Scheduler) /\ WF_vars(HandOver) /\ WF_vars(Manager)
    /\ \A w \in Workers : WF_vars(Worker(w))

Spec == Init /\ [][Next]_vars /\ Fairness

-----------------------------------------------------------------------------
TypeOK ==
    /\ client \in {"get", "item", "stop", "drain", "join", "done"}
    /\ yielded \subseteq Items
    /\ queue \in Seq(Items \cup {None}) /\ Len(queue) <= QueueSize
    /\ stop \in BOOLEAN
    /\ sched \in {"loop", "wait", "sentinel", "ended"}
    /\ submitted \in 0 .. NPages
    /\ handed \in 0 .. submitted
    /\ taken \in 0 .. handed
    /\ worker \in [Workers -> {"idle", "start", "fetch", "next", "put", "killed"}]
    /\ page \in [Workers -> 0 .. taken]
    /\ item \in [Workers -> Nat]
    /\ adrift \subseteq Items

(* The client gets items of the listing, each at most once, although any     *)
(* worker puts any page at any time, and killed workers leave items behind.  *)
(* See ItemStream.                                                           *)
Phase == IF client = "get" THEN "asked" ELSE IF client = "item" THEN "given" ELSE "ended"

Stream == INSTANCE ItemStream WITH Items <- Items, yielded <- yielded, phase <- Phase

Streams == Stream!Spec

(* The items that w has not put yet. *)
Pending(w) ==
    IF worker[w] \in {"start", "fetch"} THEN PageItems(page[w])
    ELSE IF worker[w] \in {"next", "put"} THEN item[w] .. LastOf(page[w])
    ELSE {}

(* Every item is in one place: with the client, in one position of the       *)
(* queue, with the manager, with one worker, or on a page not yet taken.     *)
ItemsInOnePlace ==
    /\ adrift \cap yielded = {}
    /\ \A k \in 1 .. Len(queue) : queue[k] \notin yielded \cup adrift
    /\ \A j \in 1 .. Len(queue), k \in 1 .. Len(queue) :
          queue[j] = queue[k] /\ queue[j] # None => j = k
    /\ \A w \in Workers : \A i \in Pending(w) :
          /\ i \notin yielded \cup adrift
          /\ \A k \in 1 .. Len(queue) : queue[k] # i
          /\ \A v \in Workers \ {w} : i \notin Pending(v)
    /\ \A i \in Items : i > taken * PageSize =>
          /\ i \notin yielded \cup adrift
          /\ \A k \in 1 .. Len(queue) : queue[k] # i
          /\ \A w \in Workers : i \notin Pending(w)

PoolSound ==
    /\ IF PoolRuns THEN adrift = {} ELSE \A w \in Workers : worker[w] = "killed"
    /\ \A w \in Workers :
          /\ Pending(w) \subseteq Items
          /\ worker[w] \in {"start", "fetch", "next", "put"} => page[w] # 0
          /\ worker[w] = "put" => item[w] \in Pending(w)

(* The inductive invariant of the proofs: a worker, the manager and the      *)
(* queue never hold the same item.                                           *)
IterInv == ItemsInOnePlace /\ PoolSound

(* An iteration that nobody stopped has given all items of the listing to    *)
(* the pool, wherever the pages' limits fall.                                *)
AllSubmitted ==
    sched \in {"sentinel", "ended"} /\ ~stop =>
        Items = UNION {PageItems(p) : p \in 1 .. submitted}

(* A client that waits for an item gets one, or the iteration ends: the      *)
(* generator does not wait for ever on a queue that nobody fills.            *)
NextReturns == client = "get" ~> client # "get"

(* Closing the generator returns: it does not wait for ever for a scheduler  *)
(* that waits for room in a queue that nobody empties any more.              *)
CloseReturns == client = "stop" ~> client = "done"

(* "assert i == d1_test.mock_api.list_objects.N_TOTAL - 1" (the test of      *)
(* ObjectListIteratorMulti): a client that iterates to the end has been      *)
(* given every item.                                                         *)
AllYielded == [][client = "get" /\ client' = "stop" => yielded = Items]_vars
=============================================================================
