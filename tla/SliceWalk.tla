----------------------------- MODULE SliceWalk ------------------------------
(***************************************************************************)
(* Listing the objects or the log records of a Member Node in slices:      *)
(*   - the node's slices, and its cache of the last row of each slice:     *)
(*     d1_gmn/app/views/slice.py, query_object_list() of views/util.py,    *)
(*     get_log() of views/external.py, _serialize_object() of              *)
(*     middleware/response_handler.py;                                     *)
(*   - the clients that walk through the slices: ObjectListIterator and    *)
(*     LogRecordIterator of d1_client/iter/objectlist.py and logrecord.py. *)
(* A request counts the rows, selects a slice and caches its last row, each *)
(* in a statement of its own, between which other requests change the rows. *)
(* Each process of the server has a cache of its own (LocMemCache).        *)
(***************************************************************************)
EXTENDS Integers, FiniteSets, SequencesExt

CONSTANTS
    Kinds,     \* what is listed: "objects" or "log"
    Process,   \* the processes of the server
    Client,
    PageSize,  \* the number of rows that each client asks for
    MaxSlice,  \* MAX_SLICE_ITEMS
    None,      \* no cache entry, no process
    Times,     \* the time stamps of rows
    InitialRows,  \* the rows there may be at first
    MaxId,     \* bound: rows created
    MaxSteps   \* bound: changes to the rows, and cache entries that expire

Row == [ts : Times, id : 1 .. MaxId]
Position == 0 .. MaxId

ASSUME SliceConstants ==
    /\ Kinds \subseteq {"objects", "log"}
    /\ PageSize \in [Client -> Nat \ {0}]
    /\ Times \subseteq Nat
    /\ MaxSlice \in Nat \ {0} /\ MaxId \in Nat /\ MaxSteps \in Nat
    /\ None \notin Row \cup Nat \cup Process
    /\ \A S \in InitialRows : /\ S \subseteq Row
                            /\ {r.id : r \in S} = 1 .. Cardinality(S)
                            /\ \A r \in S, s \in S : r.id = s.id => r = s

VARIABLES
    kind,   \* what is listed in this behaviour
    rows,   \* the rows that the clients may read
    lastId, \* the id of the row created last
    cache,  \* the last row of the slice before a position, by process, position and total
    appendOnly,  \* no row has been stored but after all others, or changed or gone
    walk,   \* the clients' iterators and the requests they are waiting for
    steps   \* the bound's counter

vars == <<kind, rows, lastId, appendOnly, cache, walk, steps>>

(* ORDER BY timestamp, id *)
Before(r, s) == r.ts < s.ts \/ (r.ts = s.ts /\ r.id < s.id)

Increasing(seq) == \A i \in DOMAIN seq, j \in DOMAIN seq : i < j => Before(seq[i], seq[j])

Ordered(S) == CHOOSE o \in [1 .. Cardinality(S) -> S] : Increasing(o)

(* A walk notes what happens while it lasts. switched: its slices have come  *)
(* from more than one process; moved: the rows whose time stamps have        *)
(* changed; expired: cache entries have gone; disturbed: more than that,     *)
(* which is told apart no further.                                           *)
Idle == [phase |-> "idle", start |-> 0, total |-> None, got |-> <<>>,
         process |-> None, count |-> 0, counted |-> 0, last |-> None, slice |-> <<>>,
         switched |-> FALSE, moved |-> {}, expired |-> FALSE, disturbed |-> FALSE]

Phases == {"idle", "open", "next", "select", "respond"}

Walk == [phase : Phases, start : Position, total : Position \cup {None}, got : Seq(Row),
         process : Process \cup {None}, count : Int, counted : Position,
         last : Row \cup {None}, slice : Seq(Row), switched : BOOLEAN,
         moved : SUBSET (1 .. MaxId), expired : BOOLEAN, disturbed : BOOLEAN]

TypeOK ==
    /\ kind \in Kinds
    /\ rows \subseteq Row
    /\ lastId \in 0 .. MaxId
    /\ appendOnly \in BOOLEAN
    /\ cache \in [Process -> [Position \X Position -> Row \cup {None}]]
    /\ steps \in 0 .. MaxSteps
    /\ walk \in [Client -> Walk]
    /\ \A c \in Client : Len(walk[c].slice) <= MaxSlice

Active(c) == walk[c].phase # "idle"

InFlight(c) == walk[c].phase \in {"select", "respond"}

Disturbed(w) == [w EXCEPT !.disturbed = TRUE, !.moved = {}, !.expired = FALSE]

(* The walks but c's notice a step of c's. *)
Notice(w, c) ==
    [d \in Client |-> IF d # c /\ Active(d) THEN Disturbed(w[d]) ELSE w[d]]
-----------------------------------------------------------------------------
(* The rows.                                                               *)

Change(Noted(_)) ==
    /\ steps < MaxSteps
    /\ steps' = steps + 1
    /\ walk' = [c \in Client |->
                  IF ~Active(c) \/ walk[c].disturbed THEN walk[c] ELSE Noted(walk[c])]
    /\ UNCHANGED kind

(* An object or an event is stored. Its time stamp may lie in the past: that *)
(* of an import, or of a transaction that commits late.                      *)
Insert ==
    /\ lastId < MaxId
    /\ \E t \in Times :
          /\ rows' = rows \cup {[ts |-> t, id |-> lastId + 1]}
          /\ appendOnly' = (appendOnly /\ \A r \in rows : r.ts <= t)
    /\ lastId' = lastId + 1
    /\ Change(Disturbed)
    /\ UNCHANGED cache

(* An object is deleted, with its log records, or becomes unreadable. *)
Delete ==
    /\ \E r \in rows : rows' = rows \ {r}
    /\ appendOnly' = FALSE
    /\ UNCHANGED lastId
    /\ Change(Disturbed)
    /\ UNCHANGED cache

(* _update_modified_timestamp() *)
Touch ==
    /\ kind = "objects"
    /\ \E r \in rows, t \in Times :
          /\ \A s \in rows : s.ts < t
          /\ rows' = (rows \ {r}) \cup {[r EXCEPT !.ts = t]}
          /\ Change(LAMBDA w : IF w.expired THEN Disturbed(w) ELSE [w EXCEPT !.moved = @ \cup {r.id}])
    /\ appendOnly' = FALSE
    /\ UNCHANGED <<lastId, cache>>

(* A process drops an entry that is too old, or more than it has room for. *)
Expire ==
    /\ \E p \in Process, k \in Position \X Position :
          /\ cache[p][k] # None
          /\ cache' = [cache EXCEPT ![p][k] = None]
    /\ Change(LAMBDA w : IF w.moved # {} THEN Disturbed(w) ELSE [w EXCEPT !.expired = TRUE])
    /\ UNCHANGED <<rows, lastId, appendOnly>>
-----------------------------------------------------------------------------
(* The node: one request of client c.                                      *)

Total == Cardinality(rows)

(* _gen_cache_key_for_slice(), for one URL and one set of subjects. *)
Key(start, total) == <<start, total>>

(* Variant: rows with the time stamp of the last one are skipped. *)
AfterLaterOnly(r, last) == last.ts < r.ts

(* The condition of _add_fast_slice_filter(). *)
After(r, last) == last.ts < r.ts \/ (last.ts = r.ts /\ last.id < r.id)

(* Variant: as many rows as are asked for and left. *)
CountUncapped(start, count, total) ==
    IF start + count > total THEN total - start ELSE count

(* _adjust_count_if_required() *)
Count(start, count, total) ==
    LET left == IF start + count > total THEN total - start ELSE count
    IN  IF left < MaxSlice THEN left ELSE MaxSlice

(* _assert_valid_start() *)
InvalidStart(start, total) == total # 0 /\ start >= total

(* The total is counted, start checked and the cache asked. *)
BeginRequest(c) ==
    /\ walk[c].phase = "next"
    /\ LET w == walk[c]
       IN  walk' = Notice(
             [walk EXCEPT ![c] =
                IF InvalidStart(w.start, Total) THEN Idle  \* InvalidRequest
                ELSE [w EXCEPT !.phase = "select",
                               !.counted = Total,
                               !.count = Count(w.start, PageSize[c], Total),
                               !.last = cache[w.process][Key(w.start, Total)]]],
             c)
    /\ UNCHANGED <<kind, rows, lastId, appendOnly, cache, steps>>

Upto(seq, n) == IF n < Len(seq) THEN n ELSE Len(seq)

(* _add_fast_slice_filter(), _add_fallback_slice_filter() *)
Slice(w) ==
    LET all == Ordered(rows)
        after == Ordered({r \in rows : After(r, w.last)})
    IN  IF w.last # None THEN SubSeq(after, 1, Upto(after, w.count))
        ELSE IF w.count <= 0 THEN <<>>
        ELSE SubSeq(all, w.start + 1, Upto(all, w.start + w.count))

Select(c) ==
    /\ walk[c].phase = "select"
    /\ walk' = Notice([walk EXCEPT ![c].phase = "respond", ![c].slice = Slice(walk[c])],
                      c)
    /\ UNCHANGED <<kind, rows, lastId, appendOnly, cache, steps>>

LastOf(seq) == IF seq = <<>> THEN None ELSE Last(seq)

(* Variants: an entry that is there stays; the position is not advanced; an  *)
(* empty slice is not stored.                                                *)
CachedOnce(w) ==
    [cache EXCEPT ![w.process][Key(w.start + Len(w.slice), w.counted)] =
        IF @ = None THEN LastOf(w.slice) ELSE @]
CachedAtStart(w) ==
    [cache EXCEPT ![w.process][Key(w.start, w.counted)] = LastOf(w.slice)]
CachedUnlessEmpty(w) ==
    [cache EXCEPT ![w.process][Key(w.start + Len(w.slice), w.counted)] =
        IF w.slice = <<>> THEN @ ELSE Last(w.slice)]

(* cache_add_last_in_slice() *)
Cached(w) ==
    [cache EXCEPT ![w.process][Key(w.start + Len(w.slice), w.counted)] = LastOf(w.slice)]
-----------------------------------------------------------------------------
(* The clients.                                                            *)

(* The next request goes to any process. *)
Ask(w, start) ==
    {[w EXCEPT !.phase = "next", !.start = start, !.process = p,
               !.switched = @ \/ w.process \notin {None, p},
               !.count = 0, !.counted = 0, !.last = None, !.slice = <<>>] : p \in Process}

(* An iterator is created: LogRecordIterator asks for the total first.     *)
Open(c) ==
    /\ ~Active(c)
    /\ LET w == [Idle EXCEPT !.phase = "open",
                             !.disturbed = \E d \in Client : InFlight(d)]
       IN  \E next \in IF kind = "log" THEN {w} ELSE Ask(w, 0) :
              walk' = Notice([walk EXCEPT ![c] = next], c)
    /\ UNCHANGED <<kind, rows, lastId, appendOnly, cache, steps>>

(* getLogRecords(start=0, count=0): an empty slice. *)
GetTotal(c) ==
    /\ walk[c].phase = "open"
    /\ \E next \in Ask([walk[c] EXCEPT !.total = Total], 0) :
          walk' = Notice([walk EXCEPT ![c] = next], c)
    /\ UNCHANGED <<kind, rows, lastId, appendOnly, cache, steps>>

(* What has been yielded when the slice has been: LogRecordIterator yields   *)
(* all of it, ObjectListIterator stops at _maxitem, the total of its first   *)
(* slice.                                                                    *)
MaxItem(w) == IF w.total = None THEN w.counted ELSE w.total

Yielded(w) ==
    IF kind = "log" THEN w.got \o w.slice
    ELSE SubSeq(w.got \o w.slice, 1, Upto(w.got \o w.slice, MaxItem(w)))

(* An empty slice ends the iteration over objects, unless it is the first. *)
Finished(w) ==
    IF kind = "log" THEN w.start + Len(w.slice) >= w.total
    ELSE Len(Yielded(w)) >= MaxItem(w) \/ (w.slice = <<>> /\ w.total # None)

Respond(c) ==
    /\ walk[c].phase = "respond"
    /\ cache' = Cached(walk[c])
    /\ \E next \in IF Finished(walk[c]) THEN {Idle}
                   ELSE Ask([walk[c] EXCEPT !.got = Yielded(walk[c]), !.total = MaxItem(walk[c])],
                            walk[c].start + Len(walk[c].slice)) :
          walk' = Notice([walk EXCEPT ![c] = next], c)
    /\ UNCHANGED <<kind, rows, lastId, appendOnly, steps>>
-----------------------------------------------------------------------------
Init ==
    /\ kind \in Kinds
    /\ rows \in InitialRows /\ lastId = Cardinality(rows)
    /\ appendOnly = TRUE
    /\ cache = [p \in Process |-> [k \in Position \X Position |-> None]]
    /\ walk = [c \in Client |-> Idle]
    /\ steps = 0

Step(c) == GetTotal(c) \/ BeginRequest(c) \/ Select(c) \/ Respond(c)

Next ==
    \/ Insert \/ Delete \/ Touch \/ Expire
    \/ \E c \in Client : Open(c) \/ Step(c)

(* The node answers, and a client that waits for an answer goes on. *)
Spec == Init /\ [][Next]_vars /\ \A c \in Client : WF_vars(Step(c))
-----------------------------------------------------------------------------
Ends(c) == Active(c) /\ ~Active(c)'

(* Client c's iteration ends with these rows, and not with an exception. *)
EndsWith(c, seq) == walk[c].phase = "respond" /\ Yielded(walk[c]) = seq

(* The server has as many processes as it is configured to have, and each   *)
(* has a cache of its own: what a walk finds in the cache is its own only if *)
(* the same process answers all of its requests for slices.                 *)
OneProcess(c) == ~walk[c].switched

(* "Retrieving a filtered result set in many small slices gives the same    *)
(* result as retrieving everything in a single call without slicing"        *)
(* (test_slice.py), if one process answers, nothing changes meanwhile and   *)
(* nobody else asks: whatever the caches hold from earlier walks. A walk    *)
(* that goes from process to process may find there the last row of an      *)
(* earlier walk, before rows that have been updated since.                  *)
QuietWalkComplete ==
    [][\A c \in Client :
          Ends(c) /\ OneProcess(c) /\ walk[c].moved = {} /\ ~walk[c].disturbed =>
              EndsWith(c, Ordered(rows))]_vars

(* If rows are only ever appended, every client's slices join up, however    *)
(* many walk at once, and whichever entries expire: the rows in their order, *)
(* at least as many as there were when the walk began.                       *)
AppendedRowsJoinUp ==
    [][\A c \in Client :
          Ends(c) /\ appendOnly =>
              \E n \in MaxItem(walk[c]) .. Total : EndsWith(c, SubSeq(Ordered(rows), 1, n))]_vars

(* What the cached positions are for: a row keeps its place in a walk while  *)
(* rows before it are updated and move to the end of the list. It is         *)
(* returned, and once only, if one process answers the walk; a row that is   *)
(* updated meanwhile may be returned twice or not at all.                    *)
UntouchedRowsOnce ==
    [][\A c \in Client :
          Ends(c) /\ OneProcess(c) /\ ~walk[c].expired /\ ~walk[c].disturbed =>
              \A r \in rows : r.id \notin walk[c].moved =>
                  Cardinality({i \in DOMAIN Yielded(walk[c]) : Yielded(walk[c])[i] = r}) = 1]_vars

(* An iteration ends: also when slices turn out to be empty because the     *)
(* cached positions are out of date, and when the rows dwindle - unless all *)
(* log records go away.                                                     *)
WalksEnd ==
    \A c \in Client : Active(c) ~> ~Active(c) \/ (kind = "log" /\ rows = {})

(* Why these hold. The rows have different ids, a request ends within the    *)
(* list as it was when it was counted, and nothing is cached for the start.  *)
Walking(c) == walk[c].phase \in {"next", "select", "respond"}

Quiet(c) == OneProcess(c) /\ walk[c].moved = {} /\ ~walk[c].disturbed

Undisturbed(c) == OneProcess(c) /\ ~walk[c].expired /\ ~walk[c].disturbed

RowsSound ==
    /\ \A r \in rows : r.id <= lastId
    /\ \A r \in rows, s \in rows : r.id = s.id => r = s

RequestSound(c) ==
    LET w == walk[c]
    IN  /\ w.process \in Process
        /\ w.total # None \/ (w.start = 0 /\ kind = "objects")
        /\ w.phase # "respond" => w.slice = <<>>
        /\ w.phase = "select" =>
              w.count <= MaxSlice /\ (w.count <= 0 \/ w.start + w.count <= w.counted)
        /\ w.phase = "respond" => w.start + Len(w.slice) \in Position

RequestsSound ==
    \A c \in Client :
        /\ walk[c].phase = "open" => kind = "log" /\ walk[c].got = <<>>
        /\ Walking(c) => RequestSound(c)

StartsUncached == \A p \in Process, t \in Position : cache[p][Key(0, t)] = None

SliceInv == TypeOK /\ RowsSound /\ RequestsSound /\ StartsUncached

(* A walk that only appends or nothing disturbs has the first rows, and asks *)
(* for the next: from the row that it had last, or from its position.        *)
Sized(c) == Count(walk[c].start, PageSize[c], walk[c].counted)

JoinsUp(c) ==
    LET w == walk[c]
    IN  /\ w.got = SubSeq(Ordered(rows), 1, w.start)
        /\ w.total = None \/ (w.total <= Total /\ (w.start < w.total \/ (w.start = 0 /\ kind = "log")))
        /\ w.phase \in {"select", "respond"} =>
              w.counted <= Total /\ (w.total = None \/ w.total <= w.counted)
        /\ w.phase = "select" =>
              /\ w.count = Sized(c)
              /\ w.last # None => w.start \in 1 .. Total /\ w.last = Ordered(rows)[w.start]
        /\ w.phase = "respond" =>
              /\ Len(w.slice) = Sized(c)
              /\ w.slice = SubSeq(Ordered(rows), w.start + 1, w.start + Len(w.slice))

CacheJoinsUp ==
    \A p \in Process, k \in Position \X Position :
        cache[p][k] # None => k[1] \in 1 .. Total /\ cache[p][k] = Ordered(rows)[k[1]]

AppendInv ==
    appendOnly => CacheJoinsUp /\ \A c \in Client : Walking(c) => JoinsUp(c)

(* What a quiet walk finds in the cache of its process is its own.           *)
FindsOwn(c) ==
    LET w == walk[c]
    IN  /\ w.total \in {None, Total}
        /\ w.phase \in {"select", "respond"} => w.counted = Total
        /\ w.phase = "next" /\ w.start > 0 =>
              cache[w.process][Key(w.start, Total)] \in {None, Ordered(rows)[w.start]}

QuietInv ==
    \A c \in Client : Walking(c) /\ Quiet(c) => JoinsUp(c) /\ FindsOwn(c)

(* What a walk has is in order, and has every row but those that moved and    *)
(* those after its last one. Before a row that did not move there are only   *)
(* rows that were there when the walk began, all that have moved come after. *)
Given(c) == walk[c].got \o walk[c].slice

Unmoved(c) == {r \in rows : r.id \notin walk[c].moved}

HasUnmoved(c) ==
    \A r \in Unmoved(c) :
        r \in Range(Given(c)) \/ Given(c) = <<>> \/ Before(Last(Given(c)), r)

FromTheBeginning(c) ==
    \E S \in SUBSET Row :
        /\ IsFiniteSet(S) /\ Cardinality(S) = Total /\ Unmoved(c) \subseteq S
        /\ \A r \in Unmoved(c), g \in Range(Given(c)) : Before(g, r) => g \in S

MovedToEnd(c) == \A r \in Unmoved(c), s \in rows \ Unmoved(c) : Before(r, s)

KeepsPlace(c) ==
    LET w == walk[c]
    IN  /\ kind = "log" => w.moved = {}
        /\ Len(w.got) = w.start
        /\ w.total = None \/ (w.total = Total /\ (w.start < w.total \/ (w.start = 0 /\ kind = "log")))
        /\ w.phase \in {"select", "respond"} => w.counted = Total
        /\ w.phase = "next" /\ w.start > 0 => cache[w.process][Key(w.start, Total)] = Last(w.got)
        /\ w.phase = "select" =>
              w.count = Sized(c) /\ w.last = IF w.start = 0 THEN None ELSE Last(w.got)
        /\ w.phase = "respond" =>
              /\ Len(w.slice) <= Sized(c)
              /\ w.slice = <<>> => Total = 0 \/ (w.start > 0 /\ Unmoved(c) \subseteq Range(w.got))

HoldsRows(c) ==
    /\ Increasing(Given(c)) /\ HasUnmoved(c)
    /\ FromTheBeginning(c) /\ MovedToEnd(c) /\ KeepsPlace(c)

UntouchedInv ==
    \A c \in Client : Active(c) /\ Undisturbed(c) =>
        IF walk[c].phase = "open" THEN walk[c].moved = {} ELSE HoldsRows(c)
=============================================================================
