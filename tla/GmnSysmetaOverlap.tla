-------------------------- MODULE GmnSysmetaOverlap --------------------------
(***************************************************************************)
(* The optimistic lock under requests that overlap.  The node runs each    *)
(* request in a transaction (ATOMIC_REQUESTS) at PostgreSQL's default      *)
(* level, READ COMMITTED, and takes no lock on the rows it reads.  So what *)
(* a request has checked or read may be overwritten by the commit of       *)
(* another one before it writes its own rows.                              *)
(*                                                                         *)
(* updateSystemMetadata() and archive() are split where they have read the *)
(* row; what they do then is one step, as are all other requests.          *)
(***************************************************************************)
EXTENDS MCGmnSysmetaLock

CONSTANT MaxOpen    \* bound: how many requests overlap

(* The requests that have read the row: what they read, and the document or  *)
(* the row that they are to store.                                           *)
VARIABLE open

overlapVars == <<lockVars, open>>

OverlapInit == LockInit /\ open = {}

Opened(request) ==
    /\ Cardinality(open) < MaxOpen
    /\ open' = open \cup {request}
    /\ UNCHANGED lockVars

Closed(request) == open' = open \ {request}

(* The row of p, as the columns of its table have it: the chain is not one.  *)
Row(d, p) == [pid |-> p, obsoletes |-> d.obsoletes[p], obsoletedBy |-> d.obsoletedBy[p],
              archived |-> p \in d.archived]

(* has_matching_modified_timestamp() has let the document pass. *)
BeginPut ==
    \E h \in held : \E s \in SidsFor(db, h.doc.pid), archived \in BOOLEAN :
        /\ h.doc.pid \in db.objects
        /\ Opened([action |-> "put", read |-> Row(db, h.doc.pid),
                   doc |-> Edited(h.doc, s, archived)])

(* create_or_update() looks up the row anew, but does not compare again; it  *)
(* creates the row if the object was deleted meanwhile.                      *)
EndPut ==
    \E r \in open :
        /\ r.action = "put"
        /\ <<r.doc.obsoletes, r.doc.obsoletedBy>> \in LinksFor(r.doc.pid)
        /\ Closed(r)
        /\ Replace(r.doc)
        /\ Restamp(IF CreateOrUpdateOk(db, r.doc) THEN {r.doc.pid} ELSE {})

(* archive_sciobj() has read the row. *)
BeginArchive ==
    \E p \in db.objects \ db.archived :
        /\ p \notin db.replica
        /\ Opened([action |-> "archive", read |-> Row(db, p)])

(* It saves all columns of the row.  The row of an object deleted meanwhile  *)
(* cannot come back, as its PID is gone.                                     *)
Archived(d, row) == [d EXCEPT !.archived = @ \cup {row.pid},
                              !.obsoletes[row.pid] = row.obsoletes,
                              !.obsoletedBy[row.pid] = row.obsoletedBy]

EndArchive ==
    \E r \in open :
        /\ r.action = "archive"
        /\ Closed(r)
        /\ IF r.read.pid \in db.objects /\ UniqueLinks(Archived(db, r.read))
           THEN /\ db' = Archived(db, r.read)
                /\ Restamp({r.read.pid})
                /\ UNCHANGED <<files, relinks>>
           ELSE UNCHANGED lockVars

OverlapNext ==
    \/ BeginPut
    \/ EndPut
    \/ BeginArchive
    \/ EndArchive
    \/ LockNext /\ UNCHANGED open

OverlapSpec == OverlapInit /\ [][OverlapNext]_overlapVars

-----------------------------------------------------------------------------

(* "the update is rejected in order to prevent a concurrent update from      *)
(* being lost" (set_mn_controlled_values()): the row that a request replaces *)
(* is the row that it has read or checked its document against.              *)
RowReplacedWasRead ==
    [][\A r \in open \ open' :
          r.read.pid \in db.objects /\ db' # db => Row(db, r.read.pid) = r.read]_overlapVars
=============================================================================
