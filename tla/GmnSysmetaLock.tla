--------------------------- MODULE GmnSysmetaLock ---------------------------
(***************************************************************************)
(* The optimistic lock on System Metadata.  A client changes a document in *)
(* three steps: it reads it, edits it, and sends it back with              *)
(* MNStorage.updateSystemMetadata().  The node accepts it iff its          *)
(* dateSysMetadataModified and the one of the row are the same when        *)
(* rounded to a second.  Between the steps any other request may run.      *)
(*                                                                         *)
(* Only that comparison matters, so the clock is no number: Tick ends the  *)
(* current second, and fresh is the set of identifiers whose rows were     *)
(* given their time stamp in it.  held is the set of documents given to    *)
(* clients whose time stamp still is, rounded, that of the row.            *)
(***************************************************************************)
EXTENDS GmnStore, FiniteSets, Naturals

CONSTANT MaxHeld    \* bound: how many documents clients hold at once

VARIABLES
    held,   \* documents that the node would accept back
    fresh   \* identifiers that were given a time stamp in the current second

lockVars == <<db, files, relinks, held, fresh>>

(* settled: the document was read when the second of its time stamp was over. *)
Held == [doc : Sysmeta, settled : BOOLEAN]

LockInit == Init /\ held = {} /\ fresh = {}

(* The rows of the objects in stamped get a new time stamp.  The documents   *)
(* of these, and of rows that are gone, match no more, but for those whose   *)
(* time stamp is of the current second: to the row, or to one of the same    *)
(* PID that is created again, the new one is equal.                          *)
Restamp(stamped) ==
    /\ held' = {h \in held : h.doc.pid \in fresh \cup (db'.objects \ stamped)}
    /\ fresh' = fresh \cup stamped

(* The current second ends. *)
Tick ==
    /\ fresh # {}
    /\ fresh' = {}
    /\ held' = {h \in held : h.doc.pid \in db.objects}
    /\ UNCHANGED vars

(* MNRead.getSystemMetadata(). *)
GetMeta(p) ==
    /\ db.chain[p] # None
    /\ Cardinality(held) < MaxHeld
    /\ held' = held \cup {[doc |-> CurrentSysmeta(db, p), settled |-> p \notin fresh]}
    /\ UNCHANGED <<vars, fresh>>

(* A request that fails stamps nothing. *)
Stamps(S) == Restamp(IF db' = db THEN {} ELSE S)

CreateObject(p, s) == Create(p, s, FALSE) /\ Stamps({p})

(* update() gives the obsoleted object a new time stamp, too. *)
UpdateObject(old, p, s) == Update(old, p, s, FALSE) /\ Stamps({old, p})

ArchiveObject(x) == Archive(x) /\ Restamp({ResolveSid(db, x)})

(* delete() writes the rows of the neighbours, but not their time stamps. *)
DeleteObject(x) == Delete(x) /\ Restamp({})

(* A document that a client has read comes back with another SID or archived *)
(* flag, and with the revision links it was read with.                       *)
PutHeld(m, s, archived) ==
    LET new == Edited(m, s, archived)
    IN  /\ m.pid \in db.objects
        /\ <<m.obsoletes, m.obsoletedBy>> \in LinksFor(m.pid)
        /\ Replace(new)
        /\ Restamp(IF CreateOrUpdateOk(db, new) THEN {m.pid} ELSE {})

LockNext ==
    \/ Tick
    \/ \E p \in db.objects : GetMeta(p)
    \/ \E p \in Pids, s \in Opt(Sids) : CreateObject(p, s)
    \/ \E old \in db.objects : \E p \in Pids, s \in SidsFor(db, old) :
            UpdateObject(old, p, s)
    \/ \E x \in Did : ArchiveObject(x)
    \/ \E x \in Did : DeleteObject(x)
    \/ \E h \in held : \E s \in SidsFor(db, h.doc.pid), archived \in BOOLEAN :
            PutHeld(h.doc, s, archived)

LockSpec == LockInit /\ [][LockNext]_lockVars

-----------------------------------------------------------------------------

(* The document has the archived flag of the row that it would replace. *)
Current(m) == m.pid \in db.objects => (m.archived <=> m.pid \in db.archived)

(* What the lock does: sending back a document that was read when the second *)
(* of its time stamp was over cannot undo the archive() or the               *)
(* updateSystemMetadata() that another client made since it was read, as     *)
(* long as requests run one after the other.                                 *)
SettledUpdatesKept == \A h \in held : h.settled => Current(h.doc)

(* What the code says of it: "the update is rejected in order to prevent a   *)
(* concurrent update from being lost" (set_mn_controlled_values()), of any   *)
(* document, whenever it was read.                                           *)
NoClientUpdateLost == \A h \in held : Current(h.doc)
=============================================================================
