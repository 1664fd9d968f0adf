---------------------------- MODULE RefreshQueue ----------------------------
(***************************************************************************)
(* The System Metadata refresh queue of a Generic Member Node.  The CN     *)
(* announces a new version of a document with                              *)
(* MNStorage.systemMetadataChanged(), which puts a row for the object in   *)
(* the queue.  The command process_refresh_queue is started by cron, reads *)
(* the queued rows once, fetches the document of each from the CN, stores  *)
(* it, and deletes the rows that it is done with.                          *)
(*                                                                         *)
(* A step is a statement or a transaction that other processes see as one. *)
(* The version of a document stands for its contents.  The order in which  *)
(* a run takes its rows, the serial version and the time stamps of a row,  *)
(* and the event log are left out.  The PID of a deleted object is not     *)
(* used again.                                                             *)
(***************************************************************************)
EXTENDS Integers

CONSTANTS
    Pid,            \* the objects
    Runs,           \* processes that execute the command
    None,           \* the PID of no object
    MaxAttempts,    \* SYSMETA_REFRESH_MAX_ATTEMPTS
    MaxVersion,     \* bounds on the versions of each document
    MaxCrashes      \* bound on the crashes of the command

ASSUME RefreshAssumption ==
    /\ None \notin Pid
    /\ MaxAttempts \in Nat \ {0}
    /\ MaxVersion \in [Pid -> Nat]
    /\ MaxCrashes \in Nat

VARIABLES
    cn,        \* cn[p]: version of the CN's document
    due,       \* due[p]: the CN has a version that it has not announced
    sciobj,    \* sciobj[p]: version in the row of the object, or NoObject
    queue,     \* queue[p]: the queue row of the object, or NoRow
    post,      \* post[p]: the row that a request is about to save, or NoRow
    pc,        \* pc[r]: where run r is
    todo,      \* todo[r][p]: the queue row of p as run r holds it, or NoRow
    cur,       \* cur[r]: the object whose turn it is, or None
    doc,       \* doc[r]: the document that was fetched for it
    crashes,   \* how often the command was killed
    lost       \* history: objects whose last notification was lost or given up

nodeVars == <<cn, sciobj>>
postVars == <<due, post>>
runVars == <<pc, todo, cur, doc>>
vars == <<nodeVars, postVars, queue, runVars, crashes, lost>>

-----------------------------------------------------------------------------
Version == Nat
NoObject == -1

Row == [status : {"queued", "completed", "failed"}, attempts : Nat]
NoRow == [status |-> "none", attempts |-> 0]

Exists(p) == sciobj[p] # NoObject

QueuedRows == [p \in Pid |-> IF queue[p].status = "queued" THEN queue[p] ELSE NoRow]
NoRows == [p \in Pid |-> NoRow]

Init ==
    /\ cn = [p \in Pid |-> 0]
    /\ due = [p \in Pid |-> FALSE]
    /\ sciobj = [p \in Pid |-> 0]
    /\ queue = NoRows
    /\ post = NoRows
    /\ pc = [r \in Runs |-> "idle"]
    /\ todo = [r \in Runs |-> NoRows]
    /\ cur = [r \in Runs |-> None]
    /\ doc = [r \in Runs |-> 0]
    /\ crashes = 0
    /\ lost = {}

-----------------------------------------------------------------------------
(* The CN and the requests to the node. *)

(* The document changes at the CN, which will announce it. *)
CnChange(p) ==
    /\ cn[p] < MaxVersion[p]
    /\ cn' = [cn EXCEPT ![p] = @ + 1]
    /\ due' = [due EXCEPT ![p] = TRUE]
    /\ UNCHANGED <<sciobj, queue, post, runVars, crashes, lost>>

(* systemMetadataChanged() for an object that is not there raises NotFound. *)
PostNotFound(p) ==
    /\ due[p] /\ post[p] = NoRow /\ ~Exists(p)
    /\ due' = [due EXCEPT ![p] = FALSE]
    /\ UNCHANGED <<nodeVars, queue, post, runVars, crashes, lost>>

(* get_or_create() creates the row. *)
PostNew(p) ==
    /\ due[p] /\ post[p] = NoRow /\ Exists(p)
    /\ queue[p] = NoRow
    /\ queue' = [queue EXCEPT ![p] = [status |-> "queued", attempts |-> 0]]
    /\ due' = [due EXCEPT ![p] = FALSE]
    /\ lost' = lost \ {p}
    /\ UNCHANGED <<nodeVars, post, runVars, crashes>>

(* A run has fetched the document of p, and is about to store it. *)
Fetched(p) == \E r \in Runs : cur[r] = p /\ pc[r] = "store"

(* get_or_create() gets the row there is, whatever its status.  If the       *)
(* document has been fetched, or the row is done with, the notification      *)
(* makes no difference: it is lost.                                          *)
PostGet(p) ==
    /\ due[p] /\ post[p] = NoRow /\ Exists(p)
    /\ queue[p] # NoRow
    /\ post' = [post EXCEPT ![p] = queue[p]]
    /\ due' = [due EXCEPT ![p] = FALSE]
    /\ lost' = IF queue[p].status = "queued" /\ ~Fetched(p) THEN lost \ {p} ELSE lost \cup {p}
    /\ UNCHANGED <<nodeVars, queue, runVars, crashes>>

(* save() writes all columns of the row back as they were read, and inserts  *)
(* the row if it is gone.  If the object is gone, the request fails.         *)
PostSave(p) ==
    /\ post[p] # NoRow
    /\ queue' = IF Exists(p) THEN [queue EXCEPT ![p] = post[p]] ELSE queue
    /\ post' = [post EXCEPT ![p] = NoRow]
    /\ UNCHANGED <<nodeVars, due, runVars, crashes, lost>>

(* The object is deleted, and its queue row with it. *)
Delete(p) ==
    /\ Exists(p)
    /\ sciobj' = [sciobj EXCEPT ![p] = NoObject]
    /\ queue' = [queue EXCEPT ![p] = NoRow]
    /\ UNCHANGED <<cn, postVars, runVars, crashes, lost>>

-----------------------------------------------------------------------------
(* The command. *)

Move(r, to) == pc' = [pc EXCEPT ![r] = to]

(* The row that run r holds in memory of the object whose turn it is. *)
Held(r) == todo[r][cur[r]]
Hold(r, row) == todo' = [todo EXCEPT ![r] = [@ EXCEPT ![cur[r]] = row]]

(* Run r is done with the object. *)
NextRow(r) ==
    /\ Move(r, "next")
    /\ Hold(r, NoRow)
    /\ cur' = [cur EXCEPT ![r] = None]
    /\ doc' = [doc EXCEPT ![r] = 0]

(* The process ends, and gives up its lock. *)
End(r) ==
    /\ Move(r, "idle")
    /\ todo' = [todo EXCEPT ![r] = NoRows]
    /\ cur' = [cur EXCEPT ![r] = None]
    /\ doc' = [doc EXCEPT ![r] = 0]

(* Mutant: any number of instances may run. *)
LockFreeAlways == TRUE

(* using_single_instance() *)
LockFree == \A r \in Runs : pc[r] = "idle"

(* The command takes the lock and evaluates the query.  If nothing is        *)
(* queued, it ends at once, and deletes nothing.                             *)
Start(r) ==
    /\ pc[r] = "idle" /\ LockFree
    /\ \E p \in Pid : queue[p].status = "queued"
    /\ Move(r, "next")
    /\ todo' = [todo EXCEPT ![r] = QueuedRows]
    /\ UNCHANGED <<nodeVars, postVars, queue, cur, doc, crashes, lost>>

(* The next row.  Its object is looked up outside of the try statement: if   *)
(* it was deleted, the command ends.                                         *)
Turn(r, p) ==
    /\ pc[r] = "next" /\ todo[r][p] # NoRow
    /\ IF Exists(p)
       THEN /\ Move(r, "fetch")
            /\ cur' = [cur EXCEPT ![r] = p]
            /\ UNCHANGED <<todo, doc>>
       ELSE End(r)
    /\ UNCHANGED <<nodeVars, postVars, queue, crashes, lost>>

(* getSystemMetadata() returns the CN's document, or something raises. *)
Fetch(r) ==
    /\ pc[r] = "fetch"
    /\ \/ /\ Exists(cur[r])
          /\ doc' = [doc EXCEPT ![r] = cn[cur[r]]]
          /\ Move(r, "store")
       \/ Move(r, "failed") /\ UNCHANGED doc
    /\ UNCHANGED <<nodeVars, postVars, queue, todo, cur, crashes, lost>>

(* Mutant: the serial version is incremented, as other updates do. *)
StoredIncremented(r) == doc[r] + 1
Stored(r) == doc[r]

(* The transaction of refresh() commits. *)
Store(r) ==
    /\ pc[r] = "store" /\ Exists(cur[r])
    /\ sciobj' = [sciobj EXCEPT ![cur[r]] = Stored(r)]
    /\ queue' = [queue EXCEPT ![cur[r]] = [Held(r) EXCEPT !.status = "completed"]]
    /\ NextRow(r)
    /\ UNCHANGED <<cn, postVars, crashes, lost>>

(* What a rollback leaves in memory.  If the transaction fails after         *)
(* update_request_status() - when the log entry is created, or at the commit *)
(* - the row in memory keeps its new status.                                 *)
RolledBack(r) ==
    \/ UNCHANGED todo
    \/ Hold(r, [Held(r) EXCEPT !.status = "completed"])

(* The transaction of refresh() is rolled back. *)
StoreFails(r) ==
    /\ pc[r] = "store"
    /\ RolledBack(r)
    /\ Move(r, "failed")
    /\ UNCHANGED <<nodeVars, postVars, queue, cur, doc, crashes, lost>>

(* Mutants: attempts are not counted; the limit is off by one. *)
NotCounted(row) == row
Counted(row) == [row EXCEPT !.attempts = @ + 1]
ExhaustedEarly(row) == row.attempts + 1 >= MaxAttempts
Exhausted(row) == row.attempts >= MaxAttempts

(* inc_and_get_failed_attempts() saves the row in memory: as completed, if   *)
(* that is what it says, and the request is lost.  If the object was         *)
(* deleted, this raises again, and the command ends.                         *)
CountFailure(r) ==
    LET row == Counted(Held(r))
    IN  /\ pc[r] = "failed"
        /\ IF Exists(cur[r])
           THEN /\ queue' = [queue EXCEPT ![cur[r]] = row]
                /\ lost' = IF row.status = "completed" THEN lost \cup {cur[r]} ELSE lost
                /\ IF Exhausted(row)
                   THEN Move(r, "giveup") /\ Hold(r, row) /\ UNCHANGED <<cur, doc>>
                   ELSE NextRow(r)
           ELSE End(r) /\ UNCHANGED <<queue, lost>>
        /\ UNCHANGED <<nodeVars, postVars, crashes>>

(* The request is recorded as failed. *)
GiveUp(r) ==
    /\ pc[r] = "giveup"
    /\ IF Exists(cur[r])
       THEN /\ queue' = [queue EXCEPT ![cur[r]] = [Held(r) EXCEPT !.status = "failed"]]
            /\ lost' = lost \cup {cur[r]}
            /\ NextRow(r)
       ELSE End(r) /\ UNCHANGED <<queue, lost>>
    /\ UNCHANGED <<nodeVars, postVars, crashes>>

(* Mutant: the whole queue is emptied. *)
FinishedAll(row) == TRUE
Finished(row) == row.status \in {"completed", "failed"}

(* remove_completed_requests_from_queue(), after the last row. *)
Purge(r) ==
    /\ pc[r] = "next" /\ todo[r] = NoRows
    /\ queue' = [p \in Pid |-> IF Finished(queue[p]) THEN NoRow ELSE queue[p]]
    /\ End(r)
    /\ UNCHANGED <<nodeVars, postVars, crashes, lost>>

(* The command is killed. *)
Crash(r) ==
    /\ pc[r] # "idle" /\ crashes < MaxCrashes
    /\ crashes' = crashes + 1
    /\ End(r)
    /\ UNCHANGED <<nodeVars, postVars, queue, lost>>

-----------------------------------------------------------------------------
Request(p) == PostNotFound(p) \/ PostNew(p) \/ PostGet(p) \/ PostSave(p)

Step(r) ==
    \/ \E p \in Pid : Turn(r, p)
    \/ Fetch(r) \/ Store(r) \/ StoreFails(r) \/ CountFailure(r) \/ GiveUp(r) \/ Purge(r)

Next ==
    \/ \E p \in Pid : CnChange(p) \/ Request(p) \/ Delete(p)
    \/ \E r \in Runs : Start(r) \/ Step(r) \/ Crash(r)

(* cron starts the command again and again, a command that runs goes on,     *)
(* the CN announces what it has to, and a request that is handled ends.      *)
(* Nothing says that the CN changes, or that a fetch or a transaction        *)
(* succeeds.                                                                 *)
Fairness ==
    /\ WF_vars(\E r \in Runs : Start(r))
    /\ \A r \in Runs : WF_vars(Step(r))
    /\ \A p \in Pid : WF_vars(Request(p))

Spec == Init /\ [][Next]_vars /\ Fairness

-----------------------------------------------------------------------------
TypeOK ==
    /\ cn \in [Pid -> Version] /\ \A p \in Pid : cn[p] <= MaxVersion[p]
    /\ due \in [Pid -> BOOLEAN]
    /\ sciobj \in [Pid -> Version \cup {NoObject}] /\ \A p \in Pid : sciobj[p] <= MaxVersion[p]
    /\ queue \in [Pid -> Row \cup {NoRow}]
    /\ post \in [Pid -> Row \cup {NoRow}]
    /\ pc \in [Runs -> {"idle", "next", "fetch", "store", "failed", "giveup"}]
    /\ todo \in [Runs -> [Pid -> Row \cup {NoRow}]]
    /\ cur \in [Runs -> Pid \cup {None}]
    /\ doc \in [Runs -> Version]
    /\ crashes \in 0 .. MaxCrashes
    /\ lost \subseteq Pid

(* A request is recorded as failed only after SYSMETA_REFRESH_MAX_ATTEMPTS   *)
(* failed attempts, whatever the requests that save the row at the same time *)
(* write back.                                                               *)
FailedIsExhausted ==
    \A p \in Pid : queue[p].status = "failed" => queue[p].attempts >= MaxAttempts

(* What makes it so is inductive together with the following.  At most one  *)
(* run is under way, so that the document that a run has fetched stays       *)
(* between the node's and the CN's; rows are as exhausted as they say,       *)
(* those in memory included.                                                 *)
OneRun == \A r, q \in Runs : pc[r] # "idle" /\ pc[q] # "idle" => r = q

RunsSound == \A r \in Runs :
    /\ pc[r] \in {"fetch", "store", "failed", "giveup"} => cur[r] \in Pid /\ Held(r) \in Row
    /\ pc[r] = "store" => doc[r] \in sciobj[cur[r]] .. cn[cur[r]]
    /\ pc[r] = "giveup" => Exhausted(Held(r))
    /\ \A p \in Pid : todo[r][p].status # "failed"

RowsSound == \A p \in Pid :
    /\ sciobj[p] <= cn[p]
    /\ queue[p].status = "failed" => queue[p].attempts >= MaxAttempts
    /\ post[p].status = "failed" => post[p].attempts >= MaxAttempts

(* The inductive invariant of RefreshQueueProofs. *)
RefreshInv == TypeOK /\ OneRun /\ RunsSound /\ RowsSound

(* An object's document moves forward only, to a version of the CN's, and a  *)
(* refresh does not bring a deleted object back.  See SysmetaFollower.       *)
Follower == INSTANCE SysmetaFollower
Follows == Follower!Spec

(* No request stays in the queue for ever, even if the CN never answers. *)
RequestsEnd ==
    \A p \in Pid : queue[p].status = "queued" ~> queue[p].status # "queued"

(* The CN has announced version v of p, and no later one has come to be. *)
Announced(p, v) == cn[p] = v /\ ~due[p]

(* The node has version v of p or a later one, or has no object p any more. *)
Served(p, v) == sciobj[p] >= v \/ ~Exists(p)

(* A version that the CN has announced reaches the node, whatever fails,     *)
(* crashes, and is announced or deleted meanwhile, unless the request is     *)
(* given up (GiveUp) or lost.  The code loses it in two ways: a notification *)
(* that comes while a fetched document is stored, or until the finished row  *)
(* is purged, is dropped (PostGet), and a transaction that fails after its   *)
(* last UPDATE leaves the row completed (CountFailure).                      *)
RequestsServed ==
    \A p \in Pid : \A v \in 1 .. MaxVersion[p] :
        Announced(p, v) ~> Served(p, v) \/ p \in lost

-----------------------------------------------------------------------------
(* What the repository says of the code, and the code does not do.          *)

(* "SysMeta refresh failed and will be retried during next processing", says *)
(* the log when attempts are left: a run that fails to store a document, and *)
(* goes on, leaves the request queued.                                       *)
FailedIsRetried ==
    [][\A r \in Runs : pc[r] = "failed" /\ pc'[r] = "next"
                           => queue'[cur[r]].status = "queued"]_vars

(* It does if no transaction fails after its last UPDATE.  The rows that a   *)
(* run holds in memory then say "queued", as they did when it read them,     *)
(* except one that was completed in memory by a commit that failed: the      *)
(* object of such a row is gone, and stays so.                               *)
NoLateFailure ==
    [][\A r \in Runs : StoreFails(r) /\ Exists(cur[r]) => UNCHANGED todo]_vars

RunQueued(r) ==
    /\ pc[r] \in {"idle", "next"} => cur[r] = None
    /\ \A p \in Pid \ {cur[r]} : todo[r][p].status \in {"queued", "none"}
    /\ pc[r] \in {"fetch", "store"} => Held(r).status = "queued"
    /\ pc[r] = "failed" => Held(r).status = "queued" \/ ~Exists(cur[r])

RowsQueued == \A r \in Runs : RunQueued(r)
=============================================================================
