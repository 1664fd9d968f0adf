------------------------- MODULE RefreshQueueProofs -------------------------
(***************************************************************************)
(* What is proved of the refresh queue for any objects, any number of      *)
(* processes, any number of attempts, crashes and versions, and with       *)
(* transactions that may fail at any point.                                *)
(***************************************************************************)
EXTENDS RefreshQueue, TLAPS

(* No run has begun. *)
LEMMA InitInv == Init => RefreshInv
  <1> SUFFICES ASSUME Init PROVE RefreshInv
    OBVIOUS
  <1> USE RefreshAssumption DEF Init, Version, NoObject, Row, NoRow, NoRows
  <1>1. TypeOK
    BY DEF TypeOK
  <1>2. OneRun
    BY DEF OneRun
  <1>3. RunsSound
    BY DEF RunsSound
  <1>4. RowsSound
    <2> SUFFICES ASSUME NEW p \in Pid
                 PROVE  /\ sciobj[p] <= cn[p]
                        /\ queue[p].status # "failed" /\ post[p].status # "failed"
      BY Zenon DEF RowsSound
    <2>1. sciobj[p] <= cn[p]
      OBVIOUS
    <2>2. queue[p].status # "failed" /\ post[p].status # "failed"
      OBVIOUS
    <2> QED BY <2>1, <2>2
  <1> QED BY <1>1, <1>2, <1>3, <1>4 DEF RefreshInv

-----------------------------------------------------------------------------
(* Steps of the CN and of requests leave the runs alone. *)
LEMMA RequestInv ==
    ASSUME RefreshInv, NEW p \in Pid, CnChange(p) \/ Request(p) \/ Delete(p)
    PROVE  RefreshInv'
  <1> USE RefreshAssumption DEF Version, NoObject, Row, NoRow, NoRows, Exists, nodeVars, postVars, runVars
  <1>1. CASE CnChange(p)
    <2>1. TypeOK' BY <1>1 DEF CnChange, RefreshInv, TypeOK
    <2>2. OneRun' BY <1>1 DEF CnChange, RefreshInv, OneRun
    <2>3. RunsSound' BY <1>1 DEF CnChange, RefreshInv, RunsSound, TypeOK, Held, Exhausted
    <2>4. RowsSound' BY <1>1 DEF CnChange, RefreshInv, RowsSound, TypeOK
    <2> QED BY <2>1, <2>2, <2>3, <2>4 DEF RefreshInv
  <1>2. CASE PostNotFound(p)
    BY <1>2 DEF PostNotFound, RefreshInv, TypeOK, OneRun, RunsSound, RowsSound, Held, Exhausted
  <1>3. CASE PostNew(p)
    BY <1>3 DEF PostNew, RefreshInv, TypeOK, OneRun, RunsSound, RowsSound, Held, Exhausted
  <1>4. CASE PostGet(p)
    BY <1>4 DEF PostGet, RefreshInv, TypeOK, OneRun, RunsSound, RowsSound, Held, Exhausted
  <1>5. CASE PostSave(p)
    BY <1>5 DEF PostSave, RefreshInv, TypeOK, OneRun, RunsSound, RowsSound, Held, Exhausted
  <1>6. CASE Delete(p)
    <2>1. TypeOK' BY <1>6 DEF Delete, RefreshInv, TypeOK
    <2>2. OneRun' BY <1>6 DEF Delete, RefreshInv, OneRun
    <2>3. RunsSound' BY <1>6 DEF Delete, RefreshInv, RunsSound, TypeOK, Held, Exhausted
    <2>4. RowsSound' BY <1>6 DEF Delete, RefreshInv, RowsSound, TypeOK
    <2> QED BY <2>1, <2>2, <2>3, <2>4 DEF RefreshInv
  <1> QED BY <1>1, <1>2, <1>3, <1>4, <1>5, <1>6 DEF Request

-----------------------------------------------------------------------------
(* Steps of a run.  The others are idle then, and stay so. *)

(* What Hold() changes. *)
LEMMA HoldEffect ==
    ASSUME TypeOK, NEW r \in Runs, cur[r] \in Pid, NEW row \in Row \cup {NoRow}, Hold(r, row)
    PROVE  /\ todo' \in [Runs -> [Pid -> Row \cup {NoRow}]]
           /\ \A q \in Runs \ {r} : todo'[q] = todo[q]
           /\ \A p \in Pid : todo'[r][p] = IF p = cur[r] THEN row ELSE todo[r][p]
  BY DEF TypeOK, Hold

(* A run that holds no row leaves nothing to be known of it. *)
LEMMA EndInv ==
    ASSUME RefreshInv, NEW r \in Runs, End(r), UNCHANGED <<nodeVars, postVars, crashes>>, lost' \subseteq Pid,
           queue' \in [Pid -> Row \cup {NoRow}],
           \A p \in Pid : queue'[p].status = "failed" => queue'[p].attempts >= MaxAttempts
    PROVE  RefreshInv'
  <1> USE RefreshAssumption DEF Version, NoObject, Row, NoRow, NoRows, nodeVars, postVars, End, Move
  <1>1. TypeOK' BY DEF RefreshInv, TypeOK
  <1>2. OneRun' BY DEF RefreshInv, OneRun, TypeOK
  <1>3. RunsSound' BY DEF RefreshInv, RunsSound, TypeOK, Held, Exhausted
  <1>4. RowsSound' BY DEF RefreshInv, RowsSound
  <1> QED BY <1>1, <1>2, <1>3, <1>4 DEF RefreshInv

LEMMA NextRowInv ==
    ASSUME RefreshInv, NEW r \in Runs, pc[r] \in {"store", "failed", "giveup"}, NextRow(r),
           cur[r] \in Pid, UNCHANGED <<cn, postVars, crashes>>, lost' \subseteq Pid,
           sciobj' \in [Pid -> Version \cup {NoObject}],
           \A p \in Pid : sciobj'[p] <= cn[p],
           \A p \in Pid : sciobj'[p] <= MaxVersion[p],
           queue' \in [Pid -> Row \cup {NoRow}],
           \A p \in Pid : queue'[p].status = "failed" => queue'[p].attempts >= MaxAttempts
    PROVE  RefreshInv'
  <1> USE RefreshAssumption DEF Version, NoObject, postVars, NextRow, Move
  <1>0. /\ todo' \in [Runs -> [Pid -> Row \cup {NoRow}]]
        /\ \A q \in Runs \ {r} : todo'[q] = todo[q]
        /\ \A p \in Pid : todo'[r][p] = IF p = cur[r] THEN NoRow ELSE todo[r][p]
    BY HoldEffect DEF RefreshInv
  <1>1. TypeOK'
    <2>1. pc' \in [Runs -> {"idle", "next", "fetch", "store", "failed", "giveup"}]
      BY DEF RefreshInv, TypeOK
    <2>2. cur' \in [Runs -> Pid \cup {None}] /\ doc' \in [Runs -> Version]
      BY DEF RefreshInv, TypeOK
    <2>3. UNCHANGED <<cn, due, post, crashes>>
      OBVIOUS
    <2> HIDE DEF NextRow, Version
    <2> QED BY <1>0, <2>1, <2>2, <2>3 DEF RefreshInv, TypeOK
  <1>2. OneRun' BY DEF RefreshInv, OneRun, TypeOK
  <1>3. RunsSound'
    <2> SUFFICES ASSUME NEW q \in Runs
                 PROVE  /\ pc'[q] \notin {"fetch", "store", "failed", "giveup"}
                        /\ \A p \in Pid : todo'[q][p].status # "failed"
      BY DEF RunsSound
    <2>1. CASE q = r
      <3>1. NoRow.status = "none" BY DEF NoRow
      <3>2. pc'[q] = "next" BY <2>1 DEF RefreshInv, TypeOK
      <3>3. \A p \in Pid : todo'[q][p].status # "failed"
        BY <1>0, <2>1, <3>1 DEF RefreshInv, RunsSound
      <3> QED BY <3>2, <3>3
    <2>2. CASE q # r
      <3>1. pc[q] = "idle" BY <2>2 DEF RefreshInv, OneRun
      <3>2. pc'[q] = "idle" BY <2>2, <3>1 DEF RefreshInv, TypeOK
      <3>3. \A p \in Pid : todo'[q][p].status # "failed"
        BY <1>0, <2>2 DEF RefreshInv, RunsSound
      <3> QED BY <3>2, <3>3
    <2> QED BY <2>1, <2>2
  <1>4. RowsSound' BY DEF RefreshInv, RowsSound
  <1> QED BY <1>1, <1>2, <1>3, <1>4 DEF RefreshInv

LEMMA RunInv ==
    ASSUME RefreshInv, NEW r \in Runs, Start(r) \/ Step(r) \/ Crash(r)
    PROVE  RefreshInv'
  <1> USE RefreshAssumption DEF Version, NoObject, Row, NoRow, Exists, Move
  <1>1. CASE Start(r)
    <2> USE <1>1 DEF Start, nodeVars, postVars
    <2>1. TypeOK' BY DEF RefreshInv, TypeOK, QueuedRows
    <2>2. OneRun' BY DEF RefreshInv, OneRun, TypeOK, LockFree
    <2>3. RunsSound'
      BY DEF RefreshInv, RunsSound, TypeOK, LockFree, QueuedRows
    <2>4. RowsSound' BY DEF RefreshInv, RowsSound
    <2> QED BY <2>1, <2>2, <2>3, <2>4 DEF RefreshInv
  <1>2. ASSUME NEW p \in Pid, Turn(r, p) PROVE RefreshInv'
    <2>1. CASE Exists(p)
      <3>0. /\ pc[r] = "next" /\ pc' = [pc EXCEPT ![r] = "fetch"]
            /\ todo[r][p] # NoRow /\ cur' = [cur EXCEPT ![r] = p]
            /\ UNCHANGED <<cn, sciobj, due, post, queue, todo, doc, crashes, lost>>
        BY <1>2, <2>1 DEF Turn, nodeVars, postVars
      <3> USE <3>0
      <3>1. TypeOK'
        <4>1. cur' \in [Runs -> Pid \cup {None}]
          BY DEF RefreshInv, TypeOK
        <4>2. pc' \in [Runs -> {"idle", "next", "fetch", "store", "failed", "giveup"}]
          BY DEF RefreshInv, TypeOK
        <4> HIDE DEF Row, NoRow, Version, NoObject
        <4> QED BY <4>1, <4>2 DEF RefreshInv, TypeOK
      <3>2. OneRun' BY DEF RefreshInv, OneRun, TypeOK
      <3>3. RunsSound'
        <4>1. pc'[r] = "fetch" /\ cur'[r] = p /\ todo[r][p] \in Row
          BY DEF RefreshInv, TypeOK
        <4>2. \A q \in Runs \ {r} : pc'[q] = pc[q] /\ cur'[q] = cur[q]
          BY DEF RefreshInv, TypeOK
        <4> HIDE DEF Row, NoRow
        <4> QED BY <4>1, <4>2 DEF RefreshInv, RunsSound, Held, Exhausted
      <3>4. RowsSound' BY DEF RefreshInv, RowsSound
      <3> QED BY <3>1, <3>2, <3>3, <3>4 DEF RefreshInv
    <2>2. CASE ~Exists(p)
      BY <1>2, <2>2, EndInv DEF Turn, RefreshInv, TypeOK, RowsSound
    <2> QED BY <2>1, <2>2
  <1>3. CASE Fetch(r)
    <2> USE <1>3 DEF Fetch, nodeVars, postVars
    <2>1. TypeOK' BY DEF RefreshInv, TypeOK, RunsSound
    <2>2. OneRun' BY DEF RefreshInv, OneRun, TypeOK
    <2>3. RunsSound'
      BY DEF RefreshInv, RunsSound, RowsSound, TypeOK, Held, Exhausted
    <2>4. RowsSound' BY DEF RefreshInv, RowsSound
    <2> QED BY <2>1, <2>2, <2>3, <2>4 DEF RefreshInv
  <1>4. CASE Store(r)
    <2>1. pc[r] = "store" /\ cur[r] \in Pid /\ Held(r) \in Row /\ doc[r] <= cn[cur[r]] /\ doc[r] \in Version
      BY <1>4 DEF Store, RefreshInv, RunsSound, TypeOK
    <2>2. /\ sciobj' \in [Pid -> Version \cup {NoObject}]
          /\ \A p \in Pid : sciobj'[p] <= cn[p] /\ sciobj'[p] <= MaxVersion[p]
      BY <1>4, <2>1 DEF Store, Stored, RefreshInv, TypeOK, RowsSound
    <2>3. /\ queue' \in [Pid -> Row \cup {NoRow}]
          /\ \A p \in Pid : queue'[p].status = "failed" => queue'[p].attempts >= MaxAttempts
      BY <1>4, <2>1 DEF Store, RefreshInv, TypeOK, RowsSound
    <2>4. NextRow(r) /\ UNCHANGED <<cn, postVars, crashes>> /\ lost' \subseteq Pid
      BY <1>4 DEF Store, RefreshInv, TypeOK
    <2>5. pc[r] = "store"
      BY <1>4 DEF Store
    <2> HIDE DEF Version, Row, NoRow, NoObject, Exists, Move
    <2> QED BY <2>1, <2>2, <2>3, <2>4, <2>5, NextRowInv
  <1>5. CASE StoreFails(r)
    <2>0. /\ todo' \in [Runs -> [Pid -> Row \cup {NoRow}]]
          /\ \A q \in Runs \ {r} : todo'[q] = todo[q]
          /\ todo'[r][cur[r]] \in Row
          /\ \A p \in Pid : todo'[r][p].status # "failed"
      <3>1. cur[r] \in Pid /\ Held(r) \in Row /\ \A p \in Pid : todo[r][p].status # "failed"
        BY <1>5 DEF StoreFails, RefreshInv, RunsSound
      <3>2. CASE UNCHANGED todo
        BY <3>1, <3>2 DEF RefreshInv, TypeOK, Held
      <3>3. CASE Hold(r, [Held(r) EXCEPT !.status = "completed"])
        <4> DEFINE row == [Held(r) EXCEPT !.status = "completed"]
        <4>1. row \in Row /\ row.status # "failed"
          BY <3>1
        <4>2. Hold(r, row)
          BY <3>3
        <4> HIDE DEF row, Row, NoRow
        <4>3. /\ todo' \in [Runs -> [Pid -> Row \cup {NoRow}]]
              /\ \A q \in Runs \ {r} : todo'[q] = todo[q]
              /\ \A p \in Pid : todo'[r][p] = IF p = cur[r] THEN row ELSE todo[r][p]
          BY <3>1, <4>1, <4>2, HoldEffect DEF RefreshInv
        <4> QED BY <3>1, <4>1, <4>3
      <3> QED BY <1>5, <3>2, <3>3 DEF StoreFails, RolledBack
    <2> USE <1>5, <2>0 DEF StoreFails, nodeVars, postVars
    <2>1. TypeOK' BY DEF RefreshInv, TypeOK
    <2>2. OneRun' BY DEF RefreshInv, OneRun, TypeOK
    <2>3. RunsSound'
      <3>1. pc'[r] = "failed" /\ cur[r] \in Pid
        BY DEF RefreshInv, RunsSound, TypeOK
      <3>2. \A q \in Runs \ {r} : pc'[q] = "idle"
        BY DEF RefreshInv, OneRun, TypeOK
      <3>3. \A q \in Runs : \A p \in Pid : todo'[q][p].status # "failed"
        BY DEF RefreshInv, RunsSound
      <3> HIDE DEF Row, NoRow, StoreFails
      <3>4. UNCHANGED cur /\ todo'[r][cur[r]] \in Row
        BY <2>0 DEF StoreFails
      <3> QED BY <3>1, <3>2, <3>3, <3>4 DEF RunsSound, Held
    <2>4. RowsSound' BY DEF RefreshInv, RowsSound
    <2> QED BY <2>1, <2>2, <2>3, <2>4 DEF RefreshInv
  <1>6. CASE CountFailure(r)
    <2> DEFINE row == Counted(Held(r))
    <2>1. pc[r] = "failed" /\ cur[r] \in Pid /\ row \in Row /\ row.status # "failed"
      BY <1>6 DEF CountFailure, Counted, RefreshInv, RunsSound, Held
    <2>2. CASE ~Exists(cur[r])
      BY <1>6, <2>2, EndInv DEF CountFailure, RefreshInv, TypeOK, RowsSound
    <2>3. CASE Exists(cur[r]) /\ ~Exhausted(row)
      <3>1. /\ queue' = [queue EXCEPT ![cur[r]] = row]
            /\ NextRow(r) /\ UNCHANGED <<nodeVars, postVars, crashes>> /\ lost' \subseteq Pid
        BY <1>6, <2>1, <2>3 DEF CountFailure, RefreshInv, TypeOK
      <3> HIDE DEF row
      <3>2. /\ queue' \in [Pid -> Row \cup {NoRow}]
            /\ \A p \in Pid : queue'[p].status = "failed" => queue'[p].attempts >= MaxAttempts
        BY <2>1, <3>1 DEF RefreshInv, TypeOK, RowsSound
      <3> QED BY <2>1, <3>1, <3>2, NextRowInv DEF RefreshInv, TypeOK, RowsSound, nodeVars
    <2>4. CASE Exists(cur[r]) /\ Exhausted(row)
      <3>1. /\ queue' = [queue EXCEPT ![cur[r]] = row]
            /\ pc' = [pc EXCEPT ![r] = "giveup"]
            /\ todo' = [todo EXCEPT ![r] = [@ EXCEPT ![cur[r]] = row]]
            /\ UNCHANGED <<cur, doc, nodeVars, postVars, crashes>> /\ lost' \subseteq Pid
        BY <1>6, <2>1, <2>4 DEF CountFailure, Hold, RefreshInv, TypeOK
      <3> HIDE DEF row
      <3> USE <2>1, <2>4, <3>1 DEF nodeVars, postVars
      <3>2. TypeOK' BY DEF RefreshInv, TypeOK
      <3>3. OneRun' BY DEF RefreshInv, OneRun, TypeOK
      <3>4. RunsSound'
        BY DEF RefreshInv, RunsSound, TypeOK, Held, Exhausted
      <3>5. RowsSound' BY DEF RefreshInv, RowsSound, TypeOK
      <3> QED BY <3>2, <3>3, <3>4, <3>5 DEF RefreshInv
    <2> QED BY <2>2, <2>3, <2>4
  <1>7. CASE GiveUp(r)
    <2>1. pc[r] = "giveup" /\ cur[r] \in Pid /\ Held(r) \in Row /\ Exhausted(Held(r))
      BY <1>7 DEF GiveUp, RefreshInv, RunsSound
    <2>2. CASE ~Exists(cur[r])
      BY <1>7, <2>2, EndInv DEF GiveUp, RefreshInv, TypeOK, RowsSound
    <2>3. CASE Exists(cur[r])
      <3> DEFINE row == [Held(r) EXCEPT !.status = "failed"]
      <3>1. /\ queue' = [queue EXCEPT ![cur[r]] = row]
            /\ NextRow(r) /\ UNCHANGED <<nodeVars, postVars, crashes>> /\ lost' \subseteq Pid
        BY <1>7, <2>1, <2>3 DEF GiveUp, RefreshInv, TypeOK
      <3>2. row \in Row /\ row.attempts >= MaxAttempts
        BY <2>1 DEF Exhausted
      <3> HIDE DEF row
      <3>3. /\ queue' \in [Pid -> Row \cup {NoRow}]
            /\ \A p \in Pid : queue'[p].status = "failed" => queue'[p].attempts >= MaxAttempts
        BY <2>1, <3>1, <3>2 DEF RefreshInv, TypeOK, RowsSound
      <3> QED BY <2>1, <3>1, <3>3, NextRowInv DEF RefreshInv, TypeOK, RowsSound, nodeVars
    <2> QED BY <2>2, <2>3
  <1>8. CASE Purge(r)
    BY <1>8, EndInv DEF Purge, RefreshInv, TypeOK, RowsSound
  <1>9. CASE Crash(r)
    <2> USE <1>9 DEF Crash, End, NoRows, nodeVars, postVars
    <2>1. TypeOK' BY DEF RefreshInv, TypeOK
    <2>2. OneRun' BY DEF RefreshInv, OneRun, TypeOK
    <2>3. RunsSound' BY DEF RefreshInv, RunsSound, TypeOK, Held, Exhausted
    <2>4. RowsSound' BY DEF RefreshInv, RowsSound
    <2> QED BY <2>1, <2>2, <2>3, <2>4 DEF RefreshInv
  <1> QED BY <1>1, <1>2, <1>3, <1>4, <1>5, <1>6, <1>7, <1>8, <1>9 DEF Step

-----------------------------------------------------------------------------
(* The inductive invariant: one run at a time, what the run holds of the row  *)
(* it works on, and what the rows of the queue say.                          *)
THEOREM RefreshInvariant == Spec => []RefreshInv
  <1>1. RefreshInv /\ [Next]_vars => RefreshInv'
    <2> SUFFICES ASSUME RefreshInv, [Next]_vars PROVE RefreshInv'
      OBVIOUS
    <2>1. CASE UNCHANGED vars
      BY <2>1 DEF vars, nodeVars, postVars, runVars, RefreshInv, TypeOK, OneRun, RunsSound,
                  RowsSound, Held, Exhausted, FailedIsExhausted
    <2>2. CASE Next
      BY <2>2, RequestInv, RunInv DEF Next
    <2> QED BY <2>1, <2>2
  <1> QED BY <1>1, InitInv, PTL DEF Spec

(* Rows, documents and the places of the runs keep their types. *)
THEOREM RefreshTypes == Spec => []TypeOK
  BY RefreshInvariant, PTL DEF RefreshInv

(* A request is recorded as failed only after the configured number of       *)
(* attempts, whatever rows concurrent requests write back.                   *)
THEOREM RefreshExhausts == Spec => []FailedIsExhausted
  <1>1. RefreshInv => FailedIsExhausted
    BY DEF RefreshInv, RowsSound, FailedIsExhausted
  <1> QED BY <1>1, RefreshInvariant, PTL

-----------------------------------------------------------------------------
(* The queue implements the register that follows the CN: every step is a    *)
(* step of SysmetaFollower, or leaves the documents alone.                   *)
LEMMA StoreFollows ==
    ASSUME RefreshInv, NEW r \in Runs, Store(r)
    PROVE  Follower!Follow(cur[r]) /\ cur[r] \in Pid
  <1>1. cur[r] \in Pid /\ doc[r] \in sciobj[cur[r]] .. cn[cur[r]]
    BY DEF Store, RefreshInv, RunsSound
  <1> QED BY <1>1 DEF Store, Stored, Exists, NoObject, Follower!Follow, Follower!NoObject

LEMMA FollowerStep ==
    ASSUME RefreshInv, [Next]_vars
    PROVE  [Follower!Next]_(Follower!vars)
  <1> USE DEF Follower!vars
  <1>1. CASE UNCHANGED vars
    BY <1>1 DEF vars, nodeVars
  <1>2. ASSUME NEW p \in Pid, CnChange(p) PROVE Follower!Next
    BY <1>2 DEF CnChange, Follower!Next, Follower!Change
  <1>3. ASSUME NEW p \in Pid, Delete(p) PROVE Follower!Next
    BY <1>3 DEF Delete, NoObject, Follower!Next, Follower!Delete, Follower!NoObject
  <1>4. ASSUME NEW p \in Pid, Request(p) PROVE UNCHANGED nodeVars
    BY <1>4 DEF Request, PostNotFound, PostNew, PostGet, PostSave
  <1>5. ASSUME NEW r \in Runs, Store(r) PROVE Follower!Next
    BY <1>5, StoreFollows DEF Follower!Next
  <1>6. ASSUME NEW r \in Runs, Start(r) \/ Crash(r) \/ (Step(r) /\ ~Store(r))
        PROVE  UNCHANGED nodeVars
    BY <1>6 DEF Start, Crash, Step, Turn, Fetch, StoreFails, CountFailure, GiveUp, Purge
  <1> QED BY <1>1, <1>2, <1>3, <1>4, <1>5, <1>6 DEF Next, nodeVars

(* The node's documents only move forward, to versions that the CN has had,  *)
(* and deleted objects stay deleted: across retries, crashes, overlapping    *)
(* starts of the command, and deletes at any moment.                         *)
THEOREM RefreshFollows == Spec => Follows
  <1>1. Init => Follower!Init
    BY DEF Init, Follower!Init
  <1>2. RefreshInv /\ [Next]_vars => [Follower!Next]_(Follower!vars)
    BY FollowerStep
  <1> QED BY <1>1, <1>2, RefreshInvariant, PTL DEF Spec, Follows, Follower!Spec

-----------------------------------------------------------------------------
(* A failure is retried.                                                     *)

(* A step that changes nothing of a run, and brings no object back, keeps    *)
(* what is known of the rows of the run.                                     *)
LEMMA OthersQueued ==
    ASSUME RefreshInv, RowsQueued, NEW q \in Runs,
           pc'[q] = pc[q], cur'[q] = cur[q], todo'[q] = todo[q],
           \A p \in Pid : Exists(p)' => Exists(p)
    PROVE  RunQueued(q)'
  BY DEF RefreshInv, RunsSound, RowsQueued, RunQueued, Held

(* A run that is done with a row, or ends. *)
LEMMA NextRowQueued ==
    ASSUME RefreshInv, RowsQueued, NEW r \in Runs, cur[r] \in Pid, NextRow(r)
    PROVE  RunQueued(r)'
  <1>1. pc'[r] = "next" /\ cur'[r] = None
    BY DEF NextRow, Move, RefreshInv, TypeOK
  <1>2. NoRow \in Row \cup {NoRow} /\ Hold(r, NoRow)
    BY DEF NextRow
  <1>3. \A p \in Pid : todo'[r][p] = IF p = cur[r] THEN NoRow ELSE todo[r][p]
    BY <1>2, HoldEffect DEF RefreshInv
  <1> QED BY <1>1, <1>3 DEF RowsQueued, RunQueued, NoRow

LEMMA EndQueued ==
    ASSUME RefreshInv, NEW r \in Runs, End(r)
    PROVE  RunQueued(r)'
  BY RefreshAssumption DEF End, Move, RefreshInv, TypeOK, RunQueued, NoRows, NoRow

(* No step brings a deleted object back, and the steps of a run change       *)
(* nothing of the others.                                                    *)
LEMMA NoneComesBack ==
    ASSUME RefreshInv, Next
    PROVE  \A p \in Pid : Exists(p)' => Exists(p)
  <1>1. ASSUME NEW p \in Pid, CnChange(p) \/ Request(p) PROVE UNCHANGED sciobj
    BY <1>1 DEF CnChange, Request, PostNotFound, PostNew, PostGet, PostSave, nodeVars
  <1>2. ASSUME NEW p \in Pid, Delete(p) PROVE \A o \in Pid : Exists(o)' => Exists(o)
    BY <1>2 DEF Delete, Exists, RefreshInv, TypeOK
  <1>3. ASSUME NEW r \in Runs, Store(r) PROVE \A o \in Pid : Exists(o)' => Exists(o)
    BY <1>3 DEF Store, Exists, RefreshInv, TypeOK
  <1>4. ASSUME NEW r \in Runs, Start(r) \/ Crash(r) \/ (Step(r) /\ ~Store(r))
        PROVE  UNCHANGED sciobj
    BY <1>4 DEF Start, Crash, Step, Turn, Fetch, StoreFails, CountFailure, GiveUp, Purge, nodeVars
  <1> QED BY <1>1, <1>2, <1>3, <1>4 DEF Next, Exists

LEMMA OthersUnchanged ==
    ASSUME RefreshInv, NEW r \in Runs, Start(r) \/ Step(r) \/ Crash(r), NEW q \in Runs \ {r}
    PROVE  pc'[q] = pc[q] /\ cur'[q] = cur[q] /\ todo'[q] = todo[q]
  <1> USE DEF RefreshInv, TypeOK, Move, Hold, NextRow, End
  <1>1. CASE Start(r) BY <1>1 DEF Start
  <1>2. ASSUME NEW p \in Pid, Turn(r, p) PROVE pc'[q] = pc[q] /\ cur'[q] = cur[q] /\ todo'[q] = todo[q]
    BY <1>2 DEF Turn
  <1>3. CASE Fetch(r) BY <1>3 DEF Fetch
  <1>4. CASE Store(r) BY <1>4 DEF Store
  <1>5. CASE StoreFails(r) BY <1>5 DEF StoreFails, RolledBack
  <1>6. CASE CountFailure(r) BY <1>6 DEF CountFailure
  <1>7. CASE GiveUp(r) BY <1>7 DEF GiveUp
  <1>8. CASE Purge(r) BY <1>8 DEF Purge
  <1>9. CASE Crash(r) BY <1>9 DEF Crash
  <1> QED BY <1>1, <1>2, <1>3, <1>4, <1>5, <1>6, <1>7, <1>8, <1>9 DEF Step

(* What the run does to its own rows. *)
LEMMA RunKeepsQueued ==
    ASSUME RefreshInv, RowsQueued, NEW r \in Runs,
           StoreFails(r) /\ Exists(cur[r]) => UNCHANGED todo,
           Start(r) \/ Step(r) \/ Crash(r)
    PROVE  RunQueued(r)'
  <1>0. /\ pc[r] \in {"fetch", "store", "failed", "giveup"} => cur[r] \in Pid /\ Held(r) \in Row
        /\ RunQueued(r)
    BY DEF RefreshInv, RunsSound, RowsQueued
  <1>1. CASE Start(r)
    BY <1>0, <1>1, RefreshAssumption DEF Start, Move, RefreshInv, TypeOK, RunQueued, QueuedRows, NoRow
  <1>2. ASSUME NEW p \in Pid, Turn(r, p) PROVE RunQueued(r)'
    <2>1. CASE Exists(p)
      <3>1. pc[r] = "next" /\ todo[r][p] # NoRow /\ UNCHANGED todo
        BY <1>2, <2>1 DEF Turn
      <3>2. pc'[r] = "fetch" /\ cur'[r] = p
        BY <1>2, <2>1 DEF Turn, Move, RefreshInv, TypeOK
      <3>3. cur[r] = None /\ todo[r][p] \in Row
        BY <1>0, <3>1 DEF RunQueued, RefreshInv, TypeOK
      <3>4. \A o \in Pid : todo[r][o].status \in {"queued", "none"}
        BY <1>0, <3>3, RefreshAssumption DEF RunQueued
      <3> QED BY <3>1, <3>2, <3>3, <3>4 DEF RunQueued, Held, Row
    <2>2. CASE ~Exists(p)
      BY <1>2, <2>2, EndQueued DEF Turn
    <2> QED BY <2>1, <2>2
  <1>3. CASE Fetch(r)
    BY <1>0, <1>3, RefreshAssumption DEF Fetch, Move, RefreshInv, TypeOK, RunQueued, Held, nodeVars, Exists
  <1>4. CASE Store(r)
    BY <1>0, <1>4, NextRowQueued DEF Store
  <1>5. CASE StoreFails(r)
    <2> USE <1>0, <1>5
    <2>1. pc'[r] = "failed" /\ cur[r] \in Pid /\ UNCHANGED <<cur, nodeVars>>
      BY DEF StoreFails, Move, RefreshInv, TypeOK
    <2>2. CASE UNCHANGED todo
      BY <2>1, <2>2 DEF StoreFails, RunQueued, Held
    <2>3. CASE ~Exists(cur[r]) /\ Hold(r, [Held(r) EXCEPT !.status = "completed"])
      <3> DEFINE row == [Held(r) EXCEPT !.status = "completed"]
      <3>1. row \in Row /\ Hold(r, row)
        BY <2>3 DEF StoreFails, Row
      <3> HIDE DEF row
      <3>2. \A p \in Pid : todo'[r][p] = IF p = cur[r] THEN row ELSE todo[r][p]
        BY <2>1, <3>1, HoldEffect DEF RefreshInv
      <3>3. ~Exists(cur[r])'
        BY <2>1, <2>3 DEF Exists, nodeVars
      <3> QED BY <2>1, <3>2, <3>3 DEF RunQueued
    <2> QED BY <2>2, <2>3 DEF StoreFails, RolledBack
  <1>6. CASE CountFailure(r)
    <2> DEFINE row == Counted(Held(r))
    <2>1. cur[r] \in Pid /\ row \in Row
      BY <1>0, <1>6 DEF CountFailure, Counted, Row
    <2>2. CASE pc'[r] = "giveup" /\ Hold(r, row) /\ UNCHANGED cur
      <3> HIDE DEF row
      <3>1. \A p \in Pid : todo'[r][p] = IF p = cur[r] THEN row ELSE todo[r][p]
        BY <2>1, <2>2, HoldEffect DEF RefreshInv
      <3> QED BY <1>0, <2>2, <3>1 DEF RunQueued
    <2>3. CASE NextRow(r)
      BY <2>1, <2>3, NextRowQueued
    <2>4. CASE End(r)
      BY <2>4, EndQueued
    <2> QED BY <1>6, <2>2, <2>3, <2>4 DEF CountFailure, Move, RefreshInv, TypeOK
  <1>7. CASE GiveUp(r)
    BY <1>0, <1>7, NextRowQueued, EndQueued DEF GiveUp
  <1>8. CASE Purge(r) BY <1>8, EndQueued DEF Purge
  <1>9. CASE Crash(r) BY <1>9, EndQueued DEF Crash
  <1> QED BY <1>1, <1>2, <1>3, <1>4, <1>5, <1>6, <1>7, <1>8, <1>9 DEF Step

LEMMA QueuedStep ==
    ASSUME RefreshInv, RowsQueued, [Next]_vars,
           [\A r \in Runs : StoreFails(r) /\ Exists(cur[r]) => UNCHANGED todo]_vars
    PROVE  RowsQueued'
  <1>1. CASE UNCHANGED vars
    BY <1>1 DEF vars, nodeVars, runVars, RowsQueued, RunQueued, Held, Exists
  <1>2. ASSUME Next, UNCHANGED runVars PROVE RowsQueued'
    BY <1>2, OthersQueued, NoneComesBack DEF runVars, RowsQueued
  <1>3. ASSUME Next, NEW r \in Runs, Start(r) \/ Step(r) \/ Crash(r) PROVE RowsQueued'
    <2>0. StoreFails(r) /\ Exists(cur[r]) => UNCHANGED todo
      BY DEF vars, runVars
    <2> SUFFICES ASSUME NEW q \in Runs PROVE RunQueued(q)'
      BY DEF RowsQueued
    <2>1. CASE q = r
      BY <1>3, <2>0, <2>1, RunKeepsQueued
    <2>2. CASE q # r
      BY <1>3, <2>2, OthersUnchanged, NoneComesBack, OthersQueued
    <2> QED BY <2>1, <2>2
  <1>4. ASSUME NEW p \in Pid, CnChange(p) \/ Request(p) \/ Delete(p) PROVE UNCHANGED runVars
    BY <1>4 DEF CnChange, Request, PostNotFound, PostNew, PostGet, PostSave, Delete
  <1> QED BY <1>1, <1>2, <1>3, <1>4 DEF Next

(* The transaction that fails after its last UPDATE is the only failure that *)
(* is not retried: in a behaviour without one, a run that fails to store a   *)
(* document, and goes on, leaves the request queued, whatever deletes,       *)
(* requests and crashes come between.  FailedIsRetried alone is false.       *)
THEOREM RefreshRetries == Spec /\ NoLateFailure => FailedIsRetried
  <1>1. Init => RowsQueued
    BY DEF Init, RowsQueued, RunQueued, NoRows, NoRow
  <1>2. RefreshInv /\ RowsQueued /\ [Next]_vars
            /\ [\A r \in Runs : StoreFails(r) /\ Exists(cur[r]) => UNCHANGED todo]_vars
            => RowsQueued'
    BY QueuedStep
  <1>3. RefreshInv /\ RowsQueued /\ [Next]_vars =>
            [\A r \in Runs : pc[r] = "failed" /\ pc'[r] = "next" => queue'[cur[r]].status = "queued"]_vars
    <2> SUFFICES ASSUME RefreshInv, RowsQueued, Next, NEW r \in Runs,
                        pc[r] = "failed", pc'[r] = "next"
                 PROVE  queue'[cur[r]].status = "queued"
      OBVIOUS
    <2>1. CountFailure(r)
      <3>1. ~UNCHANGED pc
        OBVIOUS
      <3>2. \A p \in Pid : ~CnChange(p) /\ ~Request(p) /\ ~Delete(p)
        BY <3>1 DEF CnChange, Request, PostNotFound, PostNew, PostGet, PostSave, Delete, runVars
      <3>3. PICK q \in Runs : Start(q) \/ Step(q) \/ Crash(q)
        BY <3>2 DEF Next
      <3>4. q = r
        BY <3>3, OthersUnchanged
      <3> QED BY <3>3, <3>4 DEF Start, Step, Crash, Turn, Fetch, Store, StoreFails, GiveUp, Purge,
                  End, Move, RefreshInv, TypeOK
    <2>2. cur[r] \in Pid /\ Held(r) \in Row
      BY DEF RefreshInv, RunsSound
    <2>3. Exists(cur[r])
      BY <2>1 DEF CountFailure, End, Move, RefreshInv, TypeOK
    <2>4. Held(r).status = "queued"
      BY <2>3 DEF RowsQueued, RunQueued
    <2>5. queue'[cur[r]] = Counted(Held(r))
      BY <2>1, <2>2, <2>3 DEF CountFailure, RefreshInv, TypeOK
    <2> QED BY <2>2, <2>4, <2>5 DEF Counted, Row
  <1> QED BY <1>1, <1>2, <1>3, RefreshInvariant, PTL DEF Spec, FailedIsRetried, NoLateFailure
=============================================================================
