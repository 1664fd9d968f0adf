# Verification of the DataONE Python products

This directory holds TLA+ models of the programs in this repository, model-checked
with TLC, and theorems about them, checked with TLAPS. It covers the parts whose
logic is the hardest to test: the object store of the Generic Member Node (GMN),
with its revision chains, series identifiers and deletion; the optimistic lock on
System Metadata; the queue through which a node follows the Coordinating Node (CN);
access control, from certificates to the permission rows; the slices in which lists
are served, with the clients that walk through them; the multiprocessed iterators of
the client library; the algorithms of the common library for revisions and policies;
and the caches of ONEDrive.

Paths below are relative to the root of the repository; `app/` stands for
`gmn/src/d1_gmn/app/`, `common/` for `lib_common/src/d1_common/` and `iter/` for
`lib_client/src/d1_client/iter/`.

## 1. Inventory

| Component | State it keeps | Operations | What makes it correct |
|---|---|---|---|
| Revision chains (`app/revision.py`) | `Chain` rows (SID, head), `ChainMember` rows, the `obsoletes`/`obsoleted_by` columns | add, link, merge, cut, look up the head | links agree at both ends; chains partition the objects; a SID resolves to the newest revision |
| Identifier namespace (`app/did.py`, `IdNamespace`) | one row per PID or SID ever mentioned | validity checks, resolution, cascading deletion | an identifier has one use; a deleted PID is free again; a deletion takes no row it should not |
| Deletion (`app/delete.py`) | | unlink the bytes, cut, delete chain, delete identifier | always succeeds once the bytes are gone; one object per request |
| System Metadata (`app/sysmeta.py`) | `ScienceObject` rows | create or update, archive, read | no update of a client is lost |
| Storage API (`app/views/`) | | create, update, updateSystemMetadata, archive, delete, replicate | a failed request leaves the rows alone |
| Object bytes (`app/sciobj_store.py`) | files by PID | write, unlink | every listed object has its bytes |
| Import (`management/commands/import.py`) | | downloads, one object each, in any order | the order of arrival does not matter |
| Refresh queue (`process_refresh_queue.py`) | queue rows with status and attempts | notify, process, purge | the node ends up with the CN's document |
| Replication queue (`local_replica.py`, `process_replication_queue.py`) | `LocalReplica`, `ReplicationQueue` rows | reserve, fetch, notify | a PID is reserved once |
| Access control (`app/auth.py`, `app/middleware/`) | permission rows; the subjects of a session | connect, store and serve a policy, decide | a subject has the level it was last given, and a session only the subjects connected to it |
| Slices (`app/views/slice.py`) | a cache of positions, per server process | page through a list | slices join up; a row that stays is returned once |
| Resource maps, science metadata, event log | rows beside the object | record, validate | |
| Client iterators (`iter/`) | worker pool, two queues, a stop signal | fetch pages, one by one or in parallel | no item twice; a client that asks gets an answer; closing returns |
| Common library: revisions (`common/revision.py`) | | topological sort, walk a chain | order by age, whatever is missing |
| Common library: subjects and policies (`common/cert/subject_info.py`, `common/wrap/access_policy.py`) | a tree of subjects; a dict of permissions | collect connected subjects; edit, normalize, compare | all connected subjects and no other; edits take effect, the rest keeps its meaning |
| Common library: serialization, generated bindings | | convert data | |
| Command line client (`client_cli`) | session, operation queue | edit and run the queue | |
| ONEDrive (`client_onedrive`) | memory and disk caches, object tree | resolve paths | bounded caches |

How they interact: a view calls `sysmeta.create_or_update()`, which saves the
object's row, then calls `revision.set_revision_links()` (this object's links
and the reverse links of its neighbours) and `revision.create_or_update_chain()`
(membership, SID, head). `delete.delete_sciobj()` unlinks the file, then calls
`revision.cut_from_chain()`, `revision.delete_chain()` and deletes the
`IdNamespace` row, whose foreign keys all cascade. Import, refresh and
replication call the same `create_or_update()` without the views' checks. All of
it shares one database; each web request is one transaction (`ATOMIC_REQUESTS`
in `settings_default.py`), the files are outside of it. Before a view runs, the
middleware collects the subjects of the client from its certificate, the
SubjectInfo in it, and its token; the views compare them with the permission rows
that `create_or_update()` has written. Clients fetch lists of objects and log
records slice by slice; the server remembers the last row of each slice, so that
the next one need not be counted from the start.

What is hard here: the order in which revisions arrive; partial histories with
dangling links; deletes in the middle of a chain; deletion cascading over stale
references; files and rows that fail separately; documents that are read,
edited and sent back while other requests run; requests whose statements
interleave; queues whose rows outlive what they were written for; positions in a
list that changes; processes that are terminated while others wait for them;
documents that refer to each other in circles. `PROJECT.json` lists each hazard with
its line and with the properties that would catch it.

## 2. Modules

| Module | Models | Builds on |
|---|---|---|
| `GmnStore` | revisions, series, identifiers, deletion, bytes, import | |
| `GmnSeries` | what the store promises: linear histories | implemented by `GmnStore` |
| `GmnSysmetaLock` | documents that clients hold while others write | `GmnStore` |
| `GmnSysmetaOverlap` | requests whose statements overlap | `GmnSysmetaLock` |
| `RefreshQueue` | the refresh queue, its command, the CN | |
| `SysmetaFollower` | what the queue promises | implemented by `RefreshQueue` |
| `D1Subjects`, `SubjectInfo` | permissions; the subjects in a SubjectInfo document | |
| `GmnAccess` | sessions, permission rows, policies, the wrapper | `SubjectInfo` |
| `AccessGrants` | what access control promises: a level per subject | implemented by `GmnAccess` |
| `SliceWalk` | slices, their cache, the sequential iterators | |
| `IterMulti` | the multiprocessed iterators | |
| `ItemStream` | what an iterator promises | implemented by `IterMulti` |
| `TopologicalSort` | the sort of the common library | |
| `ChainReader` | a client that lists the revisions of an object | `GmnSeries` |
| `DiskCache`, `MemoryCache` | the caches of ONEDrive | |
| `MCGmnStore`, `MCGmnSysmetaLock`, `MCRefreshQueue`, `MCGmnAccess`, `MCSliceWalk`, `MCClients` | instances for TLC | |
| `*Proofs` | section 4 | |

### GmnStore

One database record `db` (a column is a field) and the set `files` of PIDs whose
bytes are stored. Each Python function that edits rows is an operator from a
database to a database, with an `...Ok` companion for the cases in which it
raises; an action is a request, that is, a transaction: it sets `db` to what the
code computes, or leaves it when something raises. `files` is not rolled back.

| Definition | Code |
|---|---|
| `SetRevisionLinks`, `Linked` | `set_revision_links()`, `_set_revision_reverse()` |
| `CreateOrUpdateChain`, `AddSciobj`, `MergeChains`, `SetChainSid` | the functions of the same names in `revision.py` |
| `FindHead`, `UpdateHead` | `_find_head_or_latest_connected()`, `_update_sid_to_last_existing_pid_map()` |
| `CutFromChain`, `CloseGap`, `DeleteChain`, `DeleteDid` | `cut_from_chain()` and its three cases, `delete_chain()`, the cascade of an `IdNamespace` row |
| `Create`, `Update`, `PutMeta`, `Archive`, `Delete`, `Replicate` | the views in `views/external.py` |
| `Import` | `sciobj_download_and_create()` |
| `DeleteCrash` | the process ends after `os.unlink()` and before the commit |

`FindHead` is defined without recursion: the objects that the walk along
`obsoleted_by` visits are the least set that holds the start and is closed under
the step, and the head is the visited object at which the walk stops. That makes
the operator usable in proofs; `HeadWalkEnds` compares it with the recursion of the
code (`LatestConnected`) in every reachable state.

Three specifications use these actions: `NativeSpec` (only clients write),
`ImportSpec` (objects are also imported, in any order, while clients write) and
`Spec` (and a delete may be cut short by a crash).

Abstractions. A document is its PID, two links, SID and archived flag; time
stamps, checksums and event log are left out, and the access policy is the
subject of `GmnAccess`. `create()` of a resource map calls `create_or_update()`
twice with the same document, the second changing nothing, and is one action.
Whatever fails after the bytes are written (validation, constraints, the process)
is one outcome: file, no rows. A proxy object has no file and is not modelled.
The source of an import holds complete, consistent histories (`ForeignAssumption`).

*Documents with other links.* `updateSystemMetadata()` checks neither the SID nor the
links: "this call allows making breaking changes to SysMeta" (`external.py:370`). A client
need not mean to make any. `delete()` leaves the time stamps of the neighbours alone, so
that a document read before a neighbour was deleted is accepted afterwards, with its old
links. `PutMeta` takes any links. A document that gives a link which is not the row's
(`Relinks`) is counted in the history `relinks`, which `MaxRelinks` bounds. `TypeOK`,
`HeadWalkEnds` and `DeletedPidReusable` are claimed whatever documents bring (the last
unless one names a SID as a neighbour); the other properties of links, chains and heads
are claimed as long as `relinks = 0`, and section 3 says how each of them fails after
that.

### GmnSeries

What a client may rely on, without rows: series of objects, each linearly ordered by
"is a later revision of", with at most one SID. A history grows at its newest end
only and loses only what is deleted. `SeriesView` in `GmnStore` derives the order from
the walks along `obsoleted_by` and the SIDs from the chains; `KeepsSeries` says that
`NativeSpec` implements it. `LinksToNeighbours` says what the documents of the store
have to do with it: their links lead to the next object of the series on either side
(`IsNext`, `IsPrevious`).

### GmnSysmetaLock and GmnSysmetaOverlap

`GmnSysmetaLock` extends `GmnStore` with the documents that clients hold. `GetMeta`
gives one out, `PutHeld` sends it back with another SID or archived flag; between the
two, any other request may run. The node compares the `dateSysMetadataModified` of the
document and of the row after rounding both to a second (`are_equal()`), so the model's
clock is the step to the next second (`Tick`): `fresh` is the set of rows stamped in the
current one, and `held` the set of documents whose time stamp is, rounded, still that of
the row. A request that writes a new time stamp to a row removes its documents from
`held`, except those of the same second (`Restamp`). `delete()` writes the links of the
neighbours without touching their time stamps, and so removes nothing. A document comes
back with the links that it was read with.

`GmnSysmetaOverlap` splits `archive()` and `updateSystemMetadata()` where they have
read the row: transactions run at READ COMMITTED and lock no rows, so that other
requests commit in between. `open` holds what these requests have read. What follows
the read is one step; a finer interleaving adds more of the same.

### RefreshQueue and SysmetaFollower

The CN, which changes documents and announces each change once; the request
`systemMetadataChanged()`, whose `get_or_create()` and `save()` are two steps
(`PostGet`, `PostSave`), since other processes commit between them; deletes; and
any number of processes that execute `process_refresh_queue`. A run reads the
queued rows once (`todo`), and from then on works on these rows in memory: what
it saves are the columns that it holds, not those of the table.

| Definition | Code |
|---|---|
| `PostNotFound`, `PostNew`, `PostGet`, `PostSave` | `post_refresh_system_metadata()`, `sysmeta_refresh_queue()` |
| `LockFree`, `End` | the lock of `using_single_instance()`, released with the process |
| `Start`, `Turn`, `Purge` | `handle_serial()`, `remove_completed_requests_from_queue()` |
| `Fetch`, `Store`, `StoreFails`, `RolledBack` | `refresh()` and its transaction |
| `CountFailure`, `GiveUp` | the `except` clause of `process_refresh_request()`, with its two saves |
| `Delete` | an object is deleted, and its queue row by cascade |
| `Crash` | the process is killed at any point |

A document is its version. Foreign keys are checked at the commit (PostgreSQL,
deferred), so that a transaction that refreshes a deleted object is rolled back
as a whole. A transaction may fail at any point, also after its last `UPDATE`
(`RolledBack`). The history `lost` names the objects whose last notification was
dropped, lost or given up. The CN sends one notification of an object at a time and does not repeat one that was answered; a deleted PID is not used again;
the order in which a run takes its rows is left open.

`SysmetaFollower` is what the queue promises: a register per object that only moves
forward, to versions that the CN has had, until the object is deleted.
`RefreshQueue` implements it with the variables of the same names.

### D1Subjects, SubjectInfo, GmnAccess and AccessGrants

`SubjectInfo` is `extract_subjects()`: `_add_subject()`, `_add_person()` and
`_add_group_elements()` call each other, and the calls still to be made are a stack of
frames, each a loop over records or over subjects. The lists of the document are sets,
whose elements come in any order: what is visited for its groups only depends on it.

`GmnAccess` takes one object through its life: a client connects without a
certificate, with one, or with one that contains a SubjectInfo document, and perhaps
with a token; it fetches the policy or composes one, wraps it, edits it, compares it
(which changes the wrapper's own sets), unwraps it, and stores it with or without a
change of rights holder.

| Definition | Code |
|---|---|
| `ConnectWithoutCertificate`, `ConnectWithoutSubjectInfo`, `Connect`, `Authenticate`, `Session` | `ViewHandler`, `session_cert.get_subjects()`, `session_jwt` |
| `RowsOf`, `TopLevel` | `_access_policy_pyxb_to_model()`, `_get_highest_level_action_for_rule()` |
| `ServedRules` | `_access_policy_model_to_pyxb()` |
| `IsTrusted`, `IsAllowed`, `MayChange` | `auth.py` |
| `PermDictOf`, `HighestPermDict`, `RulesOf` | the conversions of `AccessPolicyWrapper` |
| `AddPerm`, `RemovePerm`, `RemoveSubj`, `AddPublicRead`, `AddSymbolicRead`, `Clear`, `Compare`, `Wrap`, `Unwrap` | its methods, and `wrap_sysmeta_pyxb()` |

`AccessGrants` is what this promises: a level per subject and a draft of levels that
clients edit. The rows, rules and dicts of `GmnAccess` are three representations of
the same levels. Storing a policy takes write permission in `AccessGrants` as in the code,
which is not what the docstrings and the schema ask for (`change_permission`, section 3).

Abstractions. Certificates and tokens are already parsed and validated. The vendor
headers of `DEBUG_GMN` and stand-alone nodes are left out;
`REQUIRE_WHITELIST_FOR_UPDATE` is at its default, `True`. One client works on the
object at a time, since stale documents are the business of `GmnSysmetaLock`.

### SliceWalk

The rows of a list, ordered by time stamp and id; the node, which counts them
(`BeginRequest`), selects a slice (`Select`) and caches its last row under position and
total (`Respond`), in one statement each; and clients that walk through the list with
`ObjectListIterator` or `LogRecordIterator`, which end at different conditions.
Between the statements rows are created, deleted and updated, and entries expire.
Each server process has a cache of its own, and any of them may answer a request. Each
walk carries notes of what happened while it lasted (`moved`, `expired`, `disturbed`,
and `switched`: another process answered than before), in which the properties state
their conditions. A list is the increasing
sequence of its rows (`Ordered`), of which there is one.

Abstractions. One URL and one set of subjects, the rest of the cache key: other keys
share no entry. The iterators start at 0. Retries of failed page requests send the same
request again and are left out. READ COMMITTED, so that rows change between the count
and the select.

### IterMulti and ItemStream

The generator that the client iterates over, the scheduler process, the pool with its
task handler and workers, and the manager process in which the bounded result queue
lives. The `with` block of the pool ends in `terminate()`, which kills workers
wherever they are, except that a `put()` that has reached the manager is still carried
out (`adrift`). A client may leave its loop at any item (`Close`): the generator then
sets the stop signal, drains the queue and joins the scheduler.

| Definition | Code |
|---|---|
| `Get`, `SetStop`, `Drain`, `Drained`, `Join` | `MultiprocessedIteratorBase.__iter__()` |
| `Submit`, `Waited`, `Terminate`, `Sentinel` | `_get_all_pages()` |
| `HandOver`, `PutAdrift` | `multiprocessing`: the pool's task handler, the manager's server |
| `Take`, `Start`, `Fetch`, `NextItem`, `Put` | `_get_page()` |

`ItemStream` is what any iterator over a list promises: each answer is an item not
given before, or the end, for good. Abstractions: the list does not change during the
iteration, the items are their positions, and errors returned in place of an item are
items.

### TopologicalSort and ChainReader

`TopologicalSort` is `topological_sort()`, with a step for each item that a pass of its
loop visits (`Visit`), in any order. The input is any relation between objects, among
them histories that lead to an object that is not there, and circles.

`ChainReader` is `get_pids_in_revision_chain()` as a client of a node: each document it
fetches is a step, and between two of them the node serves other clients (`Serve`). Of
the node nothing is assumed but `GmnSeries`, which `GmnStore` implements, and that its
documents link neighbours, which `LinksToNeighbours` says of `GmnStore`. `stayed`, `gone`
and `reused` note what becomes of the objects during a call; the properties state their
conditions in them. A deleted identifier may be used again: a link that was read before
then leads into another history, and nothing is claimed of such a call.

### DiskCache and MemoryCache

The two caches of ONEDrive, as what calls them uses them: a key that is not there is
fetched or looked up, which may fail, and then set. `Evicted` is
`_delete_oldest_file_if_full()`; which file is the oldest is left open, as time stamps
have a resolution of a second. `Restart` starts the program again, wherever it was
killed, on the files that are there. `Admit` and `SetData` are the two parts of
`Cache.__setitem__()` between which another thread of FUSE may come; by default there is
one (`nothreads`).

### MCGmnStore, MCGmnSysmetaLock, MCRefreshQueue, MCGmnAccess, MCSliceWalk, MCClients

Instances for TLC. `MCClients` has `GmnAccess` and the four modules above in one run:
each of its behaviours is that of one of the programs. In `MCGmnStore`, `rev1 <- rev2 <-
rev3` is a history of three revisions at the source of imports, which `orphan` imports
with the SID in every document (`Series`) and `import` in a variant of two whose first
document alone has it (`EarlySid`). `MCSliceWalk` bounds the number of walks.

## 3. Runs

Deadlock is not checked in any run: a node at which all identifiers are used up may be
left alone by its clients, an iteration ends, and bounds on changes are used up.

| Run | Question | Bounds |
|---|---|---|
| `native` | Do links, chains, heads, SIDs and bytes stay consistent under all client requests, can every object be deleted, and do rows and documents amount to `GmnSeries`? | 3 PIDs, 2 SIDs, 2 chains, 1 document that changes links |
| `import` | What still holds when a history arrives in any order while clients write and crashes cut deletes short? | history of 2 with an early SID, 1 client PID, 2 chains, 1 document that changes links |
| `refresh` | Does the refresh queue implement `SysmetaFollower`, when are requests given up, and does every request end, served unless it was lost in a known place? | 2 objects, 2 processes, 2 changes of one and 1 of the other, 2 attempts, 1 crash |
| `slice` | Do slices join up while the list changes, and do walks end? | 2 clients, 2 walks, 2 server processes, 3 ids, 3 time stamps, 2 changes of rows or cache |
| `iter` | Does the multiprocessed iterator implement `ItemStream`, does a client that asks get an answer, and does closing return? | 5 items on pages of 2, 2 workers, result queue of 3, task queue of 1, pages that fail |
| `clients` | Does a session have the subjects connected to it, and do policies keep their meaning through every conversion? Does the sort order what can be ordered, does a call list the whole series in its order, and do the caches keep their limits? | 54 SubjectInfo documents, 3 composed policies, 1 group whose permissions are edited, 2 rights holders, 1 token; 4 objects to sort, with any histories; 4 PIDs, 1 SID; 5 keys and a limit of 3; 4 paths, a limit of 3, 1 thread |
| `orphan` | counterexample, below | history of 3 with a SID, 1 client PID, 1 SID |
| `lock` | counterexample, below | 2 PIDs, 1 SID, 1 document held |
| `overlap` | counterexample, below | 2 PIDs, 1 SID, 1 document held, 2 open requests |
| `refresh_lost` | counterexample, below | 2 objects, 1 process |
| `iter_lost` | counterexample, below | 3 items on pages of 2, no page fails |
| `change_permission` | counterexample, below | the sessions and policies of `clients` |

The bounds are enough for the cases that matter.

* Store: three PIDs give a chain with an inner object, a chain of two beside a chain of
  one, and re-creation of deleted PIDs; two SIDs give a conflict between two chains. The
  theorems are about any number of each. In `import`, two revisions of which the first
  alone has the SID, between requests that update them and delete them, arrive in either
  order, close gaps, and re-create what was deleted. A crash changes files only, on which
  no later delete depends: it is in `import`, and `NativeDeletable` is proved with it.
  One document that changes links is enough to break every property that is conditional
  on there being none, and the unconditional ones are checked after it. One held
  document is enough for `lock`, since documents do not act on each other. PIDs and SIDs
  are interchangeable in these runs, and the PIDs of `ChainReader` in `clients`, which
  the symmetry sets use; the properties among them check only safety (action properties
  and refinements without fairness) and are invariant under the permutations, for which
  TLC's symmetry reduction is sound. The other runs use no symmetry.
* Queue: two changes of a document are what it takes for a notification to meet the row
  of an earlier one, two attempts for one that is retried and one that is given up, and
  two objects for a run that one of them aborts. Two processes show that the lock keeps
  them apart.
* Access: the documents link two persons and a group in every direction, among them
  circular and dangling references and a person named by `isMemberOf`; the policies
  have rules with several permissions and subjects in several rules. Three levels are
  all there are.
* Slices: two rows with one time stamp need the id to be told apart; three rows and
  slices of one give a walk of three requests, with cached positions to start from; the
  first walk leaves entries behind that the second one finds, in either process.
* Iterators: three pages, the last of them short, for two workers; more items than the
  result queue holds, so that workers, the scheduler's sentinel and the items of killed
  workers all come to wait for room.
* Clients: four objects have a history with a gap beside one that is whole, and a circle;
  four PIDs let a series of three grow, shrink and be overtaken by re-creation while it
  is listed; a limit of three and more keys than that fill the caches and turn them over.

Fairness. The store, the lock and `clients` are checked for safety only
and assume none. The others assume weak fairness of what the code does by itself:

* `RefreshQueue`: starting the command (cron starts it again and again, and `LockFree`
  holds whenever no process runs), each step of a process (nothing in the command waits
  for another process; a fetch answers or times out), and the CN's notifications with
  the requests that handle them. It does not assume that a fetch or a transaction ever
  succeeds, nor that the CN changes anything. Crashes are bounded: a command that is
  killed each time it runs serves nobody.
* `SliceWalk`: a request is answered, and a client that waits for the answer goes on
  (`Step`). Nothing is assumed of who starts a walk or changes rows.
* `IterMulti`: generator, scheduler, task handler, manager and each worker go on as
  long as they can. The client need not: it may hold an item for ever, so nothing is
  said of `Resume` and `Close`. `CloseReturns` needs room in the queue for what is put
  after it was drained, that is, fewer workers than places (by default 16 and 100).

### What the violations show

* `orphan`: an imported object that joined a chain by its SID alone becomes its
  head; deleting it removes the `Chain` row through `Chain.head_pid`, and with it
  the membership of every other object of the series. "All known PIDs are
  associated with a chain" no longer holds, and `get_sid_by_pid()` raises for
  them.
* `lock`: `views/create.py:159` says that a stale update "is rejected in order to prevent a
  concurrent update from being lost". A document that is read in the second in which its
  row was stamped is accepted back after another update in the same second, and undoes it.
  `SettledUpdatesKept` is what remains, and is proved: a document that was read after
  that second cannot. (`date_time.py` calls rounding to a second a trade-off.)
* `refresh_lost`: a transaction of `refresh()` that fails after `update_request_status()`,
  when the log entry is written or at the commit, leaves the status on the model in
  memory. The `except` clause saves that row as `completed`, logs that the request "will
  be retried during next processing", and the purge deletes it. `RefreshRetries` proves
  that this is the only way.
* `change_permission`: `put_meta()` asks for write permission (`external.py:382`) and then
  replaces the access policy and the rights holder with those of the document. The
  docstring of the function that does so demands changePermission (`sysmeta.py:336`), and
  the schema has write mean modifying the resource and changePermission changing its
  policies (`dataoneTypes.xsd:201`). `GrantsKept` takes the code's level over: it says
  what the conversions of a policy keep, not who should be allowed to store one.
* `overlap`: `archive()` reads a row, `update()` sets its `obsoleted_by` and commits,
  and `archive()` saves all columns of the row as it had read it: the object is no
  longer obsoleted. Two `updateSystemMetadata()` requests that have both passed the
  comparison of time stamps overwrite each other in the same way. The settings say that
  transactions "hide any transitions between valid states"; at PostgreSQL's default
  isolation they do not.
* `iter_lost`: the scheduler leaves the `with` block of its pool when the last page has
  been submitted, which terminates the workers while they fetch. The sentinel follows,
  and the client's loop ends without the rest, with no error at all.

What else was met while modelling; unless it says otherwise, the models have these
behaviours, and no run is devoted to them:

* Documents that change links. Every `relinks = 0` in `GmnStore` is necessary: without it
  TLC finds the property violated, within three to six steps. Create A, update it to B,
  read A's document, delete B, send the document back: A is obsoleted by an object that
  is gone, and is the head all the same (`LinksToNeighbours`, `ChainsPartitionObjects`,
  `HeadIsNewest`). `delete()` of A then removes the file and raises `DoesNotExist`, so
  that A stays listed without bytes (`EveryObjectDeletable`, `BytesPresent`). If there was
  a C after B, A is cut off from it (`RevisionOrderKept`, `KeepsSeries`), and the two ends
  of the link differ (`LocalLinksAgree`). If B was created again as an object of its own,
  A links two series, and deleting A takes the chain of what came before A along, and its
  SID (`SeriesKept`, `HeadIsMember`). A link that one end alone has is followed by the
  cascade, which then deletes a second object (`OnlyOneObjectDeleted`).

* After an object with a dangling link is imported, `delete()` of it raises
  `DoesNotExist` in `_cut_*_from_chain()`, after the bytes are gone. Hence
  `EveryObjectDeletable` is claimed of nodes without imports only.
* The object that bridges two chains cannot be stored when the newer chain alone has a
  SID, because `_merge_chains()` gives the SID to the first chain while the second still
  has it.
* Importing the oldest revision after the newest moves the head of the chain to the
  oldest until the gap between them is closed.
* The row of a finished refresh request stays until the purge; a notification that
  finds it leaves it `completed` and is lost, though the call has answered true. So is
  one that comes after the document was fetched. `RequestsServed` exempts the objects to
  whose last notification this happened, and those of a late failure (`lost`), until
  they are announced again.
* With two server processes (`processes=2` in `gmn/src/d1_gmn/deployment/gmn3-ssl.conf`),
  each has a cache of its own, and the requests of one walk meet entries of different
  ages. `slice` has two processes. `QuietWalkComplete` and `UntouchedRowsOnce` are claimed
  of a walk that one of them answers (`OneProcess`); without this condition TLC finds both
  violated. `AppendedRowsJoinUp` and `WalksEnd` hold whichever process answers.
* A create whose SID is its own PID puts one identifier to two uses (`did.py:70`): update
  the object, delete it, and its successor is in no chain. The runs and theorems take
  PIDs and SIDs to be disjoint.
* An `ObjectListIterator` with `start` above 0 counts its items from 0 against the total of
  the list. After the last row it asks for a slice that starts at the total, which the
  node rejects with `InvalidRequest`. `SliceWalk` has no such iterators.
* A `DiskCache` compares its counter with the limit for equality: one that is started
  with fewer places than it has files deletes nothing any more and grows. In
  `MemoryCache`, two threads that both find a place left pass the limit, after which
  nothing is deleted either. `clients` has one limit and one thread, as the theorems
  assume.
* `AccessPolicyWrapper` changes its own sets when it compares or lists policies, which
  `GrantsKept` shows to be harmless.

## 4. Proofs

Every theorem is for arbitrary constants that satisfy the named assumptions of their
modules.

### The store

* `TypeCorrect` (`GmnStoreProofs`): `Spec => []TypeOK`. One lemma per operator,
  each stating that it maps `Db` to `Db`; `TypeStep` combines them action by
  action. It covers imports and crashes.
* `ImportLinksAgree`, `ImportHeads`, `ImportWalksEnd`, `ImportOneDeleted` and
  `ImportOrderKept` (`GmnStoreProofs`): what `import` checks, also with crashes, for
  any number of documents that change links.
* `GmnStoreNativeProofs`: the invariants and action properties of a node that only
  clients write to, for any number of documents that change links; `NativeKeepsSeries`, the refinement of `GmnSeries`; and
  `NativeNeighbours`, that documents link neighbours in its series.

All but the first assume that no identifier is used both as PID and as SID
(`ObjectIds \cap SeriesIds = {}` for imports, where the identifiers of the source
count). It is needed: `create()` accepts a SID that equals the PID, as both checks are
made before either is recorded (`did.py:68`); when such an object is updated and then
deleted, the cascade of its `IdNamespace` row takes the chain away from the revision
that remains.

The theorems say what the properties say: those of links, chains, heads, order, series and
bytes are about behaviours up to the first document that changes a link, since the code
has no such property after it. `TypeCorrect`, `ImportWalksEnd` and `NativePidReusable` are
about all behaviours. For the last, `LinksTraced` says what is left of the links whatever
documents bring: an object that names another as its neighbour is named back, or the
other names one that is not there (`EndsMeet`). The cut therefore finds every reference to
the object that is deleted, or it raises and nothing is deleted.

*A node that only clients write to.* The inductive invariant is `NativeInv`, that is
`Sound(db)` as long as `relinks = 0`; from a state where it is not, nothing is claimed. The three invariants to be shown (`LinksMutual`, `ChainsPartitionObjects`,
`HeadIsNewest`; theorems `NativeLinks`, `NativeChains`, `NativeHeads`) are not
inductive: a delete looks the head up again by walking from a neighbour, and nothing in
them says that the walk arrives, or where. `WalksSound` adds it: from every object, the
walk reaches the head of its chain. From that follows that no links form a cycle, that
the head exists, and that the head found after a cut is the expected one. `RowsSound`
adds that rows of absent objects hold no links and that SIDs are recorded in the
namespace, on which the checks of `create()` rest.

The argument goes through columns: for each request there is a lemma that gives
the database it produces, column by column (`StoredColumns`, `KeptColumns`,
`DeletedColumns`), and a lemma that these columns keep `Sound`. `NativeStepEffect`
says that every step is one of the three. The action properties are then read off
the columns. `DeleteWorks` shows on the way that the database part of a delete
cannot fail, which is why no listed object loses its bytes (`NativeBytes`) and
why a delete that a crash cut short can be repeated (`NativeDeletable`, for a
node that nothing is imported to). For the refinement, it follows from `Sound` that any
two members of a chain are connected by a walk (`ChainsLinear`), so that a series is a
chain (`SeriesIsChain`); `LaterStored`, `LaterDeleted` and `LaterKept` say what the
three kinds of steps do to the order, `SidOfObject` and its companions what they do to
SIDs, and each kind is then a step of `GmnSeries`. The neighbours follow from the walks
alone: the walk from an object goes first to what it is obsoleted by, so that no object
lies between the two (`LinkedToNext`, `LinkedToPrevious`).

*A node that imports.* Chains no longer partition the objects and heads need not be the
newest, so `Sound` does not hold. What is left is `ImportInv`. A link that dangles may
be completed at any time, by an import or by a client that creates the object:
`DanglingKnown` ties every dangling link to a document of the source, of which
`ForeignAssumption` says that both ends of a link tell the same, and so `LinksAgree`
holds of the ends that are both local; `RowsKnown` keeps series identifiers out of
links. Neither assumption forbids a longer cycle of links. What keeps one out of the
committed tables is that a store which would close it does not commit: the recursion of
`_find_head_or_latest_connected()`, which starts at the new object, does not return
(`FindHeadOk`). When it does return, a walk from any other object either misses the
new object and goes as before, or goes on from it and stops too: that is the step of
`WalksStop`. A request stores one object, cuts one object out, or leaves the links
alone; a cut shortens walks, and `RevisionOrderKept` comes from following the walk from
any object to where it stops after the step. `ImportChains` says that a chain with members has a
head that is one of them, so that what a delete removes by cascade is the chain and no
object. `LatestIsHead` shows that the recursion returns what `FindHead` says, given
that the walk stops: of the objects at which they would differ, one is nearest to the
end.

### The lock and the queue

* `GmnSysmetaLockProofs`: `LockKeepsUpdates`, that is `SettledUpdatesKept`, for any
  links. TLC agrees on the instance of `lock` (9,588 states), and finds it violated if
  requests stamp no rows; the run itself is left to `NoClientUpdateLost`. The invariant
  `HeldSound` says that a document which was read after the second of its time stamp, and
  would be accepted back, has the archived flag of its row; each request keeps the flags
  of all objects but those it stamps (`FlagsKept`), and the documents of those are no
  longer accepted (`RestampSound`).
* `RefreshQueueProofs`, for any objects, processes, versions, attempts and crashes, and
  for transactions that may fail at any point (`RefreshAssumption` says only that the
  bounds are numbers): `RefreshTypes`, `RefreshInvariant`, `RefreshExhausts` and
  `RefreshFollows`, the refinement of `SysmetaFollower`. That a stored document is not
  older than the one it replaces does not follow from a state of the tables: it needs
  that the document was fetched by a run that is still the only one. `RefreshInv` says
  so (`OneRun`), bounds the fetched document by the node's and the CN's (`RunsSound`),
  and tells of rows in memory and in requests what is claimed of those in the table
  (`RowsSound`). Two lemmas, `EndInv` and `NextRowInv`, cover the steps after which a
  run holds no row.
* `RefreshRetries`: `Spec /\ NoLateFailure => FailedIsRetried`. The code does not retry
  what fails late (`refresh_lost`); the theorem says that nothing else is lost that way.
  `NoLateFailure` is a condition on behaviours, not a constant: no transaction of an object
  that exists changes the row in memory and then fails. `RowsQueued` says of the rows in memory that they are queued, except the one at work,
  which a failed commit may have left completed; then its object is gone.

### Access

* `GmnAccessProofs`: `AccessTypes`; `AccessOnlyConnected`, whose invariant says that
  every call on the stack, not only every subject visited, is connected to the root;
  `AccessEditsTakeEffect`; and `AccessGrantsKept`, the refinement of `AccessGrants`.
  The last two rest on lemmas that each conversion keeps the level of every subject
  (`RowsOfLevel`, `RulesOfLevel`, `DictOfLevel`, `HighestDictLevel`, `ServedLevel`).
* `AccessEveryConnected`, the other direction, needs to know what remains on the stack
  when a subject was visited before. `NothingForgotten` says that a subject is due when
  it has been visited or some frame is going to call for it, and that the links of
  every visited subject are due or its record is still in a frame. It is claimed when
  `isMemberOf` names groups only, as the property is: a subject that was visited for its
  groups only is not visited again.

### Slices

`SliceWalkProofs`, for any rows, time stamps, clients, sizes of slices, and bounds. There
is one increasing sequence of a finite set of rows, since a row's place is the number of
rows before it (`OrderedIs`, `OrderedUnique`); a row that is appended comes last in it
(`OrderedExtends`), and what follows a row in the list is the list of what comes after
the row (`OrderedAfter`). `SliceInv` holds for types, requests, and ids.

* `SliceAppendedJoinUp`, with no further assumption. `AppendInv` says that what a client
  has is the beginning of the list, up to its position (`JoinsUp`), and that every cache
  entry, whoever left it and whenever, is the row at its position (`CacheJoinsUp`). A
  list that only grows at its end keeps both.
* `SliceQuietComplete`, for any number of processes, of walks that one of them answers
  (`OneProcess`, in the property). `QuietInv` has `JoinsUp` of a walk that nothing
  disturbs, and that what it finds under its position is the row there (`FindsOwn`):
  other entries may be stale. If another process answers, the next request may meet an entry that an earlier
  walk left in its cache, and the property fails.
* `SliceUntouchedOnce`, of walks that one process answers, too. Positions mean nothing while rows move to
  the end. `UntouchedInv` says instead that what a client has is increasing and
  holds every row that did not move, except those after its last one (`HasUnmoved`),
  that all rows that have moved come after all that have not (`MovedToEnd`), and that
  the next slice starts after the last row (`KeepsPlace`). What remains is that the
  iteration does not end too early, though it ends at a number of items that may include
  a row twice: rows that come before one that did not move were there when the walk
  began (`FromTheBeginning`), and there were no more than that number (`FewerThan`).

### Iterators

* `IterMultiProofs`, for any list, page size, pool and queues: `IterTypes` and
  `IterInvHolds`, proved together: an item is with the client, in one place of the
  queue, with the manager, with one worker, or on a page not taken (`ItemsInOnePlace`),
  and after `terminate()` no worker acts (`PoolSound`). `IterStreams` reads the
  refinement of `ItemStream` off it. `IterAllSubmitted` rests on the arithmetic of
  pages (`EveryItemOnAPage`): every position lies on a page below `NPages`, also for an
  empty list and a short last page.

### Clients

`ClientProofs`, for any sets of objects, keys and paths.

* `SortSorts`: `SortInv` says that a pass that has found nothing so far has gone over
  objects that are not available only, and that no dangling history is sorted. The first
  makes what is left at the end a dangling history, the second the largest one. Since
  each history that dangles is a set of objects closed under "obsoletes", no induction
  along histories is needed.
* `ReaderListsChain`: `ReaderInv` says that the order of a series is a line (`InLine`,
  which `GmnSeries` keeps); on the way to the tail, that the next object is of the same
  series as all objects that have stayed (`GoesToTail`); on the way back, that those not
  listed yet come with the next object or after it (`GoesToHead`), and that the list
  ascends (`Ascending`). A revision that is created meanwhile is the newest; one that is
  deleted is in `gone`, and while it does not come back, a link to it ends the call with
  `NotFound`, not with a wrong list. Together with `NativeKeepsSeries` and
  `NativeNeighbours` this is about the rows of a node that only clients write to.
* `DiskIsBounded` assumes one limit, `DiskCountsFiles` does not: what is being fetched is
  not in the directory (`DiskInv`), so no key is counted twice, and a full cache has a
  file to delete. `MemoryIsBounded` assumes one thread: what is looked up is not in the
  cache, and when it is set there is room (`MemoryInv`). Section 3 says what happens
  without the assumptions.

### Only model-checked

Liveness, which the installed provers do not reach: `WalksEnd`, `RequestsEnd`,
`RequestsServed`, `NextReturns`, `CloseReturns`.

Every other property that a passing run checks is stated by a theorem. The constants are
arbitrary but for the named assumptions; among those of `SliceWalk` is that `None` is no
process. Invariants that
only the proofs need (`NativeInv`, `ImportInv`, `RefreshInv`, `RowsQueued`, `IterInv`,
`NothingForgotten`, `SliceInv`, `AppendInv`, `QuietInv`, `UntouchedInv`, `SortInv`,
`ReaderInv`, `DiskInv`, `MemoryInv`) were checked with TLC on the instances of the
runs before they were proved; they stand beside the properties in the modules, and the
runs do not repeat them.

## 5. Not modelled

* Processing of the replication queue (`process_replication_queue.py`): the command
  ends with an `AttributeError` at `self.using_` in `add_components()` (line 55), so
  that only the reservation, which `GmnStore` has as `Replicate`, ever runs.
* Transactions of the asynchronous import across an `await` (`import.py:205`): with the
  Django version that `gmn/src/setup.py` requires, the ORM raises `SynchronousOnlyOperation`
  in a coroutine. `Import` models the effect of each download as one transaction.
* Identifiers used as PID and SID at once, beyond what section 3 says of them.
* ONEDrive but for its caches: `onedrive.py` does not start at this commit, as `main()`
  uses names that it never imports.
* The command line client: the operations of one user, in the order of a list.
* Resource maps, science metadata and the node-wide parts of the import: data
  processing beside the object's rows, with no effect on those that are modelled.
* Audit and diagnostic commands: single passes over the rows, started by an operator.
* REST clients, serialization, generated bindings, command line and file system
  bindings, test utilities and developer tools: they convert data or wrap calls, and
  keep no state that outlives a call.
