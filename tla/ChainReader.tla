---------------------------- MODULE ChainReader -----------------------------
(***************************************************************************)
(* get_pids_in_revision_chain() of the common library                      *)
(* (d1_common/revision.py): a client lists the revisions of an object by   *)
(* fetching their System Metadata one by one, from the given object to the *)
(* oldest, and from there to the newest. Between two of its requests the   *)
(* node, of which all that is assumed is GmnSeries, serves other clients.  *)
(***************************************************************************)
EXTENDS Integers, SequencesExt

CONSTANTS
    Pids,
    Sids,
    None,     \* no link in a document, no SID
    MaxChain  \* bound: revisions that one call lists

ASSUME ReaderAssumption == None \notin Pids \cup Sids /\ MaxChain \in Nat

VARIABLES
    objects, later, sid,  \* the node
    phase,   \* "idle", "toTail" or "toHead": which of its two loops the call is in
    doc,     \* sysmeta_pyxb: the document fetched last
    chain,   \* chain_pid_list
    stayed,  \* objects of the chain that have been there since the call began
    gone,    \* objects deleted since then
    reused   \* one of them has been created again

node == <<objects, later, sid>>
call == <<phase, doc, chain>>
noted == <<stayed, gone, reused>>
readVars == <<node, call, noted>>

Node == INSTANCE GmnSeries

Opt(S) == S \cup {None}

Document == [pid : Pids, obsoletes : Opt(Pids), obsoletedBy : Opt(Pids)]

NoDocument == [pid |-> None, obsoletes |-> None, obsoletedBy |-> None]

(* client.getSystemMetadata(): of an object, or of the newest in a series. *)
DocumentOf(p) ==
    {d \in Document : /\ d.pid = p /\ p \in objects
                      /\ Node!IsPrevious(p, d.obsoletes) /\ Node!IsNext(p, d.obsoletedBy)}

Resolved(did) ==
    {p \in objects : p = did \/ (did \notin objects /\ sid[p] = did /\ Node!IsNext(p, None))}

ReadInit ==
    /\ Node!Init
    /\ phase = "idle" /\ doc = NoDocument /\ chain = <<>>
    /\ stayed = {} /\ gone = {} /\ reused = FALSE

(* Another client's request: what becomes of the objects is noted. *)
Serve ==
    /\ Node!Next
    /\ IF phase = "idle" THEN UNCHANGED noted
       ELSE /\ stayed' = stayed \cap objects'
            /\ gone' = gone \cup (objects \ objects')
            /\ reused' = (reused \/ gone \cap objects' # {})
    /\ UNCHANGED call

Begin(did) ==
    /\ phase = "idle"
    /\ \E p \in Resolved(did) : doc' \in DocumentOf(p) /\ stayed' = Node!Series(p)
    /\ phase' = "toTail"
    /\ gone' = {} /\ reused' = FALSE
    /\ UNCHANGED <<node, chain>>

(* The call ends, with the list or with NotFound. *)
End ==
    /\ phase' = "idle" /\ doc' = NoDocument /\ chain' = <<>>
    /\ stayed' = {} /\ gone' = {} /\ reused' = FALSE
    /\ UNCHANGED node

NotFound(p) == p \notin objects /\ End

(* Variant: the walk to the tail is left out. *)
AtTailAtOnce == phase = "toTail"

AtTail == phase = "toTail" /\ doc.obsoletes = None

AtHead == phase = "toHead" /\ doc.obsoletedBy = None

ToTail ==
    /\ phase = "toTail" /\ ~AtTail
    /\ \/ NotFound(doc.obsoletes)
       \/ doc' \in DocumentOf(doc.obsoletes) /\ UNCHANGED <<node, phase, chain, noted>>

TurnAround ==
    /\ AtTail
    /\ phase' = "toHead" /\ chain' = <<doc.pid>>
    /\ UNCHANGED <<node, doc, noted>>

ToHead ==
    /\ phase = "toHead" /\ ~AtHead /\ Len(chain) < MaxChain
    /\ \/ NotFound(doc.obsoletedBy)
       \/ /\ doc' \in DocumentOf(doc.obsoletedBy)
          /\ chain' = Append(chain, doc'.pid)
          /\ UNCHANGED <<node, phase, noted>>

ReturnList == AtHead /\ End

ReadNext ==
    \/ Serve
    \/ \E did \in Pids \cup Sids : Begin(did)
    \/ ToTail \/ TurnAround \/ ToHead \/ ReturnList

ReadSpec == ReadInit /\ [][ReadNext]_readVars
-----------------------------------------------------------------------------
ReadTypeOK ==
    /\ objects \in SUBSET Pids
    /\ later \in SUBSET (objects \X objects)
    /\ phase \in {"idle", "toTail", "toHead"}
    /\ doc \in IF phase = "idle" THEN {NoDocument} ELSE Document
    /\ chain \in Seq(Pids)
    /\ stayed \in SUBSET objects
    /\ gone \in SUBSET Pids
    /\ reused \in BOOLEAN

(* "All PIDs in the chain": what is returned lacks no revision that was      *)
(* there during the whole call, whichever others were added and deleted -    *)
(* unless an identifier was used again, for then a link that was read before *)
(* may lead into another history.                                            *)
ListsAll == AtHead /\ ~reused => stayed \subseteq Range(chain)

(* "The returned list is in the same order as the chain", also with respect  *)
(* to revisions that were added meanwhile, and nothing is listed twice.      *)
ListsInOrder ==
    AtHead /\ ~reused =>
        \A i \in DOMAIN chain, j \in DOMAIN chain : i < j =>
            /\ chain[i] # chain[j]
            /\ {chain[i], chain[j]} \subseteq objects => <<chain[i], chain[j]>> \in later

(* A caller gets the history of the object as it was and is, or NotFound.    *)
ListsChain == ListsAll /\ ListsInOrder

(* Why: a series is in a line, the list and the document fetched last belong *)
(* to one, and what is not in the list is where the walk goes next.          *)
InLine ==
    /\ \A p \in objects : <<p, p>> \notin later
    /\ \A p \in objects, q \in objects, r \in objects :
          /\ <<p, q>> \in later /\ <<q, r>> \in later => <<p, r>> \in later
          /\ <<p, q>> \in later /\ <<p, r>> \in later => q = r \/ <<q, r>> \in later \/ <<r, q>> \in later
          /\ <<q, p>> \in later /\ <<r, p>> \in later => q = r \/ <<q, r>> \in later \/ <<r, q>> \in later

Listed == IF phase = "toHead" THEN Range(chain) ELSE {doc.pid}

Known == objects \cup gone

LinksKnown ==
    /\ gone \cap objects = {}
    /\ Listed \subseteq Known
    /\ {doc.obsoletes, doc.obsoletedBy} \subseteq Opt(Known)

(* Between the object and the tail. *)
GoesToTail ==
    doc.obsoletes \in objects => stayed \subseteq Node!Series(doc.obsoletes)

(* At the tail, and between it and the head. *)
GoesToHead ==
    /\ doc.obsoletedBy = None => stayed \subseteq Listed
    /\ doc.obsoletedBy \in objects =>
          \A r \in stayed \ Listed : r = doc.obsoletedBy \/ <<doc.obsoletedBy, r>> \in later

Ascending ==
    /\ doc.obsoletedBy \in objects =>
          \A p \in Listed \cap objects : <<p, doc.obsoletedBy>> \in later
    /\ \A i \in DOMAIN chain, j \in DOMAIN chain : i < j =>
          /\ chain[i] # chain[j]
          /\ {chain[i], chain[j]} \subseteq objects => <<chain[i], chain[j]>> \in later

ReaderInv ==
    /\ ReadTypeOK
    /\ InLine
    /\ phase # "toHead" => chain = <<>>
    /\ phase = "idle" => stayed = {}
    /\ phase # "idle" /\ ~reused =>
          /\ LinksKnown
          /\ Ascending
          /\ IF phase = "toTail" /\ ~AtTail THEN GoesToTail ELSE GoesToHead
=============================================================================
