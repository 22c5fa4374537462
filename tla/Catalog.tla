------------------------------- MODULE Catalog -------------------------------
(***************************************************************************)
(* Catalog synchronisation between an upstream node and its downstream     *)
(* peers.                                                                  *)
(*                                                                         *)
(*  - upstream, management thread: the `catalog` command                   *)
(*    (GB28181Node::requestCatalog), which sends the query and then clears *)
(*    the peer's entry of BusinessState; two actions, because the SIP      *)
(*    thread runs between them;                                            *)
(*  - upstream, SIP thread: CatalogClientCapability, one answer at a time; *)
(*  - downstream, SIP thread: CatalogServerCapability, which answers every *)
(*    query with one MESSAGE per device of its catalog file.               *)
(*                                                                         *)
(* The MESSAGEs are stateless UDP: reordered always, repeated and lost     *)
(* when Faulty.  BusinessState has no lock.  A device is its id; the       *)
(* attributes an answer carries are not modelled.                          *)
(***************************************************************************)
EXTENDS Naturals, Sequences, FiniteSets

CONSTANTS
  Peers,       \* registered downstream peers
  Devices,     \* device ids
  NoPeer,      \* no command is under way
  Faulty,      \* whether messages are lost and repeated, and nodes restart
  MaxQueries,  \* bound on the catalog commands per peer
  MaxEdits     \* bound on the changes of catalog files

ASSUME CatalogAssumption ==
  /\ IsFiniteSet(Devices)
  /\ NoPeer \notin Peers
  /\ Faulty \in BOOLEAN
  /\ MaxQueries \in Nat /\ MaxEdits \in Nat

VARIABLES
  wire,      \* MESSAGEs in flight
  file,      \* the devices in each peer's catalog file
  edits,     \* changes of the files so far
  catalog,   \* upstream m_catalogItems, per peer
  complete,  \* peers whose session says "catalog-response-complete"
  clearing,  \* the peer whose query is sent and whose entry is not yet cleared
  queries    \* catalog commands so far, per peer

catalogVars == <<wire, file, edits, catalog, complete, clearing, queries>>

Query == [type : {"Query"}, peer : Peers, number : 1..MaxQueries]

\* One DeviceList item, or none when the file is empty; sumNum is the size of
\* the file when the query was answered.
AnswerMessage == [type : {"Response"}, peer : Peers, number : 1..MaxQueries,
           items : {S \in SUBSET Devices : Cardinality(S) <= 1},
           sumNum : 0..Cardinality(Devices)]

Elements(seq) == {seq[i] : i \in 1..Len(seq)}

Listed(p) == Elements(catalog[p])

CatalogInit ==
  /\ wire = {}
  /\ file \in [Peers -> SUBSET Devices]
  /\ edits = 0
  /\ catalog = [p \in Peers |-> <<>>]
  /\ complete = {}
  /\ clearing = NoPeer
  /\ queries = [p \in Peers |-> 0]

Deliver(m, sent) ==
  wire' = (IF Faulty THEN wire ELSE wire \ {m}) \cup sent

-----------------------------------------------------------------------------
(* Upstream node                                                           *)

\* requestCatalog, up to the point where the query has left.
RequestCatalog(p) ==
  /\ clearing = NoPeer
  /\ queries[p] < MaxQueries
  /\ queries' = [queries EXCEPT ![p] = @ + 1]
  /\ wire' = wire \cup {[type |-> "Query", peer |-> p, number |-> queries[p] + 1]}
  /\ clearing' = p
  /\ UNCHANGED <<file, edits, catalog, complete>>

\* updateCatalog with no items starts the new snapshot.
StartSnapshot ==
  /\ clearing # NoPeer
  /\ catalog' = [catalog EXCEPT ![clearing] = <<>>]
  /\ clearing' = NoPeer
  /\ UNCHANGED <<wire, file, edits, complete, queries>>

\* Mutant: repeated devices are listed again.
appendCatalog_Repeats(seq, items) ==
  IF items = {} THEN seq ELSE Append(seq, CHOOSE d \in items : TRUE)

\* A device that is listed already keeps its place.
appendCatalog(seq, items) ==
  LET new == items \ Elements(seq)
  IN  IF new = {} THEN seq ELSE Append(seq, CHOOSE d \in new : TRUE)

\* CatalogClientCapability: the session reads "received" again until the number
\* of listed devices reaches the announced sum.
CatalogResponse(m) ==
  /\ m.type = "Response"
  /\ catalog' = [catalog EXCEPT ![m.peer] = appendCatalog(@, m.items)]
  /\ complete' = IF m.sumNum > 0 /\ Len(catalog'[m.peer]) >= m.sumNum
                 THEN complete \cup {m.peer} ELSE complete \ {m.peer}
  /\ Deliver(m, {})
  /\ UNCHANGED <<file, edits, clearing, queries>>

\* The catalog and the sessions live in memory; a new node starts without them.
Restart ==
  /\ Faulty
  /\ catalog' = [p \in Peers |-> <<>>]
  /\ complete' = {}
  /\ clearing' = NoPeer
  /\ UNCHANGED <<wire, file, edits, queries>>

-----------------------------------------------------------------------------
(* Downstream peers                                                        *)

\* Mutant: every answer announces one device.
makeCatalogResponseBodies_NumAsSum(p) ==
  IF file[p] = {}
  THEN {[items |-> {}, sumNum |-> 0]}
  ELSE {[items |-> {d}, sumNum |-> 1] : d \in file[p]}

makeCatalogResponseBodies(p) ==
  IF file[p] = {}
  THEN {[items |-> {}, sumNum |-> 0]}
  ELSE {[items |-> {d}, sumNum |-> Cardinality(file[p])] : d \in file[p]}

\* CatalogServerCapability: the file is read anew for every query.
CatalogQuery(m) ==
  /\ m.type = "Query"
  /\ Deliver(m, {[type |-> "Response", peer |-> m.peer, number |-> m.number,
                  items |-> body.items, sumNum |-> body.sumNum] :
                   body \in makeCatalogResponseBodies(m.peer)})
  /\ UNCHANGED <<file, edits, catalog, complete, clearing, queries>>

\* An operator edits a catalog file.
EditFile(p, devices) ==
  /\ edits < MaxEdits
  /\ edits' = edits + 1
  /\ file' = [file EXCEPT ![p] = devices]
  /\ UNCHANGED <<wire, catalog, complete, clearing, queries>>

-----------------------------------------------------------------------------
Receive == \E m \in wire : CatalogResponse(m) \/ CatalogQuery(m)

CatalogNext ==
  \/ \E p \in Peers : RequestCatalog(p)
  \/ StartSnapshot
  \/ Receive
  \/ Restart
  \/ \E p \in Peers, devices \in SUBSET Devices : EditFile(p, devices)

CatalogSpec == CatalogInit /\ [][CatalogNext]_catalogVars

-----------------------------------------------------------------------------
(* Properties                                                              *)

CatalogTypeOK ==
  /\ wire \subseteq Query \cup AnswerMessage
  /\ file \in [Peers -> SUBSET Devices]
  /\ edits \in 0..MaxEdits
  /\ catalog \in [Peers -> Seq(Devices)]
  /\ \A p \in Peers : Len(catalog[p]) = Cardinality(Listed(p))
  /\ complete \subseteq Peers
  /\ clearing \in Peers \cup {NoPeer}
  /\ queries \in [Peers -> 0..MaxQueries]

\* While catalog files stay as they are, a catalog reported complete is: however
\* answers are lost, repeated and reordered, whichever of several queries they
\* belong to, and wherever the clearing falls between them, the announced number
\* of devices is only reached with every device of the file listed.  (A new query
\* clears the list and leaves the old report standing until the next answer.)
CompleteIsWhole ==
  edits = 0 => \A p \in complete : Listed(p) \in {{}, file[p]}

\* The comment in GB28181Node::requestCatalog: a catalog query starts a new
\* snapshot, subsequent responses are appended.  So once every message has been
\* delivered, the snapshot of a peer that was queried should be its file; but the
\* entry is cleared after the query is sent, and takes the early answers along.
SnapshotIsWhole ==
  \A p \in Peers :
    wire = {} /\ clearing = NoPeer /\ queries[p] > 0 /\ edits = 0
      => Listed(p) = file[p]
=============================================================================
