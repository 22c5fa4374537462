--------------------------- MODULE ExchangeProofs ---------------------------
(***************************************************************************)
(* Proofs about what two nodes ask of each other: a catalog (Catalog) and  *)
(* calls (InviteDialog).                                                   *)
(***************************************************************************)
EXTENDS Catalog, InviteDialog, FiniteSetTheorems, SequenceTheorems, TLAPS

(* Catalog, for every set of peers and devices and every number of queries. *)

\* While the files stay as they are, every answer in flight announces the size
\* of the file and lists a device of it ...
AnswersFromFile ==
  \A m \in wire : m.type = "Response" =>
    m.items \subseteq file[m.peer] /\ m.sumNum = Cardinality(file[m.peer])

\* ... and so does the catalog.
ListedFromFile == \A p \in Peers : Listed(p) \subseteq file[p]

\* The inductive invariant.
CatalogInv ==
  /\ CatalogTypeOK
  /\ edits = 0 => AnswersFromFile /\ ListedFromFile
  /\ CompleteIsWhole

-----------------------------------------------------------------------------
\* What it is to be listed.
LEMMA ElementOf ==
  \A seq, x : x \in Elements(seq) <=> \E i \in 1..Len(seq) : x = seq[i]
BY DEF Elements

\* A cleared catalog lists nothing.
LEMMA ElementsOfEmpty == Elements(<<>>) = {} /\ Len(<<>>) = Cardinality(Elements(<<>>))
<1>1. Len(<<>>) = 0 /\ \A i : i \notin 1..0
  OBVIOUS
<1>2. Elements(<<>>) = {}
  BY <1>1, ElementOf
<1> QED
  BY <1>1, <1>2, FS_EmptySet

\* appendCatalog lists the new device, and lists no device twice.
LEMMA AppendElements ==
  ASSUME NEW seq \in Seq(Devices), Len(seq) = Cardinality(Elements(seq)),
         NEW items \in SUBSET Devices, Cardinality(items) <= 1
  PROVE  LET t == appendCatalog(seq, items)
         IN  /\ t \in Seq(Devices)
             /\ Elements(t) = Elements(seq) \cup items
             /\ Len(t) = Cardinality(Elements(t))
<1> DEFINE new == items \ Elements(seq)
           d == CHOOSE x \in new : TRUE
<1>1. IsFiniteSet(Elements(seq)) /\ Elements(seq) \subseteq Devices
  <2>1. \A i \in 1..Len(seq) : seq[i] \in Devices
    OBVIOUS
  <2>2. Elements(seq) \in SUBSET Devices
    BY <2>1 DEF Elements
  <2> QED
    BY <2>2, FS_Subset, CatalogAssumption
<1>2. IsFiniteSet(items)
  BY FS_Subset, CatalogAssumption
<1>3. CASE new = {}
  BY <1>3 DEF appendCatalog
<1>4. CASE new # {}
  <2>1. d \in new /\ appendCatalog(seq, items) = Append(seq, d)
    BY <1>4 DEF appendCatalog
  <2>2. items = {d}
    <3>1. {d} \in SUBSET items /\ Cardinality({d}) = 1
      BY <2>1, FS_Singleton
    <3>2. Cardinality({d}) <= Cardinality(items)
      BY <1>2, <3>1, FS_Subset
    <3>3. Cardinality(items) = Cardinality({d})
      <4>1. Cardinality(items) \in Nat
        BY <1>2, FS_CardinalityType
      <4> QED
        BY <3>1, <3>2, <4>1
    <3> QED
      BY <1>2, <3>1, <3>3, FS_Subset
  <2>3. Elements(Append(seq, d)) = Elements(seq) \cup {d}
    <3>1. /\ Len(seq) \in Nat /\ Len(Append(seq, d)) = Len(seq) + 1
          /\ \A i \in 1..Len(seq) : Append(seq, d)[i] = seq[i]
          /\ Append(seq, d)[Len(seq) + 1] = d
      BY <2>1
    <3>2. ASSUME NEW x PROVE x \in Elements(Append(seq, d)) <=> x \in Elements(seq) \/ x = d
      <4>1. ASSUME x \in Elements(seq) PROVE x \in Elements(Append(seq, d))
        <5>1. PICK i \in 1..Len(seq) : x = seq[i]
          BY <4>1, ElementOf
        <5>2. i \in 1..Len(Append(seq, d)) /\ x = Append(seq, d)[i]
          BY <3>1, <5>1
        <5> QED
          BY <5>2, ElementOf
      <4>2. d \in Elements(Append(seq, d))
        <5>1. Len(seq) + 1 \in 1..Len(Append(seq, d))
          BY <3>1
        <5> QED
          BY <3>1, <5>1, ElementOf
      <4>3. ASSUME x \in Elements(Append(seq, d)), x # d PROVE x \in Elements(seq)
        <5>1. PICK i \in 1..Len(Append(seq, d)) : x = Append(seq, d)[i]
          BY <4>3, ElementOf
        <5>2. i \in 1..Len(seq) /\ x = seq[i]
          BY <3>1, <4>3, <5>1
        <5> QED
          BY <5>2, ElementOf
      <4> QED
        BY <4>1, <4>2, <4>3
    <3> QED
      BY <3>2
  <2>4. Cardinality(Elements(seq) \cup {d}) = Cardinality(Elements(seq)) + 1
    BY <1>1, <2>1, FS_AddElement
  <2> QED
    <3>1. Append(seq, d) \in Seq(Devices) /\ Len(Append(seq, d)) = Len(seq) + 1
      BY <2>1
    <3> QED
      BY <2>1, <2>2, <2>3, <2>4, <3>1
<1> QED
  BY <1>3, <1>4

\* It holds initially,
LEMMA InitCatalogInv == CatalogInit => CatalogInv
<1> SUFFICES ASSUME CatalogInit PROVE CatalogInv
  OBVIOUS
<1>1. \A p \in Peers : Listed(p) = {} /\ Len(catalog[p]) = Cardinality(Listed(p))
  BY ElementsOfEmpty DEF CatalogInit, Listed
<1>2. catalog \in [Peers -> Seq(Devices)]
  BY DEF CatalogInit
<1>3. CatalogTypeOK
  BY <1>1, <1>2, CatalogAssumption DEF CatalogInit, CatalogTypeOK
<1> QED
  BY <1>1, <1>3 DEF CatalogInit, CatalogInv, AnswersFromFile, ListedFromFile, CompleteIsWhole

\* An answer appends to one catalog, and reports it complete when it is.
LEMMA ResponseIInv ==
  ASSUME CatalogInv, NEW m \in wire, CatalogResponse(m)
  PROVE  CatalogInv'
<1> USE DEF CatalogResponse
<1> DEFINE p == m.peer
           t == appendCatalog(catalog[p], m.items)
<1>1. CatalogTypeOK
  BY DEF CatalogInv
<1>2. /\ p \in Peers /\ m.items \in SUBSET Devices /\ Cardinality(m.items) <= 1
      /\ m.sumNum \in Nat
  BY <1>1 DEF CatalogTypeOK, Query, AnswerMessage
<1>3. /\ t \in Seq(Devices)
      /\ Elements(t) = Elements(catalog[p]) \cup m.items
      /\ Len(t) = Cardinality(Elements(t))
  BY <1>1, <1>2, AppendElements DEF CatalogTypeOK, Listed
<1>4. /\ catalog' = [catalog EXCEPT ![p] = t]
      /\ catalog'[p] = t
      /\ \A q \in Peers \ {p} : catalog'[q] = catalog[q]
  BY <1>1, <1>2 DEF CatalogTypeOK
<1>5. wire' \subseteq wire
  BY DEF Deliver
<1>6. CatalogTypeOK'
  BY <1>1, <1>2, <1>3, <1>4, <1>5 DEF CatalogTypeOK, Listed
<1>7. ASSUME edits' = 0
      PROVE  /\ AnswersFromFile' /\ ListedFromFile'
             /\ \A q \in complete' : Listed(q)' \in {{}, file'[q]}
  <2>1. AnswersFromFile /\ ListedFromFile
    BY <1>7 DEF CatalogInv
  <2>2. m.items \subseteq file[p] /\ m.sumNum = Cardinality(file[p])
    BY <2>1 DEF AnswersFromFile
  <2>3. ListedFromFile'
    BY <1>2, <1>3, <1>4, <2>1, <2>2 DEF ListedFromFile, Listed
  <2>4. ASSUME p \in complete'
        PROVE  Listed(p)' = file[p]
    <3>1. m.sumNum > 0 /\ Len(t) >= m.sumNum
      BY <1>2, <1>4, <2>4
    <3>2. Elements(t) \in SUBSET file[p] /\ IsFiniteSet(file[p])
      <4>1. file[p] \in SUBSET Devices
        BY <1>1, <1>2 DEF CatalogTypeOK
      <4> QED
        BY <1>2, <1>4, <2>3, <4>1, FS_Subset, CatalogAssumption DEF ListedFromFile, Listed
    <3>3. Cardinality(Elements(t)) = Cardinality(file[p])
      <4>1. Cardinality(Elements(t)) <= Cardinality(file[p])
        BY <3>2, FS_Subset
      <4>2. Cardinality(file[p]) \in Nat /\ Cardinality(Elements(t)) \in Nat
        BY <3>2, FS_Subset, FS_CardinalityType
      <4> QED
        BY <1>3, <2>2, <3>1, <4>1, <4>2
    <3> QED
      BY <1>4, <3>2, <3>3, FS_Subset DEF Listed
  <2>5. \A q \in complete' : Listed(q)' \in {{}, file'[q]}
    <3>1. \A q \in complete' : q # p => q \in complete /\ q \in Peers
      BY <1>1 DEF CatalogTypeOK
    <3>2. \A q \in complete' : q # p => Listed(q)' \in {{}, file'[q]}
      BY <1>4, <1>7, <3>1 DEF CatalogInv, CompleteIsWhole, Listed
    <3> QED
      BY <2>4, <3>2
  <2> QED
    BY <1>5, <2>1, <2>3, <2>5 DEF AnswersFromFile
<1> QED
  BY <1>6, <1>7 DEF CatalogInv, CompleteIsWhole

\* A query is answered from the file as it is.
LEMMA QueryIInv ==
  ASSUME CatalogInv, NEW m \in wire, CatalogQuery(m)
  PROVE  CatalogInv'
<1> USE DEF CatalogQuery
<1> DEFINE p == m.peer
           answer(body) == [type |-> "Response", peer |-> p, number |-> m.number,
                            items |-> body.items, sumNum |-> body.sumNum]
<1>1. CatalogTypeOK
  BY DEF CatalogInv
<1>2. p \in Peers /\ m.number \in 1..MaxQueries /\ file[p] \in SUBSET Devices
  BY <1>1 DEF CatalogTypeOK, Query, AnswerMessage
<1>3. /\ IsFiniteSet(file[p])
      /\ Cardinality(file[p]) \in 0..Cardinality(Devices)
  <2>1. IsFiniteSet(file[p]) /\ Cardinality(file[p]) <= Cardinality(Devices)
    BY <1>2, FS_Subset, CatalogAssumption
  <2> QED
    BY <2>1, FS_CardinalityType, CatalogAssumption
<1>4. \A body \in makeCatalogResponseBodies(p) :
        /\ body.items \subseteq file[p] /\ Cardinality(body.items) <= 1
        /\ body.sumNum = Cardinality(file[p])
  <2>1. Cardinality({}) = 0 /\ \A x : Cardinality({x}) = 1
    BY FS_EmptySet, FS_Singleton
  <2>2. CASE file[p] = {}
    <3>1. makeCatalogResponseBodies(p) = {[items |-> {}, sumNum |-> 0]}
      BY <2>2 DEF makeCatalogResponseBodies
    <3> QED
      BY <2>1, <2>2, <3>1
  <2>3. CASE file[p] # {}
    <3>1. makeCatalogResponseBodies(p)
            = {[items |-> {d}, sumNum |-> Cardinality(file[p])] : d \in file[p]}
      BY <2>3 DEF makeCatalogResponseBodies
    <3>2. ASSUME NEW body \in makeCatalogResponseBodies(p)
          PROVE  /\ body.items \subseteq file[p] /\ Cardinality(body.items) <= 1
                 /\ body.sumNum = Cardinality(file[p])
      <4>1. PICK d \in file[p] : body = [items |-> {d}, sumNum |-> Cardinality(file[p])]
        BY <3>1, <3>2
      <4>2. body.items = {d} /\ body.sumNum = Cardinality(file[p])
        BY <4>1
      <4>3. Cardinality({d}) = 1
        BY <2>1
      <4> QED
        BY <4>2, <4>3
    <3> QED
      BY <3>2
  <2> QED
    BY <2>2, <2>3
<1>5. \A n \in wire' : n \in wire \/ \E body \in makeCatalogResponseBodies(p) : n = answer(body)
  BY DEF Deliver
<1>6. \A body \in makeCatalogResponseBodies(p) : answer(body) \in AnswerMessage
  BY <1>2, <1>3, <1>4 DEF AnswerMessage
<1>7. wire' \subseteq Query \cup AnswerMessage
  BY <1>1, <1>5, <1>6 DEF CatalogTypeOK
<1>8. CatalogTypeOK'
  BY <1>1, <1>7 DEF CatalogTypeOK, Listed
<1>9. ASSUME edits' = 0
      PROVE  AnswersFromFile' /\ ListedFromFile'
  <2>1. AnswersFromFile /\ ListedFromFile
    BY <1>9 DEF CatalogInv
  <2>2. AnswersFromFile'
    BY <1>4, <1>5, <2>1 DEF AnswersFromFile
  <2> QED
    BY <2>1, <2>2 DEF ListedFromFile, Listed
<1> QED
  BY <1>8, <1>9 DEF CatalogInv, CompleteIsWhole, Listed

\* and every step keeps it.
LEMMA NextCatalogInv == CatalogInv /\ [CatalogNext]_catalogVars => CatalogInv'
<1> SUFFICES ASSUME CatalogInv, [CatalogNext]_catalogVars PROVE CatalogInv'
  OBVIOUS
<1>1. CatalogTypeOK
  BY DEF CatalogInv
<1>2. ASSUME NEW p \in Peers, RequestCatalog(p) PROVE CatalogInv'
  <2>1. queries[p] + 1 \in 1..MaxQueries
    BY <1>1, <1>2, CatalogAssumption DEF CatalogTypeOK, RequestCatalog
  <2>2. CatalogTypeOK'
    BY <1>1, <1>2, <2>1 DEF CatalogTypeOK, RequestCatalog, Query, Listed
  <2>3. edits' = 0 => AnswersFromFile' /\ ListedFromFile'
    BY <1>2 DEF CatalogInv, RequestCatalog, AnswersFromFile, ListedFromFile, Listed
  <2> QED
    BY <1>2, <2>2, <2>3 DEF CatalogInv, RequestCatalog, CompleteIsWhole, Listed
<1>3. CASE StartSnapshot
  <2>1. PICK p \in Peers : p = clearing
    BY <1>1, <1>3 DEF CatalogTypeOK, StartSnapshot
  <2>2. /\ catalog' = [catalog EXCEPT ![p] = <<>>]
        /\ catalog'[p] = <<>>
        /\ \A q \in Peers \ {p} : catalog'[q] = catalog[q]
    BY <1>1, <1>3, <2>1 DEF CatalogTypeOK, StartSnapshot
  <2>3. Listed(p)' = {} /\ Len(catalog'[p]) = Cardinality(Listed(p)')
    BY <2>2, ElementsOfEmpty DEF Listed
  <2>4. \A q \in Peers \ {p} : Listed(q)' = Listed(q)
    BY <2>2 DEF Listed
  <2>5. CatalogTypeOK'
    <3>1. catalog' \in [Peers -> Seq(Devices)]
      BY <1>1, <2>2 DEF CatalogTypeOK
    <3>2. \A q \in Peers : Len(catalog'[q]) = Cardinality(Listed(q)')
      BY <1>1, <2>2, <2>3, <2>4 DEF CatalogTypeOK
    <3> QED
      BY <1>1, <1>3, <3>1, <3>2 DEF CatalogTypeOK, StartSnapshot
  <2>6. edits' = 0 => AnswersFromFile' /\ ListedFromFile'
    BY <1>3, <2>3, <2>4 DEF CatalogInv, StartSnapshot, AnswersFromFile, ListedFromFile
  <2>7. CompleteIsWhole'
    BY <1>1, <1>3, <2>3, <2>4 DEF CatalogTypeOK, CatalogInv, StartSnapshot, CompleteIsWhole
  <2> QED
    BY <2>5, <2>6, <2>7 DEF CatalogInv
<1>4. ASSUME NEW m \in wire, CatalogResponse(m) PROVE CatalogInv'
  BY <1>4, ResponseIInv
<1>5. ASSUME NEW m \in wire, CatalogQuery(m) PROVE CatalogInv'
  BY <1>5, QueryIInv
<1>6. CASE Restart
  <2>1. \A p \in Peers : Listed(p)' = {} /\ Len(catalog'[p]) = Cardinality(Listed(p)')
    BY <1>6, ElementsOfEmpty DEF Restart, Listed
  <2>2. CatalogTypeOK'
    <3>1. catalog' \in [Peers -> Seq(Devices)]
      BY <1>6 DEF Restart
    <3> QED
      BY <1>1, <1>6, <2>1, <3>1 DEF CatalogTypeOK, Restart
  <2> QED
    BY <1>6, <2>1, <2>2 DEF CatalogInv, Restart, AnswersFromFile, ListedFromFile, CompleteIsWhole
<1>7. ASSUME NEW p \in Peers, NEW devices \in SUBSET Devices, EditFile(p, devices)
      PROVE  CatalogInv'
  <2>1. edits' \in 0..MaxEdits /\ edits' # 0
    BY <1>1, <1>7, CatalogAssumption DEF CatalogTypeOK, EditFile
  <2> QED
    BY <1>1, <1>7, <2>1 DEF CatalogTypeOK, EditFile, CatalogInv, CompleteIsWhole, Listed
<1>8. CASE UNCHANGED catalogVars
  BY <1>8 DEF CatalogInv, catalogVars, CatalogTypeOK, AnswersFromFile, ListedFromFile, CompleteIsWhole, Listed
<1> QED
  BY <1>2, <1>3, <1>4, <1>5, <1>6, <1>7, <1>8 DEF CatalogNext, Receive

-----------------------------------------------------------------------------
\* The inductive invariant holds of every reachable state.
THEOREM CatalogInductive == CatalogSpec => []CatalogInv
  BY InitCatalogInv, NextCatalogInv, PTL DEF CatalogSpec

\* Catalogs, answers and queries keep their types, and no catalog lists a device
\* twice, whatever MESSAGEs are lost, repeated or reordered.
THEOREM CatalogTypeCorrect == CatalogSpec => []CatalogTypeOK
<1>1. CatalogInv => CatalogTypeOK
  BY DEF CatalogInv
<1> QED
  BY CatalogInductive, <1>1, PTL

\* A catalog that CatalogClientCapability reports complete lists the whole file,
\* unless a new query has just cleared it.
THEOREM Completeness == CatalogSpec => []CompleteIsWhole
<1>1. CatalogInv => CompleteIsWhole
  BY DEF CatalogInv
<1> QED
  BY CatalogInductive, <1>1, PTL

-----------------------------------------------------------------------------
(* InviteDialog: types and, on every network, that each end's stream has   *)
(* the other's consent behind it; on a network that loses and repeats      *)
(* nothing, that both ends agree when all is said.                         *)

\* What is in flight was sent: a 200 by a callee that has accepted, an ACK by the
\* caller, and the callee has a session only of a call it has accepted.
FlightInv ==
  /\ \A i \in 1..Len(toCaller) : toCaller[i].ok => toCaller[i].call \in answered
  /\ \A i \in 1..Len(toCallee) : toCallee[i].method = "ACK" => toCallee[i].call \in acked
  /\ \A c \in Calls : callee[c] # "none" => c \in answered

\* The inductive invariant for every network.
IInv == TypeOK /\ FlightInv /\ StreamGrounded

-----------------------------------------------------------------------------
(* Queues                                                                  *)

\* What is left of a queue was in it.
LEMMA RemoveAtFact ==
  ASSUME NEW S, NEW seq \in Seq(S), NEW i \in 1..Len(seq)
  PROVE  /\ RemoveAt(seq, i) \in Seq(S)
         /\ \A j \in 1..Len(RemoveAt(seq, i)) : \E k \in 1..Len(seq) : RemoveAt(seq, i)[j] = seq[k]
<1> DEFINE front == SubSeq(seq, 1, i - 1)
           back  == SubSeq(seq, i + 1, Len(seq))
<1>1. front \in Seq(S) /\ Len(front) = i - 1 /\ \A j \in 1..i - 1 : front[j] = seq[j]
  OBVIOUS
<1>2. back \in Seq(S) /\ Len(back) = Len(seq) - i /\ \A j \in 1..Len(seq) - i : back[j] = seq[i + j]
  OBVIOUS
<1> HIDE DEF front, back
<1>3. RemoveAt(seq, i) = front \o back
  BY DEF RemoveAt, front, back
<1>4. front \o back \in Seq(S) /\ Len(front \o back) = Len(seq) - 1
  BY <1>1, <1>2
<1>5. ASSUME NEW j \in 1..Len(seq) - 1 PROVE \E k \in 1..Len(seq) : (front \o back)[j] = seq[k]
  <2>1. CASE j < i
    <3>1. (front \o back)[j] = front[j]
      BY <1>1, <1>2, <2>1
    <3> QED
      BY <1>1, <2>1, <3>1
  <2>2. CASE j >= i
    <3>1. (front \o back)[j] = back[j - (i - 1)]
      BY <1>1, <1>2, <2>2
    <3>2. back[j - (i - 1)] = seq[j + 1]
      BY <1>2, <2>2
    <3> QED
      BY <3>1, <3>2
  <2>3. j < i \/ j >= i
    OBVIOUS
  <2> QED
    BY <2>1, <2>2, <2>3
<1> QED
  BY <1>3, <1>4, <1>5

\* A message that is appended comes last.
LEMMA AppendFact ==
  ASSUME NEW S, NEW seq \in Seq(S), NEW m \in S
  PROVE  /\ Append(seq, m) \in Seq(S)
         /\ \A j \in 1..Len(Append(seq, m)) : Append(seq, m)[j] = m \/ \E k \in 1..Len(seq) : Append(seq, m)[j] = seq[k]
  OBVIOUS

\* What the sending of a request does to the queue and to what is known of it.
LEMMA SendFact ==
  ASSUME IInv, NEW method \in {"INVITE", "ACK", "BYE"}, NEW c \in Calls, Send(method, c),
         acked \subseteq acked', method = "ACK" => c \in acked'
  PROVE  /\ toCallee' \in Seq(Request)
         /\ \A i \in 1..Len(toCallee') : toCallee'[i].method = "ACK" => toCallee'[i].call \in acked'
<1> DEFINE m == [method |-> method, call |-> c]
<1>1. m \in Request /\ toCallee \in Seq(Request)
  BY DEF IInv, TypeOK, Request
<1>2. toCallee' = Append(toCallee, m)
  BY DEF Send
<1>3. m.method = "ACK" => m.call \in acked'
  OBVIOUS
<1> HIDE DEF m
<1> QED
  BY <1>1, <1>2, <1>3, AppendFact DEF IInv, FlightInv

-----------------------------------------------------------------------------
\* It holds before the first call,
LEMMA InitIInv == Init => IInv
  BY DEF Init, IInv, TypeOK, FlightInv, StreamGrounded, Request, Response

\* the caller's commands keep it,
LEMMA RequestInviteStep == ASSUME IInv, NEW c \in Calls, RequestInvite(c) PROVE IInv'
<1>1. toCallee' \in Seq(Request) /\ \A i \in 1..Len(toCallee') : toCallee'[i].method = "ACK" => toCallee'[i].call \in acked'
  BY SendFact DEF RequestInvite
<1> QED
  BY <1>1 DEF RequestInvite, IInv, TypeOK, FlightInv, StreamGrounded, calleeVars

LEMMA RequestByeStep == ASSUME IInv, NEW c \in Calls, RequestBye(c) PROVE IInv'
<1>1. toCallee' \in Seq(Request) /\ \A i \in 1..Len(toCallee') : toCallee'[i].method = "ACK" => toCallee'[i].call \in acked'
  BY SendFact DEF RequestBye
<1>2. caller[c] # "none"
  BY DEF RequestBye
<1> QED
  BY <1>1, <1>2 DEF RequestBye, IInv, TypeOK, FlightInv, StreamGrounded, calleeVars

\* what is left to do of its BYE does,
LEMMA CloseSessionStep == ASSUME IInv, CloseSession PROVE IInv'
  BY DEF CloseSession, IInv, TypeOK, FlightInv, StreamGrounded, calleeVars

\* the timers of its transaction do,
LEMMA TransactionStep ==
  ASSUME IInv, NEW c \in Calls, Repeat(c) \/ Timeout(c) \/ Expire(c) PROVE IInv'
<1>1. CASE Repeat(c)
  <2>1. toCallee' \in Seq(Request) /\ \A i \in 1..Len(toCallee') : toCallee'[i].method = "ACK" => toCallee'[i].call \in acked'
    BY <1>1, SendFact DEF Repeat
  <2> QED
    BY <1>1, <2>1 DEF Repeat, IInv, TypeOK, FlightInv, StreamGrounded, calleeVars
<1>2. CASE Timeout(c)
  <2>1. /\ up' \in BOOLEAN
        /\ transaction' \in [Calls -> {"none", "calling", "completed", "terminated"}]
        /\ caller' \in [Calls -> {"none", "requested", "confirmed"}]
        /\ bye' \in Calls \cup {NoCall}
        /\ \A d \in Calls : caller'[d] = "confirmed" => caller[d] = "confirmed"
    <3>1. CASE transaction' = [transaction EXCEPT ![c] = "terminated"] /\ UNCHANGED <<up, caller, bye>>
      BY <3>1 DEF IInv, TypeOK
    <3>2. CASE /\ up' = FALSE /\ bye' = NoCall
               /\ caller' = [d \in Calls |-> "none"]
               /\ transaction' = [d \in Calls |-> "terminated"]
      BY <3>2
    <3> QED
      BY <1>2, <3>1, <3>2 DEF Timeout
  <2>2. UNCHANGED <<network, repeats, callee, adapters, answered, toCallee, toCaller, acked, ended>>
    BY <1>2 DEF Timeout, calleeVars
  <2> QED
    BY <2>1, <2>2 DEF IInv, TypeOK, FlightInv, StreamGrounded
<1>3. CASE Expire(c)
  BY <1>3 DEF Expire, IInv, TypeOK, FlightInv, StreamGrounded, calleeVars
<1> QED
  BY <1>1, <1>2, <1>3

\* An answer confirms a call only if it is a 200, which the callee sent.
LEMMA CallerReceivesStep == IInv /\ CallerReceives => IInv'
<1> SUFFICES ASSUME IInv, CallerReceives PROVE IInv'
  OBVIOUS
<1>1. PICK i \in Deliverable(toCaller) :
        LET c == toCaller[i].call
        IN  /\ \/ toCaller[i].ok /\ \E sent \in MaySend(c) : ReceiveOk(c, sent)
               \/ ~toCaller[i].ok /\ ReceiveRejection(c)
               \/ ReceiveCompleted(c)
            /\ toCaller' = RemoveAt(toCaller, i)
  BY DEF CallerReceives
<1> DEFINE c == toCaller[i].call
<1>2. i \in 1..Len(toCaller) /\ toCaller \in Seq(Response)
  BY DEF Deliverable, IInv, TypeOK
<1>3. c \in Calls
  <2>1. toCaller[i] \in Response
    BY <1>2
  <2> QED
    BY <2>1 DEF Response
<1>4. /\ toCaller' \in Seq(Response)
      /\ \A j \in 1..Len(toCaller') : toCaller'[j].ok => toCaller'[j].call \in answered
  BY <1>1, <1>2, RemoveAtFact DEF IInv, FlightInv
<1>5. UNCHANGED <<network, up, repeats, bye, callee, adapters, answered, ended>>
  BY DEF CallerReceives, calleeVars
<1>6. /\ caller' \in [Calls -> {"none", "requested", "confirmed"}]
      /\ \A d \in Calls : caller'[d] = "confirmed" => d \in answered
      /\ transaction' \in [Calls -> {"none", "calling", "completed", "terminated"}]
      /\ acked \subseteq acked' /\ acked' \subseteq Calls
      /\ (Send("ACK", c) /\ c \in acked') \/ toCallee' = toCallee
  <2> HIDE DEF c
  <2>1. CASE toCaller[i].ok /\ \E sent \in MaySend(c) : ReceiveOk(c, sent)
    <3>1. c \in answered
      BY <1>2, <2>1 DEF IInv, FlightInv, c
    <3> QED
      BY <1>3, <2>1, <3>1 DEF ReceiveOk, Confirm, IInv, TypeOK, StreamGrounded
  <2>2. CASE ReceiveRejection(c)
    BY <1>3, <2>2 DEF ReceiveRejection, IInv, TypeOK, StreamGrounded
  <2>3. CASE ReceiveCompleted(c)
    BY <1>3, <2>3 DEF ReceiveCompleted, IInv, TypeOK, StreamGrounded
  <2> QED
    BY <1>1, <2>1, <2>2, <2>3 DEF c
<1> HIDE DEF c
<1>7. /\ toCallee' \in Seq(Request)
      /\ \A j \in 1..Len(toCallee') : toCallee'[j].method = "ACK" => toCallee'[j].call \in acked'
  <2>1. CASE Send("ACK", c) /\ c \in acked'
    BY <1>3, <1>6, <2>1, SendFact
  <2>2. CASE toCallee' = toCallee
    BY <1>6, <2>2 DEF IInv, TypeOK, FlightInv, Request
  <2> QED
    BY <1>6, <2>1, <2>2
<1> QED
  BY <1>4, <1>5, <1>6, <1>7 DEF IInv, TypeOK, FlightInv, StreamGrounded

\* The callee confirms a call only on an ACK, and for a session it has opened.
LEMMA CalleeReceivesStep == IInv /\ CalleeReceives => IInv'
<1> SUFFICES ASSUME IInv, CalleeReceives PROVE IInv'
  OBVIOUS
<1>1. PICK i \in Deliverable(toCallee) :
        LET m == toCallee[i]
        IN  /\ \/ m.method = "INVITE" /\ \E port \in BOOLEAN : ReceiveInvite(m.call, port)
               \/ m.method = "ACK" /\ \E starts \in BOOLEAN : ReceiveAck(m.call, starts)
               \/ m.method = "BYE" /\ ReceiveBye(m.call)
            /\ toCallee' = RemoveAt(toCallee, i)
  BY DEF CalleeReceives
<1> DEFINE c == toCallee[i].call
<1>2. i \in 1..Len(toCallee) /\ toCallee \in Seq(Request)
  BY DEF Deliverable, IInv, TypeOK
<1>3. c \in Calls
  <2>1. toCallee[i] \in Request
    BY <1>2
  <2> QED
    BY <2>1 DEF Request
<1>4. UNCHANGED <<network, up, caller, transaction, repeats, bye, acked, ended>>
  BY DEF CalleeReceives, callerVars
<1>5. /\ toCallee' \in Seq(Request)
      /\ \A j \in 1..Len(toCallee') : toCallee'[j].method = "ACK" => toCallee'[j].call \in acked
  BY <1>1, <1>2, RemoveAtFact DEF IInv, FlightInv
<1>6. /\ callee' \in [Calls -> {"none", "requested", "confirmed", "failed"}]
      /\ adapters' \subseteq Calls
      /\ answered \subseteq answered' /\ answered' \subseteq Calls
      /\ \A d \in Calls : callee'[d] # "none" => d \in answered'
      /\ \A d \in Calls : callee'[d] = "confirmed" => d \in acked
      /\ toCaller' \in Seq(Response)
      /\ \A j \in 1..Len(toCaller') : toCaller'[j].ok => toCaller'[j].call \in answered'
  <2> HIDE DEF c
  <2>1. ASSUME NEW port \in BOOLEAN, ReceiveInvite(c, port) PROVE <1>6!:
    <3> DEFINE m == [ok |-> port, call |-> c]
    <3>1. m \in Response /\ toCaller \in Seq(Response)
      BY <1>3 DEF Response, IInv, TypeOK
    <3>2. toCaller' = Append(toCaller, m)
      BY <2>1 DEF ReceiveInvite, Answer
    <3>3. answered \subseteq answered' /\ answered' \subseteq Calls /\ (port => c \in answered')
      BY <1>3, <2>1 DEF ReceiveInvite, IInv, TypeOK
    <3>4. m.ok => m.call \in answered'
      BY <3>3
    <3> HIDE DEF m
    <3>5. /\ toCaller' \in Seq(Response)
          /\ \A j \in 1..Len(toCaller') : toCaller'[j].ok => toCaller'[j].call \in answered'
      BY <3>1, <3>2, <3>3, <3>4, AppendFact DEF IInv, FlightInv
    <3> QED
      BY <1>3, <2>1, <3>3, <3>5 DEF ReceiveInvite, IInv, TypeOK, FlightInv, StreamGrounded
  <2>2. ASSUME NEW starts \in BOOLEAN, toCallee[i].method = "ACK", ReceiveAck(c, starts) PROVE <1>6!:
    <3>1. c \in acked
      BY <1>2, <2>2 DEF IInv, FlightInv, c
    <3> QED
      BY <1>3, <2>2, <3>1, SMTT(60) DEF ReceiveAck, IInv, TypeOK, FlightInv, StreamGrounded
  <2>3. CASE ReceiveBye(c)
    BY <1>3, <2>3 DEF ReceiveBye, IInv, TypeOK, FlightInv, StreamGrounded
  <2> QED
    BY <1>1, <2>1, <2>2, <2>3 DEF c
<1> QED
  BY <1>4, <1>5, <1>6 DEF IInv, TypeOK, FlightInv, StreamGrounded

\* a lost message does,
LEMMA LoseStep == IInv /\ Lose => IInv'
<1> SUFFICES ASSUME IInv, Lose PROVE IInv'
  OBVIOUS
<1>1. UNCHANGED <<network, up, caller, transaction, repeats, bye, callee, adapters, answered, acked, ended>>
  BY DEF Lose, callerVars, calleeVars
<1>2. toCallee \in Seq(Request) /\ toCaller \in Seq(Response)
  BY DEF IInv, TypeOK
<1>3. ASSUME NEW i \in 1..Len(toCallee), toCallee' = RemoveAt(toCallee, i), UNCHANGED toCaller
      PROVE  IInv'
  <2>1. /\ toCallee' \in Seq(Request)
        /\ \A j \in 1..Len(toCallee') : toCallee'[j].method = "ACK" => toCallee'[j].call \in acked
    BY <1>2, <1>3, RemoveAtFact DEF IInv, FlightInv
  <2> QED
    BY <1>1, <1>3, <2>1 DEF IInv, TypeOK, FlightInv, StreamGrounded
<1>4. ASSUME NEW i \in 1..Len(toCaller), toCaller' = RemoveAt(toCaller, i), UNCHANGED toCallee
      PROVE  IInv'
  <2>1. /\ toCaller' \in Seq(Response)
        /\ \A j \in 1..Len(toCaller') : toCaller'[j].ok => toCaller'[j].call \in answered
    BY <1>2, <1>4, RemoveAtFact DEF IInv, FlightInv
  <2> QED
    BY <1>1, <1>4, <2>1 DEF IInv, TypeOK, FlightInv, StreamGrounded
<1> QED
  BY <1>3, <1>4 DEF Lose

\* and so does every step.
LEMMA NextIInv == IInv /\ [Next]_vars => IInv'
<1> SUFFICES ASSUME IInv, [Next]_vars PROVE IInv'
  OBVIOUS
<1>1. CASE UNCHANGED vars
  BY <1>1 DEF vars, IInv, TypeOK, FlightInv, StreamGrounded
<1>2. CASE Next
  BY <1>2, RequestInviteStep, RequestByeStep, CloseSessionStep, TransactionStep,
     CallerReceivesStep, CalleeReceivesStep, LoseStep DEF Next
<1> QED
  BY <1>1, <1>2

\* The invariant holds of every behaviour of two nodes.
THEOREM Inductive == Spec => []IInv
  BY InitIInv, NextIInv, PTL DEF Spec

\* The types of both ends and of the messages between them.
THEOREM TypeCorrect == Spec => []TypeOK
<1> IInv => TypeOK
  BY DEF IInv
<1> QED
  BY Inductive, PTL

\* A stream has the consent of the other end behind it, whatever is lost, repeated
\* or overtaken.
THEOREM Grounding == Spec => []StreamGrounded
<1> IInv => StreamGrounded
  BY DEF IInv
<1> QED
  BY Inductive, PTL

-----------------------------------------------------------------------------
(* EndsAgree: what is in flight decides how both ends will stand           *)

\* What is in flight of a call: its INVITE, its BYE, a 200 or a rejection.
Inviting(c) == \E i \in 1..Len(toCallee) : toCallee[i].method = "INVITE" /\ toCallee[i].call = c
Leaving(c)  == \E i \in 1..Len(toCallee) : toCallee[i].method = "BYE" /\ toCallee[i].call = c
Accepting(c) == \E i \in 1..Len(toCaller) : toCaller[i].ok /\ toCaller[i].call = c
Rejecting(c) == \E i \in 1..Len(toCaller) : ~toCaller[i].ok /\ toCaller[i].call = c
\* No answer to a call is in flight.
Unanswered(c) == ~Accepting(c) /\ ~Rejecting(c)

\* A call has at most one INVITE in flight, and it precedes the call's BYE.
InvitesFirst ==
  \A i, j \in 1..Len(toCallee) :
    (/\ toCallee[i].method = "INVITE"
     /\ toCallee[j].method \in {"INVITE", "BYE"}
     /\ toCallee[i].call = toCallee[j].call) => i <= j

\* A call has one answer in flight at most.
OneAnswer == \A i, j \in 1..Len(toCaller) : toCaller[i].call = toCaller[j].call => i = j

\* How the two ends of a call, its transaction and its messages fit together.
CallInv(c) ==
  /\ transaction[c] = "none" => caller[c] = "none" /\ ended[c] = "no"
  /\ transaction[c] = "completed" => Unanswered(c) /\ ~Inviting(c)
  /\ Inviting(c) => callee[c] = "none" /\ Unanswered(c)
  /\ Rejecting(c) => callee[c] = "none"
  /\ Accepting(c) => callee[c] # "none" \/ ended[c] # "no"
  /\ ended[c] = "no" =>
       /\ bye # c /\ ~Leaving(c)
       /\ IF caller[c] = "none"
          THEN callee[c] = "none" /\ ~Inviting(c) /\ Unanswered(c)
          ELSE callee[c] # "none" \/ Inviting(c) \/ ~Unanswered(c)
  /\ ended[c] # "no" =>
       /\ caller[c] = "none" \/ bye = c
       /\ Leaving(c) \/ (callee[c] = "none" /\ ~Inviting(c))

\* The network EndsAgree speaks of.
Calm == Orderly /\ network.repeats = 0 /\ up

\* The last word: once an answer or a BYE has arrived nothing can come after it
\* that opens the session again.
AgreeInv == Calm => InvitesFirst /\ OneAnswer /\ \A c \in Calls : CallInv(c)

\* The first message of a queue leaves it.
LEMMA HeadRemoved ==
  ASSUME NEW S, NEW seq \in Seq(S), seq # <<>>
  PROVE  /\ RemoveAt(seq, 1) \in Seq(S)
         /\ Len(RemoveAt(seq, 1)) = Len(seq) - 1
         /\ \A j \in 1..Len(seq) - 1 : RemoveAt(seq, 1)[j] = seq[j + 1]
         /\ Len(seq) \in Nat \ {0}
<1>0. Len(seq) \in Nat \ {0}
  BY EmptySeq
<1> DEFINE front == SubSeq(seq, 1, 0)
           back  == SubSeq(seq, 2, Len(seq))
<1>1. front \in Seq(S) /\ Len(front) = 0
  BY <1>0
<1>2. back \in Seq(S) /\ Len(back) = Len(seq) - 1 /\ \A j \in 1..Len(seq) - 1 : back[j] = seq[j + 1]
  <2>1. back = Tail(seq)
    BY TailIsSubSeq, Zenon
  <2> HIDE DEF back
  <2> QED
    BY <1>0, <2>1, HeadTailProperties
<1> HIDE DEF front, back
<1>3. RemoveAt(seq, 1) = front \o back
  BY DEF RemoveAt, front, back
<1>4. /\ front \o back \in Seq(S) /\ Len(front \o back) = Len(seq) - 1
      /\ \A j \in 1..Len(seq) - 1 : (front \o back)[j] = back[j]
  BY <1>0, <1>1, <1>2
<1> QED
  BY <1>0, <1>2, <1>3, <1>4

\* A message at the end of a queue, and the others where they were.
LEMMA AppendExact ==
  ASSUME NEW S, NEW seq \in Seq(S), NEW m \in S
  PROVE  /\ Len(seq) \in Nat
         /\ Len(Append(seq, m)) = Len(seq) + 1
         /\ Append(seq, m)[Len(seq) + 1] = m
         /\ \A j \in 1..Len(seq) : Append(seq, m)[j] = seq[j]
  OBVIOUS

\* The caller sends a request.
LEMMA RequestSent ==
  ASSUME TypeOK, InvitesFirst, NEW method \in {"INVITE", "ACK", "BYE"}, NEW c \in Calls,
         Send(method, c), method = "INVITE" => ~Inviting(c) /\ ~Leaving(c)
  PROVE  /\ InvitesFirst'
         /\ \A d \in Calls : Inviting(d)' <=> Inviting(d) \/ (method = "INVITE" /\ d = c)
         /\ \A d \in Calls : Leaving(d)' <=> Leaving(d) \/ (method = "BYE" /\ d = c)
<1> DEFINE m == [method |-> method, call |-> c]
           n == Len(toCallee)
<1>1. m \in Request /\ toCallee \in Seq(Request)
  BY DEF TypeOK, Request
<1>2. toCallee' = Append(toCallee, m)
  BY DEF Send
<1>3. m.method = method /\ m.call = c
  OBVIOUS
<1> HIDE DEF m
<1>4. /\ n \in Nat /\ Len(toCallee') = n + 1 /\ toCallee'[n + 1] = m
      /\ \A j \in 1..n : toCallee'[j] = toCallee[j]
  BY <1>1, <1>2, AppendExact
<1> HIDE DEF n
<1>6. ASSUME NEW d \in Calls
      PROVE  /\ Inviting(d)' <=> Inviting(d) \/ (method = "INVITE" /\ d = c)
             /\ Leaving(d)' <=> Leaving(d) \/ (method = "BYE" /\ d = c)
  BY <1>3, <1>4 DEF Inviting, Leaving, n
<1>7. InvitesFirst'
  <2> SUFFICES ASSUME NEW i \in 1..n + 1, NEW j \in 1..n + 1,
                      toCallee'[i].method = "INVITE",
                      toCallee'[j].method \in {"INVITE", "BYE"},
                      toCallee'[i].call = toCallee'[j].call
               PROVE  i <= j
    BY <1>4 DEF InvitesFirst
  <2>1. CASE j = n + 1
    BY <1>4, <2>1
  <2>2. CASE j # n + 1 /\ i # n + 1
    BY <1>4, <2>2 DEF InvitesFirst, n
  <2>3. CASE j # n + 1 /\ i = n + 1
    <3>1. j \in 1..n /\ toCallee'[j] = toCallee[j]
      BY <1>4, <2>3
    <3>2. method = "INVITE" /\ toCallee[j].call = c
      BY <1>3, <1>4, <2>3, <3>1
    <3> QED
      BY <3>1, <3>2 DEF Inviting, Leaving, n
  <2> QED
    BY <2>1, <2>2, <2>3
<1> QED
  BY <1>6, <1>7

\* The callee takes the first request.
LEMMA RequestTaken ==
  ASSUME TypeOK, InvitesFirst, toCallee # <<>>, toCallee' = RemoveAt(toCallee, 1),
         NEW c \in Calls, c = toCallee[1].call, NEW method, method = toCallee[1].method
  PROVE  /\ InvitesFirst'
         /\ \A d \in Calls :
              /\ Inviting(d)' => Inviting(d)
              /\ Leaving(d)' => Leaving(d)
              /\ d # c \/ method # "INVITE" => (Inviting(d) => Inviting(d)')
              /\ d # c \/ method # "BYE" => (Leaving(d) => Leaving(d)')
         /\ method \in {"INVITE", "BYE"} => ~Inviting(c)'
         /\ method = "INVITE" => Inviting(c)
         /\ method = "BYE" => Leaving(c)
<1> DEFINE n == Len(toCallee)
<1>1. toCallee \in Seq(Request)
  BY DEF TypeOK
<1>2. /\ n \in Nat \ {0} /\ Len(toCallee') = n - 1
      /\ \A j \in 1..n - 1 : toCallee'[j] = toCallee[j + 1]
  BY <1>1, HeadRemoved
<1>3. InvitesFirst'
  BY <1>2, SMTT(30) DEF InvitesFirst
<1>4. ASSUME NEW d \in Calls
      PROVE  /\ Inviting(d)' => Inviting(d)
             /\ Leaving(d)' => Leaving(d)
  BY <1>2, SMTT(30) DEF Inviting, Leaving
<1>5. ASSUME NEW d \in Calls, NEW i \in 1..n, toCallee[i].call = d, i # 1
      PROVE  /\ toCallee[i].method = "INVITE" => Inviting(d)'
             /\ toCallee[i].method = "BYE" => Leaving(d)'
  <2>1. i - 1 \in 1..n - 1 /\ toCallee'[i - 1] = toCallee[(i - 1) + 1]
    BY <1>2, <1>5
  <2> QED
    BY <1>2, <1>5, <2>1 DEF Inviting, Leaving
<1>6. ASSUME NEW d \in Calls
      PROVE  /\ d # c \/ method # "INVITE" => (Inviting(d) => Inviting(d)')
             /\ d # c \/ method # "BYE" => (Leaving(d) => Leaving(d)')
  <2>1. ASSUME d # c \/ method # "INVITE", Inviting(d)
        PROVE  Inviting(d)'
    <3>1. PICK i \in 1..n : toCallee[i].method = "INVITE" /\ toCallee[i].call = d
      BY <2>1 DEF Inviting
    <3>2. i # 1
      BY <2>1, <3>1
    <3> QED
      BY <1>5, <3>1, <3>2
  <2>2. ASSUME d # c \/ method # "BYE", Leaving(d)
        PROVE  Leaving(d)'
    <3>1. PICK i \in 1..n : toCallee[i].method = "BYE" /\ toCallee[i].call = d
      BY <2>2 DEF Leaving
    <3>2. i # 1
      BY <2>2, <3>1
    <3> QED
      BY <1>5, <3>1, <3>2
  <2> QED
    BY <2>1, <2>2
<1>7. method \in {"INVITE", "BYE"} => ~Inviting(c)'
  <2> SUFFICES ASSUME method \in {"INVITE", "BYE"}, Inviting(c)'
               PROVE  FALSE
    OBVIOUS
  <2>2. PICK i \in 1..n - 1 : toCallee'[i].method = "INVITE" /\ toCallee'[i].call = c
    BY <1>2 DEF Inviting
  <2>3. /\ i + 1 \in 1..n /\ 1 \in 1..n /\ toCallee[i + 1].method = "INVITE"
        /\ toCallee[i + 1].call = toCallee[1].call
    BY <1>2, <2>2
  <2>4. i + 1 <= 1
    BY <2>3 DEF InvitesFirst
  <2> QED
    BY <1>2, <2>4
<1>8. /\ method = "INVITE" => Inviting(c)
      /\ method = "BYE" => Leaving(c)
  BY <1>2 DEF Inviting, Leaving
<1> QED
  BY <1>3, <1>4, <1>6, <1>7, <1>8

\* The callee answers a call no answer is on its way for.
LEMMA AnswerSent ==
  ASSUME TypeOK, OneAnswer, NEW ok \in BOOLEAN, NEW c \in Calls, Answer(ok, c), Unanswered(c)
  PROVE  /\ OneAnswer'
         /\ \A d \in Calls : Accepting(d)' <=> Accepting(d) \/ (ok /\ d = c)
         /\ \A d \in Calls : Rejecting(d)' <=> Rejecting(d) \/ (~ok /\ d = c)
<1> DEFINE m == [ok |-> ok, call |-> c]
           n == Len(toCaller)
<1>1. m \in Response /\ toCaller \in Seq(Response)
  BY DEF TypeOK, Response
<1>2. toCaller' = Append(toCaller, m)
  BY DEF Answer
<1>3. (m.ok <=> ok) /\ m.call = c
  OBVIOUS
<1> HIDE DEF m
<1>4. /\ n \in Nat /\ Len(toCaller') = n + 1 /\ toCaller'[n + 1] = m
      /\ \A j \in 1..n : toCaller'[j] = toCaller[j]
  BY <1>1, <1>2, AppendExact
<1>5. \A j \in 1..n : toCaller[j].call # c
  BY DEF Unanswered, Accepting, Rejecting
<1> HIDE DEF n
<1>6. ASSUME NEW d \in Calls
      PROVE  /\ Accepting(d)' <=> Accepting(d) \/ (ok /\ d = c)
             /\ Rejecting(d)' <=> Rejecting(d) \/ (~ok /\ d = c)
  BY <1>3, <1>4 DEF Accepting, Rejecting, n
<1>7. OneAnswer'
  BY <1>3, <1>4, <1>5 DEF OneAnswer, n
<1> QED
  BY <1>6, <1>7

\* The caller takes the first answer, the only one of its call.
LEMMA AnswerTaken ==
  ASSUME TypeOK, OneAnswer, toCaller # <<>>, toCaller' = RemoveAt(toCaller, 1),
         NEW c \in Calls, c = toCaller[1].call, NEW ok \in BOOLEAN, ok = toCaller[1].ok
  PROVE  /\ OneAnswer'
         /\ Unanswered(c)'
         /\ IF ok THEN Accepting(c) ELSE Rejecting(c)
         /\ \A d \in Calls \ {c} : (Accepting(d)' <=> Accepting(d)) /\ (Rejecting(d)' <=> Rejecting(d))
<1> DEFINE n == Len(toCaller)
<1>1. toCaller \in Seq(Response)
  BY DEF TypeOK
<1>2. /\ n \in Nat \ {0} /\ Len(toCaller') = n - 1
      /\ \A j \in 1..n - 1 : toCaller'[j] = toCaller[j + 1]
  BY <1>1, HeadRemoved
<1>3. OneAnswer'
  BY <1>2, SMTT(30) DEF OneAnswer
<1>4. \A i \in 1..n : i # 1 => toCaller[i].call # c
  BY <1>2 DEF OneAnswer
<1>5. Unanswered(c)'
  BY <1>2, <1>4 DEF Unanswered, Accepting, Rejecting
<1>6. IF ok THEN Accepting(c) ELSE Rejecting(c)
  BY <1>2 DEF Accepting, Rejecting
<1>7. ASSUME NEW d \in Calls \ {c}
      PROVE  (Accepting(d)' <=> Accepting(d)) /\ (Rejecting(d)' <=> Rejecting(d))
  <2>1. (Accepting(d)' => Accepting(d)) /\ (Rejecting(d)' => Rejecting(d))
    BY <1>2 DEF Accepting, Rejecting
  <2>2. ASSUME NEW i \in 1..n, toCaller[i].call = d
        PROVE  /\ toCaller[i].ok => Accepting(d)'
               /\ ~toCaller[i].ok => Rejecting(d)'
    <3>1. i - 1 \in 1..n - 1 /\ toCaller'[i - 1] = toCaller[(i - 1) + 1]
      BY <1>2, <1>7, <2>2
    <3> QED
      BY <1>2, <2>2, <3>1 DEF Accepting, Rejecting
  <2>3. (Accepting(d) => Accepting(d)') /\ (Rejecting(d) => Rejecting(d)')
    BY <2>2 DEF Accepting, Rejecting
  <2> QED
    BY <2>1, <2>3
<1> QED
  BY <1>3, <1>5, <1>6, <1>7

\* A call the step does not touch.
LEMMA Untouched ==
  ASSUME NEW d \in Calls, CallInv(d),
         caller'[d] = caller[d], transaction'[d] = transaction[d],
         callee'[d] = callee[d], ended'[d] = ended[d], bye' = d <=> bye = d,
         Inviting(d)' <=> Inviting(d), Leaving(d)' <=> Leaving(d),
         Accepting(d)' <=> Accepting(d), Rejecting(d)' <=> Rejecting(d)
  PROVE  CallInv(d)'
BY DEF CallInv, Unanswered

\* A queue nothing is done to.
LEMMA QueueKept ==
  /\ toCallee' = toCallee =>
       /\ InvitesFirst' <=> InvitesFirst
       /\ \A d \in Calls : (Inviting(d)' <=> Inviting(d)) /\ (Leaving(d)' <=> Leaving(d))
  /\ toCaller' = toCaller =>
       /\ OneAnswer' <=> OneAnswer
       /\ \A d \in Calls : (Accepting(d)' <=> Accepting(d)) /\ (Rejecting(d)' <=> Rejecting(d))
BY DEF InvitesFirst, OneAnswer, Inviting, Leaving, Accepting, Rejecting

-----------------------------------------------------------------------------
\* Before the first call both ends have no stream,
LEMMA InitAgree == Init => AgreeInv
<1> SUFFICES ASSUME Init PROVE InvitesFirst /\ OneAnswer /\ \A c \in Calls : CallInv(c)
  BY DEF AgreeInv
<1>1. InvitesFirst /\ OneAnswer
  BY DEF Init, InvitesFirst, OneAnswer
<1>2. ASSUME NEW c \in Calls PROVE CallInv(c)
  <2>1. ~Inviting(c) /\ ~Leaving(c) /\ ~Accepting(c) /\ ~Rejecting(c)
    BY DEF Init, Inviting, Leaving, Accepting, Rejecting
  <2> QED
    BY <2>1, DialogAssumption DEF Init, CallInv, Unanswered
<1> QED
  BY <1>1, <1>2

\* What the invariant says while the network is calm.
CalmFacts == InvitesFirst /\ OneAnswer /\ \A c \in Calls : CallInv(c)

\* the caller's INVITE leaves its end waiting for an answer,
LEMMA RequestInviteAgree ==
  ASSUME TypeOK, Calm, CalmFacts, NEW c \in Calls, RequestInvite(c) PROVE CalmFacts'
<1>1. /\ transaction[c] = "none" /\ bye = NoCall /\ Send("INVITE", c)
      /\ caller' = [caller EXCEPT ![c] = "requested"]
      /\ transaction' = [transaction EXCEPT ![c] = "calling"]
      /\ UNCHANGED <<bye, callee, toCaller, ended>>
  BY DEF RequestInvite, calleeVars
<1>2. /\ ended[c] = "no" /\ caller[c] = "none" /\ callee[c] = "none"
      /\ ~Inviting(c) /\ ~Leaving(c) /\ Unanswered(c)
  BY <1>1 DEF CalmFacts, CallInv
<1>3. /\ InvitesFirst' /\ OneAnswer'
      /\ \A d \in Calls :
           /\ Inviting(d)' <=> Inviting(d) \/ d = c
           /\ Leaving(d)' <=> Leaving(d)
           /\ (Accepting(d)' <=> Accepting(d)) /\ (Rejecting(d)' <=> Rejecting(d))
  BY <1>1, <1>2, RequestSent, QueueKept DEF CalmFacts
<1>4. /\ caller'[c] = "requested" /\ transaction'[c] = "calling"
      /\ \A d \in Calls \ {c} : caller'[d] = caller[d] /\ transaction'[d] = transaction[d]
  BY <1>1 DEF TypeOK
<1>5. CallInv(c)'
  BY <1>1, <1>2, <1>3, <1>4, DialogAssumption DEF CallInv, Unanswered
<1>6. ASSUME NEW d \in Calls \ {c} PROVE CallInv(d)'
  BY <1>1, <1>3, <1>4, Untouched DEF CalmFacts
<1> QED
  BY <1>3, <1>5, <1>6 DEF CalmFacts

\* its BYE has the last word
LEMMA RequestByeAgree ==
  ASSUME TypeOK, Calm, CalmFacts, NEW c \in Calls, RequestBye(c) PROVE CalmFacts'
<1>1. /\ bye = NoCall /\ bye' = c /\ Send("BYE", c) /\ caller[c] # "none"
      /\ ended' = [ended EXCEPT ![c] = caller[c]]
      /\ UNCHANGED <<caller, transaction, callee, toCaller>>
  BY DEF RequestBye, calleeVars
<1>2. ended[c] = "no"
  BY <1>1, DialogAssumption DEF CalmFacts, CallInv
<1>3. /\ InvitesFirst' /\ OneAnswer'
      /\ \A d \in Calls :
           /\ Inviting(d)' <=> Inviting(d)
           /\ Leaving(d)' <=> Leaving(d) \/ d = c
           /\ (Accepting(d)' <=> Accepting(d)) /\ (Rejecting(d)' <=> Rejecting(d))
  BY <1>1, RequestSent, QueueKept DEF CalmFacts
<1>4. /\ ended'[c] # "no" /\ \A d \in Calls \ {c} : ended'[d] = ended[d]
  BY <1>1 DEF TypeOK
<1>5. CallInv(c)'
  BY <1>1, <1>2, <1>3, <1>4 DEF CalmFacts, CallInv, Unanswered
<1>6. ASSUME NEW d \in Calls \ {c} PROVE CallInv(d)'
  BY <1>1, <1>3, <1>4, Untouched, DialogAssumption DEF CalmFacts
<1> QED
  BY <1>3, <1>5, <1>6 DEF CalmFacts

\* and closes its end.
LEMMA CloseSessionAgree == ASSUME TypeOK, Calm, CalmFacts, CloseSession PROVE CalmFacts'
<1>1. /\ bye \in Calls /\ bye' = NoCall /\ caller' = [caller EXCEPT ![bye] = "none"]
      /\ UNCHANGED <<transaction, callee, toCallee, toCaller, ended>>
  BY DEF CloseSession, calleeVars, TypeOK
<1>2. /\ InvitesFirst' /\ OneAnswer'
      /\ \A d \in Calls :
           /\ (Inviting(d)' <=> Inviting(d)) /\ (Leaving(d)' <=> Leaving(d))
           /\ (Accepting(d)' <=> Accepting(d)) /\ (Rejecting(d)' <=> Rejecting(d))
  BY <1>1, QueueKept DEF CalmFacts
<1>3. caller'[bye] = "none" /\ \A d \in Calls \ {bye} : caller'[d] = caller[d]
  BY <1>1 DEF TypeOK
<1>4. ended[bye] # "no"
  BY <1>1 DEF CalmFacts, CallInv
<1>5. ASSUME NEW d \in Calls PROVE CallInv(d)'
  <2>1. bye' # d
    BY <1>1, DialogAssumption
  <2>2. CASE d = bye
    BY <1>1, <1>2, <1>3, <1>4, <2>1, <2>2 DEF CalmFacts, CallInv, Unanswered
  <2>3. CASE d # bye
    BY <1>1, <1>2, <1>3, <2>1, <2>3, Untouched DEF CalmFacts
  <2> QED
    BY <2>2, <2>3
<1> QED
  BY <1>2, <1>5 DEF CalmFacts

\* With no repetition the transaction only runs out.
LEMMA TransactionAgree ==
  ASSUME TypeOK, Calm, CalmFacts, up', NEW c \in Calls, Repeat(c) \/ Timeout(c) \/ Expire(c)
  PROVE  CalmFacts'
<1>1. ~Repeat(c)
  BY DEF Repeat, Calm, TypeOK
<1>2. /\ transaction' = [transaction EXCEPT ![c] = "terminated"]
      /\ UNCHANGED <<caller, bye, callee, toCallee, toCaller, ended>>
      /\ transaction[c] # "none"
  BY <1>1 DEF Timeout, Expire, calleeVars
<1>3. /\ InvitesFirst' /\ OneAnswer'
      /\ \A d \in Calls :
           /\ (Inviting(d)' <=> Inviting(d)) /\ (Leaving(d)' <=> Leaving(d))
           /\ (Accepting(d)' <=> Accepting(d)) /\ (Rejecting(d)' <=> Rejecting(d))
  BY <1>2, QueueKept DEF CalmFacts
<1>4. transaction'[c] = "terminated" /\ \A d \in Calls \ {c} : transaction'[d] = transaction[d]
  BY <1>2 DEF TypeOK
<1>5. ASSUME NEW d \in Calls PROVE CallInv(d)'
  <2>1. CASE d = c
    BY <1>2, <1>3, <1>4, <2>1 DEF CalmFacts, CallInv, Unanswered
  <2>2. CASE d # c
    BY <1>2, <1>3, <1>4, <2>2, Untouched DEF CalmFacts
  <2> QED
    BY <2>1, <2>2
<1> QED
  BY <1>3, <1>5 DEF CalmFacts

\* The caller follows the answer it receives,
LEMMA CallerReceivesAgree == ASSUME TypeOK, Calm, CalmFacts, CallerReceives PROVE CalmFacts'
<1>1. PICK i \in Deliverable(toCaller) :
        LET c == toCaller[i].call
        IN  /\ \/ toCaller[i].ok /\ \E sent \in MaySend(c) : ReceiveOk(c, sent)
               \/ ~toCaller[i].ok /\ ReceiveRejection(c)
               \/ ReceiveCompleted(c)
            /\ toCaller' = RemoveAt(toCaller, i)
  BY DEF CallerReceives
<1>2. i = 1 /\ toCaller # <<>>
  BY <1>1 DEF Deliverable, Calm, Orderly
<1>3. PICK c \in Calls, ok \in BOOLEAN : c = toCaller[1].call /\ ok = toCaller[1].ok
  <2>1. toCaller \in Seq(Response) /\ 1 \in 1..Len(toCaller)
    BY <1>2, EmptySeq DEF TypeOK
  <2>2. toCaller[1] \in Response
    BY <2>1
  <2> QED
    BY <2>2 DEF Response
<1>4. /\ OneAnswer' /\ Unanswered(c)'
      /\ IF ok THEN Accepting(c) ELSE Rejecting(c)
      /\ \A d \in Calls \ {c} :
           (Accepting(d)' <=> Accepting(d)) /\ (Rejecting(d)' <=> Rejecting(d))
  BY <1>1, <1>2, <1>3, AnswerTaken DEF CalmFacts
<1>5. CallInv(c) /\ transaction[c] \in {"calling", "terminated"} /\ ~Inviting(c)
      /\ (ended[c] = "no" => caller[c] # "none")
  BY <1>3, <1>4 DEF CalmFacts, CallInv, Unanswered, TypeOK
<1>6. UNCHANGED <<bye, callee, ended>>
  BY DEF CallerReceives, calleeVars
<1>7. /\ transaction' = [transaction EXCEPT ![c] = transaction'[c]]
      /\ transaction'[c] \in {"completed", "terminated"}
      /\ caller' = [caller EXCEPT ![c] = caller'[c]]
      /\ Send("ACK", c) \/ toCallee' = toCallee
      /\ \/ ok /\ (caller'[c] = "none" <=> caller[c] = "none")
         \/ ~ok /\ caller'[c] = "none"
  <2>1. ASSUME ok, NEW sent \in MaySend(c), ReceiveOk(c, sent) PROVE <1>7!:
    <3>1. caller[c] # "none" => sent
      BY <2>1 DEF MaySend, Calm, Orderly
    <3>2. /\ transaction' = [transaction EXCEPT ![c] = "terminated"]
          /\ caller' = IF caller[c] = "none" THEN caller
                       ELSE [caller EXCEPT ![c] = IF sent THEN "confirmed" ELSE "none"]
          /\ Send("ACK", c) \/ toCallee' = toCallee
      BY <2>1 DEF ReceiveOk, Confirm
    <3> QED
      BY <1>3, <2>1, <3>1, <3>2 DEF TypeOK
  <2>2. CASE ~ok /\ ReceiveRejection(c)
    BY <1>3, <1>5, <2>2 DEF ReceiveRejection, TypeOK
  <2>3. ~ReceiveCompleted(c)
    BY <1>5 DEF ReceiveCompleted
  <2> QED
    BY <1>1, <1>2, <1>3, <2>1, <2>2, <2>3
<1>8. /\ InvitesFirst'
      /\ \A d \in Calls : (Inviting(d)' <=> Inviting(d)) /\ (Leaving(d)' <=> Leaving(d))
  BY <1>3, <1>7, RequestSent, QueueKept DEF CalmFacts
<1>9. CallInv(c)'
  BY <1>3, <1>4, <1>5, <1>6, <1>7, <1>8 DEF CallInv, Unanswered
<1>10. ASSUME NEW d \in Calls \ {c} PROVE CallInv(d)'
  <2>1. caller'[d] = caller[d] /\ transaction'[d] = transaction[d]
    BY <1>7 DEF TypeOK
  <2> QED
    BY <1>4, <1>6, <1>8, <2>1, Untouched DEF CalmFacts
<1> QED
  BY <1>4, <1>8, <1>9, <1>10 DEF CalmFacts

\* and the callee the request: INVITE, ACK or BYE.
LEMMA CalleeReceivesAgree == ASSUME TypeOK, Calm, CalmFacts, CalleeReceives PROVE CalmFacts'
<1>1. PICK i \in Deliverable(toCallee) :
        LET m == toCallee[i]
        IN  /\ \/ m.method = "INVITE" /\ \E port \in BOOLEAN : ReceiveInvite(m.call, port)
               \/ m.method = "ACK" /\ \E starts \in BOOLEAN : ReceiveAck(m.call, starts)
               \/ m.method = "BYE" /\ ReceiveBye(m.call)
            /\ toCallee' = RemoveAt(toCallee, i)
  BY DEF CalleeReceives
<1>2. i = 1 /\ toCallee # <<>>
  BY <1>1 DEF Deliverable, Calm, Orderly
<1>3. PICK c \in Calls, method \in {"INVITE", "ACK", "BYE"} :
        c = toCallee[1].call /\ method = toCallee[1].method
  <2>1. toCallee \in Seq(Request) /\ 1 \in 1..Len(toCallee)
    BY <1>2, EmptySeq DEF TypeOK
  <2>2. toCallee[1] \in Request
    BY <2>1
  <2> QED
    BY <2>2 DEF Request
<1>4. /\ InvitesFirst'
      /\ \A d \in Calls :
           /\ Inviting(d)' => Inviting(d)
           /\ Leaving(d)' => Leaving(d)
           /\ d # c \/ method # "INVITE" => (Inviting(d) => Inviting(d)')
           /\ d # c \/ method # "BYE" => (Leaving(d) => Leaving(d)')
      /\ method \in {"INVITE", "BYE"} => ~Inviting(c)'
      /\ method = "INVITE" => Inviting(c)
      /\ method = "BYE" => Leaving(c)
  BY <1>1, <1>2, <1>3, RequestTaken DEF CalmFacts
<1>5. UNCHANGED <<bye, caller, transaction, ended>>
  BY DEF CalleeReceives, callerVars
<1>6. CallInv(c)
  BY <1>3 DEF CalmFacts
<1>7. /\ OneAnswer' /\ CallInv(c)'
      /\ \A d \in Calls \ {c} :
           /\ callee'[d] = callee[d]
           /\ (Accepting(d)' <=> Accepting(d)) /\ (Rejecting(d)' <=> Rejecting(d))
  <2>1. ASSUME NEW port \in BOOLEAN, method = "INVITE", ReceiveInvite(c, port) PROVE <1>7!:
    <3>1. Unanswered(c) /\ callee[c] = "none"
      BY <1>4, <1>6, <2>1 DEF CallInv
    <3>2. /\ OneAnswer'
          /\ \A d \in Calls : Accepting(d)' <=> Accepting(d) \/ (port /\ d = c)
          /\ \A d \in Calls : Rejecting(d)' <=> Rejecting(d) \/ (~port /\ d = c)
      BY <1>3, <2>1, <3>1, AnswerSent DEF ReceiveInvite, CalmFacts
    <3>3. /\ callee'[c] = IF port THEN "requested" ELSE "none"
          /\ \A d \in Calls \ {c} : callee'[d] = callee[d]
      BY <1>3, <2>1, <3>1 DEF ReceiveInvite, TypeOK
    <3>4. CallInv(c)'
      <4>1. transaction[c] # "none" /\ transaction[c] # "completed"
        BY <1>4, <1>6, <2>1 DEF CallInv
      <4> QED
        BY <1>3, <1>4, <1>5, <1>6, <2>1, <3>1, <3>2, <3>3, <4>1 DEF CallInv, Unanswered
    <3> QED
      BY <3>2, <3>3, <3>4
  <2>2. ASSUME NEW starts \in BOOLEAN, method = "ACK", ReceiveAck(c, starts) PROVE <1>7!:
    <3>1. /\ toCaller' = toCaller
          /\ callee'[c] = "none" <=> callee[c] = "none"
          /\ \A d \in Calls \ {c} : callee'[d] = callee[d]
      BY <1>3, <2>2 DEF ReceiveAck, TypeOK
    <3> QED
      BY <1>3, <1>4, <1>5, <1>6, <2>2, <3>1, QueueKept DEF CalmFacts, CallInv, Unanswered
  <2>3. ASSUME method = "BYE", ReceiveBye(c) PROVE <1>7!:
    <3>1. /\ toCaller' = toCaller /\ callee'[c] = "none"
          /\ \A d \in Calls \ {c} : callee'[d] = callee[d]
      BY <1>3, <2>3 DEF ReceiveBye, TypeOK
    <3>2. ended[c] # "no"
      BY <1>4, <1>6, <2>3 DEF CallInv
    <3> QED
      BY <1>3, <1>4, <1>5, <1>6, <2>3, <3>1, <3>2, QueueKept DEF CalmFacts, CallInv, Unanswered
  <2> QED
    BY <1>1, <1>2, <1>3, <2>1, <2>2, <2>3
<1>8. ASSUME NEW d \in Calls \ {c} PROVE CallInv(d)'
  <2>1. (Inviting(d)' <=> Inviting(d)) /\ (Leaving(d)' <=> Leaving(d))
    BY <1>4
  <2> QED
    BY <1>5, <1>7, <2>1, Untouched DEF CalmFacts
<1> QED
  BY <1>4, <1>7, <1>8 DEF CalmFacts

\* Every step keeps the ends in step with what is in flight.
LEMMA NextAgree == IInv /\ AgreeInv /\ [Next]_vars => AgreeInv'
<1> SUFFICES ASSUME TypeOK, AgreeInv, [Next]_vars, Calm' PROVE CalmFacts'
  BY DEF IInv, AgreeInv, CalmFacts
<1>1. network' = network /\ (up' => up)
  <2>1. CASE UNCHANGED vars
    BY <2>1 DEF vars
  <2>2. ASSUME NEW c \in Calls,
               RequestInvite(c) \/ RequestBye(c) \/ Repeat(c) \/ Timeout(c) \/ Expire(c)
        PROVE  network' = network /\ (up' => up)
    BY <2>2 DEF RequestInvite, RequestBye, Repeat, Timeout, Expire, TypeOK
  <2>3. CASE CloseSession \/ CallerReceives \/ CalleeReceives \/ Lose
    BY <2>3 DEF CloseSession, CallerReceives, CalleeReceives, Lose, callerVars
  <2> QED
    BY <2>1, <2>2, <2>3 DEF Next
<1>2. Calm /\ CalmFacts /\ up'
  <2>1. Calm /\ up'
    BY <1>1 DEF Calm, Orderly
  <2> QED
    BY <2>1 DEF AgreeInv, CalmFacts
<1>3. ~Lose
  BY <1>2 DEF Lose, Calm, Orderly
<1>4. CASE UNCHANGED vars
  <2>1. UNCHANGED <<toCallee, toCaller, caller, transaction, callee, ended, bye>>
    BY <1>4 DEF vars
  <2>2. \A d \in Calls : CallInv(d)'
    BY <1>2, <2>1, QueueKept, Untouched DEF CalmFacts
  <2> QED
    BY <1>2, <2>1, <2>2, QueueKept DEF CalmFacts
<1>5. CASE Next
  BY <1>2, <1>3, <1>5, RequestInviteAgree, RequestByeAgree, CloseSessionAgree, TransactionAgree,
     CallerReceivesAgree, CalleeReceivesAgree DEF Next
<1> QED
  BY <1>4, <1>5

\* When everything has arrived on a network that loses, overtakes and repeats
\* nothing, a call has a session at both ends or at neither - for any number of
\* calls, and wherever a bye, a rejection or a timeout met the answer.
THEOREM AgreeSafety == Spec => []EndsAgree
<1>1. IInv /\ AgreeInv => EndsAgree
  <2> SUFFICES ASSUME AgreeInv, Orderly, network.repeats = 0, Quiet, up, NEW c \in Calls
               PROVE  caller[c] # "none" <=> callee[c] # "none"
    BY DEF EndsAgree
  <2>1. CallInv(c)
    BY DEF AgreeInv, Calm
  <2>2. ~Inviting(c) /\ ~Leaving(c) /\ Unanswered(c) /\ bye # c
    BY DialogAssumption DEF Quiet, Inviting, Leaving, Unanswered, Accepting, Rejecting
  <2> QED
    BY <2>1, <2>2 DEF CallInv
<1> QED
  BY <1>1, InitAgree, NextAgree, Inductive, PTL DEF Spec
=============================================================================
