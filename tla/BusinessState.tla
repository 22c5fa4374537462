---------------------------- MODULE BusinessState ----------------------------
(***************************************************************************)
(* Catalogs and records of a node's peers, and the snapshot file they are  *)
(* saved to and loaded from.                                               *)
(*                                                                         *)
(* The file is text: a header line, then one line per item, of fields      *)
(* between tabs, with tabs and line ends escaped inside a field.  It is    *)
(* overwritten in place, so a full disk or a crash leaves any beginning of *)
(* it.  A text is a sequence of characters; the names of the format are one *)
(* character each.  Of the 18 attributes of an item there are three: the   *)
(* id, far from the end of the line, endTime, the last of the older format,*)
(* and parental, which only the newer one has.                             *)
(***************************************************************************)
EXTENDS Naturals, Sequences, SequencesExt, SequenceFold

CONSTANTS
  Chars,      \* the characters
  PeerIds,    \* ids of the peers, in the order of std::map
  Devices,    \* ids of the items
  Values,     \* texts of the other attributes
  Lists,      \* lists of items a message may carry
  MaxUpdates  \* bound on messages that change the state

Backslash == "\\"
Tab       == "\t"
Newline   == "\n"
Return    == "\r"

Text  == Seq(Chars)
Peers == ToSet(PeerIds)

Header == <<"V", "1">>
Kinds  == {"CATALOG", "RECORD"}

Item  == [id : Text, endTime : Text, parental : Text]
Entry == [kind : Kinds, peer : Text, item : Item]

\* An attribute is a text from a message, or what a torn file has left of it.
Left      == UNION {Prefixes(v) : v \in Values}
KnownItem == [id : Devices, endTime : Left, parental : Left]

ASSUME BusinessStateAssumption ==
  /\ {Backslash, Tab, Newline, Return, "t", "n", "r", "V", "1"} \cup Kinds \subseteq Chars
  /\ PeerIds \in Seq(Text) /\ IsInjective(PeerIds)
  /\ Devices \subseteq Text /\ Values \subseteq Text
  /\ \A items \in Lists : items \in Seq([id : Devices, endTime : Values, parental : Values])
  /\ MaxUpdates \in Nat

VARIABLES
  catalog,   \* m_catalogItems
  records,   \* m_recordItems
  file,      \* the snapshot file
  saved,     \* history: the items whose saving wrote the file
  updates    \* updates so far

vars == <<catalog, records, file, saved, updates>>

Empty == [p \in {} |-> <<>>]

Put(map, p, items) == [q \in DOMAIN map \cup {p} |-> IF q = p THEN items ELSE map[q]]
Items(map, p)      == IF p \in DOMAIN map THEN map[p] ELSE <<>>

-----------------------------------------------------------------------------
(* The file format                                                         *)

Escaped(c) == CASE c = Backslash -> <<Backslash, Backslash>>
                [] c = Tab       -> <<Backslash, "t">>
                [] c = Newline   -> <<Backslash, "n">>
                [] c = Return    -> <<Backslash, "r">>
                [] OTHER         -> <<c>>

\* Mutant: line ends are written as they are.
escapeValue_Newline(value) ==
  Fold([text \in Text |-> [c \in Chars |-> text \o IF c = Newline THEN <<c>> ELSE Escaped(c)]],
       <<>>, value)

escapeValue(value) ==
  Fold([text \in Text |-> [c \in Chars |-> text \o Escaped(c)]], <<>>, value)

Unescaped(c) == CASE c = Backslash -> Backslash
                  [] c = "t" -> Tab
                  [] c = "n" -> Newline
                  [] c = "r" -> Return

\* What has been read of a value: open after a backslash.
Reading == [value : Text, open : BOOLEAN, ok : BOOLEAN]

ReadChar(s, c) ==
  CASE ~s.open /\ c = Backslash -> [value |-> s.value, open |-> TRUE, ok |-> s.ok]
    [] ~s.open /\ c # Backslash -> [value |-> Append(s.value, c), open |-> FALSE, ok |-> s.ok]
    [] s.open /\ c \in {Backslash, "t", "n", "r"} ->
         [value |-> Append(s.value, Unescaped(c)), open |-> FALSE, ok |-> s.ok]
    [] OTHER -> [value |-> s.value, open |-> FALSE, ok |-> FALSE]

\* The value, and whether the escapes in it are whole and known.
unescapeValue(text) ==
  LET end == Fold([s \in Reading |-> [c \in Chars |-> ReadChar(s, c)]],
                  [value |-> <<>>, open |-> FALSE, ok |-> TRUE], text)
  IN  [value |-> end.value, ok |-> end.ok /\ ~end.open]

\* The parts of a text that a mark ends, and the rest after the last mark.
Cut(text, mark) ==
  Fold([s \in [parts : Seq(Text), rest : Text] |->
          [c \in Chars |-> IF c = mark THEN [parts |-> Append(s.parts, s.rest), rest |-> <<>>]
                           ELSE [parts |-> s.parts, rest |-> Append(s.rest, c)]]],
       [parts |-> <<>>, rest |-> <<>>], text)

splitFields(line) == Append(Cut(line, Tab).parts, Cut(line, Tab).rest)

\* std::getline: an empty rest after the last line end is no line.
LinesOf(text) ==
  LET cut == Cut(text, Newline)
  IN  IF cut.rest = <<>> THEN cut.parts ELSE Append(cut.parts, cut.rest)

WithoutReturn(line) ==
  IF line # <<>> /\ line[Len(line)] = Return THEN SubSeq(line, 1, Len(line) - 1) ELSE line

appendItemLine(text, e) ==
  text \o <<e.kind, Tab>> \o escapeValue(e.peer) \o <<Tab>> \o escapeValue(e.item.id)
       \o <<Tab>> \o escapeValue(e.item.endTime) \o <<Tab>> \o escapeValue(e.item.parental)
       \o <<Newline>>

\* What is in one of the maps, in its order.
EntriesOf(kind, map) ==
  Fold([list \in Seq(Entry) |-> [p \in Text |->
          list \o [i \in 1..Len(Items(map, p)) |-> [kind |-> kind, peer |-> p, item |-> Items(map, p)[i]]]]],
       <<>>, PeerIds)

\* What is in both, in the order of the file.
Entries(cat, rec) == EntriesOf("CATALOG", cat) \o EntriesOf("RECORD", rec)

\* The text of these entries.
FileText(entries) ==
  Fold([text \in Text |-> [e \in Entry |-> appendItemLine(text, e)]],
       Append(Header, Newline), entries)

serialize(cat, rec) == FileText(Entries(cat, rec))

\* Mutant: a line may lack more fields than parental.
FieldsOk_Fewer(fields) == Len(fields) \in 3..5

\* kSnapshotFieldCountV1, kSnapshotFieldCountWithParental
FieldsOk(fields) == Len(fields) \in {4, 5}

decodeItem(line) ==
  LET fields   == splitFields(line)
      field(i) == unescapeValue(IF i <= Len(fields) THEN fields[i] ELSE <<>>)
  IN  [ok |-> /\ FieldsOk(fields)
              /\ \E k \in Kinds : fields[1] = <<k>>
              /\ \A i \in 2..5 : field(i).ok,
       entry |-> [kind |-> fields[1][1], peer |-> field(2).value,
                  item |-> [id |-> field(3).value, endTime |-> field(4).value,
                            parental |-> field(5).value]]]

\* A line of restore's loop.
ReadLine(s, line) ==
  LET whole == WithoutReturn(line)
  IN  IF ~s.ok \/ whole = <<>> THEN s
      ELSE IF decodeItem(whole).ok THEN [ok |-> TRUE, entries |-> Append(s.entries, decodeItem(whole).entry)]
      ELSE [ok |-> FALSE, entries |-> <<>>]

\* restore: what the file says, or nothing when one line is wrong.
restore(text) ==
  LET lines == LinesOf(text)
  IN  IF lines = <<>> THEN [ok |-> FALSE, entries |-> <<>>]
      ELSE Fold([s \in [ok : BOOLEAN, entries : Seq(Entry)] |-> [line \in Text |-> ReadLine(s, line)]],
                [ok |-> WithoutReturn(Head(lines)) = Header, entries |-> <<>>], Tail(lines))

\* The maps restore builds of what it has read.
OfPeer(entries, kind, p) ==
  Fold([list \in Seq(Item) |-> [e \in Entry |->
          IF e.kind = kind /\ e.peer = p THEN Append(list, e.item) ELSE list]],
       <<>>, entries)

Grouped(entries, kind) ==
  [p \in {e.peer : e \in {x \in ToSet(entries) : x.kind = kind}} |-> OfPeer(entries, kind, p)]

-----------------------------------------------------------------------------
(* The state                                                               *)

TypeOK ==
  /\ \A map \in {catalog, records} :
       DOMAIN map \subseteq Peers /\ \A p \in DOMAIN map : map[p] \in Seq(KnownItem)
  /\ \A p \in DOMAIN catalog : \A i, j \in 1..Len(catalog[p]) :
       catalog[p][i].id = catalog[p][j].id => i = j
  /\ updates \in 0..MaxUpdates

Init ==
  /\ catalog = Empty /\ records = Empty
  /\ file = <<>> /\ saved = <<>>
  /\ updates = 0

\* Mutant: an item is appended, whatever the list has already.
appendCatalog_Repeats(p, items) == catalog' = Put(catalog, p, Items(catalog, p) \o items)

\* An item replaces the one with its id, or follows the others.
WithItem(list, item) ==
  IF \E i \in 1..Len(list) : list[i].id = item.id
  THEN [list EXCEPT ![CHOOSE i \in 1..Len(list) : list[i].id = item.id] = item]
  ELSE Append(list, item)

appendCatalog(p, items) ==
  catalog' = Put(catalog, p, Fold([list \in Seq(Item) |-> [item \in Item |-> WithItem(list, item)]],
                                  Items(catalog, p), items))

\* requestCatalog, once the query is sent.
RequestCatalog(p) ==
  /\ updates < MaxUpdates
  /\ catalog' = Put(catalog, p, <<>>)
  /\ updates' = updates + 1
  /\ UNCHANGED <<records, file, saved>>

\* CatalogClientCapability
CatalogResponse(p, items) ==
  /\ updates < MaxUpdates
  /\ appendCatalog(p, items)
  /\ updates' = updates + 1
  /\ UNCHANGED <<records, file, saved>>

\* RecordQueryClientCapability: the records of the last message.
RecordResponse(p, items) ==
  /\ updates < MaxUpdates
  /\ records' = Put(records, p, items)
  /\ updates' = updates + 1
  /\ UNCHANGED <<catalog, file, saved>>

\* saveToFile: the file is opened empty, and a full disk or the end of the
\* process leaves any beginning of the text.
Save ==
  /\ \E text \in Prefixes(serialize(catalog, records)) : file' = text
  /\ saved' = Entries(catalog, records)
  /\ UNCHANGED <<catalog, records, updates>>

\* loadFromFile.  A file that is not there is one without text: both fail.
Load ==
  LET read == restore(file)
  IN  /\ read.ok
      /\ catalog' = Grouped(read.entries, "CATALOG")
      /\ records' = Grouped(read.entries, "RECORD")
      /\ UNCHANGED <<file, saved, updates>>

\* The node is started anew: BusinessState::clear.
Start ==
  /\ catalog' = Empty /\ records' = Empty
  /\ UNCHANGED <<file, saved, updates>>

Next ==
  \/ \E p \in Peers : RequestCatalog(p)
  \/ \E p \in Peers, items \in Lists : CatalogResponse(p, items) \/ RecordResponse(p, items)
  \/ Save
  \/ Load
  \/ Start

Spec == Init /\ [][Next]_vars

-----------------------------------------------------------------------------
(* Properties                                                              *)

\* restore undoes serialize: every list that is not empty comes back, its items
\* in their order and their attributes as they were, whatever characters are in
\* them.
RoundTrip ==
  LET read == restore(serialize(catalog, records))
      listed(map) == [p \in {q \in DOMAIN map : map[q] # <<>>} |-> map[p]]
  IN  /\ read.ok
      /\ Grouped(read.entries, "CATALOG") = listed(catalog)
      /\ Grouped(read.entries, "RECORD") = listed(records)

\* Whatever part of the file was written, a load fails or brings back the items
\* that were saved, from the first on: none it did not have, none of another
\* peer or under another id, and only the last with the end of its line missing.
TornFileIsPrefix ==
  LET read == restore(file)
  IN  read.ok =>
        /\ Len(read.entries) <= Len(saved)
        /\ \A k \in 1..Len(read.entries) :
             LET e == read.entries[k]
             IN  /\ e.kind = saved[k].kind /\ e.peer = saved[k].peer /\ e.item.id = saved[k].item.id
                 /\ e.item.endTime \in Prefixes(saved[k].item.endTime)
                 /\ e.item.parental \in Prefixes(saved[k].item.parental)
                 /\ k < Len(read.entries) => e.item = saved[k].item
=============================================================================
