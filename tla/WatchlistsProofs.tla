--------------------------- MODULE WatchlistsProofs ---------------------------
(***************************************************************************)
(* For any processes, bounds, names and demonstration lists: an id names   *)
(* one list, unless a list was created under a slug that was taken; in the *)
(* lists, whatever is done to their rows, no symbol is there twice and the *)
(* pinned rows lead; and symbols get lost only in the ways that            *)
(* OnlyRemovalsLose names.                                                 *)
(***************************************************************************)
EXTENDS Watchlists, SequenceLemmas

(* A sequence of records with ids. *)
Shape(lists) == /\ \E S : lists \in Seq(S)
                /\ \A k \in DOMAIN lists : "id" \in DOMAIN lists[k]

(* What an edit of one list's other fields leaves. *)
SameIds(new, old) == /\ DOMAIN new = DOMAIN old
                     /\ \A k \in DOMAIN old : new[k].id = old[k].id

LEMMA SameIdsOnce ==
  ASSUME NEW new, NEW old, SameIds(new, old), IdsOnce(old)
  PROVE  IdsOnce(new)
BY DEF SameIds, IdsOnce

LEMMA EditKeepsIds ==
  ASSUME NEW lists, Shape(lists), NEW k \in DOMAIN lists,
         NEW r, "id" \in DOMAIN r, r.id = lists[k].id
  PROVE  /\ Shape([lists EXCEPT ![k] = r])
         /\ SameIds([lists EXCEPT ![k] = r], lists)
<1> DEFINE new == [lists EXCEPT ![k] = r]
<1>1. PICK S : lists \in Seq(S)
  BY DEF Shape
<1>2. lists \in [1..Len(lists) -> S] /\ Len(lists) \in Nat
  BY <1>1, LenProperties
<1>3. new \in [1..Len(lists) -> S \cup {r}]
  BY <1>2
<1>4. new \in Seq(S \cup {r})
  BY <1>2, <1>3, SeqDef
<1>5. /\ DOMAIN new = DOMAIN lists
      /\ \A j \in DOMAIN lists : new[j] = IF j = k THEN r ELSE lists[j]
  BY <1>2
<1> HIDE DEF new
<1>6. Shape(new)
  BY <1>4, <1>5 DEF Shape
<1>7. SameIds(new, lists)
  BY <1>5 DEF SameIds
<1> QED
  BY <1>6, <1>7 DEF new

(* The three fields that are edited. *)
LEMMA FieldKeepsIds ==
  ASSUME NEW lists, Shape(lists), NEW k \in DOMAIN lists, NEW x
  PROVE  /\ /\ Shape([lists EXCEPT ![k].rows = x])
            /\ SameIds([lists EXCEPT ![k].rows = x], lists)
         /\ /\ Shape([lists EXCEPT ![k].name = x])
            /\ SameIds([lists EXCEPT ![k].name = x], lists)
         /\ /\ Shape([lists EXCEPT ![k].archived = x])
            /\ SameIds([lists EXCEPT ![k].archived = x], lists)
<1>1. "id" \in DOMAIN lists[k]
  BY DEF Shape
<1>2. ASSUME NEW r, r \in {[lists[k] EXCEPT !.rows = x], [lists[k] EXCEPT !.name = x],
                           [lists[k] EXCEPT !.archived = x]}
      PROVE  "id" \in DOMAIN r /\ r.id = lists[k].id
  BY <1>1, <1>2
<1>3. /\ Shape([lists EXCEPT ![k] = [lists[k] EXCEPT !.rows = x]])
      /\ SameIds([lists EXCEPT ![k] = [lists[k] EXCEPT !.rows = x]], lists)
  BY <1>2, EditKeepsIds
<1>4. /\ Shape([lists EXCEPT ![k] = [lists[k] EXCEPT !.name = x]])
      /\ SameIds([lists EXCEPT ![k] = [lists[k] EXCEPT !.name = x]], lists)
  BY <1>2, EditKeepsIds
<1>5. /\ Shape([lists EXCEPT ![k] = [lists[k] EXCEPT !.archived = x]])
      /\ SameIds([lists EXCEPT ![k] = [lists[k] EXCEPT !.archived = x]], lists)
  BY <1>2, EditKeepsIds
<1> QED
  BY <1>3, <1>4, <1>5

LEMMA AppendKeepsIds ==
  ASSUME NEW lists, Shape(lists), NEW r, "id" \in DOMAIN r
  PROVE  /\ Shape(Append(lists, r))
         /\ IdsOnce(lists) /\ (\A k \in DOMAIN lists : lists[k].id # r.id)
              => IdsOnce(Append(lists, r))
<1> DEFINE new == Append(lists, r)
<1>1. PICK S : lists \in Seq(S)
  BY DEF Shape
<1>2. lists \in Seq(S \cup {r}) /\ Len(lists) \in Nat /\ DOMAIN lists = 1..Len(lists)
  <2>1. lists \in [1..Len(lists) -> S] /\ Len(lists) \in Nat
    BY <1>1, LenProperties
  <2>2. lists \in [1..Len(lists) -> S \cup {r}]
    BY <2>1
  <2> QED
    BY <2>1, <2>2, SeqDef
<1>3. /\ new \in Seq(S \cup {r}) /\ DOMAIN new = 1..(Len(lists) + 1)
      /\ \A k \in DOMAIN lists : new[k] = lists[k]
      /\ new[Len(lists) + 1] = r
  BY <1>2, AppendProperties
<1> HIDE DEF new
<1>4. \A k \in DOMAIN new : k \in DOMAIN lists \/ k = Len(lists) + 1
  BY <1>2, <1>3
<1>5. Shape(new)
  BY <1>3, <1>4 DEF Shape
<1>6. IdsOnce(lists) /\ (\A k \in DOMAIN lists : lists[k].id # r.id) => IdsOnce(new)
  BY <1>3, <1>4 DEF IdsOnce
<1> QED
  BY <1>5, <1>6 DEF new

LEMMA RemoveKeepsIds ==
  ASSUME NEW lists, Shape(lists), NEW k \in DOMAIN lists
  PROVE  /\ Shape(RemoveAt(lists, k))
         /\ IdsOnce(lists) => IdsOnce(RemoveAt(lists, k))
<1> DEFINE new == RemoveAt(lists, k)
<1>1. PICK S : lists \in Seq(S)
  BY DEF Shape
<1>2. k \in 1..Len(lists) /\ DOMAIN lists \subseteq Nat
  BY <1>1, LenProperties
<1>3. new \in Seq(S) /\ \E at : Drawn(at, new, lists, DOMAIN lists \ {k})
  BY <1>1, <1>2, RemovedDrawn
<1>4. DOMAIN new \subseteq Nat
  BY <1>3, LenProperties
<1> HIDE DEF new
<1>5. PICK at : Drawn(at, new, lists, DOMAIN lists \ {k})
  BY <1>3
<1>6. \A i \in DOMAIN new : at[i] \in DOMAIN lists /\ new[i] = lists[at[i]]
  BY <1>5 DEF Drawn
<1>7. \A i, j \in DOMAIN new : at[i] = at[j] => i = j
  BY <1>2, <1>4, <1>5, <1>6 DEF Drawn
<1>8. Shape(new)
  BY <1>3, <1>6 DEF Shape
<1>9. IdsOnce(lists) => IdsOnce(new)
  BY <1>6, <1>7 DEF IdsOnce
<1> QED
  BY <1>8, <1>9 DEF new

------------------------------------------------------------------------------
(* The lists in the file and the lists about to be written. *)
Apart(lists) == Shape(lists) /\ (~clashed => IdsOnce(lists))

IdsInv == /\ DOMAIN buf = Procs
          /\ Apart(file.lists)
          /\ \A p \in Procs : Apart(buf[p])

LEMMA NoListsApart == Apart(<<>>)
<1>1. <<>> \in Seq({}) /\ DOMAIN <<>> = {}
  OBVIOUS
<1> QED
  BY <1>1 DEF Apart, Shape, IdsOnce

LEMMA DemoApart == Apart(Demo)
<1>1. Demo \in Lists /\ IdsOnce(Demo)
  BY DemoAssumption
<1>2. \A k \in DOMAIN Demo : "id" \in DOMAIN Demo[k]
  <2> DEFINE S == [id : Ids, name : Names, archived : BOOLEAN,
                   rows : Seq([symbol : SymbolSet, pinned : BOOLEAN])]
  <2>1. \A k \in DOMAIN Demo : Demo[k] \in S
    BY <1>1, LenProperties, ElementOfSeq DEF Lists
  <2> QED
    BY <2>1
<1> QED
  BY <1>1, <1>2 DEF Apart, Shape, Lists

LEMMA LoadedApart == IdsInv => Apart(LoadData)
BY DemoApart DEF IdsInv, LoadData

(* An edit that keeps ids apart keeps them apart everywhere. *)
LEMMA EditApart ==
  ASSUME IdsInv, NEW p \in Procs, NEW name, NEW lists, Edit(p, name, lists),
         clashed \in BOOLEAN, clashed => clashed',
         Shape(lists), ~clashed' => IdsOnce(lists)
  PROVE  IdsInv'
<1>1. buf' = [buf EXCEPT ![p] = lists] /\ file' = file
  BY DEF Edit
<1> QED
  BY <1>1 DEF IdsInv, Apart

LEMMA NextIds ==
  ASSUME IdsInv, clashed \in BOOLEAN, [Next]_vars
  PROVE  IdsInv' /\ clashed' \in BOOLEAN
<1>0. /\ Shape(LoadData) /\ (~clashed => IdsOnce(LoadData))
      /\ \A k \in FirstWithItsId(LoadData) : k \in DOMAIN LoadData
  BY LoadedApart DEF Apart, FirstWithItsId
(* Edits that change a field other than the id. *)
<1>1. ASSUME NEW p \in Procs, NEW name, NEW lists, Edit(p, name, lists), UNCHANGED clashed,
             Shape(lists), SameIds(lists, LoadData)
      PROVE  IdsInv' /\ clashed' \in BOOLEAN
  BY <1>0, <1>1, EditApart, SameIdsOnce
<1>2. ASSUME NEW p \in Procs, CreateWatchlist(p)
      PROVE  IdsInv' /\ clashed' \in BOOLEAN
  <2>1. PICK name \in Names :
          /\ Edit(p, "create", Append(LoadData, [id |-> Slug[name], name |-> name,
                                                 archived |-> FALSE, rows |-> <<>>]))
          /\ clashed' = (clashed \/ \E k \in DOMAIN LoadData : LoadData[k].id = Slug[name])
    BY <1>2 DEF CreateWatchlist
  <2> DEFINE r == [id |-> Slug[name], name |-> name, archived |-> FALSE, rows |-> <<>>]
  <2>2. "id" \in DOMAIN r /\ r.id = Slug[name]
    OBVIOUS
  <2> HIDE DEF r
  <2>3. /\ Shape(Append(LoadData, r))
        /\ ~clashed' => IdsOnce(Append(LoadData, r))
    BY <1>0, <2>1, <2>2, AppendKeepsIds
  <2>4. Edit(p, "create", Append(LoadData, r))
    BY <2>1 DEF r
  <2> QED
    BY <2>1, <2>3, <2>4, EditApart
<1>3. ASSUME NEW p \in Procs, RenameWatchlist(p)
      PROVE  IdsInv' /\ clashed' \in BOOLEAN
  BY <1>0, <1>1, <1>3, FieldKeepsIds DEF RenameWatchlist, history
<1>4. ASSUME NEW p \in Procs, AddWatchlistSymbol(p) \/ RemoveWatchlistSymbol(p)
      PROVE  IdsInv' /\ clashed' \in BOOLEAN
  BY <1>0, <1>1, <1>4, FieldKeepsIds DEF AddWatchlistSymbol, RemoveWatchlistSymbol, history
<1>5. ASSUME NEW p \in Procs, PinWatchlistSymbol(p) \/ MoveWatchlistSymbol(p)
      PROVE  IdsInv' /\ clashed' \in BOOLEAN
  BY <1>0, <1>1, <1>5, FieldKeepsIds DEF PinWatchlistSymbol, MoveWatchlistSymbol, history
<1>6. ASSUME NEW p \in Procs, ArchiveWatchlist(p)
      PROVE  IdsInv' /\ clashed' \in BOOLEAN
  BY <1>0, <1>1, <1>6, FieldKeepsIds DEF ArchiveWatchlist, history
<1>7. ASSUME NEW p \in Procs, DeleteWatchlist(p)
      PROVE  IdsInv' /\ clashed' \in BOOLEAN
  BY <1>0, <1>7, EditApart, RemoveKeepsIds DEF DeleteWatchlist, history
<1>8. ASSUME NEW p \in Procs, MoveSymbolToWatchlist(p)
      PROVE  IdsInv' /\ clashed' \in BOOLEAN
  <2>0. PICK k \in DOMAIN LoadData, j \in DOMAIN LoadData :
          \E symbol : /\ Edit(p, "transfer", Transferred(LoadData, k, j, symbol))
                      /\ UNCHANGED clashed
    BY <1>0, <1>8 DEF MoveSymbolToWatchlist, history
  <2>1. PICK symbol : /\ Edit(p, "transfer", Transferred(LoadData, k, j, symbol))
                      /\ UNCHANGED clashed
    BY <2>0
  <2> DEFINE taken == [LoadData EXCEPT ![k].rows = Taken(@, symbol)]
  <2>2. Shape(taken) /\ SameIds(taken, LoadData)
    BY <1>0, FieldKeepsIds
  <2>3. Transferred(LoadData, k, j, symbol) = [taken EXCEPT ![j].rows = Added(@, symbol)]
    BY DEF Transferred
  <2> HIDE DEF taken
  <2>4. j \in DOMAIN taken
    BY <2>2 DEF SameIds
  <2>5. /\ Shape([taken EXCEPT ![j].rows = Added(@, symbol)])
        /\ SameIds([taken EXCEPT ![j].rows = Added(@, symbol)], taken)
    BY <2>2, <2>4, FieldKeepsIds
  <2>6. SameIds(Transferred(LoadData, k, j, symbol), LoadData)
    BY <2>2, <2>3, <2>5 DEF SameIds
  <2> QED
    BY <1>1, <2>1, <2>3, <2>5, <2>6
<1>9. ASSUME NEW p \in Procs, Truncate(p)
      PROVE  IdsInv' /\ clashed' \in BOOLEAN
  <2>1. file'.lists = <<>> /\ UNCHANGED <<buf, clashed>>
    BY <1>9 DEF Truncate, Unreadable, history
  <2>2. Apart(<<>>)'
    BY <2>1, NoListsApart DEF Apart
  <2> QED
    BY <2>1, <2>2 DEF IdsInv, Apart
<1>10. ASSUME NEW p \in Procs, Flush(p) \/ SaveFails(p)
       PROVE  IdsInv' /\ clashed' \in BOOLEAN
  <2>1. buf' = [buf EXCEPT ![p] = <<>>] /\ UNCHANGED clashed
    BY <1>10 DEF Flush, SaveFails, Done, history
  <2>2. file'.lists \in {file.lists, buf[p], <<>>}
    BY <1>10 DEF Flush, SaveFails, Holding, Unreadable
  <2> QED
    BY <2>1, <2>2, NoListsApart DEF IdsInv, Apart
<1>11. CASE UNCHANGED vars
  BY <1>11 DEF vars, history, IdsInv, Apart
<1> QED
  BY <1>2, <1>3, <1>4, <1>5, <1>6, <1>7, <1>8, <1>9, <1>10, <1>11 DEF Next

(* Renaming, deleting, re-creating and any interleaving of two processes   *)
(* on the file keep the ids of the lists apart, as long as no list was     *)
(* created under a name whose slug another list had.                       *)
THEOREM IdsStayApart == Spec => []IdsNameOneList
<1>1. Init => IdsInv /\ clashed \in BOOLEAN
  <2> SUFFICES ASSUME Init PROVE IdsInv /\ clashed \in BOOLEAN
    OBVIOUS
  <2>1. file.lists \in {<<>>, Demo} /\ clashed = FALSE /\ buf = [p \in Procs |-> <<>>]
    BY DEF Init, Unreadable, Holding
  <2> QED
    BY <2>1, NoListsApart, DemoApart DEF IdsInv
<1>2. IdsInv /\ clashed \in BOOLEAN /\ [Next]_vars => IdsInv' /\ (clashed \in BOOLEAN)'
  BY NextIds
<1>3. IdsInv => IdsNameOneList
  BY DEF IdsInv, Apart, IdsNameOneList
<1> QED
  BY <1>1, <1>2, <1>3, PTL DEF Spec

------------------------------------------------------------------------------
(* The rows of the lists.                                                  *)
ListSet == [id : Ids, name : Names, archived : BOOLEAN, rows : Seq(RowSet(SymbolSet))]

LEMMA ListsAreSequences == Lists = Seq(ListSet)
BY DEF Lists, ListSet, RowSet

Onces(lists) == \A k \in DOMAIN lists : EachOnce(lists[k].rows)
Leads(lists) == \A k \in DOMAIN lists : PinsLead(lists[k].rows)

(* What an edit that takes no symbol out makes of the lists. *)
LosesNone(new, old) == new # <<>> /\ Watched(old) \subseteq Watched(new)

(* One list is replaced. *)
LEMMA ReplacedList ==
  ASSUME NEW lists \in Lists, NEW k \in DOMAIN lists, NEW list \in ListSet
  PROVE  LET new == [lists EXCEPT ![k] = list]
         IN  /\ new \in Lists
             /\ DOMAIN new = DOMAIN lists
             /\ \A j \in DOMAIN lists : new[j] = IF j = k THEN list ELSE lists[j]
             /\ Onces(lists) /\ EachOnce(list.rows) => Onces(new)
             /\ Leads(lists) /\ PinsLead(list.rows) => Leads(new)
             /\ Symbols(lists[k].rows) \subseteq Symbols(list.rows) => LosesNone(new, lists)
<1> DEFINE new == [lists EXCEPT ![k] = list]
<1>1. lists \in Seq(ListSet) /\ k \in 1..Len(lists) /\ DOMAIN lists = 1..Len(lists)
  BY ListsAreSequences, LenProperties
<1>2. /\ new \in Seq(ListSet) /\ Len(new) = Len(lists)
      /\ \A j \in 1..Len(lists) : new[j] = IF j = k THEN list ELSE lists[j]
  BY <1>1, ExceptSeq
<1>3. new \in Lists /\ DOMAIN new = DOMAIN lists
  BY <1>1, <1>2, LenProperties, ListsAreSequences
<1> HIDE DEF new
<1>4. \A j \in DOMAIN lists : new[j] = IF j = k THEN list ELSE lists[j]
  BY <1>1, <1>2
<1>5. Onces(lists) /\ EachOnce(list.rows) => Onces(new)
  BY <1>3, <1>4 DEF Onces
<1>6. Leads(lists) /\ PinsLead(list.rows) => Leads(new)
  BY <1>3, <1>4 DEF Leads
<1>7. Symbols(lists[k].rows) \subseteq Symbols(list.rows) => LosesNone(new, lists)
  <2> SUFFICES ASSUME Symbols(lists[k].rows) \subseteq Symbols(list.rows)
               PROVE  LosesNone(new, lists)
    OBVIOUS
  <2>1. new # <<>>
    BY <1>3
  <2>2. \A j \in DOMAIN lists : Symbols(lists[j].rows) \subseteq Symbols(new[j].rows)
    BY <1>4
  <2>3. Watched(lists) \subseteq Watched(new)
    BY <1>3, <2>2 DEF Watched
  <2> QED
    BY <2>1, <2>3 DEF LosesNone
<1> QED
  BY <1>3, <1>4, <1>5, <1>6, <1>7 DEF new

(* The rows, the name or the archive flag of one list are changed. *)
LEMMA ChangedList ==
  ASSUME NEW lists \in Lists, NEW k \in DOMAIN lists
  PROVE  /\ lists[k].rows \in Seq(RowSet(SymbolSet))
         /\ \A rows \in Seq(RowSet(SymbolSet)) :
              LET list == [lists[k] EXCEPT !.rows = rows]
              IN  list \in ListSet /\ list.rows = rows
         /\ \A name \in Names :
              LET list == [lists[k] EXCEPT !.name = name]
              IN  list \in ListSet /\ list.rows = lists[k].rows
         /\ \A archived \in BOOLEAN :
              LET list == [lists[k] EXCEPT !.archived = archived]
              IN  list \in ListSet /\ list.rows = lists[k].rows
<1>1. lists \in Seq(ListSet) /\ k \in 1..Len(lists)
  BY ListsAreSequences, LenProperties
<1>2. lists[k] \in ListSet
  BY <1>1, ElementOfSeq
<1> QED
  BY <1>2 DEF ListSet

(* What every edit keeps. *)
Fine(lists) == lists \in Lists /\ Onces(lists) /\ (~moved => Leads(lists))

LEMMA RowsEdited ==
  ASSUME NEW lists, Fine(lists), NEW k \in DOMAIN lists,
         NEW rows \in Seq(RowSet(SymbolSet)), EachOnce(rows)
  PROVE  LET new == [lists EXCEPT ![k].rows = rows]
         IN  /\ new \in Lists /\ Onces(new)
             /\ DOMAIN new = DOMAIN lists
             /\ \A j \in DOMAIN lists : new[j].rows = IF j = k THEN rows ELSE lists[j].rows
             /\ Leads(lists) /\ PinsLead(rows) => Leads(new)
             /\ Symbols(lists[k].rows) \subseteq Symbols(rows) => LosesNone(new, lists)
<1> DEFINE list == [lists[k] EXCEPT !.rows = rows]
<1>1. lists \in Lists /\ Onces(lists)
  BY DEF Fine
<1>2. list \in ListSet /\ list.rows = rows
  BY <1>1, ChangedList
<1> HIDE DEF list
<1> DEFINE new == [lists EXCEPT ![k] = list]
<1>3. /\ new \in Lists
      /\ DOMAIN new = DOMAIN lists
      /\ \A j \in DOMAIN lists : new[j] = IF j = k THEN list ELSE lists[j]
      /\ Onces(lists) /\ EachOnce(list.rows) => Onces(new)
      /\ Leads(lists) /\ PinsLead(list.rows) => Leads(new)
      /\ Symbols(lists[k].rows) \subseteq Symbols(list.rows) => LosesNone(new, lists)
  BY <1>1, <1>2, ReplacedList
<1>4. [lists EXCEPT ![k].rows = rows] = new
  BY DEF list
<1> HIDE DEF new
<1> QED
  BY <1>1, <1>2, <1>3, <1>4

LEMMA NameEdited ==
  ASSUME NEW lists, Fine(lists), NEW k \in DOMAIN lists, NEW name \in Names
  PROVE  Fine([lists EXCEPT ![k].name = name]) /\ LosesNone([lists EXCEPT ![k].name = name], lists)
<1> DEFINE list == [lists[k] EXCEPT !.name = name]
<1>1. lists \in Lists /\ Onces(lists) /\ (~moved => Leads(lists))
  BY DEF Fine
<1>2. list \in ListSet /\ list.rows = lists[k].rows
  BY <1>1, ChangedList
<1>3. EachOnce(list.rows) /\ (~moved => PinsLead(list.rows))
  BY <1>1, <1>2 DEF Onces, Leads
<1>4. [lists EXCEPT ![k].name = name] = [lists EXCEPT ![k] = list]
  OBVIOUS
<1> HIDE DEF list
<1> QED
  BY <1>1, <1>2, <1>3, <1>4, ReplacedList DEF Fine

LEMMA FlagEdited ==
  ASSUME NEW lists, Fine(lists), NEW k \in DOMAIN lists, NEW archived \in BOOLEAN
  PROVE  /\ Fine([lists EXCEPT ![k].archived = archived])
         /\ LosesNone([lists EXCEPT ![k].archived = archived], lists)
<1> DEFINE list == [lists[k] EXCEPT !.archived = archived]
<1>1. lists \in Lists /\ Onces(lists) /\ (~moved => Leads(lists))
  BY DEF Fine
<1>2. list \in ListSet /\ list.rows = lists[k].rows
  BY <1>1, ChangedList
<1>3. EachOnce(list.rows) /\ (~moved => PinsLead(list.rows))
  BY <1>1, <1>2 DEF Onces, Leads
<1>4. [lists EXCEPT ![k].archived = archived] = [lists EXCEPT ![k] = list]
  OBVIOUS
<1> HIDE DEF list
<1> QED
  BY <1>1, <1>2, <1>3, <1>4, ReplacedList DEF Fine

LEMMA ListAdded ==
  ASSUME NEW lists, Fine(lists), NEW list \in ListSet, list.rows = <<>>
  PROVE  Fine(Append(lists, list)) /\ LosesNone(Append(lists, list), lists)
<1> DEFINE new == Append(lists, list)
           n == Len(lists)
<1>1. lists \in Seq(ListSet) /\ Onces(lists) /\ (~moved => Leads(lists))
  BY ListsAreSequences DEF Fine
<1>2. n \in Nat /\ DOMAIN lists = 1..n
  BY <1>1, LenProperties
<1>3. /\ new \in Seq(ListSet) /\ new # <<>> /\ Len(new) = n + 1
      /\ \A j \in 1..n : new[j] = lists[j]
      /\ new[n + 1] = list
  BY <1>1, AppendProperties
<1>4. DOMAIN new = 1..(n + 1)
  BY <1>3, LenProperties
<1> HIDE DEF new, n
<1>5. \A j \in DOMAIN new : j \in DOMAIN lists \/ new[j].rows = <<>>
  BY <1>2, <1>3, <1>4
<1>6. EachOnce(<<>>) /\ PinsLead(<<>>)
  BY DEF EachOnce, PinsLead
<1>7. Onces(new) /\ (~moved => Leads(new))
  BY <1>1, <1>2, <1>3, <1>5, <1>6 DEF Onces, Leads
<1>8. Watched(lists) \subseteq Watched(new)
  BY <1>2, <1>3, <1>4 DEF Watched
<1> QED
  BY <1>3, <1>7, <1>8, ListsAreSequences DEF Fine, LosesNone, new

LEMMA ListDeleted ==
  ASSUME NEW lists, Fine(lists), NEW k \in DOMAIN lists
  PROVE  Fine(RemoveAt(lists, k))
<1> DEFINE new == RemoveAt(lists, k)
<1>1. lists \in Seq(ListSet) /\ Onces(lists) /\ (~moved => Leads(lists))
  BY ListsAreSequences DEF Fine
<1>2. k \in 1..Len(lists)
  BY <1>1, LenProperties
<1>3. new \in Seq(ListSet) /\ \E at : Drawn(at, new, lists, DOMAIN lists \ {k})
  BY <1>1, <1>2, RemovedDrawn
<1> HIDE DEF new
<1>4. \A j \in DOMAIN new : \E i \in DOMAIN lists : new[j] = lists[i]
  BY <1>3 DEF Drawn
<1>5. Onces(new) /\ (~moved => Leads(new))
  BY <1>1, <1>4 DEF Onces, Leads
<1> QED
  BY <1>3, <1>5, ListsAreSequences DEF Fine, new

LEMMA RowTransferred ==
  ASSUME NEW lists, Fine(lists), NEW k \in DOMAIN lists, NEW j \in DOMAIN lists,
         NEW symbol \in Symbols(lists[k].rows)
  PROVE  /\ Fine(Transferred(lists, k, j, symbol))
         /\ LosesNone(Transferred(lists, k, j, symbol), lists)
<1> DEFINE rest == Taken(lists[k].rows, symbol)
           taken == [lists EXCEPT ![k].rows = rest]
<1>0. lists \in Lists /\ Onces(lists) /\ (~moved => Leads(lists))
  BY DEF Fine
<1>1. lists[k].rows \in Seq(RowSet(SymbolSet)) /\ EachOnce(lists[k].rows)
  BY <1>0, ChangedList DEF Onces
<1>2. /\ rest \in Seq(RowSet(SymbolSet)) /\ EachOnce(rest)
      /\ Symbols(rest) = Symbols(lists[k].rows) \ {symbol}
      /\ PinsLead(lists[k].rows) => PinsLead(rest)
  BY <1>1, TakenRows
<1>3. symbol \in SymbolSet
  BY <1>1, SymbolsOfRows
<1> HIDE DEF rest
<1>4. /\ taken \in Lists /\ Onces(taken)
      /\ DOMAIN taken = DOMAIN lists
      /\ \A i \in DOMAIN lists : taken[i].rows = IF i = k THEN rest ELSE lists[i].rows
      /\ Leads(lists) /\ PinsLead(rest) => Leads(taken)
  BY <1>1, <1>2, RowsEdited
<1> HIDE DEF taken
<1>5. Fine(taken)
  BY <1>0, <1>2, <1>4 DEF Fine, Leads
<1> DEFINE rows == Added(taken[j].rows, symbol)
           new == [taken EXCEPT ![j].rows = rows]
<1>6. taken[j].rows \in Seq(RowSet(SymbolSet)) /\ EachOnce(taken[j].rows)
  BY <1>4, ChangedList DEF Onces
<1>7. /\ rows \in Seq(RowSet(SymbolSet)) /\ EachOnce(rows)
      /\ Symbols(rows) = Symbols(taken[j].rows) \cup {symbol}
      /\ PinsLead(taken[j].rows) => PinsLead(rows)
  BY <1>3, <1>6, AddedRows
<1> HIDE DEF rows
<1>8. /\ new \in Lists /\ Onces(new)
      /\ DOMAIN new = DOMAIN taken
      /\ \A i \in DOMAIN taken : new[i].rows = IF i = j THEN rows ELSE taken[i].rows
      /\ Leads(taken) /\ PinsLead(rows) => Leads(new)
  BY <1>4, <1>5, <1>7, RowsEdited
<1> HIDE DEF new
<1>9. Fine(new)
  BY <1>4, <1>5, <1>7, <1>8 DEF Fine, Leads
<1>10. \A i \in DOMAIN lists : Symbols(lists[i].rows) \subseteq Symbols(new[i].rows) \cup {symbol}
  BY <1>2, <1>4, <1>7, <1>8
<1>11. symbol \in Symbols(new[j].rows) /\ j \in DOMAIN new
  BY <1>4, <1>7, <1>8
<1>12. Watched(lists) \subseteq Watched(new)
  BY <1>4, <1>8, <1>10, <1>11 DEF Watched
<1>13. new = Transferred(lists, k, j, symbol)
  BY DEF Transferred, new, rows, taken, rest
<1> QED
  BY <1>4, <1>8, <1>9, <1>12, <1>13 DEF LosesNone

------------------------------------------------------------------------------
RowsInv == /\ TypeOK
           /\ Fine(file.lists)
           /\ \A p \in Procs : Fine(buf[p])

(* What the nine operations have in common. *)
Edits(p) ==
  \E name \in OpNames \ {"none"}, lists \in Lists :
    /\ Edit(p, name, lists)
    /\ Onces(lists) /\ (~moved' => Leads(lists))
    /\ name \in {"remove", "delete"} \/ LosesNone(lists, LoadData)
    /\ moved' \in BOOLEAN /\ (moved => moved')
    /\ clashed' \in BOOLEAN

LEMMA NoListsFine == Fine(<<>>)
<1>1. <<>> \in Lists /\ DOMAIN <<>> = {}
  BY DEF Lists
<1> QED
  BY <1>1 DEF Fine, Onces, Leads

LEMMA LoadedFine == RowsInv => Fine(LoadData) /\ LoadData # <<>>
<1>1. Fine(Demo) /\ Demo # <<>>
  BY DemoAssumption DEF Fine, Onces, Leads
<1> QED
  BY <1>1 DEF RowsInv, LoadData

LEMMA OperationsEdit ==
  ASSUME RowsInv, NEW p \in Procs,
         \/ CreateWatchlist(p) \/ RenameWatchlist(p)
         \/ AddWatchlistSymbol(p) \/ RemoveWatchlistSymbol(p)
         \/ PinWatchlistSymbol(p) \/ MoveWatchlistSymbol(p)
         \/ ArchiveWatchlist(p) \/ DeleteWatchlist(p) \/ MoveSymbolToWatchlist(p)
  PROVE  Edits(p)
<1> DEFINE L == LoadData
<1>1. Fine(L) /\ moved \in BOOLEAN /\ clashed \in BOOLEAN
  BY LoadedFine DEF RowsInv, TypeOK
<1>2. L \in Lists /\ Onces(L) /\ (~moved => Leads(L))
  BY <1>1 DEF Fine
<1>3. \A k \in FirstWithItsId(L) : k \in DOMAIN L
  BY DEF FirstWithItsId
<1>4. \A k \in DOMAIN L : /\ L[k].rows \in Seq(RowSet(SymbolSet))
                          /\ EachOnce(L[k].rows) /\ (~moved => PinsLead(L[k].rows))
                          /\ Symbols(L[k].rows) \subseteq SymbolSet
  <2>1. \A k \in DOMAIN L : L[k].rows \in Seq(RowSet(SymbolSet))
    <3> HIDE DEF L
    <3> QED
      BY <1>2, ChangedList
  <2> QED
    BY <1>2, <2>1, SymbolsOfRows DEF Onces, Leads
<1> HIDE DEF L
<1>5. ASSUME NEW name \in OpNames \ {"none"}, NEW lists, Fine(lists), Edit(p, name, lists),
             name \in {"remove", "delete"} \/ LosesNone(lists, L),
             UNCHANGED moved, clashed' \in BOOLEAN
      PROVE  Edits(p)
  BY <1>1, <1>5 DEF Edits, Fine, L
(* An edit of the rows of one list. *)
<1>6. ASSUME NEW name \in OpNames \ {"none"}, NEW k \in DOMAIN L,
             NEW rows \in Seq(RowSet(SymbolSet)), EachOnce(rows),
             PinsLead(L[k].rows) => PinsLead(rows),
             Symbols(L[k].rows) \subseteq Symbols(rows) \/ name = "remove",
             Edit(p, name, [L EXCEPT ![k].rows = rows]), UNCHANGED <<moved, clashed>>
      PROVE  Edits(p)
  <2> DEFINE new == [L EXCEPT ![k].rows = rows]
  <2>1. /\ new \in Lists /\ Onces(new)
        /\ Leads(L) /\ PinsLead(rows) => Leads(new)
        /\ Symbols(L[k].rows) \subseteq Symbols(rows) => LosesNone(new, L)
    BY <1>1, <1>6, RowsEdited
  <2>2. Edit(p, name, new)
    BY <1>6
  <2> HIDE DEF new
  <2>3. Fine(new)
    BY <1>2, <1>6, <2>1 DEF Fine, Leads
  <2>4. name \in {"remove", "delete"} \/ LosesNone(new, L)
    BY <1>6, <2>1
  <2> QED
    BY <1>1, <1>5, <1>6, <2>2, <2>3, <2>4
<1>7. CASE CreateWatchlist(p)
  <2>1. PICK name \in Names :
          /\ Edit(p, "create", Append(L, [id |-> Slug[name], name |-> name,
                                          archived |-> FALSE, rows |-> <<>>]))
          /\ clashed' = (clashed \/ \E k \in DOMAIN L : L[k].id = Slug[name])
          /\ UNCHANGED moved
    BY <1>7 DEF CreateWatchlist, L
  <2> DEFINE list == [id |-> Slug[name], name |-> name, archived |-> FALSE, rows |-> <<>>]
  <2>2. list \in ListSet /\ list.rows = <<>>
    <3>1. Slug[name] \in Ids
      BY DEF Ids
    <3>2. <<>> \in Seq(RowSet(SymbolSet))
      BY EmptySeq
    <3> QED
      BY <3>1, <3>2 DEF ListSet
  <2>3. clashed' \in BOOLEAN
    BY <1>1, <2>1
  <2>4. Edit(p, "create", Append(L, list))
    BY <2>1
  <2> HIDE DEF list
  <2>5. Fine(Append(L, list)) /\ LosesNone(Append(L, list), L)
    BY <1>1, <2>2, ListAdded
  <2>6. "create" \in OpNames \ {"none"}
    BY DEF OpNames
  <2> QED
    BY <1>5, <2>1, <2>3, <2>4, <2>5, <2>6
<1>8. CASE RenameWatchlist(p)
  <2>1. PICK k \in DOMAIN L, name \in Names :
          Edit(p, "rename", [L EXCEPT ![k].name = name]) /\ UNCHANGED <<moved, clashed>>
    BY <1>3, <1>8 DEF RenameWatchlist, history, L
  <2>2. "rename" \in OpNames \ {"none"}
    BY DEF OpNames
  <2> QED
    BY <1>1, <1>5, <2>1, <2>2, NameEdited
<1>9. CASE ArchiveWatchlist(p)
  <2>1. PICK k \in DOMAIN L, archived \in BOOLEAN :
          Edit(p, "archive", [L EXCEPT ![k].archived = archived]) /\ UNCHANGED <<moved, clashed>>
    BY <1>3, <1>9 DEF ArchiveWatchlist, history, L
  <2>2. "archive" \in OpNames \ {"none"}
    BY DEF OpNames
  <2> QED
    BY <1>1, <1>5, <2>1, <2>2, FlagEdited
<1>10. CASE DeleteWatchlist(p)
  <2>1. PICK k \in DOMAIN L :
          Edit(p, "delete", RemoveAt(L, k)) /\ UNCHANGED <<moved, clashed>>
    BY <1>3, <1>10 DEF DeleteWatchlist, history, L
  <2>2. "delete" \in OpNames \ {"none"}
    BY DEF OpNames
  <2> QED
    BY <1>1, <1>5, <2>1, <2>2, ListDeleted
<1>11. CASE AddWatchlistSymbol(p)
  <2>1. PICK k \in DOMAIN L, symbol \in SymbolSet :
          /\ Edit(p, "add", [L EXCEPT ![k].rows = Added(L[k].rows, symbol)])
          /\ UNCHANGED <<moved, clashed>>
    BY <1>3, <1>11 DEF AddWatchlistSymbol, history, L
  <2>2. "add" \in OpNames \ {"none"}
    BY DEF OpNames
  <2> DEFINE rows == Added(L[k].rows, symbol)
  <2>3. /\ rows \in Seq(RowSet(SymbolSet)) /\ EachOnce(rows)
        /\ PinsLead(L[k].rows) => PinsLead(rows)
        /\ Symbols(L[k].rows) \subseteq Symbols(rows)
    BY <1>4, AddedRows
  <2> HIDE DEF rows
  <2>4. Edit(p, "add", [L EXCEPT ![k].rows = rows])
    BY <2>1 DEF rows
  <2> QED
    BY <1>6, <2>1, <2>2, <2>3, <2>4
<1>12. CASE RemoveWatchlistSymbol(p)
  <2>1. PICK k \in DOMAIN L, symbol \in SymbolSet :
          /\ Edit(p, "remove", [L EXCEPT ![k].rows = Removed(L[k].rows, symbol)])
          /\ UNCHANGED <<moved, clashed>>
    BY <1>3, <1>12 DEF RemoveWatchlistSymbol, history, L
  <2>2. "remove" \in OpNames \ {"none"}
    BY DEF OpNames
  <2> DEFINE rows == Removed(L[k].rows, symbol)
  <2>3. /\ rows \in Seq(RowSet(SymbolSet)) /\ EachOnce(rows)
        /\ PinsLead(L[k].rows) => PinsLead(rows)
    BY <1>4, RemovedRows
  <2> HIDE DEF rows
  <2>4. Edit(p, "remove", [L EXCEPT ![k].rows = rows])
    BY <2>1 DEF rows
  <2> QED
    BY <1>6, <2>1, <2>2, <2>3, <2>4
<1>13. CASE PinWatchlistSymbol(p)
  <2>1. PICK k \in DOMAIN L :
          \E symbol \in Symbols(L[k].rows), pinned \in BOOLEAN :
            /\ Edit(p, "pin", [L EXCEPT ![k].rows = Pinned(L[k].rows, symbol, pinned)])
            /\ UNCHANGED <<moved, clashed>>
    BY <1>3, <1>13 DEF PinWatchlistSymbol, history, L
  <2>2. PICK symbol \in Symbols(L[k].rows), pinned \in BOOLEAN :
          /\ Edit(p, "pin", [L EXCEPT ![k].rows = Pinned(L[k].rows, symbol, pinned)])
          /\ UNCHANGED <<moved, clashed>>
    BY <2>1
  <2>3. "pin" \in OpNames \ {"none"}
    BY DEF OpNames
  <2> DEFINE rows == Pinned(L[k].rows, symbol, pinned)
  <2>4. /\ rows \in Seq(RowSet(SymbolSet)) /\ EachOnce(rows)
        /\ PinsLead(L[k].rows) => PinsLead(rows)
        /\ Symbols(L[k].rows) \subseteq Symbols(rows)
    BY <1>4, PinnedRows
  <2> HIDE DEF rows
  <2>5. Edit(p, "pin", [L EXCEPT ![k].rows = rows])
    BY <2>2 DEF rows
  <2> QED
    BY <1>6, <2>2, <2>3, <2>4, <2>5
<1>14. CASE MoveWatchlistSymbol(p)
  <2>1. PICK k \in DOMAIN L :
          \E symbol \in Symbols(L[k].rows), before \in Symbols(L[k].rows) :
            /\ Edit(p, "move", [L EXCEPT ![k].rows = Moved(L[k].rows, symbol, before)])
            /\ moved' = TRUE /\ UNCHANGED clashed
    BY <1>3, <1>14 DEF MoveWatchlistSymbol, L
  <2>2. PICK symbol \in Symbols(L[k].rows), before \in Symbols(L[k].rows) :
          /\ Edit(p, "move", [L EXCEPT ![k].rows = Moved(L[k].rows, symbol, before)])
          /\ moved' = TRUE /\ UNCHANGED clashed
    BY <2>1
  <2> DEFINE rows == Moved(L[k].rows, symbol, before)
             new == [L EXCEPT ![k].rows = rows]
  <2>3. /\ rows \in Seq(RowSet(SymbolSet)) /\ EachOnce(rows)
        /\ Symbols(L[k].rows) \subseteq Symbols(rows)
    BY <1>4, MovedRows
  <2> HIDE DEF rows
  <2>4. new \in Lists /\ Onces(new) /\ LosesNone(new, L)
    BY <1>1, <2>3, RowsEdited
  <2>5. Edit(p, "move", new)
    BY <2>2 DEF rows
  <2>6. "move" \in OpNames \ {"none"}
    BY DEF OpNames
  <2> HIDE DEF new
  <2> QED
    BY <1>1, <2>2, <2>4, <2>5, <2>6 DEF Edits, L
<1>15. CASE MoveSymbolToWatchlist(p)
  <2>1. PICK k \in DOMAIN L, j \in DOMAIN L :
          \E symbol \in Symbols(L[k].rows) :
            Edit(p, "transfer", Transferred(L, k, j, symbol)) /\ UNCHANGED <<moved, clashed>>
    BY <1>3, <1>15 DEF MoveSymbolToWatchlist, history, L
  <2>2. PICK symbol \in Symbols(L[k].rows) :
          Edit(p, "transfer", Transferred(L, k, j, symbol)) /\ UNCHANGED <<moved, clashed>>
    BY <2>1
  <2>3. "transfer" \in OpNames \ {"none"}
    BY DEF OpNames
  <2> QED
    BY <1>1, <1>5, <2>2, <2>3, RowTransferred
<1> QED
  BY <1>7, <1>8, <1>9, <1>10, <1>11, <1>12, <1>13, <1>14, <1>15

LEMMA NextRows ==
  ASSUME RowsInv, [Next]_vars
  PROVE  RowsInv'
<1>0. /\ TypeOK /\ Fine(file.lists)
      /\ \A p \in Procs : Fine(buf[p])
      /\ MaxOps \in Nat /\ MaxCrashes \in Nat
  BY WatchlistBounds DEF RowsInv
<1>1. LoadData \in Lists /\ Shown \in Lists
  BY <1>0, LoadedFine DEF Fine, Shown, TypeOK
<1>2. Fine(<<>>) /\ <<>> \in Lists
  BY NoListsFine DEF Fine
<1>3. ASSUME NEW p \in Procs, Edits(p)
      PROVE  RowsInv'
  <2>1. PICK name \in OpNames \ {"none"}, lists \in Lists :
          /\ Edit(p, name, lists)
          /\ Onces(lists) /\ (~moved' => Leads(lists))
          /\ moved' \in BOOLEAN /\ (moved => moved')
          /\ clashed' \in BOOLEAN
    BY <1>3 DEF Edits
  <2>2. TypeOK'
    <3>0. /\ pc' = [pc EXCEPT ![p] = "loaded"] /\ op' = [op EXCEPT ![p] = name]
          /\ buf' = [buf EXCEPT ![p] = lists]
          /\ ops' = ops + 1 /\ ops < MaxOps
          /\ stale' \in {stale, stale \cup {p}}
          /\ UNCHANGED <<file, shown, crashes>>
      BY <2>1 DEF Edit
    <3>1. /\ pc' \in [Procs -> {"idle", "loaded", "writing"}]
          /\ op' \in [Procs -> OpNames] /\ buf' \in [Procs -> Lists]
      BY <1>0, <3>0 DEF TypeOK
    <3>2. stale' \subseteq Procs /\ ops' \in 0..MaxOps
      BY <1>0, <3>0 DEF TypeOK
    <3> QED
      BY <1>0, <2>1, <3>0, <3>1, <3>2 DEF TypeOK
  <2>3. ASSUME NEW old, Fine(old)
        PROVE  old \in Lists /\ Onces(old) /\ (~moved' => Leads(old))
    BY <2>1, <2>3 DEF Fine
  <2>4. Fine(file.lists)'
    BY <1>0, <2>1, <2>3 DEF Fine, Edit
  <2>5. buf' = [buf EXCEPT ![p] = lists]
    BY <2>1 DEF Edit
  <2>6. ASSUME NEW q \in Procs
        PROVE  Fine(buf[q])'
    <3>1. buf'[q] = lists \/ buf'[q] = buf[q]
      BY <1>0, <2>5 DEF TypeOK
    <3>2. buf'[q] \in Lists /\ Onces(buf'[q]) /\ (~moved' => Leads(buf'[q]))
      BY <1>0, <2>1, <2>3, <3>1
    <3> QED
      BY <3>2 DEF Fine
  <2> QED
    BY <2>2, <2>4, <2>6 DEF RowsInv
<1>4. ASSUME NEW p \in Procs, Truncate(p)
      PROVE  RowsInv'
  <2>1. /\ file' = Unreadable /\ shown' = Shown /\ stale' = stale \cup (Busy \ {p})
        /\ pc' = [pc EXCEPT ![p] = "writing"]
        /\ UNCHANGED <<op, buf, ops, crashes>> /\ UNCHANGED moved /\ UNCHANGED clashed
    BY <1>4 DEF Truncate, history
  <2>2. TypeOK'
    <3>1. pc' \in [Procs -> {"idle", "loaded", "writing"}]
      BY <1>0, <2>1 DEF TypeOK
    <3>2. stale' \subseteq Procs
      BY <1>0, <2>1 DEF TypeOK, Busy
    <3>3. file'.state = "bad" /\ file'.lists = <<>>
      BY <2>1 DEF Unreadable
    <3>4. moved' \in BOOLEAN /\ clashed' \in BOOLEAN
      BY <1>0, <2>1 DEF TypeOK
    <3> QED
      BY <1>0, <1>1, <1>2, <2>1, <3>1, <3>2, <3>3, <3>4 DEF TypeOK
  <2>3. Fine(file.lists)' /\ \A q \in Procs : Fine(buf[q])'
    BY <1>0, <1>2, <2>1 DEF Fine, Unreadable
  <2> QED
    BY <2>2, <2>3 DEF RowsInv
<1>5. ASSUME NEW p \in Procs, Flush(p) \/ SaveFails(p)
      PROVE  RowsInv'
  <2>1. /\ pc' = [pc EXCEPT ![p] = "idle"] /\ op' = [op EXCEPT ![p] = "none"]
        /\ buf' = [buf EXCEPT ![p] = <<>>] /\ ops' = ops
        /\ UNCHANGED moved /\ UNCHANGED clashed
    BY <1>5 DEF Flush, SaveFails, Done, history
  <2>2. /\ file' \in {Holding(buf[p]), Unreadable, file}
        /\ stale' \subseteq Busy \cup stale
        /\ crashes' \in 0..MaxCrashes
    BY <1>0, <1>5 DEF Flush, SaveFails, TypeOK
  <2>3. file'.lists \in {buf[p], <<>>, file.lists} /\ file'.state \in {"ok", "bad"}
    BY <1>0, <2>2 DEF Holding, Unreadable, TypeOK
  <2>4. Fine(file.lists)' /\ file'.lists \in Lists
    BY <1>0, <1>2, <2>1, <2>3 DEF Fine
  <2>5. ASSUME NEW q \in Procs
        PROVE  Fine(buf[q])'
    BY <1>0, <1>2, <2>1 DEF Fine, TypeOK
  <2>6. LoadData' \in Lists /\ Shown \in Lists
    BY <1>1, <2>4, DemoAssumption DEF LoadData
  <2>7. shown' \in Lists
    BY <1>2, <1>5, <2>6 DEF Flush, SaveFails, Done
  <2>8. TypeOK'
    BY <1>0, <1>2, <2>1, <2>2, <2>3, <2>4, <2>7 DEF TypeOK, OpNames, Busy
  <2> QED
    BY <2>4, <2>5, <2>8 DEF RowsInv
<1>6. CASE UNCHANGED vars
  BY <1>0, <1>6 DEF vars, history, RowsInv, TypeOK, Fine
<1> QED
  BY <1>3, <1>4, <1>5, <1>6, OperationsEdit DEF Next

LEMMA RowsHold == Spec => []RowsInv
<1>1. Init => RowsInv
  <2> SUFFICES ASSUME Init PROVE RowsInv
    OBVIOUS
  <2>1. file.lists \in {<<>>, Demo} /\ file.state \in {"ok", "bad"} /\ moved = FALSE
    BY DEF Init, Unreadable, Holding
  <2>2. Fine(Demo) /\ Fine(<<>>)
    BY DemoAssumption, NoListsFine DEF Fine, Onces, Leads
  <2>3. file.lists \in Lists /\ <<>> \in Lists
    BY <2>1, <2>2 DEF Fine
  <2>4. TypeOK
    <3>1. /\ pc \in [Procs -> {"idle", "loaded", "writing"}]
          /\ op \in [Procs -> OpNames] /\ buf \in [Procs -> Lists]
      BY <2>3 DEF Init, OpNames
    <3>2. shown \in Lists /\ stale \subseteq Procs /\ moved \in BOOLEAN /\ clashed \in BOOLEAN
      BY <2>3 DEF Init
    <3>3. ops \in 0..MaxOps /\ crashes \in 0..MaxCrashes
      BY WatchlistBounds DEF Init
    <3> QED
      BY <2>1, <2>3, <3>1, <3>2, <3>3 DEF TypeOK
  <2> QED
    BY <2>1, <2>2, <2>4 DEF Init, RowsInv
<1>2. RowsInv /\ [Next]_vars => RowsInv'
  BY NextRows
<1> QED
  BY <1>1, <1>2, PTL DEF Spec

(* Every list in the file and in memory is well-formed. *)
THEOREM TypeCorrect == Spec => []TypeOK
<1>1. RowsInv => TypeOK
  BY DEF RowsInv
<1> QED
  BY <1>1, RowsHold, PTL

(* No list ever holds a symbol twice: only what is not in a list is added  *)
(* to it, and what is moved or pinned was taken out first.                 *)
THEOREM SymbolsStaySingle == Spec => []EachSymbolOnce
<1>1. RowsInv => EachSymbolOnce
  BY DEF RowsInv, Fine, Onces, EachSymbolOnce
<1> QED
  BY <1>1, RowsHold, PTL

(* Until a row is moved by hand, the pinned rows of every list lead: a     *)
(* row is pinned before the first unpinned one and unpinned at the end.    *)
THEOREM PinnedRowsStayInFront == Spec => []PinnedRowsLead
<1>1. RowsInv => PinnedRowsLead
  BY DEF RowsInv, Fine, Leads, PinnedRowsLead
<1> QED
  BY <1>1, RowsHold, PTL

------------------------------------------------------------------------------
(* A process that is not stale is about to write what readers see and its  *)
(* own edit: nobody but it has truncated the file since it was read, nor   *)
(* written it.                                                             *)
FreshInv ==
  /\ \A q \in Writing, p \in Busy : p # q => p \in stale
  /\ \A p \in Writing : file.state = "ok" => p \in stale
  /\ \A p \in Busy \ stale : op[p] \in {"remove", "delete"} \/ LosesNone(buf[p], Shown)

(* What OnlyRemovalsLose says of a step. *)
LosesByRemoval ==
  ~(Watched(Shown) \subseteq Watched(Shown')) =>
    \E p \in Busy \ Busy' : \/ op[p] \in {"remove", "delete"}
                           \/ p \in stale \/ crashes' > crashes

LEMMA NextFresh ==
  ASSUME RowsInv, FreshInv, [Next]_vars
  PROVE  FreshInv' /\ LosesByRemoval
<1>0. /\ pc \in [Procs -> {"idle", "loaded", "writing"}]
      /\ op \in [Procs -> OpNames] /\ buf \in [Procs -> Lists]
      /\ Writing \subseteq Busy /\ Busy \subseteq Procs
      /\ crashes \in Nat
  BY WatchlistBounds DEF RowsInv, TypeOK, Writing, Busy
<1>1. ASSUME NEW p \in Procs, Edits(p)
      PROVE  FreshInv' /\ LosesByRemoval
  <2>1. PICK name \in OpNames, lists \in Lists :
          /\ Edit(p, name, lists)
          /\ name \in {"remove", "delete"} \/ LosesNone(lists, LoadData)
    BY <1>1 DEF Edits
  <2>2. /\ pc[p] = "idle" /\ pc' = [pc EXCEPT ![p] = "loaded"]
        /\ op' = [op EXCEPT ![p] = name] /\ buf' = [buf EXCEPT ![p] = lists]
        /\ stale' = (IF Writing # {} THEN stale \cup {p} ELSE stale)
        /\ file' = file /\ shown' = shown
    BY <2>1 DEF Edit
  <2>3. Writing' = Writing /\ Busy' = Busy \cup {p} /\ p \notin Busy
    BY <1>0, <2>2 DEF Writing, Busy
  <2>4. Shown' = Shown
    BY <2>2, <2>3 DEF Shown, LoadData
  <2>5. Writing = {} => Shown = LoadData
    BY DEF Shown
  <2>6. \A q \in Writing', r \in Busy' : r # q => r \in stale'
    BY <2>2, <2>3 DEF FreshInv
  <2>7. \A q \in Writing' : file'.state = "ok" => q \in stale'
    BY <2>2, <2>3 DEF FreshInv
  <2>8. ASSUME NEW r \in Busy' \ stale'
        PROVE  op'[r] \in {"remove", "delete"} \/ LosesNone(buf'[r], Shown')
    <3>1. CASE r = p
      <4>1. op'[p] = name /\ buf'[p] = lists /\ Writing = {}
        BY <1>0, <2>2, <2>8, <3>1
      <4> QED
        BY <2>1, <2>4, <2>5, <3>1, <4>1
    <3>2. CASE r # p
      <4>1. op'[r] = op[r] /\ buf'[r] = buf[r] /\ r \in Busy \ stale
        BY <1>0, <2>2, <2>3, <2>8, <3>2
      <4> QED
        BY <2>4, <4>1 DEF FreshInv
    <3> QED
      BY <3>1, <3>2
  <2>9. FreshInv'
    BY <2>6, <2>7, <2>8 DEF FreshInv
  <2> QED
    BY <2>4, <2>9 DEF LosesByRemoval
<1>2. ASSUME NEW p \in Procs, Truncate(p)
      PROVE  FreshInv' /\ LosesByRemoval
  <2>1. /\ pc[p] = "loaded" /\ pc' = [pc EXCEPT ![p] = "writing"]
        /\ shown' = Shown /\ stale' = stale \cup (Busy \ {p})
        /\ file'.state = "bad" /\ op' = op /\ buf' = buf
    BY <1>2 DEF Truncate, Unreadable
  <2>2. Writing' = Writing \cup {p} /\ Busy' = Busy /\ p \in Busy
    BY <1>0, <2>1 DEF Writing, Busy
  <2>3. Shown' = Shown
    BY <2>1, <2>2 DEF Shown
  <2>4. \A q \in Writing', r \in Busy' : r # q => r \in stale'
    BY <2>1, <2>2 DEF FreshInv
  <2>5. \A r \in Busy' \ stale' : op'[r] \in {"remove", "delete"} \/ LosesNone(buf'[r], Shown')
    BY <2>1, <2>2, <2>3 DEF FreshInv
  <2>6. FreshInv'
    BY <2>1, <2>4, <2>5 DEF FreshInv
  <2> QED
    BY <2>3, <2>6 DEF LosesByRemoval
<1>3. ASSUME NEW p \in Procs, Flush(p)
      PROVE  FreshInv' /\ LosesByRemoval
  <2>1. /\ pc[p] = "writing" /\ pc' = [pc EXCEPT ![p] = "idle"]
        /\ file' \in {Holding(buf[p])} \cup IF file.state = "ok" THEN {Unreadable} ELSE {}
        /\ stale' = Busy \ {p}
    BY <1>3 DEF Flush, Done
  <2>2. Writing' = Writing \ {p} /\ Busy' = Busy \ {p} /\ p \in Busy /\ p \in Writing
    BY <1>0, <2>1 DEF Writing, Busy
  <2>3. FreshInv'
    BY <1>0, <2>1, <2>2 DEF FreshInv
  <2>4. ASSUME p \notin stale, op[p] \notin {"remove", "delete"}
        PROVE  Watched(Shown) \subseteq Watched(Shown')
    <3>1. LosesNone(buf[p], Shown) /\ file.state # "ok"
      BY <2>2, <2>4 DEF FreshInv
    <3>2. file' = Holding(buf[p]) /\ buf[p] # <<>>
      BY <2>1, <3>1 DEF LosesNone
    <3>3. Shown' = buf[p]
      BY <3>2 DEF Shown, LoadData, Holding
    <3> QED
      BY <3>1, <3>3 DEF LosesNone
  <2> QED
    BY <2>2, <2>3, <2>4 DEF LosesByRemoval
<1>4. ASSUME NEW p \in Procs, SaveFails(p)
      PROVE  FreshInv' /\ LosesByRemoval
  <2>1. /\ pc[p] \in {"loaded", "writing"} /\ pc' = [pc EXCEPT ![p] = "idle"]
        /\ op' = [op EXCEPT ![p] = "none"] /\ buf' = [buf EXCEPT ![p] = <<>>]
        /\ stale' = stale \ {p} /\ file' = file /\ crashes' = crashes + 1
        /\ shown' = IF Writing \ {p} # {} THEN Shown ELSE <<>>
    BY <1>4 DEF SaveFails, Done
  <2>2. Writing' = Writing \ {p} /\ Busy' = Busy \ {p} /\ p \in Busy
    BY <1>0, <2>1 DEF Writing, Busy
  <2>3. p \notin Writing => Shown' = Shown
    <3> SUFFICES ASSUME p \notin Writing PROVE Shown' = Shown
      OBVIOUS
    <3>1. Writing' = Writing /\ LoadData' = LoadData
      BY <2>1, <2>2 DEF LoadData
    <3>2. Writing # {} => shown' = Shown
      BY <2>1
    <3> QED
      BY <2>1, <3>1, <3>2 DEF Shown
  <2>4. \A r \in Busy' \ stale' : op'[r] \in {"remove", "delete"} \/ LosesNone(buf'[r], Shown')
    <3> SUFFICES ASSUME NEW r \in Busy' \ stale'
                 PROVE  op'[r] \in {"remove", "delete"} \/ LosesNone(buf'[r], Shown')
      OBVIOUS
    <3>1. r \in Busy \ stale /\ r # p /\ op'[r] = op[r] /\ buf'[r] = buf[r]
      BY <1>0, <2>1, <2>2
    <3>2. p \notin Writing
      BY <3>1 DEF FreshInv
    <3> QED
      BY <2>3, <3>1, <3>2 DEF FreshInv
  <2>5. FreshInv'
    BY <2>1, <2>2, <2>4 DEF FreshInv
  <2>6. crashes' > crashes
    BY <1>0, <2>1
  <2> QED
    BY <2>2, <2>5, <2>6 DEF LosesByRemoval
<1>5. CASE UNCHANGED vars
  <2>1. UNCHANGED <<file, pc, op, buf, shown, stale>>
    BY <1>5 DEF vars
  <2>2. UNCHANGED <<Writing, Busy, Shown>>
    BY <2>1 DEF Writing, Busy, Shown, LoadData
  <2>3. LosesByRemoval
    BY <2>2 DEF LosesByRemoval
  <2>4. FreshInv'
    BY <2>1, <2>2 DEF FreshInv
  <2> QED
    BY <2>3, <2>4
<1> QED
  BY <1>1, <1>2, <1>3, <1>4, <1>5, OperationsEdit DEF Next

(* A symbol leaves the lists as a whole only by a removal, a deletion, a   *)
(* failed write, or a write from lists read before or during another one.  *)
THEOREM SymbolsLeaveByRemoval == Spec => OnlyRemovalsLose
<1>1. Init => FreshInv
  BY DEF Init, FreshInv, Writing, Busy
<1>2. RowsInv /\ FreshInv /\ [Next]_vars => FreshInv' /\ LosesByRemoval
  BY NextFresh
<1>3. RowsInv /\ FreshInv /\ [Next]_vars =>
        [~(Watched(Shown) \subseteq Watched(Shown')) =>
           \E p \in Busy \ Busy' : \/ op[p] \in {"remove", "delete"}
                                  \/ p \in stale \/ crashes' > crashes]_vars
  BY <1>2 DEF LosesByRemoval
<1> QED
  BY <1>1, <1>2, <1>3, RowsHold, PTL DEF Spec, OnlyRemovalsLose
===============================================================================
