-------------------------- MODULE TdaWatchlistsProofs --------------------------
(***************************************************************************)
(* For any accounts, lists, overlay, bounds and order of events: what      *)
(* users see has TDA's names and symbols; no request takes a symbol it was *)
(* not asked to take; pins and archive flags a client was told of stay;    *)
(* and what TDA's provider reports has come true.                          *)
(*                                                                         *)
(* The invariants are TypeInv, IdsInv, SendInv, KeptInv, OnceInv, SeenInv, *)
(* DoneInv and AnswerInv.  What an action does is stated once, in terms of *)
(* TDA's lists and of Shown, the merge of one of them with the overlay.    *)
(***************************************************************************)
EXTENDS TdaWatchlists, SequenceLemmas

(* FIRST LISTS *)

(* What std::find_if gives. *)
FirstAt(lists, id, k) ==
  \/ k = 0 /\ id \notin IdsOf(lists)
  \/ /\ k \in DOMAIN lists /\ lists[k].id = id /\ id \in IdsOf(lists)
     /\ \A i \in DOMAIN lists : i < k => lists[i].id # id

LEMMA FindFinds ==
  ASSUME NEW S, NEW lists \in Seq(S), NEW id
  PROVE  FirstAt(lists, id, Find(lists, id))
<1> DEFINE I == {i \in 1..Len(lists) : lists[i].id = id}
<1>1. Find(lists, id) = IF I # {} THEN Min(I) ELSE 0
  BY DEF Find, SelectInSeq
<1>2. Len(lists) \in Nat /\ DOMAIN lists = 1..Len(lists) /\ I \subseteq Nat
  BY LenProperties
<1>3. CASE I = {}
  BY <1>1, <1>2, <1>3 DEF IdsOf, FirstAt
<1>4. CASE I # {}
  <2> DEFINE m == Min(I)
  <2>1. m \in I /\ \A i \in I : m <= i
    <3> HIDE DEF I
    <3> QED
      BY <1>2, <1>4, MinIsLeast
  <2>2. Find(lists, id) = m
    BY <1>1, <1>4
  <2> HIDE DEF m
  <2>3. \A i \in DOMAIN lists : i < m => lists[i].id # id
    <3>1. \A i \in DOMAIN lists : i \in Nat
      BY <1>2
    <3>2. m \in Nat
      BY <1>2, <2>1
    <3>3. \A i \in DOMAIN lists : lists[i].id = id => i \in I
      BY <1>2
    <3> HIDE DEF I
    <3> QED
      BY <2>1, <3>1, <3>2, <3>3
  <2> QED
    BY <1>2, <2>1, <2>2, <2>3 DEF IdsOf, FirstAt
<1> QED
  BY <1>3, <1>4

(* There is one place that is first. *)
LEMMA FirstIsFound ==
  ASSUME NEW S, NEW lists \in Seq(S), NEW id, NEW k, FirstAt(lists, id, k)
  PROVE  Find(lists, id) = k
<1> DEFINE m == Find(lists, id)
<1>1. FirstAt(lists, id, m)
  BY FindFinds
<1>2. DOMAIN lists \subseteq Nat
  BY LenProperties
<1> HIDE DEF m
<1>3. CASE id \notin IdsOf(lists)
  BY <1>1, <1>3 DEF FirstAt, m
<1>4. CASE id \in IdsOf(lists)
  <2>1. /\ k \in DOMAIN lists /\ lists[k].id = id
        /\ \A i \in DOMAIN lists : i < k => lists[i].id # id
    BY <1>4 DEF FirstAt
  <2>2. /\ m \in DOMAIN lists /\ lists[m].id = id
        /\ \A i \in DOMAIN lists : i < m => lists[i].id # id
    BY <1>1, <1>4 DEF FirstAt
  <2>3. ~(m < k) /\ ~(k < m) /\ m \in Nat /\ k \in Nat
    BY <1>2, <2>1, <2>2
  <2>4. m = k
    BY <2>3
  <2> QED
    BY <2>4 DEF m
<1> QED
  BY <1>3, <1>4

(* One list is replaced by one with its id. *)
LEMMA ReplacedLists ==
  ASSUME NEW S, NEW lists \in Seq(S), NEW k \in DOMAIN lists,
         NEW l \in S, l.id = lists[k].id
  PROVE  LET new == [lists EXCEPT ![k] = l]
         IN  /\ new \in Seq(S) /\ DOMAIN new = DOMAIN lists
             /\ \A i \in DOMAIN lists : new[i] = IF i = k THEN l ELSE lists[i]
             /\ IdsOf(new) = IdsOf(lists)
             /\ \A id : Find(new, id) = Find(lists, id)
<1> DEFINE new == [lists EXCEPT ![k] = l]
<1>1. /\ Len(lists) \in Nat /\ DOMAIN lists = 1..Len(lists)
      /\ k \in 1..Len(lists)
  BY LenProperties
<1>2. /\ new \in Seq(S) /\ Len(new) = Len(lists)
      /\ \A j \in 1..Len(lists) : new[j] = IF j = k THEN l ELSE lists[j]
  BY <1>1, ExceptSeq
<1>3. DOMAIN new = DOMAIN lists
  BY <1>1, <1>2, LenProperties
<1> HIDE DEF new
<1>4. \A i \in DOMAIN lists : new[i].id = lists[i].id
  BY <1>1, <1>2
<1>5. IdsOf(new) = IdsOf(lists)
  BY <1>3, <1>4 DEF IdsOf
<1>6. ASSUME NEW id PROVE Find(new, id) = Find(lists, id)
  <2>1. FirstAt(lists, id, Find(lists, id))
    BY FindFinds
  <2>2. FirstAt(new, id, Find(lists, id))
    BY <1>3, <1>4, <1>5, <2>1 DEF FirstAt
  <2> QED
    BY <1>2, <2>2, FirstIsFound
<1> QED
  BY <1>1, <1>2, <1>3, <1>5, <1>6 DEF new

(* A list is put behind the others. *)
LEMMA AppendedLists ==
  ASSUME NEW S, NEW lists \in Seq(S), NEW l \in S
  PROVE  LET new == Append(lists, l)
         IN  /\ new \in Seq(S) /\ DOMAIN new = 1..(Len(lists) + 1)
             /\ Len(lists) + 1 \in DOMAIN new /\ new[Len(lists) + 1] = l
             /\ \A i \in DOMAIN lists : i \in DOMAIN new /\ new[i] = lists[i]
             /\ \A i \in DOMAIN new : i \in DOMAIN lists \/ (i = Len(lists) + 1 /\ i \notin DOMAIN lists)
             /\ IdsOf(new) = IdsOf(lists) \cup {l.id}
             /\ \A id \in IdsOf(lists) : Find(new, id) = Find(lists, id)
             /\ l.id \notin IdsOf(lists) => Find(new, l.id) = Len(lists) + 1
<1> DEFINE new == Append(lists, l)
           n == Len(lists)
<1>1. n \in Nat /\ DOMAIN lists = 1..n
  BY LenProperties
<1>2. /\ new \in Seq(S) /\ Len(new) = n + 1 /\ new[n + 1] = l
      /\ \A i \in 1..n : new[i] = lists[i]
  BY AppendProperties
<1>3. DOMAIN new = 1..(n + 1)
  BY <1>2, LenProperties
<1> HIDE DEF new, n
<1>4. /\ \A i \in DOMAIN new : i \in DOMAIN lists \/ (i = n + 1 /\ i \notin DOMAIN lists)
      /\ \A i \in DOMAIN lists : i \in DOMAIN new /\ i < n + 1 /\ i \in Nat
      /\ n + 1 \in DOMAIN new
  BY <1>1, <1>3
<1>5. \A i \in DOMAIN lists : new[i] = lists[i]
  BY <1>1, <1>2
<1>6. IdsOf(new) = IdsOf(lists) \cup {l.id}
  BY <1>2, <1>4, <1>5 DEF IdsOf
<1>7. ASSUME NEW id \in IdsOf(lists) PROVE Find(new, id) = Find(lists, id)
  <2> DEFINE k == Find(lists, id)
  <2>1. FirstAt(lists, id, k)
    BY FindFinds
  <2> HIDE DEF k
  <2>2. /\ k \in DOMAIN lists /\ lists[k].id = id
        /\ \A i \in DOMAIN lists : i < k => lists[i].id # id
    BY <1>7, <2>1 DEF FirstAt
  <2>3. \A i \in DOMAIN new : i < k => i \in DOMAIN lists
    BY <1>1, <1>4, <2>2
  <2>4. FirstAt(new, id, k)
    BY <1>4, <1>5, <1>6, <2>2, <2>3 DEF FirstAt
  <2>5. Find(new, id) = k
    BY <1>2, <2>4, FirstIsFound
  <2> QED
    BY <2>5 DEF k
<1>8. ASSUME l.id \notin IdsOf(lists) PROVE Find(new, l.id) = n + 1
  <2>1. \A i \in DOMAIN new : i < n + 1 => i \in DOMAIN lists /\ new[i].id # l.id
    BY <1>3, <1>4, <1>5, <1>8, <1>1 DEF IdsOf
  <2>2. FirstAt(new, l.id, n + 1)
    BY <1>2, <1>4, <1>6, <2>1 DEF FirstAt
  <2> QED
    BY <1>2, <2>2, FirstIsFound
<1> QED
  BY <1>2, <1>3, <1>4, <1>5, <1>6, <1>7, <1>8 DEF new, n

(* Some lists are taken out. *)
LEMMA DrawnLists ==
  ASSUME NEW S, NEW lists \in Seq(S), NEW new \in Seq(S), NEW places \in SUBSET DOMAIN lists,
         NEW at, Drawn(at, new, lists, places), NEW id, Find(lists, id) \in places
  PROVE  /\ Find(new, id) \in DOMAIN new
         /\ new[Find(new, id)] = lists[Find(lists, id)]
<1> DEFINE k == Find(lists, id)
<1>1. FirstAt(lists, id, k)
  BY FindFinds
<1>2. DOMAIN lists \subseteq Nat /\ DOMAIN new \subseteq Nat
  BY LenProperties
<1> HIDE DEF k
<1>3. k \in places /\ k # 0
  <2>1. 0 \notin DOMAIN lists
    BY LenProperties
  <2> QED
    BY <2>1 DEF k
<1>4. /\ k \in DOMAIN lists /\ lists[k].id = id
      /\ \A i \in DOMAIN lists : i < k => lists[i].id # id
  BY <1>1, <1>3 DEF FirstAt
<1>5. PICK m \in DOMAIN new : at[m] = k
  BY <1>3 DEF Drawn
<1>6. \A i \in DOMAIN new : at[i] \in DOMAIN lists /\ new[i] = lists[at[i]]
  BY DEF Drawn
<1>7. new[m] = lists[k] /\ new[m].id = id
  BY <1>4, <1>5, <1>6
<1>8. \A i \in DOMAIN new : i < m => at[i] < k
  BY <1>5 DEF Drawn
<1>9. \A i \in DOMAIN new : i < m => new[i].id # id
  BY <1>4, <1>6, <1>8
<1>10. FirstAt(new, id, m)
  BY <1>7, <1>9 DEF FirstAt, IdsOf
<1>11. Find(new, id) = m
  BY <1>10, FirstIsFound
<1> QED
  BY <1>7, <1>11 DEF k

------------------------------------------------------------------------------
(* WHAT A LOAD SHOWS *)

RowsType == RowSet(SymbolSet)

LEMMA AddedAllRange ==
  ASSUME NEW rows \in Seq(RowsType), NEW others \in Seq(RowsType)
  PROVE  /\ AddedAll(rows, others) \in Seq(RowsType)
         /\ Range(rows) \subseteq Range(AddedAll(rows, others))
         /\ Symbols(AddedAll(rows, others)) = Symbols(rows) \cup Symbols(others)
         /\ \A r \in Range(AddedAll(rows, others)) :
              r \in Range(rows) \/ (r = Row(r.symbol, FALSE) /\ r.symbol \notin Symbols(rows))
         /\ EachOnce(rows) => EachOnce(AddedAll(rows, others))
         /\ Symbols(others) \subseteq Symbols(rows) => AddedAll(rows, others) = rows
<1> DEFINE N == Len(others)
           R == Seq(RowsType)
           step == [x \in (1..N) \X R |-> Added(x[2], others[x[1]].symbol)]
           Upto(g) == g = [n \in 0..N |-> IF n = 0 THEN rows
                                          ELSE Added(g[n - 1], others[n].symbol)]
           u == CHOOSE g : Upto(g)
           sym(n) == others[n].symbol
<1>1. /\ N \in Nat /\ DOMAIN others = 1..N
      /\ \A n \in 1..N : others[n] \in RowsType
  BY ElementsOfSeq
<1>2. \A n \in 1..N : sym(n) \in SymbolSet
  BY <1>1 DEF RowsType, RowSet
<1>3. ASSUME NEW n \in 1..N, NEW r \in R
      PROVE  step[<<n, r>>] = Added(r, sym(n)) /\ Added(r, sym(n)) \in R
  <2>1. step[<<n, r>>] = Added(r, sym(n))
    OBVIOUS
  <2> HIDE DEF step, N
  <2>2. Added(r, sym(n)) \in R
    BY <1>2, AddedRange DEF RowsType
  <2> QED
    BY <2>1, <2>2
<1> HIDE DEF step
<1>4. PICK f : Stepwise(f, N, rows, step) /\ \A n \in 0..N : f[n] \in R
  <2> HIDE DEF N, R
  <2>1. rows \in R
    BY DEF R
  <2>2. \A n \in 1..N : \A r \in R : step[<<n, r>>] \in R
    BY <1>3
  <2> QED
    BY <1>1, <2>1, <2>2, RecursionIn
<1>5. Upto(f)
  <2>1. f = [n \in 0..N |-> f[n]] /\ f[0] = rows
    BY <1>4 DEF Stepwise
  <2>2. \A n \in 0..N : f[n] = IF n = 0 THEN rows ELSE Added(f[n - 1], others[n].symbol)
    <3> SUFFICES ASSUME NEW n \in 0..N
                 PROVE  f[n] = IF n = 0 THEN rows ELSE Added(f[n - 1], others[n].symbol)
      OBVIOUS
    <3>1. CASE n = 0
      BY <2>1, <3>1
    <3>2. CASE n # 0
      <4>1. n \in 1..N /\ n - 1 \in 0..N
        BY <1>1, <3>2
      <4>2. f[n] = step[<<n, f[n - 1]>>] /\ f[n - 1] \in R
        BY <1>4, <4>1 DEF Stepwise
      <4> QED
        BY <1>3, <3>2, <4>1, <4>2
    <3> QED
      BY <3>1, <3>2
  <2> HIDE DEF N
  <2> QED
    BY <2>1, <2>2
<1>6. Upto(u)
  <2> HIDE DEF Upto
  <2> QED
    BY <1>5
<1>7. AddedAll(rows, others) = u[N]
  BY DEF AddedAll
<1>8. u[0] = rows /\ \A n \in 1..N : u[n] = Added(u[n - 1], sym(n))
  <2>1. \A n \in 1..N : n \in 0..N /\ n # 0
    BY <1>1
  <2>2. 0 \in 0..N
    BY <1>1
  <2> HIDE DEF u, N
  <2> QED
    BY <1>6, <2>1, <2>2
<1> HIDE DEF u, Upto
<1> DEFINE Some(n) == {sym(k) : k \in 1..n}
           Reached(n) ==
             /\ u[n] \in R /\ Range(rows) \subseteq Range(u[n])
             /\ Symbols(u[n]) = Symbols(rows) \cup Some(n)
             /\ \A r \in Range(u[n]) :
                  r \in Range(rows) \/ (r = Row(r.symbol, FALSE) /\ r.symbol \notin Symbols(rows))
             /\ EachOnce(rows) => EachOnce(u[n])
             /\ Symbols(others) \subseteq Symbols(rows) => u[n] = rows
           T == {n \in Nat : Reached(n)}
<1>9. Some(N) = Symbols(others)
  BY <1>1 DEF Symbols
<1> HIDE DEF N
<1>10. 0 \in T
  <2>1. Some(0) = {}
    OBVIOUS
  <2> QED
    BY <1>8, <2>1
<1>11. ASSUME NEW n \in 0..(N - 1), n \in T
       PROVE  n + 1 \in T
  <2>1. n \in Nat /\ n + 1 \in Nat /\ n + 1 \in 1..N /\ (n + 1) - 1 = n
    BY <1>1
  <2>2. Reached(n)
    BY <1>11
  <2> DEFINE s == sym(n + 1)
             old == u[n]
             new == u[n + 1]
  <2>3. s \in SymbolSet /\ new = Added(old, s)
    BY <1>2, <1>8, <2>1
  <2>4. Some(n + 1) = Some(n) \cup {s}
    <3>1. 1..(n + 1) = (1..n) \cup {n + 1}
      BY <2>1
    <3> QED
      BY <3>1
  <2>5. s \in Symbols(others)
    BY <1>1, <2>1 DEF Symbols
  <2>6. old \in R
    BY <2>2
  <2> HIDE DEF s, old, new
  <2>7. /\ new \in R
        /\ Range(old) \subseteq Range(new)
        /\ Range(new) \subseteq Range(old) \cup {Row(s, FALSE)}
        /\ s \in Symbols(old) => new = old
        /\ Symbols(new) = Symbols(old) \cup {s}
    <3>1. old \in Seq(RowSet(SymbolSet))
      BY <2>6 DEF RowsType
    <3>2. /\ Added(old, s) \in Seq(RowSet(SymbolSet))
          /\ Range(old) \subseteq Range(Added(old, s))
          /\ Range(Added(old, s)) \subseteq Range(old) \cup {Row(s, FALSE)}
          /\ s \in Symbols(old) => Added(old, s) = old
          /\ Symbols(Added(old, s)) = Symbols(old) \cup {s}
      <4>1. Added(old, s) \in Seq(RowSet(SymbolSet))
        BY <2>3, <3>1, AddedRange
      <4>2. Range(old) \subseteq Range(Added(old, s))
        BY <2>3, <3>1, AddedRange
      <4>3. Range(Added(old, s)) \subseteq Range(old) \cup {Row(s, FALSE)}
        BY <2>3, <3>1, AddedRange
      <4>4. s \in Symbols(old) => Added(old, s) = old
        BY <2>3, <3>1, AddedRange
      <4>5. Symbols(Added(old, s)) = Symbols(old) \cup {s}
        BY <2>3, <3>1, AddedRows
      <4> QED
        BY <4>1, <4>2, <4>3, <4>4, <4>5
    <3> QED
      BY <2>3, <3>2 DEF RowsType
  <2>8. EachOnce(old) => EachOnce(new)
    BY <2>3, <2>6, AddedRows DEF RowsType
  <2>9. Row(s, FALSE).symbol = s
    BY <2>3, RowIsARow
  <2>10. Symbols(old) = Symbols(rows) \cup Some(n)
    BY <2>2 DEF old
  <2>11. \A r \in Range(new) :
           r \in Range(rows) \/ (r = Row(r.symbol, FALSE) /\ r.symbol \notin Symbols(rows))
    <3> SUFFICES ASSUME NEW r \in Range(new)
                 PROVE  r \in Range(rows) \/ (r = Row(r.symbol, FALSE) /\ r.symbol \notin Symbols(rows))
      OBVIOUS
    <3>1. CASE r \in Range(old)
      BY <2>2, <3>1 DEF old
    <3>2. CASE r \notin Range(old)
      <4>1. r = Row(s, FALSE) /\ s \notin Symbols(old)
        BY <2>7, <3>2
      <4> QED
        BY <2>9, <2>10, <4>1
    <3> QED
      BY <3>1, <3>2
  <2>12. Symbols(others) \subseteq Symbols(rows) => new = rows
    <3>1. Symbols(others) \subseteq Symbols(rows) => old = rows
      BY <2>2 DEF old
    <3> QED
      BY <2>5, <2>7, <3>1
  <2>13. Range(rows) \subseteq Range(new) /\ (EachOnce(rows) => EachOnce(new))
    <3>1. Range(rows) \subseteq Range(old) /\ (EachOnce(rows) => EachOnce(old))
      BY <2>2 DEF old
    <3> QED
      BY <2>7, <2>8, <3>1
  <2>14. Symbols(new) = Symbols(rows) \cup Some(n + 1)
    <3> HIDE DEF Some
    <3> QED
      BY <2>4, <2>7, <2>10
  <2>15. Reached(n + 1)
    <3> HIDE DEF Some
    <3> QED
      BY <2>7, <2>11, <2>12, <2>13, <2>14 DEF new
  <2> HIDE DEF Reached
  <2> QED
    BY <2>1, <2>15
<1>12. Reached(N)
  <2>1. 0..N \subseteq T
    <3> HIDE DEF T
    <3> QED
      BY <1>1, <1>10, <1>11, UpwardClosed
  <2>2. N \in 0..N
    BY <1>1
  <2> HIDE DEF Reached
  <2> QED
    BY <2>1, <2>2
<1> HIDE DEF Some
<1> QED
  BY <1>7, <1>9, <1>12

(* The rows of a merge: those of the overlay that TDA has too, and one     *)
(* unpinned row for every other symbol TDA has.                            *)
LEMMA MergedRows ==
  ASSUME NEW screen \in Screens, NEW over \in Screens
  PROVE  LET m == Merged(screen, over)
         IN  /\ m \in Screens
             /\ m.id = screen.id /\ m.name = screen.name /\ m.archived = over.archived
             /\ Symbols(m.rows) = Symbols(screen.rows)
             /\ \A r \in Range(over.rows) : r.symbol \in Symbols(screen.rows) => r \in Range(m.rows)
             /\ \A r \in Range(m.rows) :
                  r \in Range(over.rows) \/ (r = Row(r.symbol, FALSE) /\ r.symbol \notin Symbols(over.rows))
             /\ EachOnce(over.rows) => EachOnce(m.rows)
             /\ Symbols(over.rows) = Symbols(screen.rows) => m.rows = over.rows
<1> DEFINE m == Merged(screen, over)
           known == KnownRows(screen, over)
           keep == {i \in DOMAIN over.rows : over.rows[i].symbol \in Symbols(screen.rows)}
           o == over.rows
           s == screen.rows
<1>1. /\ o \in Seq(RowsType) /\ s \in Seq(RowsType)
      /\ screen.id \in Ids /\ screen.name \in Names /\ over.archived \in BOOLEAN
  BY DEF Screens, RowsType, RowSet
<1>2. known = Sifted(o, keep) /\ keep \subseteq DOMAIN o
  BY DEF KnownRows
<1>3. known \in Seq(RowsType) /\ Range(known) = {o[k] : k \in keep}
  <2>1. DOMAIN o \cap keep = keep
    OBVIOUS
  <2> HIDE DEF keep, o, known
  <2> QED
    BY <1>1, <1>2, <2>1, SiftedRange
<1>4. Range(known) = {r \in Range(o) : r.symbol \in Symbols(s)}
  BY <1>3 DEF Range
<1>5. EachOnce(o) => EachOnce(known)
  <2> HIDE DEF keep, o, known
  <2>1. PICK at : Drawn(at, known, o, DOMAIN o \cap keep)
    BY <1>1, <1>2, SiftedDrawn
  <2>2. DOMAIN o \cap keep \in SUBSET DOMAIN o
    OBVIOUS
  <2> QED
    BY <1>1, <1>3, <2>1, <2>2, DrawnRows DEF RowsType
<1>6. Symbols(o) \subseteq Symbols(s) => known = o
  <2>1. Symbols(o) \subseteq Symbols(s) => DOMAIN o \subseteq keep
    BY DEF Symbols
  <2> HIDE DEF keep, o, known
  <2> QED
    BY <1>1, <1>2, <2>1, SiftedAll
<1> DEFINE all == AddedAll(known, s)
<1>7. m = [screen EXCEPT !.archived = over.archived, !.rows = all]
  BY DEF Merged
<1> HIDE DEF known, keep
<1>8. /\ all \in Seq(RowsType)
      /\ Range(known) \subseteq Range(all)
      /\ Symbols(all) = Symbols(known) \cup Symbols(s)
      /\ \A r \in Range(all) :
           r \in Range(known) \/ (r = Row(r.symbol, FALSE) /\ r.symbol \notin Symbols(known))
      /\ EachOnce(known) => EachOnce(all)
      /\ Symbols(s) \subseteq Symbols(known) => all = known
  BY <1>1, <1>3, AddedAllRange
<1> HIDE DEF all
<1>9. /\ m \in Screens /\ m.rows = all
      /\ m.id = screen.id /\ m.name = screen.name /\ m.archived = over.archived
  BY <1>1, <1>7, <1>8 DEF Screens, RowsType, RowSet
<1> HIDE DEF m
<1>10. Symbols(known) = {x \in Symbols(o) : x \in Symbols(s)}
  BY <1>4, SymbolsAreOfRange
<1>11. Symbols(all) = Symbols(s)
  BY <1>8, <1>10
<1> HIDE DEF o, s
<1>12. \A r \in Range(o) : r.symbol \in Symbols(s) => r \in Range(all)
  BY <1>4, <1>8
<1>13. \A r \in Range(all) :
         r \in Range(o) \/ (r = Row(r.symbol, FALSE) /\ r.symbol \notin Symbols(o))
  <2> SUFFICES ASSUME NEW r \in Range(all)
               PROVE  r \in Range(o) \/ (r = Row(r.symbol, FALSE) /\ r.symbol \notin Symbols(o))
    OBVIOUS
  <2>1. r \in Range(o) \/ (r = Row(r.symbol, FALSE) /\ r.symbol \notin Symbols(known))
    BY <1>4, <1>8
  <2>2. r.symbol \in Symbols(s)
    BY <1>11, SymbolsAreOfRange
  <2> QED
    BY <1>10, <2>1, <2>2
<1>14. Symbols(o) = Symbols(s) => all = o
  BY <1>6, <1>8
<1>15. EachOnce(o) => EachOnce(all)
  BY <1>5, <1>8
<1> QED
  BY <1>9, <1>11, <1>12, <1>13, <1>14, <1>15 DEF m, o, s

LEMMA PlainScreen ==
  ASSUME NEW list \in RemoteLists
  PROVE  LET s == AsScreen(list)
         IN  /\ s \in Screens /\ s.id = list.id /\ s.name = list.name /\ s.archived = FALSE
             /\ Symbols(s.rows) = Range(list.symbols)
             /\ Range(list.symbols) \subseteq SymbolSet
             /\ \A r \in Range(s.rows) : r = Row(r.symbol, FALSE)
             /\ (\A i, j \in DOMAIN list.symbols : list.symbols[i] = list.symbols[j] => i = j)
                  => EachOnce(s.rows)
<1> DEFINE q == list.symbols
           n == Len(q)
           rows == [i \in DOMAIN q |-> Row(q[i], FALSE)]
           s == AsScreen(list)
<1>1. q \in Seq(SymbolSet) /\ list.id \in Ids /\ list.name \in Names
  BY DEF RemoteLists
<1> HIDE DEF q
<1>2. /\ n \in Nat /\ DOMAIN q = 1..n /\ Range(q) \subseteq SymbolSet
      /\ \A i \in DOMAIN q : q[i] \in SymbolSet
  BY <1>1, ElementsOfSeq
<1>3. rows \in [1..n -> RowsType]
  <2> SUFFICES ASSUME NEW i \in DOMAIN q PROVE Row(q[i], FALSE) \in RowsType
    BY <1>2
  <2> QED
    BY <1>2, RowIsARow DEF RowsType
<1>4. rows \in Seq(RowsType)
  BY <1>2, <1>3, SeqDef
<1>5. /\ DOMAIN rows = DOMAIN q
      /\ \A i \in DOMAIN q : rows[i] = Row(q[i], FALSE) /\ rows[i].symbol = q[i]
  BY DEF Row
<1>6. s = [id |-> list.id, name |-> list.name, archived |-> FALSE, rows |-> rows]
  BY DEF AsScreen, q
<1> HIDE DEF rows, s
<1>7. /\ s \in Screens /\ s.id = list.id /\ s.name = list.name /\ s.archived = FALSE
      /\ s.rows = rows
  BY <1>1, <1>4, <1>6 DEF Screens, RowsType, RowSet
<1>8. Symbols(rows) = Range(q)
  BY <1>5 DEF Symbols, Range
<1>9. \A r \in Range(rows) : r = Row(r.symbol, FALSE)
  BY <1>5 DEF Range
<1>10. (\A i, j \in DOMAIN q : q[i] = q[j] => i = j) => EachOnce(rows)
  BY <1>5 DEF EachOnce
<1> QED
  BY <1>2, <1>7, <1>8, <1>9, <1>10 DEF s, q

(* A list of TDA as users see it when over is the overlay. *)
Shown(over, list) ==
  LET o == Find(over, list.id)
  IN  IF o = 0 THEN AsScreen(list) ELSE Merged(AsScreen(list), over[o])

(* A screen has the decoration what: the archive flag or a pinned row. *)
Decorated(l, what) ==
  \/ what = "archived" /\ l.archived
  \/ what \in SymbolSet /\ Row(what, TRUE) \in Range(l.rows)

LEMMA DecorationsOf ==
  ASSUME NEW l \in Screens, NEW d
  PROVE  d \in Decorations(l) <=> \E what : d = Pin(l.id, what) /\ Decorated(l, what)
<1>1. l.rows \in Seq(RowsType)
  BY DEF Screens, RowsType, RowSet
<1>2. \A r \in Range(l.rows) : r \in RowsType
  BY <1>1, ElementsOfSeq
<1>3. \A r \in Range(l.rows) : r.symbol \in SymbolSet
  BY <1>2 DEF RowsType, RowSet
<1>4. \A r \in Range(l.rows) : r.pinned => r = Row(r.symbol, TRUE)
  <2> SUFFICES ASSUME NEW r \in Range(l.rows), r.pinned PROVE r = Row(r.symbol, TRUE)
    OBVIOUS
  <2>1. r \in [symbol : SymbolSet, pinned : BOOLEAN]
    BY <1>2 DEF RowsType, RowSet
  <2>2. r.pinned = TRUE
    BY <2>1
  <2> QED
    BY <2>1, <2>2 DEF Row
<1>5. \A what : Row(what, TRUE).pinned /\ Row(what, TRUE).symbol = what
  BY DEF Row
<1>6. ASSUME d \in Decorations(l)
      PROVE  \E what : d = Pin(l.id, what) /\ Decorated(l, what)
  <2>1. CASE \E r \in Range(l.rows) : r.pinned /\ d = Pin(l.id, r.symbol)
    <3>1. PICK r \in Range(l.rows) : r.pinned /\ d = Pin(l.id, r.symbol)
      BY <2>1
    <3>2. Decorated(l, r.symbol)
      BY <1>3, <1>4, <3>1 DEF Decorated
    <3> QED
      BY <3>1, <3>2
  <2>2. CASE l.archived /\ d = Archive(l.id)
    <3>1. d = Pin(l.id, "archived") /\ Decorated(l, "archived")
      BY <2>2 DEF Archive, Pin, Decorated
    <3> QED
      BY <3>1
  <2> QED
    BY <1>6, <2>1, <2>2 DEF Decorations
<1>7. ASSUME NEW what, d = Pin(l.id, what), Decorated(l, what)
      PROVE  d \in Decorations(l)
  <2>1. CASE what = "archived" /\ l.archived
    BY <1>7, <2>1 DEF Archive, Pin, Decorations
  <2>2. CASE Row(what, TRUE) \in Range(l.rows)
    <3>1. Row(what, TRUE) \in {w \in Range(l.rows) : w.pinned} /\ Row(what, TRUE).symbol = what
      BY <1>5, <2>2
    <3> QED
      BY <1>7, <3>1 DEF Decorations
  <2> QED
    BY <1>7, <2>1, <2>2 DEF Decorated
<1> QED
  BY <1>6, <1>7

(* The overlay has the decoration for the list. *)
Carries(lists, id, what) ==
  LET k == Find(lists, id) IN k # 0 /\ Decorated(lists[k], what)

(* What users see is TDA's list with the overlay's decorations. *)
LEMMA ShownList ==
  ASSUME NEW over \in Seq(Screens), NEW list \in RemoteLists
  PROVE  LET s == Shown(over, list)
         IN  /\ s \in Screens /\ s.id = list.id /\ s.name = list.name
             /\ Symbols(s.rows) = Range(list.symbols)
             /\ \A what : Carries(over, list.id, what)
                            /\ (what = "archived" \/ what \in Range(list.symbols))
                          => Decorated(s, what)
             /\ \A what : Decorated(s, what) =>
                  /\ Carries(over, list.id, what)
                  /\ what = "archived" \/ what \in Range(list.symbols)
<1> DEFINE k == Find(over, list.id)
           plain == AsScreen(list)
           s == Shown(over, list)
<1>1. /\ plain \in Screens /\ plain.id = list.id /\ plain.name = list.name
      /\ plain.archived = FALSE
      /\ Symbols(plain.rows) = Range(list.symbols)
  BY PlainScreen
<1>2. \A r \in Range(plain.rows) : r = Row(r.symbol, FALSE)
  BY PlainScreen
<1>3. \A what : Row(what, TRUE).pinned = TRUE /\ Row(what, FALSE).pinned = FALSE
                /\ Row(what, TRUE).symbol = what
  BY DEF Row
<1>4. s = IF k = 0 THEN plain ELSE Merged(plain, over[k])
  BY DEF Shown
<1>5. k = 0 \/ k \in DOMAIN over
  BY FindFinds DEF FirstAt
<1> HIDE DEF k, plain, s
<1>6. CASE k = 0
  <2>1. s = plain
    BY <1>4, <1>6
  <2>2. \A what : ~Decorated(s, what)
    <3>1. \A what : Row(what, TRUE) \notin Range(plain.rows)
      BY <1>2, <1>3
    <3> QED
      BY <1>1, <2>1, <3>1 DEF Decorated
  <2>3. \A what : ~Carries(over, list.id, what)
    BY <1>6 DEF Carries, k
  <2> QED
    BY <1>1, <2>1, <2>2, <2>3 DEF s
<1>7. CASE k # 0
  <2> DEFINE o == over[k]
  <2>1. s = Merged(plain, o) /\ k \in DOMAIN over
    BY <1>4, <1>5, <1>7
  <2>2. o \in Screens
    BY <2>1, ElementsOfSeq
  <2> HIDE DEF o
  <2>3. /\ s \in Screens
        /\ s.id = plain.id /\ s.name = plain.name /\ s.archived = o.archived
        /\ Symbols(s.rows) = Symbols(plain.rows)
    BY <1>1, <2>1, <2>2, MergedRows
  <2>4. \A r \in Range(o.rows) : r.symbol \in Symbols(plain.rows) => r \in Range(s.rows)
    BY <1>1, <2>1, <2>2, MergedRows
  <2>5. \A r \in Range(s.rows) :
          r \in Range(o.rows) \/ (r = Row(r.symbol, FALSE) /\ r.symbol \notin Symbols(o.rows))
    BY <1>1, <2>1, <2>2, MergedRows
  <2>6. \A what : Carries(over, list.id, what) <=> Decorated(o, what)
    BY <1>7 DEF Carries, k, o
  <2>7. Range(list.symbols) \subseteq SymbolSet
    BY PlainScreen
  <2>8. ASSUME NEW what, Decorated(o, what), what = "archived" \/ what \in Range(list.symbols)
        PROVE  Decorated(s, what)
    <3>1. CASE what = "archived" /\ o.archived
      BY <2>3, <3>1 DEF Decorated
    <3>2. CASE what \in SymbolSet /\ Row(what, TRUE) \in Range(o.rows)
      <4>1. what \in Range(list.symbols)
        BY <2>8, <3>2, SymbolsAssumption
      <4>2. Row(what, TRUE) \in Range(s.rows)
        BY <1>1, <1>3, <2>4, <3>2, <4>1
      <4> QED
        BY <3>2, <4>2 DEF Decorated
    <3> QED
      BY <2>8, <3>1, <3>2 DEF Decorated
  <2>9. ASSUME NEW what, Decorated(s, what)
        PROVE  Decorated(o, what) /\ (what = "archived" \/ what \in Range(list.symbols))
    <3>1. CASE what = "archived" /\ s.archived
      BY <2>3, <3>1 DEF Decorated
    <3>2. CASE what \in SymbolSet /\ Row(what, TRUE) \in Range(s.rows)
      <4>1. Row(what, TRUE) \in Range(o.rows)
        <5>1. Row(what, TRUE) # Row(Row(what, TRUE).symbol, FALSE)
          BY <1>3
        <5> QED
          BY <2>5, <3>2, <5>1
      <4>2. what \in Symbols(s.rows)
        BY <1>3, <3>2, SymbolsAreOfRange
      <4> QED
        BY <1>1, <2>3, <3>2, <4>1, <4>2 DEF Decorated
    <3> QED
      BY <2>9, <3>1, <3>2 DEF Decorated
  <2> QED
    BY <1>1, <2>3, <2>6, <2>8, <2>9 DEF s
<1> QED
  BY <1>6, <1>7

LEMMA ShownOnce ==
  ASSUME NEW over \in Seq(Screens), NEW list \in RemoteLists,
         \A k \in DOMAIN over : EachOnce(over[k].rows),
         \A i, j \in DOMAIN list.symbols : list.symbols[i] = list.symbols[j] => i = j
  PROVE  EachOnce(Shown(over, list).rows)
<1> DEFINE k == Find(over, list.id)
           plain == AsScreen(list)
<1>1. plain \in Screens /\ EachOnce(plain.rows)
  BY PlainScreen
<1>2. k = 0 \/ k \in DOMAIN over
  BY FindFinds DEF FirstAt
<1>3. Shown(over, list) = IF k = 0 THEN plain ELSE Merged(plain, over[k])
  BY DEF Shown
<1> HIDE DEF k, plain
<1>4. CASE k = 0
  BY <1>1, <1>3, <1>4
<1>5. CASE k # 0
  <2>1. over[k] \in Screens /\ EachOnce(over[k].rows)
    BY <1>2, <1>5, ElementsOfSeq
  <2>2. EachOnce(Merged(plain, over[k]).rows)
    BY <1>1, <2>1, MergedRows
  <2> QED
    BY <1>3, <1>5, <2>2
<1> QED
  BY <1>4, <1>5

(* A list that is stored with the overlay's symbols has its order.         *)
LEMMA ShownInOrder ==
  ASSUME NEW over \in Seq(Screens), NEW list \in RemoteLists,
         NEW k \in DOMAIN over, k = Find(over, list.id),
         Symbols(over[k].rows) = Range(list.symbols)
  PROVE  Shown(over, list).rows = over[k].rows
<1> DEFINE plain == AsScreen(list)
           o == over[k]
<1>1. plain \in Screens /\ Symbols(plain.rows) = Range(list.symbols)
  BY PlainScreen
<1>2. o \in Screens
  BY ElementsOfSeq
<1>3. k # 0
  BY ElementsOfSeq
<1>4. Shown(over, list) = Merged(plain, o)
  BY <1>3 DEF Shown
<1>5. Symbols(o.rows) = Symbols(plain.rows)
  BY <1>1
<1> HIDE DEF plain, o
<1>6. Merged(plain, o).rows = o.rows
  BY <1>1, <1>2, <1>5, MergedRows
<1> QED
  BY <1>4, <1>6 DEF o

(* The overlay's flags are the ones users see.                             *)
LEMMA ShownFlag ==
  ASSUME NEW over \in Seq(Screens), NEW list \in RemoteLists,
         NEW k \in DOMAIN over, k = Find(over, list.id), NEW symbol, NEW flag, NEW other,
         other # flag,
         \A r \in Range(over[k].rows) : r.symbol = symbol => r = Row(symbol, flag),
         symbol \in Range(list.symbols) => symbol \in Symbols(over[k].rows)
  PROVE  Row(symbol, other) \notin Range(Shown(over, list).rows)
<1> DEFINE plain == AsScreen(list)
           o == over[k]
           s == Shown(over, list)
<1>1. plain \in Screens
  BY PlainScreen
<1>2. o \in Screens
  BY ElementsOfSeq
<1>3. k # 0
  BY ElementsOfSeq
<1>4. s = Merged(plain, o)
  BY <1>3 DEF Shown
<1>5. Symbols(s.rows) = Range(list.symbols)
  BY ShownList
<1> HIDE DEF plain, o, s
<1>6. \A r \in Range(s.rows) :
        r \in Range(o.rows) \/ (r = Row(r.symbol, FALSE) /\ r.symbol \notin Symbols(o.rows))
  BY <1>1, <1>2, <1>4, MergedRows
<1> SUFFICES ASSUME Row(symbol, other) \in Range(s.rows)
             PROVE  FALSE
  BY DEF s
<1>7. Row(symbol, other).symbol = symbol /\ Row(symbol, other).pinned = other
      /\ Row(symbol, flag).pinned = flag
  BY DEF Row
<1>8. symbol \in Range(list.symbols)
  BY <1>5, <1>7, SymbolsAreOfRange
<1>9. symbol \in Symbols(o.rows)
  BY <1>8 DEF o
<1>10. Row(symbol, other) \in Range(o.rows)
  BY <1>6, <1>7, <1>9
<1>11. Row(symbol, other) = Row(symbol, flag)
  BY <1>7, <1>10 DEF o
<1> QED
  BY <1>7, <1>11

------------------------------------------------------------------------------
(* An account TDA is asked for, and answered for.                          *)
Served(id, missed) == \E k \in DOMAIN AccountIds \ missed : AccountIds[k] = id[1]

LEMMA ListsOfAccount ==
  ASSUME remote \in Seq(RemoteLists), NEW account
  PROVE  /\ ListsOf(account) \in Seq(Screens)
         /\ Range(ListsOf(account))
              = {AsScreen(remote[j]) : j \in {i \in DOMAIN remote : remote[i].id[1] = account}}
<1> DEFINE keep == {k \in DOMAIN remote : remote[k].id[1] = account}
           theirs == Sifted(remote, keep)
           lists == [k \in DOMAIN theirs |-> AsScreen(theirs[k])]
<1>1. theirs \in Seq(RemoteLists) /\ Range(theirs) = {remote[k] : k \in keep}
  <2>1. DOMAIN remote \cap keep = keep
    OBVIOUS
  <2> HIDE DEF keep
  <2> QED
    BY <2>1, SiftedRange
<1>2. ListsOf(account) = lists
  BY DEF ListsOf
<1> HIDE DEF theirs, keep
<1>3. /\ DOMAIN theirs = 1..Len(theirs) /\ Len(theirs) \in Nat
      /\ \A k \in DOMAIN theirs : theirs[k] \in RemoteLists
  BY <1>1, ElementsOfSeq
<1>4. \A k \in DOMAIN theirs : AsScreen(theirs[k]) \in Screens
  BY <1>3, PlainScreen
<1>5. lists \in [1..Len(theirs) -> Screens]
  BY <1>3, <1>4
<1>6. lists \in Seq(Screens)
  BY <1>3, <1>5, SeqDef
<1>7. Range(lists) = {AsScreen(remote[j]) : j \in keep}
  <2>1. Range(lists) = {AsScreen(l) : l \in Range(theirs)}
    BY DEF Range
  <2> QED
    BY <1>1, <2>1
<1> QED
  BY <1>2, <1>6, <1>7 DEF keep

LEMMA PlainLoad ==
  ASSUME remote \in Seq(RemoteLists), NEW missed
  PROVE  /\ LoadRemoteScreens(missed) \in Seq(Screens)
         /\ Range(LoadRemoteScreens(missed))
              = {AsScreen(remote[j]) : j \in {i \in DOMAIN remote : Served(remote[i].id, missed)}}
<1> DEFINE part == [k \in DOMAIN AccountIds |->
                      IF k \in missed THEN <<>> ELSE ListsOf(AccountIds[k])]
           n == Len(AccountIds)
           plain == FlattenSeq(part)
           served == {i \in DOMAIN remote : Served(remote[i].id, missed)}
<1>1. AccountIds \in Seq(Range(AccountIds)) /\ AccountIds # <<>>
  BY TdaAssumption
<1>2. n \in Nat \ {0} /\ DOMAIN AccountIds = 1..n
  BY <1>1, LenProperties, EmptySeq
<1>3. part \in [1..n -> Seq(Screens)]
  <2> SUFFICES ASSUME NEW k \in 1..n
               PROVE  (IF k \in missed THEN <<>> ELSE ListsOf(AccountIds[k])) \in Seq(Screens)
    BY <1>2
  <2>1. <<>> \in Seq(Screens)
    BY EmptySeq
  <2> QED
    BY <2>1, ListsOfAccount
<1>4. part \in Seq(Seq(Screens)) /\ DOMAIN part = 1..n
  BY <1>2, <1>3, SeqDef
<1>5. part # <<>>
  <2>1. 1 \in DOMAIN part
    BY <1>2, <1>4
  <2>2. DOMAIN <<>> = {}
    OBVIOUS
  <2> HIDE DEF part
  <2> QED
    BY <2>1, <2>2
<1>6. LoadRemoteScreens(missed) = plain
  BY DEF LoadRemoteScreens
<1>7. \A k \in 1..n : part[k] = IF k \in missed THEN <<>> ELSE ListsOf(AccountIds[k])
  BY <1>2
<1> HIDE DEF part, n
<1>8. plain \in Seq(Screens) /\ Range(plain) = UNION {Range(part[k]) : k \in DOMAIN part}
  BY <1>4, <1>5, Flattened
<1> HIDE DEF plain
<1>9. ASSUME NEW s \in Range(plain) PROVE \E j \in served : s = AsScreen(remote[j])
  <2>1. PICK k \in 1..n : s \in Range(part[k])
    BY <1>4, <1>8
  <2>2. k \notin missed
    <3>1. Range(<<>>) = {}
      BY DEF Range
    <3> QED
      BY <1>7, <2>1, <3>1
  <2>3. s \in Range(ListsOf(AccountIds[k]))
    BY <1>7, <2>1, <2>2
  <2>4. PICK j \in DOMAIN remote : remote[j].id[1] = AccountIds[k] /\ s = AsScreen(remote[j])
    BY <2>3, ListsOfAccount
  <2>5. Served(remote[j].id, missed)
    BY <1>2, <2>2, <2>4 DEF Served
  <2> QED
    BY <2>4, <2>5
<1>10. ASSUME NEW j \in served PROVE AsScreen(remote[j]) \in Range(plain)
  <2>1. PICK k \in DOMAIN AccountIds \ missed : AccountIds[k] = remote[j].id[1]
    BY DEF Served
  <2>2. AsScreen(remote[j]) \in Range(ListsOf(AccountIds[k]))
    BY <2>1, ListsOfAccount
  <2>3. part[k] = ListsOf(AccountIds[k]) /\ k \in 1..n
    BY <1>2, <1>7, <2>1
  <2> QED
    BY <1>4, <1>8, <2>2, <2>3
<1>11. Range(plain) = {AsScreen(remote[j]) : j \in served}
  BY <1>9, <1>10
<1> QED
  BY <1>6, <1>8, <1>11

(* What a load gives: TDA's lists as they are shown, of the accounts that  *)
(* answered.                                                               *)
LEMMA Loaded ==
  ASSUME remote \in Seq(RemoteLists), overlay \in Seq(Screens), NEW missed
  PROVE  LET plain == LoadRemoteScreens(missed)
             screens == LoadScreens(missed)
         IN  /\ plain \in Seq(Screens) /\ screens \in Seq(Screens)
             /\ DOMAIN screens = DOMAIN plain
             /\ \A i \in DOMAIN screens : \E j \in DOMAIN remote :
                  /\ Served(remote[j].id, missed)
                  /\ plain[i] = AsScreen(remote[j]) /\ screens[i] = Shown(overlay, remote[j])
             /\ \A j \in DOMAIN remote : Served(remote[j].id, missed) =>
                  \E i \in DOMAIN screens : screens[i] = Shown(overlay, remote[j])
<1> DEFINE plain == LoadRemoteScreens(missed)
           screens == LoadScreens(missed)
           n == Len(plain)
           with(s) == LET o == Find(overlay, s.id) IN IF o = 0 THEN s ELSE Merged(s, overlay[o])
<1>1. /\ plain \in Seq(Screens)
      /\ Range(plain)
           = {AsScreen(remote[j]) : j \in {i \in DOMAIN remote : Served(remote[i].id, missed)}}
  BY PlainLoad
<1>2. screens = [k \in DOMAIN plain |-> with(plain[k])]
  BY DEF LoadScreens, SyncOverlayWithRemote
<1> HIDE DEF plain, screens
<1>3. n \in Nat /\ DOMAIN plain = 1..n
  BY <1>1, LenProperties
<1>4. ASSUME NEW j \in DOMAIN remote
      PROVE  /\ with(AsScreen(remote[j])) = Shown(overlay, remote[j])
             /\ Shown(overlay, remote[j]) \in Screens
  <2>1. remote[j] \in RemoteLists
    BY ElementsOfSeq
  <2>2. AsScreen(remote[j]).id = remote[j].id
    BY <2>1, PlainScreen
  <2> QED
    BY <2>1, <2>2, ShownList DEF Shown
<1> HIDE DEF with
<1>5. ASSUME NEW i \in DOMAIN plain
      PROVE  \E j \in DOMAIN remote :
               /\ Served(remote[j].id, missed)
               /\ plain[i] = AsScreen(remote[j]) /\ screens[i] = Shown(overlay, remote[j])
  <2>1. plain[i] \in Range(plain)
    BY DEF Range
  <2>2. PICK j \in DOMAIN remote : Served(remote[j].id, missed) /\ plain[i] = AsScreen(remote[j])
    BY <1>1, <2>1
  <2> QED
    BY <1>2, <1>4, <2>2
<1>6. ASSUME NEW j \in DOMAIN remote, Served(remote[j].id, missed)
      PROVE  \E i \in DOMAIN plain : screens[i] = Shown(overlay, remote[j])
  <2>1. AsScreen(remote[j]) \in Range(plain)
    BY <1>1, <1>6
  <2>2. PICK i \in DOMAIN plain : plain[i] = AsScreen(remote[j])
    BY <2>1 DEF Range
  <2> QED
    BY <1>2, <1>4, <2>2
<1>7. screens \in [1..n -> Screens] /\ DOMAIN screens = DOMAIN plain
  BY <1>2, <1>3, <1>4, <1>5
<1>8. screens \in Seq(Screens)
  BY <1>3, <1>7, SeqDef
<1> QED
  BY <1>1, <1>5, <1>6, <1>7, <1>8 DEF plain, screens

(* The request is on its way through TDA. *)
Busy == pc \in {"resolving", "sending", "saving"}
Creating == pc = "sending" /\ req.op = "create"

(* What a request says, by the operation it is for. *)
RequestTyped ==
  /\ req.op \in {"none", "create", "rename", "add", "remove", "pin", "move",
                 "archive", "delete", "transfer"}
  /\ req.op \in {"create", "rename"} => req.name \in Names
  /\ req.op \in {"add", "remove", "pin", "move", "transfer"} => req.symbol \in SymbolSet
  /\ req.op \in {"rename", "add", "remove", "pin", "move", "archive", "delete", "transfer"}
       => req.id \in Ids
  /\ req.op \in {"pin", "archive"} => req.flag \in BOOLEAN
  /\ req.op = "move" => req.before \in SymbolSet
  /\ req.op = "transfer" => req.to \in Ids

(* How many screens a request has resolved before TDA is sent anything. *)
Resolved ==
  IF req.op = "create" THEN 0 ELSE IF req.op = "transfer" THEN 2 ELSE 1

StagesInOrder ==
  /\ pc # "idle" => ops # 0
  /\ pc \notin {"idle", "down"} => req.op # "none"
  /\ Busy \/ pc = "answering" => req.op # "archive"
  /\ pc = "resolving" => req.op # "create" /\ sent = 0
  /\ pc = "resolving" /\ seen # <<>> => req.op = "transfer" /\ Len(seen) = 1
  /\ pc \in {"sending", "saving"} => Len(seen) = Resolved
  /\ pc = "sending" => sent = 0 \/ sent < Len(seen)
  /\ pc = "saving" => Len(seen) <= sent
  /\ Busy /\ 1 \in DOMAIN seen => seen[1].id = req.id
  /\ Busy /\ 2 \in DOMAIN seen => seen[2].id = req.to

TypeInv == TypeOK /\ RequestTyped /\ StagesInOrder

Before(rows, symbol, before) ==
  EachOnce(rows) /\ symbol # before => PosOf(rows, before) = PosOf(rows, symbol) + 1

(* A row that was put before another one stands just before it. *)
LEMMA MovedBefore ==
  ASSUME NEW rows \in Seq(RowsType), NEW symbol \in Symbols(rows), NEW before \in Symbols(rows)
  PROVE  Before(Moved(rows, symbol, before), symbol, before)
<1> DEFINE rest == Taken(rows, symbol)
           row == rows[PosOf(rows, symbol)]
           p == PosOf(rest, before)
           new == Moved(rows, symbol, before)
<1> SUFFICES ASSUME EachOnce(new), symbol # before
             PROVE  PosOf(new, before) = PosOf(new, symbol) + 1
  BY DEF Before
<1>1. /\ rest \in Seq(RowsType)
      /\ row \in Range(rows) /\ row.symbol = symbol
      /\ Range(rows) \subseteq Range(rest) \cup {row}
  BY TakenRange DEF RowsType
<1>2. row \in RowsType
  BY <1>1, ElementsOfSeq
<1>3. before \in Symbols(rest)
  <2> HIDE DEF rest, row
  <2>1. PICK r \in Range(rows) : r.symbol = before
    BY SymbolsAreOfRange
  <2>2. r \in Range(rest)
    BY <1>1, <2>1
  <2> QED
    BY <2>1, <2>2, SymbolsAreOfRange
<1>4. new = IF p = 0 THEN Append(rest, row) ELSE InsertAt(rest, p, row)
  BY DEF Moved, InsertBefore
<1>5. p \in DOMAIN rest /\ rest[p].symbol = before
  <2> HIDE DEF rest
  <2> QED
    BY <1>1, <1>3, PosOfFinds DEF RowsType
<1>6. new \in Seq(RowsType)
  BY MovedRange DEF RowsType
<1> HIDE DEF rest, row, p, new
<1>7. p \in 1..Len(rest) /\ Len(rest) \in Nat
  BY <1>1, <1>5, LenProperties
<1>8. new = InsertAt(rest, p, row)
  BY <1>4, <1>7
<1>9. \A i \in 1..(Len(rest) + 1) :
        new[i] = IF i < p THEN rest[i] ELSE IF i = p THEN row ELSE rest[i - 1]
  <2>1. p \in 1..(Len(rest) + 1)
    BY <1>7
  <2>2. \A i \in 1..(Len(rest) + 1) :
          InsertAt(rest, p, row)[i] = IF i < p THEN rest[i] ELSE IF i = p THEN row ELSE rest[i - 1]
    BY <1>1, <1>2, <2>1, InsertedElements
  <2> QED
    BY <1>8, <2>2
<1>10. DOMAIN new = 1..(Len(rest) + 1)
  <2>1. p \in 1..(Len(rest) + 1)
    BY <1>7
  <2>2. Len(new) = Len(rest) + 1
    BY <1>1, <1>2, <1>8, <2>1, InsertedElements
  <2> QED
    BY <1>6, <2>2, LenProperties
<1>11. p \in DOMAIN new /\ new[p].symbol = symbol
  BY <1>1, <1>7, <1>9, <1>10
<1>12. p + 1 \in DOMAIN new /\ new[p + 1].symbol = before
  <2>1. p + 1 \in 1..(Len(rest) + 1) /\ ~(p + 1 < p) /\ p + 1 # p /\ (p + 1) - 1 = p
    BY <1>7
  <2> QED
    BY <1>5, <1>9, <1>10, <2>1
<1>13. PosOf(new, symbol) = p
  <2>1. symbol \in Symbols(new)
    BY <1>11 DEF Symbols
  <2>2. PosOf(new, symbol) \in DOMAIN new /\ new[PosOf(new, symbol)].symbol = symbol
    BY <1>6, <2>1, PosOfFinds DEF RowsType
  <2> QED
    BY <1>11, <2>2 DEF EachOnce
<1>14. PosOf(new, before) = p + 1
  <2>1. before \in Symbols(new)
    BY <1>12 DEF Symbols
  <2>2. PosOf(new, before) \in DOMAIN new /\ new[PosOf(new, before)].symbol = before
    BY <1>6, <2>1, PosOfFinds DEF RowsType
  <2> QED
    BY <1>12, <2>2 DEF EachOnce
<1> QED
  BY <1>13, <1>14

(* What a request's edit does to the rows of the list it names. *)
LEMMA EditedRange ==
  ASSUME RequestTyped, NEW rows \in Seq(RowsType), RowsNeeded \subseteq Symbols(rows)
  PROVE  LET new == EditedRows(rows)
         IN  /\ new \in Seq(RowsType)
             /\ \A r \in Range(rows) :
                  \/ r \in Range(new)
                  \/ req.op \in {"remove", "transfer"} /\ r.symbol = req.symbol
                  \/ req.op = "pin" /\ r.symbol = req.symbol /\ req.symbol \in Symbols(new)
             /\ req.op = "transfer" => Symbols(new) \subseteq Symbols(rows)
             /\ req.op = "add" => req.symbol \in Symbols(new)
             /\ req.op = "remove" => req.symbol \notin Symbols(new)
             /\ req.op = "move" => Before(new, req.symbol, req.before)
             /\ req.op = "transfer" /\ EachOnce(rows) => req.symbol \notin Symbols(new)
<1> DEFINE new == EditedRows(rows)
<1>1. CASE req.op = "add"
  <2>1. new = Added(rows, req.symbol) /\ req.symbol \in SymbolSet
    BY <1>1 DEF EditedRows, RequestTyped
  <2> HIDE DEF new
  <2>2. new \in Seq(RowsType) /\ Range(rows) \subseteq Range(new)
    BY <2>1, AddedRange DEF RowsType
  <2>3. req.symbol \in Symbols(new)
    BY <2>1, AddedRows DEF RowsType
  <2> QED
    BY <1>1, <2>2, <2>3 DEF new
<1>2. CASE req.op = "remove"
  <2>1. new = Removed(rows, req.symbol)
    BY <1>2 DEF EditedRows
  <2> HIDE DEF new
  <2>2. new \in Seq(RowsType) /\ Range(new) = {r \in Range(rows) : r.symbol # req.symbol}
    BY <2>1, RemovedRowsRange DEF RowsType
  <2>3. req.symbol \notin Symbols(new)
    BY <2>2, SymbolsAreOfRange
  <2> QED
    BY <1>2, <2>2, <2>3 DEF new
<1>3. CASE req.op = "pin"
  <2> DEFINE rest == Taken(rows, req.symbol)
             p == rows[PosOf(rows, req.symbol)]
             row == Row(req.symbol, req.flag)
  <2>1. req.symbol \in Symbols(rows) /\ req.flag \in BOOLEAN /\ req.symbol \in SymbolSet
    BY <1>3 DEF RowsNeeded, RequestTyped
  <2>2. /\ rest \in Seq(RowsType) /\ p.symbol = req.symbol
        /\ Range(rows) \subseteq Range(rest) \cup {p}
    BY <2>1, TakenRange DEF RowsType
  <2>3. row \in RowsType /\ row.symbol = req.symbol
    BY <2>1 DEF Row, RowsType, RowSet
  <2>4. new = <<row>> \o rest \/ new = Append(rest, row)
    <3>1. CASE req.flag = TRUE
      BY <1>3, <3>1 DEF EditedRows
    <3>2. CASE req.flag = FALSE
      BY <1>3, <3>2 DEF EditedRows
    <3> QED
      BY <2>1, <3>1, <3>2
  <2> HIDE DEF new, rest, p, row
  <2>5. new \in Seq(RowsType) /\ Range(new) = Range(rest) \cup {row}
    <3>1. <<row>> \o rest \in Seq(RowsType) /\ Range(<<row>> \o rest) = Range(rest) \cup {row}
      BY <2>2, <2>3, PrependedRange
    <3>2. Append(rest, row) \in Seq(RowsType) /\ Range(Append(rest, row)) = Range(rest) \cup {row}
      BY <2>2, <2>3, AppendedRange
    <3>3. CASE new = <<row>> \o rest
      BY <3>1, <3>3
    <3>4. CASE new = Append(rest, row)
      BY <3>2, <3>4
    <3> QED
      BY <2>4, <3>3, <3>4
  <2>6. req.symbol \in Symbols(new)
    BY <2>3, <2>5, SymbolsAreOfRange
  <2> QED
    BY <1>3, <2>2, <2>5, <2>6 DEF new
<1>4. CASE req.op = "move"
  <2>1. new = Moved(rows, req.symbol, req.before)
    BY <1>4 DEF EditedRows
  <2>2. req.symbol \in Symbols(rows) /\ req.before \in Symbols(rows)
    BY <1>4 DEF RowsNeeded
  <2> HIDE DEF new
  <2>3. new \in Seq(RowsType) /\ Range(new) = Range(rows)
    BY <2>1, <2>2, MovedRange DEF RowsType
  <2>4. Before(new, req.symbol, req.before)
    BY <2>1, <2>2, MovedBefore
  <2> QED
    BY <1>4, <2>3, <2>4 DEF new
<1>5. CASE req.op = "transfer"
  <2> DEFINE p == rows[PosOf(rows, req.symbol)]
  <2>1. new = Taken(rows, req.symbol)
    BY <1>5 DEF EditedRows
  <2>2. req.symbol \in Symbols(rows)
    BY <1>5 DEF RowsNeeded
  <2> HIDE DEF new
  <2>3. /\ new \in Seq(RowsType) /\ Range(new) \subseteq Range(rows)
        /\ p.symbol = req.symbol
        /\ Range(rows) \subseteq Range(new) \cup {p}
    BY <2>1, <2>2, TakenRange DEF RowsType
  <2>4. EachOnce(rows) => req.symbol \notin Symbols(new)
    BY <2>1, <2>2, TakenRows DEF RowsType
  <2>5. Symbols(new) \subseteq Symbols(rows)
    BY <2>3, SymbolsAreOfRange
  <2> HIDE DEF p
  <2> QED
    BY <1>5, <2>3, <2>4, <2>5 DEF new
<1>6. CASE req.op \notin {"add", "remove", "pin", "move", "transfer"}
  <2>1. new = rows
    BY <1>6 DEF EditedRows
  <2> QED
    BY <1>6, <2>1
<1> QED
  BY <1>1, <1>2, <1>3, <1>4, <1>5, <1>6

LEMMA EditedScreen ==
  ASSUME RequestTyped, NEW screen \in Screens, RowsNeeded \subseteq Symbols(screen.rows)
  PROVE  /\ Edited(screen) \in Screens
         /\ Edited(screen).id = screen.id /\ Edited(screen).archived = screen.archived
         /\ Edited(screen).rows = EditedRows(screen.rows)
         /\ Edited(screen).name = IF req.op = "rename" THEN req.name ELSE screen.name
<1>1. screen.rows \in Seq(RowsType)
  BY DEF Screens, RowsType, RowSet
<1> DEFINE new == EditedRows(screen.rows)
           name == IF req.op = "rename" THEN req.name ELSE screen.name
<1>2. new \in Seq(RowsType)
  BY <1>1, EditedRange
<1>3. name \in Names
  BY DEF RequestTyped, Screens
<1>4. Edited(screen) = [screen EXCEPT !.name = name, !.rows = new]
  BY DEF Edited
<1> HIDE DEF name, new
<1>5. /\ Edited(screen) \in Screens
      /\ Edited(screen).id = screen.id /\ Edited(screen).archived = screen.archived
      /\ Edited(screen).rows = new /\ Edited(screen).name = name
  BY <1>2, <1>3, <1>4 DEF Screens, RowsType, RowSet
<1> QED
  BY <1>5 DEF name, new

(* What a load finds under an id. *)
LEMMA LoadFinds ==
  ASSUME remote \in Seq(RemoteLists), overlay \in Seq(Screens), NEW missed, NEW id,
         Find(LoadScreens(missed), id) # 0
  PROVE  /\ LoadScreens(missed)[Find(LoadScreens(missed), id)] \in Screens
         /\ \E j \in DOMAIN remote :
              /\ remote[j].id = id /\ remote[j] \in RemoteLists
              /\ Served(id, missed)
              /\ LoadScreens(missed)[Find(LoadScreens(missed), id)] = Shown(overlay, remote[j])
<1> DEFINE screens == LoadScreens(missed)
           k == Find(screens, id)
<1>1. /\ screens \in Seq(Screens)
      /\ \A i \in DOMAIN screens : \E j \in DOMAIN remote :
           /\ Served(remote[j].id, missed)
           /\ screens[i] = Shown(overlay, remote[j])
  BY Loaded
<1> HIDE DEF screens
<1>2. k \in DOMAIN screens /\ screens[k].id = id
  BY <1>1, FindFinds DEF FirstAt, screens
<1>3. screens[k] \in Screens
  BY <1>1, <1>2, ElementsOfSeq
<1>4. PICK j \in DOMAIN remote : Served(remote[j].id, missed) /\ screens[k] = Shown(overlay, remote[j])
  BY <1>1, <1>2
<1>5. remote[j] \in RemoteLists
  BY ElementsOfSeq
<1>6. remote[j].id = id
  BY <1>2, <1>4, <1>5, ShownList
<1> QED
  BY <1>3, <1>4, <1>5, <1>6 DEF screens

------------------------------------------------------------------------------
(* WHAT THE ACTIONS DO, in terms of the lists TDA has *)

IsLoad(screens, over, lists, missed) ==
  /\ screens \in Seq(Screens)
  /\ \A i \in DOMAIN screens : \E j \in DOMAIN lists :
       Served(lists[j].id, missed) /\ screens[i] = Shown(over, lists[j])
  /\ \A j \in DOMAIN lists : Served(lists[j].id, missed) =>
       \E i \in DOMAIN screens : screens[i] = Shown(over, lists[j])

LEMMA LoadScreensLoads ==
  ASSUME remote \in Seq(RemoteLists), overlay \in Seq(Screens), NEW missed
  PROVE  IsLoad(LoadScreens(missed), overlay, remote, missed)
<1> DEFINE screens == LoadScreens(missed)
<1>1. /\ screens \in Seq(Screens)
      /\ \A i \in DOMAIN screens : \E j \in DOMAIN remote :
           /\ Served(remote[j].id, missed)
           /\ screens[i] = Shown(overlay, remote[j])
      /\ \A j \in DOMAIN remote : Served(remote[j].id, missed) =>
           \E i \in DOMAIN screens : screens[i] = Shown(overlay, remote[j])
  BY Loaded
<1> HIDE DEF screens
<1>2. IsLoad(screens, overlay, remote, missed)
  BY <1>1 DEF IsLoad
<1> QED
  BY <1>2 DEF screens

LEMMA ServedLess ==
  ASSUME NEW id, NEW missed, Served(id, missed)
  PROVE  Served(id, {})
BY DEF Served

LEMMA TypeFacts ==
  ASSUME TypeInv
  PROVE  /\ remote \in Seq(RemoteLists) /\ overlay \in Seq(Screens) /\ seen \in Seq(Screens)
         /\ \A k \in DOMAIN remote : remote[k] \in RemoteLists
         /\ \A k \in DOMAIN overlay : overlay[k] \in Screens
         /\ \A k \in DOMAIN seen : seen[k] \in Screens
         /\ Len(seen) \in Nat /\ DOMAIN seen = 1..Len(seen) /\ sent \in 0..2
         /\ pc \in Stages /\ ops \in 0..MaxOps /\ troubles \in 0..MaxTroubles
         /\ MaxOps \in Nat /\ MaxTroubles \in Nat
<1>1. /\ remote \in Seq(RemoteLists) /\ overlay \in Seq(Screens) /\ seen \in Seq(Screens)
      /\ pc \in Stages /\ ops \in 0..MaxOps /\ troubles \in 0..MaxTroubles /\ sent \in 0..2
  BY DEF TypeInv, TypeOK
<1>2. /\ \A k \in DOMAIN remote : remote[k] \in RemoteLists
      /\ \A k \in DOMAIN overlay : overlay[k] \in Screens
      /\ \A k \in DOMAIN seen : seen[k] \in Screens
  BY <1>1, ElementsOfSeq
<1>3. Len(seen) \in Nat /\ DOMAIN seen = 1..Len(seen)
  BY <1>1, LenProperties
<1> QED
  BY <1>1, <1>2, <1>3, TdaAssumption

(* Counters and the flag of a call that may go wrong.                      *)
LEMMA TroubleDoes ==
  ASSUME TypeInv, NEW wrong \in BOOLEAN, Trouble(wrong)
  PROVE  /\ troubles' \in 0..MaxTroubles /\ troubled' \in BOOLEAN
         /\ troubled => troubled'
         /\ wrong => troubled'
<1>1. troubles \in 0..MaxTroubles /\ MaxTroubles \in Nat /\ troubled \in BOOLEAN
  BY TypeFacts DEF TypeInv, TypeOK
<1>2. troubles' \in 0..MaxTroubles
  <2>1. CASE wrong = TRUE
    <3>1. troubles < MaxTroubles /\ troubles' = troubles + 1
      BY <2>1 DEF Trouble
    <3> QED
      BY <1>1, <3>1
  <2>2. CASE wrong = FALSE
    <3>1. troubles' = troubles
      BY <2>2 DEF Trouble
    <3> QED
      BY <1>1, <3>1
  <2> QED
    BY <2>1, <2>2
<1>3. troubled' = (troubled \/ wrong)
  BY DEF Trouble
<1>4. troubled' \in BOOLEAN /\ (troubled => troubled') /\ (wrong => troubled')
  BY <1>1, <1>3
<1> QED
  BY <1>2, <1>4

LEMMA LoadsDo ==
  ASSUME TypeInv, NEW missed, Loads(missed)
  PROVE  /\ troubles' \in 0..MaxTroubles /\ troubled' \in BOOLEAN
         /\ troubled => troubled'
         /\ ~troubled' => missed = {}
<1>1. Trouble(missed # {})
  BY DEF Loads
<1>2. (missed # {}) \in BOOLEAN
  OBVIOUS
<1> DEFINE wrong == missed # {}
<1>3. wrong \in BOOLEAN /\ Trouble(wrong)
  BY <1>1, <1>2
<1>4. missed # {} => wrong
  OBVIOUS
<1> HIDE DEF wrong
<1>5. /\ troubles' \in 0..MaxTroubles /\ troubled' \in BOOLEAN
      /\ troubled => troubled'
      /\ wrong => troubled'
  BY <1>3, TroubleDoes
<1> QED
  BY <1>4, <1>5

(* What a step of the request leaves alone, and the outcome that hands the *)
(* request to the local provider.                                          *)
GivesUp ==
  /\ pc' = "local"
  /\ UNCHANGED <<remote, overlay, req, seen, sent, answer, kept, raced, doubled, ops>>

Counted ==
  /\ troubles' \in 0..MaxTroubles /\ troubled' \in BOOLEAN
  /\ troubled => troubled'

LEMMA ResolveDoes ==
  ASSUME TypeInv, Resolve
  PROVE  /\ pc = "resolving" /\ seen = <<>> /\ Counted
         /\ \/ GivesUp
            \/ /\ \E j \in DOMAIN remote :
                    LET s == Shown(overlay, remote[j])
                    IN  /\ remote[j].id = req.id /\ s \in Screens
                        /\ RowsNeeded \subseteq Symbols(s.rows)
                        /\ seen' = <<Edited(s)>>
               /\ pc' = IF req.op = "transfer" THEN "resolving" ELSE "sending"
               /\ UNCHANGED <<remote, overlay, req, sent, answer, kept, raced, doubled, ops>>
<1>0. pc = "resolving" /\ seen = <<>>
  BY DEF Resolve
<1>1. /\ UNCHANGED <<remote, overlay, req, kept, raced, doubled, ops>>
      /\ \E missed \in SUBSET (DOMAIN AccountIds) :
           LET screens == LoadScreens(missed)
               k == Find(screens, req.id)
           IN  /\ Loads(missed)
               /\ IF k # 0 /\ RowsNeeded \subseteq Symbols(screens[k].rows)
                  THEN /\ seen' = <<Edited(screens[k])>>
                       /\ pc' = IF req.op = "transfer" THEN pc ELSE "sending"
                       /\ UNCHANGED <<sent, answer>>
                  ELSE FallBack
  BY DEF Resolve
<1>2. PICK missed \in SUBSET (DOMAIN AccountIds) :
        LET screens == LoadScreens(missed)
            k == Find(screens, req.id)
        IN  /\ Loads(missed)
            /\ IF k # 0 /\ RowsNeeded \subseteq Symbols(screens[k].rows)
               THEN /\ seen' = <<Edited(screens[k])>>
                    /\ pc' = IF req.op = "transfer" THEN pc ELSE "sending"
                    /\ UNCHANGED <<sent, answer>>
               ELSE FallBack
  BY <1>1
<1> DEFINE screens == LoadScreens(missed)
           k == Find(screens, req.id)
           s == screens[k]
<1>3. Counted
  <2>1. Loads(missed)
    BY <1>2
  <2> QED
    BY <2>1, LoadsDo DEF Counted
<1>4. CASE k # 0 /\ RowsNeeded \subseteq Symbols(s.rows)
  <2>1. /\ seen' = <<Edited(s)>>
        /\ pc' = IF req.op = "transfer" THEN "resolving" ELSE "sending"
        /\ UNCHANGED <<sent, answer>>
    BY <1>0, <1>2, <1>4
  <2>2. PICK j \in DOMAIN remote : remote[j].id = req.id /\ s = Shown(overlay, remote[j])
    BY <1>4, TypeFacts, LoadFinds
  <2>3. s \in Screens
    BY <1>4, TypeFacts, LoadFinds
  <2> HIDE DEF s, k, screens
  <2> QED
    BY <1>0, <1>1, <1>3, <1>4, <2>1, <2>2, <2>3
<1>5. CASE ~(k # 0 /\ RowsNeeded \subseteq Symbols(s.rows))
  <2>1. FallBack
    BY <1>2, <1>5
  <2>2. GivesUp
    BY <1>1, <2>1 DEF FallBack, GivesUp
  <2> QED
    BY <1>0, <1>3, <2>2
<1> QED
  BY <1>4, <1>5

(* A list with one more row. *)
WithRow(s, row) == [s EXCEPT !.rows = Append(@, row)]

LEMMA WithRowScreen ==
  ASSUME NEW s \in Screens, NEW symbol \in SymbolSet
  PROVE  LET new == WithRow(s, Row(symbol, FALSE))
         IN  /\ new \in Screens /\ new.id = s.id /\ new.name = s.name /\ new.archived = s.archived
             /\ Range(new.rows) = Range(s.rows) \cup {Row(symbol, FALSE)}
             /\ Symbols(new.rows) = Symbols(s.rows) \cup {symbol}
<1> DEFINE row == Row(symbol, FALSE)
           rows == Append(s.rows, row)
           new == WithRow(s, row)
<1>1. s.rows \in Seq(RowsType) /\ row \in RowsType /\ row.symbol = symbol
  BY RowIsARow DEF Screens, RowsType, RowSet
<1>2. rows \in Seq(RowsType) /\ Range(rows) = Range(s.rows) \cup {row}
  <2> HIDE DEF row
  <2> QED
    BY <1>1, AppendedRange
<1>3. new = [s EXCEPT !.rows = rows]
  BY DEF WithRow
<1> HIDE DEF rows, new, row
<1>4. /\ new \in Screens /\ new.id = s.id /\ new.name = s.name /\ new.archived = s.archived
      /\ new.rows = rows
  BY <1>2, <1>3 DEF Screens, RowsType, RowSet
<1>5. Symbols(rows) = Symbols(s.rows) \cup {symbol}
  BY <1>1, <1>2, SymbolsAreOfRange
<1> QED
  BY <1>2, <1>4, <1>5 DEF new, row

LEMMA ResolveDestinationDoes ==
  ASSUME TypeInv, ResolveDestination
  PROVE  /\ pc = "resolving" /\ seen # <<>> /\ Counted
         /\ \/ GivesUp
            \/ /\ \E j \in DOMAIN remote :
                    LET s == Shown(overlay, remote[j])
                    IN  /\ remote[j].id = req.to /\ s \in Screens
                        /\ seen' = Append(seen, WithRow(s, Row(req.symbol, FALSE)))
               /\ pc' = "sending"
               /\ UNCHANGED <<remote, overlay, req, sent, answer, kept, raced, doubled, ops>>
<1>0. pc = "resolving" /\ seen # <<>>
  BY DEF ResolveDestination
<1>1. /\ UNCHANGED <<remote, overlay, req, kept, raced, doubled, ops>>
      /\ \E missed \in SUBSET (DOMAIN AccountIds) :
           LET screens == LoadScreens(missed)
               k == Find(screens, req.to)
           IN  /\ Loads(missed)
               /\ IF k # 0
                  THEN /\ seen' = Append(seen, [screens[k] EXCEPT
                                                  !.rows = Append(@, Row(req.symbol, FALSE))])
                       /\ pc' = "sending"
                       /\ UNCHANGED <<sent, answer>>
                  ELSE FallBack
  BY DEF ResolveDestination
<1>2. PICK missed \in SUBSET (DOMAIN AccountIds) :
        LET screens == LoadScreens(missed)
            k == Find(screens, req.to)
        IN  /\ Loads(missed)
            /\ IF k # 0
               THEN /\ seen' = Append(seen, [screens[k] EXCEPT
                                               !.rows = Append(@, Row(req.symbol, FALSE))])
                    /\ pc' = "sending"
                    /\ UNCHANGED <<sent, answer>>
               ELSE FallBack
  BY <1>1
<1> DEFINE screens == LoadScreens(missed)
           k == Find(screens, req.to)
           s == screens[k]
<1>3. Counted
  <2>1. Loads(missed)
    BY <1>2
  <2> QED
    BY <2>1, LoadsDo DEF Counted
<1>4. CASE k # 0
  <2>1. /\ seen' = Append(seen, WithRow(s, Row(req.symbol, FALSE)))
        /\ pc' = "sending"
        /\ UNCHANGED <<sent, answer>>
    BY <1>2, <1>4 DEF WithRow
  <2>2. PICK j \in DOMAIN remote : remote[j].id = req.to /\ s = Shown(overlay, remote[j])
    BY <1>4, TypeFacts, LoadFinds
  <2>3. s \in Screens
    BY <1>4, TypeFacts, LoadFinds
  <2> HIDE DEF s, k, screens
  <2> QED
    BY <1>0, <1>1, <1>3, <2>1, <2>2, <2>3
<1>5. CASE ~(k # 0)
  <2>1. FallBack
    BY <1>2, <1>5
  <2>2. GivesUp
    BY <1>1, <2>1 DEF FallBack, GivesUp
  <2> QED
    BY <1>0, <1>3, <2>2
<1> QED
  BY <1>4, <1>5

First(lists, id) == lists[Find(lists, id)]

UniqueIds(lists) == \A j, k \in DOMAIN lists : lists[j].id = lists[k].id => j = k

LEMMA FirstFacts ==
  ASSUME NEW S, NEW lists \in Seq(S), NEW id
  PROVE  /\ id \in IdsOf(lists) =>
              /\ Find(lists, id) \in DOMAIN lists /\ Find(lists, id) # 0
              /\ First(lists, id).id = id
              /\ First(lists, id) \in Range(lists) /\ First(lists, id) \in S
         /\ id \notin IdsOf(lists) => Find(lists, id) = 0
         /\ Find(lists, id) # 0 => id \in IdsOf(lists)
<1> DEFINE k == Find(lists, id)
<1>1. FirstAt(lists, id, k)
  BY FindFinds
<1> HIDE DEF k
<1>2. 0 \notin DOMAIN lists /\ \A i \in DOMAIN lists : lists[i] \in S /\ lists[i] \in Range(lists)
  BY ElementsOfSeq
<1>3. \A i \in DOMAIN lists : lists[i].id \in IdsOf(lists)
  BY DEF IdsOf
<1> QED
  BY <1>1, <1>2, <1>3 DEF FirstAt, First, k

LEMMA UpsertedLists ==
  ASSUME NEW S, NEW lists \in Seq(S), NEW l \in S
  PROVE  LET new == Upsert(lists, l)
         IN  /\ new \in Seq(S)
             /\ IdsOf(new) = IdsOf(lists) \cup {l.id}
             /\ First(new, l.id) = l
             /\ \A id \in IdsOf(lists) : id # l.id => First(new, id) = First(lists, id)
             /\ Range(new) \subseteq Range(lists) \cup {l}
<1> DEFINE k == Find(lists, l.id)
           n == Len(lists)
           new == Upsert(lists, l)
           longer == Append(lists, l)
           replaced == [lists EXCEPT ![k] = l]
<1>1. l.id \in IdsOf(lists) => k \in DOMAIN lists /\ k # 0 /\ lists[k].id = l.id
  BY FirstFacts DEF First
<1>2. l.id \notin IdsOf(lists) => k = 0
  BY FirstFacts
<1>3. new = IF k = 0 THEN longer ELSE replaced
  BY DEF Upsert
<1>4. CASE l.id \in IdsOf(lists)
  <2> HIDE DEF k
  <2>1. /\ replaced \in Seq(S) /\ DOMAIN replaced = DOMAIN lists
        /\ \A i \in DOMAIN lists : replaced[i] = IF i = k THEN l ELSE lists[i]
        /\ IdsOf(replaced) = IdsOf(lists)
        /\ \A id : Find(replaced, id) = Find(lists, id)
    <3>1. k \in DOMAIN lists /\ l.id = lists[k].id
      BY <1>1, <1>4
    <3>2. replaced \in Seq(S) /\ DOMAIN replaced = DOMAIN lists
      BY <3>1, ReplacedLists
    <3>3. \A i \in DOMAIN lists : replaced[i] = IF i = k THEN l ELSE lists[i]
      BY <3>1, ReplacedLists
    <3>4. IdsOf(replaced) = IdsOf(lists)
      BY <3>1, ReplacedLists
    <3>5. \A id : Find(replaced, id) = Find(lists, id)
      BY <3>1, ReplacedLists
    <3> QED
      BY <3>2, <3>3, <3>4, <3>5
  <2>2. new = replaced
    BY <1>1, <1>3, <1>4
  <2> HIDE DEF new, replaced
  <2>3. First(replaced, l.id) = l
    BY <1>1, <1>4, <2>1 DEF First, k
  <2>4. ASSUME NEW id \in IdsOf(lists), id # l.id
        PROVE  First(replaced, id) = First(lists, id)
    <3>1. Find(lists, id) \in DOMAIN lists /\ lists[Find(lists, id)].id = id
      BY <2>4, FirstFacts DEF First
    <3>2. Find(lists, id) # k
      BY <1>1, <1>4, <2>4, <3>1
    <3> QED
      BY <2>1, <3>1, <3>2 DEF First
  <2>5. Range(replaced) \subseteq Range(lists) \cup {l}
    BY <2>1 DEF Range
  <2> QED
    BY <1>4, <2>1, <2>2, <2>3, <2>4, <2>5 DEF new
<1>5. CASE l.id \notin IdsOf(lists)
  <2>1. new = longer
    BY <1>2, <1>3, <1>5
  <2>2. /\ longer \in Seq(S)
        /\ n + 1 \in DOMAIN longer /\ longer[n + 1] = l
        /\ \A i \in DOMAIN lists : i \in DOMAIN longer /\ longer[i] = lists[i]
        /\ \A i \in DOMAIN longer : i \in DOMAIN lists \/ (i = n + 1 /\ i \notin DOMAIN lists)
        /\ IdsOf(longer) = IdsOf(lists) \cup {l.id}
        /\ \A id \in IdsOf(lists) : Find(longer, id) = Find(lists, id)
        /\ l.id \notin IdsOf(lists) => Find(longer, l.id) = n + 1
    BY AppendedLists
  <2> HIDE DEF new, longer, n
  <2>3. First(longer, l.id) = l
    BY <1>5, <2>2 DEF First
  <2>4. \A id \in IdsOf(lists) : First(longer, id) = First(lists, id)
    <3> TAKE id \in IdsOf(lists)
    <3>1. Find(lists, id) \in DOMAIN lists
      BY FirstFacts
    <3> QED
      BY <2>2, <3>1 DEF First
  <2>5. Range(longer) \subseteq Range(lists) \cup {l}
    BY <2>2 DEF Range
  <2> QED
    BY <2>1, <2>2, <2>3, <2>4, <2>5 DEF new
<1> QED
  BY <1>4, <1>5

(* The lists with one id are taken out. *)
Without(lists, id) == Sifted(lists, {k \in DOMAIN lists : lists[k].id # id})

LEMMA WithoutLists ==
  ASSUME NEW S, NEW lists \in Seq(S), NEW id
  PROVE  LET new == Without(lists, id)
         IN  /\ new \in Seq(S)
             /\ IdsOf(new) = IdsOf(lists) \ {id}
             /\ \A i \in IdsOf(lists) : i # id => First(new, i) = First(lists, i)
             /\ Range(new) \subseteq Range(lists)
             /\ UniqueIds(lists) => UniqueIds(new)
<1> DEFINE keep == {k \in DOMAIN lists : lists[k].id # id}
           new == Without(lists, id)
<1>0. new = Sifted(lists, keep)
  BY DEF Without
<1>1. DOMAIN lists \cap keep = keep /\ keep \in SUBSET DOMAIN lists
  OBVIOUS
<1>2. new \in Seq(S) /\ \E at : Drawn(at, new, lists, DOMAIN lists \cap keep)
  <2> HIDE DEF keep, new
  <2> QED
    BY <1>0, SiftedDrawn
<1>3. PICK at : Drawn(at, new, lists, keep)
  BY <1>1, <1>2
<1>4. \A k \in DOMAIN lists : k \in keep <=> lists[k].id # id
  OBVIOUS
<1> HIDE DEF keep, new
<1>5. \A i \in DOMAIN new : at[i] \in keep /\ at[i] \in DOMAIN lists /\ new[i] = lists[at[i]]
  BY <1>1, <1>3 DEF Drawn
<1>6. \A k \in keep : \E i \in DOMAIN new : new[i] = lists[k]
  BY <1>3 DEF Drawn
<1>7. IdsOf(new) = IdsOf(lists) \ {id}
  <2>1. IdsOf(new) \subseteq IdsOf(lists) \ {id}
    BY <1>4, <1>5 DEF IdsOf
  <2>2. IdsOf(lists) \ {id} \subseteq IdsOf(new)
    BY <1>4, <1>6 DEF IdsOf
  <2> QED
    BY <2>1, <2>2
<1>8. ASSUME NEW i \in IdsOf(lists), i # id
      PROVE  First(new, i) = First(lists, i)
  <2>1. Find(lists, i) \in DOMAIN lists /\ lists[Find(lists, i)].id = i
    BY FirstFacts DEF First
  <2>2. Find(lists, i) \in keep
    BY <1>4, <1>8, <2>1
  <2> QED
    BY <1>1, <1>2, <1>3, <2>2, DrawnLists DEF First
<1>9. Range(new) \subseteq Range(lists)
  BY <1>5 DEF Range
<1>10. ASSUME \A j, k \in DOMAIN lists : lists[j].id = lists[k].id => j = k,
              NEW j \in DOMAIN new, NEW k \in DOMAIN new, new[j].id = new[k].id
       PROVE  j = k
  <2>1. at[j] = at[k]
    BY <1>5, <1>10
  <2>2. j \in Nat /\ k \in Nat
    BY <1>2, LenProperties
  <2>3. (j < k => at[j] < at[k]) /\ (k < j => at[k] < at[j])
    BY <1>3 DEF Drawn
  <2>4. at[j] \in Nat /\ at[k] \in Nat
    BY <1>5, LenProperties
  <2> QED
    BY <2>1, <2>2, <2>3, <2>4
<1>11. UniqueIds(lists) => UniqueIds(new)
  BY <1>10 DEF UniqueIds
<1> QED
  BY <1>2, <1>7, <1>8, <1>9, <1>11 DEF new

(* One list is taken out. *)
LEMMA RemovedList ==
  ASSUME NEW S, NEW lists \in Seq(S), NEW p \in DOMAIN lists
  PROVE  LET new == RemoveAt(lists, p)
         IN  /\ new \in Seq(S)
             /\ \A i \in IdsOf(lists) : i # lists[p].id =>
                  i \in IdsOf(new) /\ First(new, i) = First(lists, i)
             /\ Range(new) \subseteq Range(lists)
             /\ \A l \in Range(lists) : l = lists[p] \/ l \in Range(new)
             /\ IdsOf(new) \subseteq IdsOf(lists)
             /\ UniqueIds(lists) => UniqueIds(new) /\ lists[p].id \notin IdsOf(new)
<1> DEFINE keep == DOMAIN lists \ {p}
           new == RemoveAt(lists, p)
<1>1. p \in 1..Len(lists) /\ keep \in SUBSET DOMAIN lists
  BY LenProperties
<1>2. new \in Seq(S) /\ \E at : Drawn(at, new, lists, keep)
  BY <1>1, RemovedDrawn
<1>3. PICK at : Drawn(at, new, lists, keep)
  BY <1>2
<1>4. \A k \in DOMAIN lists : k \in keep <=> k # p
  OBVIOUS
<1> HIDE DEF keep, new
<1>5. \A i \in DOMAIN new : at[i] \in keep /\ at[i] \in DOMAIN lists /\ new[i] = lists[at[i]]
  BY <1>1, <1>3 DEF Drawn
<1>6. \A k \in keep : \E i \in DOMAIN new : new[i] = lists[k]
  BY <1>3 DEF Drawn
<1>7. IdsOf(new) \subseteq IdsOf(lists)
  BY <1>5 DEF IdsOf
<1>8. ASSUME NEW i \in IdsOf(lists), i # lists[p].id
      PROVE  i \in IdsOf(new) /\ First(new, i) = First(lists, i)
  <2>1. Find(lists, i) \in DOMAIN lists /\ lists[Find(lists, i)].id = i
    BY FirstFacts DEF First
  <2>2. Find(lists, i) \in keep
    BY <1>4, <1>8, <2>1
  <2>3. i \in IdsOf(new)
    BY <1>6, <2>1, <2>2 DEF IdsOf
  <2> QED
    BY <1>1, <1>2, <1>3, <2>2, <2>3, DrawnLists DEF First
<1>9. Range(new) \subseteq Range(lists)
  BY <1>5 DEF Range
<1>10. \A l \in Range(lists) : l = lists[p] \/ l \in Range(new)
  BY <1>4, <1>6 DEF Range
<1>11. ASSUME \A j, k \in DOMAIN lists : lists[j].id = lists[k].id => j = k
       PROVE  /\ \A j, k \in DOMAIN new : new[j].id = new[k].id => j = k
              /\ lists[p].id \notin IdsOf(new)
  <2>1. ASSUME NEW j \in DOMAIN new, NEW k \in DOMAIN new, new[j].id = new[k].id
        PROVE  j = k
    <3>1. at[j] = at[k]
      BY <1>5, <1>11, <2>1
    <3>2. j \in Nat /\ k \in Nat
      BY <1>2, LenProperties
    <3>3. (j < k => at[j] < at[k]) /\ (k < j => at[k] < at[j])
      BY <1>3 DEF Drawn
    <3>4. at[j] \in Nat /\ at[k] \in Nat
      BY <1>5, LenProperties
    <3> QED
      BY <3>1, <3>2, <3>3, <3>4
  <2>2. lists[p].id \notin IdsOf(new)
    <3> SUFFICES ASSUME NEW i \in DOMAIN new, new[i].id = lists[p].id PROVE FALSE
      BY DEF IdsOf
    <3> QED
      BY <1>4, <1>5, <1>11
  <2> QED
    BY <2>1, <2>2
<1>12. UniqueIds(lists) => UniqueIds(new) /\ lists[p].id \notin IdsOf(new)
  BY <1>11 DEF UniqueIds
<1> QED
  BY <1>2, <1>7, <1>8, <1>9, <1>10, <1>12 DEF new

SymbolsOnce(l) == \A i, j \in DOMAIN l.symbols : l.symbols[i] = l.symbols[j] => i = j

(* A list of TDA that holds what a screen says. *)
SameAs(list, screen) ==
  /\ list.id = screen.id /\ list.name = screen.name
  /\ Range(list.symbols) = Symbols(screen.rows)

(* A screen as TDA stores it. *)
AsList(screen) ==
  [id |-> screen.id, name |-> screen.name,
   symbols |-> [i \in DOMAIN screen.rows |-> screen.rows[i].symbol]]

LEMMA AsListSame ==
  ASSUME NEW screen \in Screens
  PROVE  /\ AsList(screen) \in RemoteLists /\ SameAs(AsList(screen), screen)
         /\ EachOnce(screen.rows) => SymbolsOnce(AsList(screen))
<1> DEFINE rows == screen.rows
           q == [i \in DOMAIN rows |-> rows[i].symbol]
<1>1. rows \in Seq(RowsType) /\ screen.id \in Ids /\ screen.name \in Names
  BY DEF Screens, RowsType, RowSet
<1> HIDE DEF rows
<1>2. /\ Len(rows) \in Nat /\ DOMAIN rows = 1..Len(rows)
      /\ \A i \in DOMAIN rows : rows[i] \in RowsType
  BY <1>1, ElementsOfSeq
<1>3. q \in [1..Len(rows) -> SymbolSet]
  BY <1>2 DEF RowsType, RowSet
<1>4. q \in Seq(SymbolSet)
  BY <1>2, <1>3, SeqDef
<1>5. AsList(screen) = [id |-> screen.id, name |-> screen.name, symbols |-> q]
  BY DEF AsList, rows
<1>6. Range(q) = Symbols(rows)
  BY DEF Range, Symbols
<1>7. EachOnce(rows) => \A i, j \in DOMAIN q : q[i] = q[j] => i = j
  BY DEF EachOnce
<1> HIDE DEF q
<1>8. /\ AsList(screen) \in RemoteLists
      /\ AsList(screen).id = screen.id /\ AsList(screen).name = screen.name
      /\ AsList(screen).symbols = q
  BY <1>1, <1>4, <1>5 DEF RemoteLists
<1> QED
  BY <1>6, <1>7, <1>8 DEF SameAs, SymbolsOnce, rows

(* What a request leaves of TDA's lists. *)
LEMMA StoredDoes ==
  ASSUME TypeInv, pc = "sending"
  PROVE  /\ Stored \in Seq(RemoteLists)
         /\ req.op = "create" =>
              \E l \in RemoteLists : /\ l.id = NewId(ops) /\ l.name = req.name /\ l.symbols = <<>>
                                     /\ Stored = Append(remote, l)
         /\ req.op = "delete" => Stored = Sifted(remote, {k \in DOMAIN remote : remote[k].id # req.id})
         /\ req.op \notin {"create", "delete"} =>
              /\ sent + 1 \in DOMAIN seen /\ seen[sent + 1] \in Screens
              /\ DOMAIN Stored = DOMAIN remote
              /\ \A k \in DOMAIN remote :
                   Stored[k] = IF remote[k].id # seen[sent + 1].id THEN remote[k]
                               ELSE AsList(seen[sent + 1])
<1>1. /\ remote \in Seq(RemoteLists) /\ seen \in Seq(Screens)
      /\ \A k \in DOMAIN remote : remote[k] \in RemoteLists
      /\ \A k \in DOMAIN seen : seen[k] \in Screens
      /\ Len(seen) \in Nat /\ DOMAIN seen = 1..Len(seen) /\ sent \in 0..2
      /\ ops \in 0..MaxOps /\ MaxOps \in Nat
  BY TypeFacts
<1>2. /\ Len(seen) = Resolved /\ (sent = 0 \/ sent < Len(seen)) /\ ops # 0 /\ req.op # "none"
      /\ req.op # "archive"
  BY DEF TypeInv, StagesInOrder, Busy
<1>3. CASE req.op = "create"
  <2> DEFINE l == [id |-> NewId(ops), name |-> req.name, symbols |-> <<>>]
  <2>1. NewId(ops) \in Ids
    <3>1. ops \in 1..MaxOps
      BY <1>1, <1>2
    <3> QED
      BY <3>1 DEF Ids
  <2>2. req.name \in Names /\ <<>> \in Seq(SymbolSet)
    BY <1>3, EmptySeq DEF TypeInv, RequestTyped
  <2>3. l \in RemoteLists
    BY <2>1, <2>2 DEF RemoteLists
  <2>4. Stored = Append(remote, l)
    BY <1>3 DEF Stored
  <2>5. Append(remote, l) \in Seq(RemoteLists)
    <3> HIDE DEF l
    <3> QED
      BY <1>1, <2>3, AppendProperties
  <2>6. l.id = NewId(ops) /\ l.name = req.name /\ l.symbols = <<>>
    OBVIOUS
  <2> HIDE DEF l
  <2> QED
    BY <1>3, <2>3, <2>4, <2>5, <2>6
<1>4. CASE req.op = "delete"
  <2>1. Stored = Sifted(remote, {k \in DOMAIN remote : remote[k].id # req.id})
    BY <1>4 DEF Stored
  <2> DEFINE keep == {k \in DOMAIN remote : remote[k].id # req.id}
  <2>2. Sifted(remote, keep) \in Seq(RemoteLists)
    <3> HIDE DEF keep
    <3> QED
      BY <1>1, SiftedRange
  <2> QED
    BY <1>4, <2>1, <2>2
<1>5. CASE req.op \notin {"create", "delete"}
  <2> DEFINE screen == seen[sent + 1]
             n == Len(remote)
             new == [k \in DOMAIN remote |->
                       IF remote[k].id # screen.id THEN remote[k] ELSE AsList(screen)]
  <2>1. sent + 1 \in DOMAIN seen
    <3>1. Resolved \in {1, 2}
      BY <1>5 DEF Resolved
    <3> QED
      BY <1>1, <1>2, <3>1
  <2>2. screen \in Screens
    BY <1>1, <2>1
  <2>3. AsList(screen) \in RemoteLists
    BY <2>2, AsListSame
  <2>4. n \in Nat /\ DOMAIN remote = 1..n
    BY <1>1, LenProperties
  <2>5. Stored = new
    BY <1>5 DEF Stored, AsList
  <2> HIDE DEF screen
  <2>6. new \in [1..n -> RemoteLists]
    BY <1>1, <2>3, <2>4
  <2>7. new \in Seq(RemoteLists)
    BY <2>4, <2>6, SeqDef
  <2>8. /\ DOMAIN new = DOMAIN remote
        /\ \A k \in DOMAIN remote : new[k] = IF remote[k].id # screen.id THEN remote[k]
                                             ELSE AsList(screen)
    OBVIOUS
  <2> HIDE DEF new
  <2> QED
    BY <1>5, <2>1, <2>2, <2>5, <2>7, <2>8 DEF screen
<1> QED
  BY <1>3, <1>4, <1>5

LEMMA SendDoes ==
  ASSUME TypeInv, Send
  PROVE  /\ pc = "sending" /\ Counted
         /\ sent' = sent + 1 /\ sent' \in 0..2
         /\ pc' = IF sent + 1 < Len(seen) THEN "sending" ELSE "saving"
         /\ doubled' \in BOOLEAN /\ (doubled => doubled')
         /\ ~doubled' => \A k \in DOMAIN seen : EachOnce(seen[k].rows)
         /\ UNCHANGED <<overlay, req, seen, answer, kept, raced, ops>>
         /\ \/ UNCHANGED remote /\ troubled'
            \/ remote' = Stored
<1>1. PICK lost \in BOOLEAN : Trouble(lost) /\ remote' = IF lost THEN remote ELSE Stored
  BY DEF Send
<1>2. /\ pc = "sending"
      /\ doubled' = (doubled \/ \E k \in DOMAIN seen : ~EachOnce(seen[k].rows))
      /\ sent' = sent + 1
      /\ pc' = IF sent' < Len(seen) THEN pc ELSE "saving"
      /\ UNCHANGED <<overlay, req, seen, answer, kept, raced, ops>>
  BY DEF Send
<1>3. /\ troubles' \in 0..MaxTroubles /\ troubled' \in BOOLEAN
      /\ troubled => troubled'
      /\ lost => troubled'
  BY <1>1, TroubleDoes
<1>4. doubled \in BOOLEAN
  BY DEF TypeInv, TypeOK
<1>5. doubled' \in BOOLEAN /\ (doubled => doubled')
      /\ (~doubled' => \A k \in DOMAIN seen : EachOnce(seen[k].rows))
  BY <1>2, <1>4
<1>6. (UNCHANGED remote /\ troubled') \/ remote' = Stored
  <2>1. CASE lost = TRUE
    BY <1>1, <1>3, <2>1
  <2>2. CASE lost = FALSE
    BY <1>1, <2>2
  <2> QED
    BY <2>1, <2>2
<1>7. sent' \in 0..2
  <2>1. sent \in 0..2 /\ Len(seen) \in Nat
    BY TypeFacts
  <2>2. Len(seen) = Resolved /\ (sent = 0 \/ sent < Len(seen))
    BY <1>2 DEF TypeInv, StagesInOrder
  <2>3. Resolved <= 2
    BY DEF Resolved
  <2> QED
    BY <1>2, <2>1, <2>2, <2>3
<1> QED
  BY <1>2, <1>3, <1>5, <1>6, <1>7 DEF Counted

(* The overlay is what a load gave. *)
Overwritten(missed) ==
  /\ IsLoad(overlay', overlay, remote, missed)
  /\ kept' = {d \in kept : Served(d.id, missed)}
  /\ ~troubled' => missed = {}

LEMMA SaveMergedDoes ==
  ASSUME TypeInv, SaveMerged
  PROVE  /\ pc = "saving" /\ req.op \in {"rename", "add", "remove"} /\ Counted
         /\ \/ GivesUp
            \/ /\ pc' = "answering" /\ \E missed : Overwritten(missed)
               /\ UNCHANGED <<remote, req, seen, sent, answer, raced, doubled, ops>>
<1>0. /\ pc = "saving" /\ req.op \in {"rename", "add", "remove"}
      /\ UNCHANGED <<remote, req, raced, doubled, ops>>
  BY DEF SaveMerged, SaveAll
<1>1. PICK missed \in SUBSET (DOMAIN AccountIds) :
        /\ Loads(missed)
        /\ IF LoadScreens(missed) = <<>>
           THEN FallBack /\ UNCHANGED <<overlay, kept>>
           ELSE /\ overlay' = LoadScreens(missed)
                /\ kept' = KeptOf(missed)
                /\ pc' = "answering" /\ UNCHANGED <<seen, sent, answer>>
  BY DEF SaveMerged, SaveAll
<1>2. Counted /\ (~troubled' => missed = {})
  BY <1>1, LoadsDo DEF Counted
<1>3. CASE LoadScreens(missed) = <<>>
  <2>1. FallBack /\ UNCHANGED <<overlay, kept>>
    BY <1>1, <1>3
  <2>2. GivesUp
    BY <1>0, <2>1 DEF FallBack, GivesUp
  <2> QED
    BY <1>0, <1>2, <2>2
<1>4. CASE LoadScreens(missed) # <<>>
  <2>1. /\ overlay' = LoadScreens(missed)
        /\ kept' = KeptOf(missed)
        /\ pc' = "answering" /\ UNCHANGED <<seen, sent, answer>>
    BY <1>1, <1>4
  <2>2. IsLoad(overlay', overlay, remote, missed)
    BY <2>1, TypeFacts, LoadScreensLoads
  <2>3. kept' = {d \in kept : Served(d.id, missed)}
    BY <2>1 DEF KeptOf, Served
  <2>4. Overwritten(missed)
    BY <1>2, <2>2, <2>3 DEF Overwritten
  <2> QED
    BY <1>0, <1>2, <2>1, <2>4
<1> QED
  BY <1>3, <1>4

LEMMA SaveCreatedDoes ==
  ASSUME TypeInv, SaveCreated
  PROVE  /\ pc = "saving" /\ req.op = "create" /\ Counted
         /\ UNCHANGED <<remote, req, seen, sent, raced, doubled, ops>>
         /\ \/ UNCHANGED <<overlay, kept>>
            \/ \E missed : Overwritten(missed)
         /\ \/ pc' = "local" /\ UNCHANGED answer
            \/ /\ pc' = "idle" /\ answer'.by = "tda"
               /\ \E j \in DOMAIN remote : /\ remote[j].id = answer'.id
                                           /\ remote[j].name = req.name
                                           /\ Served(remote[j].id, {})
<1>0. /\ pc = "saving" /\ req.op = "create"
      /\ UNCHANGED <<remote, req, raced, doubled, ops>>
  BY DEF SaveCreated
<1> DEFINE k(missed) == SelectInSeq(LoadScreens(missed), LAMBDA l : l.name = req.name)
<1>1. PICK missed \in SUBSET (DOMAIN AccountIds) :
        /\ Loads(missed)
        /\ overlay' = IF LoadScreens(missed) = <<>> THEN overlay ELSE LoadScreens(missed)
        /\ kept' = IF LoadScreens(missed) = <<>> THEN kept ELSE KeptOf(missed)
        /\ IF k(missed) = 0 THEN FallBack
           ELSE AnswerBy("tda", LoadScreens(missed)[k(missed)].id) /\ UNCHANGED <<seen, sent>>
  BY DEF SaveCreated
<1>2. Counted /\ (~troubled' => missed = {})
  BY <1>1, LoadsDo DEF Counted
<1> DEFINE screens == LoadScreens(missed)
<1>3. IsLoad(screens, overlay, remote, missed)
  BY TypeFacts, LoadScreensLoads
<1>4. UNCHANGED <<overlay, kept>> \/ Overwritten(missed)
  <2>1. CASE screens = <<>>
    BY <1>1, <2>1
  <2>2. CASE screens # <<>>
    <3>1. overlay' = screens /\ kept' = KeptOf(missed)
      BY <1>1, <2>2
    <3> HIDE DEF screens
    <3>2. kept' = {d \in kept : Served(d.id, missed)}
      BY <3>1 DEF KeptOf, Served
    <3> QED
      BY <1>2, <1>3, <3>1, <3>2 DEF Overwritten
  <2> QED
    BY <2>1, <2>2
<1>5. UNCHANGED <<seen, sent>> /\ (\/ pc' = "local" /\ UNCHANGED answer
                                   \/ /\ pc' = "idle" /\ answer'.by = "tda"
                                      /\ \E j \in DOMAIN remote :
                                            /\ remote[j].id = answer'.id
                                            /\ remote[j].name = req.name
                                            /\ Served(remote[j].id, {}))
  <2>1. CASE k(missed) = 0
    BY <1>1, <2>1 DEF FallBack
  <2>2. CASE k(missed) # 0
    <3> DEFINE I == {i \in 1..Len(screens) : screens[i].name = req.name}
    <3>1. k(missed) = IF I # {} THEN Min(I) ELSE 0
      BY DEF SelectInSeq
    <3>2. /\ answer' = [by |-> "tda", id |-> screens[k(missed)].id] /\ pc' = "idle"
          /\ UNCHANGED <<seen, sent>>
      BY <1>1, <2>2 DEF AnswerBy
    <3> DEFINE m == k(missed)
    <3>3. m \in DOMAIN screens /\ screens[m].name = req.name
      <4> HIDE DEF screens
      <4>1. Len(screens) \in Nat /\ DOMAIN screens = 1..Len(screens)
        BY <1>3, LenProperties DEF IsLoad
      <4>2. I \subseteq Nat /\ I # {} /\ m = Min(I)
        BY <2>2, <3>1, <4>1
      <4>3. Min(I) \in I
        <5> HIDE DEF I
        <5> QED
          BY <4>2, MinIsLeast
      <4> HIDE DEF m
      <4> QED
        BY <4>1, <4>2, <4>3
    <3> HIDE DEF m
    <3>4. answer'.by = "tda" /\ answer'.id = screens[m].id
      BY <3>2 DEF m
    <3> HIDE DEF screens
    <3>5. PICK j \in DOMAIN remote : Served(remote[j].id, missed) /\ screens[m] = Shown(overlay, remote[j])
      BY <1>3, <3>3 DEF IsLoad
    <3>6. remote[j] \in RemoteLists /\ overlay \in Seq(Screens)
      BY TypeFacts
    <3>7. screens[m].id = remote[j].id /\ screens[m].name = remote[j].name
      BY <3>5, <3>6, ShownList
    <3>8. Served(remote[j].id, {})
      BY <3>5, ServedLess
    <3> QED
      BY <3>2, <3>3, <3>4, <3>7, <3>8
  <2> QED
    BY <2>1, <2>2
<1> QED
  BY <1>0, <1>2, <1>4, <1>5

(* The rows of one symbol get a flag. *)
Flagged(rows, symbol, flag) ==
  [i \in DOMAIN rows |-> IF rows[i].symbol = symbol THEN Row(symbol, flag) ELSE rows[i]]

LEMMA FlaggedRows ==
  ASSUME NEW rows \in Seq(RowsType), NEW symbol \in SymbolSet, NEW flag \in BOOLEAN
  PROVE  LET new == Flagged(rows, symbol, flag)
         IN  /\ new \in Seq(RowsType) /\ Symbols(new) = Symbols(rows)
             /\ \A r \in Range(new) :
                  \/ r.symbol # symbol /\ r \in Range(rows)
                  \/ r = Row(symbol, flag)
             /\ \A r \in Range(rows) : r.symbol # symbol => r \in Range(new)
             /\ symbol \in Symbols(rows) => Row(symbol, flag) \in Range(new)
             /\ EachOnce(rows) => EachOnce(new)
<1> DEFINE new == Flagged(rows, symbol, flag)
<1>1. /\ Len(rows) \in Nat /\ DOMAIN rows = 1..Len(rows)
      /\ \A i \in DOMAIN rows : rows[i] \in RowsType
  BY ElementsOfSeq
<1>2. Row(symbol, flag) \in RowsType /\ Row(symbol, flag).symbol = symbol
  BY DEF Row, RowsType, RowSet
<1>3. new \in [1..Len(rows) -> RowsType]
  BY <1>1, <1>2 DEF Flagged
<1>4. new \in Seq(RowsType)
  BY <1>1, <1>3, SeqDef
<1>5. /\ DOMAIN new = DOMAIN rows
      /\ \A i \in DOMAIN rows :
           new[i] = IF rows[i].symbol = symbol THEN Row(symbol, flag) ELSE rows[i]
  BY DEF Flagged
<1> HIDE DEF new
<1>6. \A i \in DOMAIN rows : new[i].symbol = rows[i].symbol
  BY <1>2, <1>5
<1>7. Symbols(new) = Symbols(rows)
  BY <1>5, <1>6 DEF Symbols
<1>8. \A r \in Range(new) : (r.symbol # symbol /\ r \in Range(rows)) \/ r = Row(symbol, flag)
  BY <1>5 DEF Range
<1>9. \A r \in Range(rows) : r.symbol # symbol => r \in Range(new)
  BY <1>5 DEF Range
<1>10. symbol \in Symbols(rows) => Row(symbol, flag) \in Range(new)
  BY <1>5 DEF Range, Symbols
<1>11. EachOnce(rows) => EachOnce(new)
  BY <1>5, <1>6 DEF EachOnce
<1> QED
  BY <1>4, <1>7, <1>8, <1>9, <1>10, <1>11 DEF new

FlaggedScreen(s) == [s EXCEPT !.rows = Flagged(s.rows, req.symbol, req.flag)]

LEMMA FlaggedScreenIs ==
  ASSUME NEW s \in Screens, req.symbol \in SymbolSet, req.flag \in BOOLEAN
  PROVE  /\ FlaggedScreen(s) \in Screens
         /\ FlaggedScreen(s).id = s.id /\ FlaggedScreen(s).archived = s.archived
         /\ FlaggedScreen(s).rows = Flagged(s.rows, req.symbol, req.flag)
<1> DEFINE rows == Flagged(s.rows, req.symbol, req.flag)
<1>1. s.rows \in Seq(RowsType)
  BY DEF Screens, RowsType, RowSet
<1>2. rows \in Seq(RowsType)
  BY <1>1, FlaggedRows
<1>3. FlaggedScreen(s) = [s EXCEPT !.rows = rows]
  BY DEF FlaggedScreen
<1> HIDE DEF rows
<1>4. /\ FlaggedScreen(s) \in Screens
      /\ FlaggedScreen(s).id = s.id /\ FlaggedScreen(s).archived = s.archived
      /\ FlaggedScreen(s).rows = rows
  BY <1>2, <1>3 DEF Screens, RowsType, RowSet
<1> QED
  BY <1>4 DEF rows

LEMMA SavePinnedDoes ==
  ASSUME TypeInv, SavePinned
  PROVE  /\ pc = "saving" /\ req.op = "pin" /\ Counted
         /\ \/ GivesUp
            \/ /\ \E j \in DOMAIN remote :
                    LET s == Shown(overlay, remote[j])
                        f == FlaggedScreen(s)
                    IN  /\ remote[j].id = req.id
                        /\ overlay' = Upsert(overlay, f)
                        /\ kept' = IF Row(req.symbol, TRUE) \in Range(f.rows)
                                   THEN kept \cup {Pin(req.id, req.symbol)} ELSE kept
               /\ pc' = "idle" /\ answer' = [by |-> "tda", id |-> req.id]
               /\ UNCHANGED <<remote, req, seen, sent, raced, doubled, ops>>
<1>0. /\ pc = "saving" /\ req.op = "pin"
      /\ UNCHANGED <<remote, req, raced, doubled, ops>>
  BY DEF SavePinned
<1> DEFINE at(missed) == Find(LoadScreens(missed), req.id)
           new(missed) == FlaggedScreen(LoadScreens(missed)[at(missed)])
<1>1. PICK missed \in SUBSET (DOMAIN AccountIds) :
        /\ Loads(missed)
        /\ IF at(missed) = 0
           THEN FallBack /\ UNCHANGED <<overlay, kept>>
           ELSE /\ overlay' = Upsert(overlay, new(missed))
                /\ kept' = IF Row(req.symbol, TRUE) \in Range(new(missed).rows)
                           THEN kept \cup {Pin(req.id, req.symbol)} ELSE kept
                /\ AnswerBy("tda", req.id) /\ UNCHANGED <<seen, sent>>
  BY DEF SavePinned, FlaggedScreen, Flagged
<1>2. Counted
  BY <1>1, LoadsDo DEF Counted
<1>3. CASE at(missed) = 0
  <2>1. FallBack /\ UNCHANGED <<overlay, kept>>
    BY <1>1, <1>3
  <2>2. GivesUp
    BY <1>0, <2>1 DEF FallBack, GivesUp
  <2> QED
    BY <1>0, <1>2, <2>2
<1>4. CASE at(missed) # 0
  <2> DEFINE s == LoadScreens(missed)[at(missed)]
  <2>1. PICK j \in DOMAIN remote : remote[j].id = req.id /\ s = Shown(overlay, remote[j])
    BY <1>4, TypeFacts, LoadFinds
  <2>2. /\ overlay' = Upsert(overlay, FlaggedScreen(s))
        /\ kept' = IF Row(req.symbol, TRUE) \in Range(FlaggedScreen(s).rows)
                   THEN kept \cup {Pin(req.id, req.symbol)} ELSE kept
        /\ AnswerBy("tda", req.id) /\ UNCHANGED <<seen, sent>>
    BY <1>1, <1>4
  <2> HIDE DEF s
  <2>3. pc' = "idle" /\ answer' = [by |-> "tda", id |-> req.id]
    BY <2>2 DEF AnswerBy
  <2> QED
    BY <1>0, <1>2, <2>1, <2>2, <2>3
<1> QED
  BY <1>3, <1>4

LEMMA AnswerDoes ==
  ASSUME TypeInv, Answer
  PROVE  /\ pc = "answering" /\ Counted
         /\ \/ GivesUp
            \/ /\ pc' = "idle" /\ answer' = [by |-> "tda", id |-> Target]
               /\ UNCHANGED <<remote, overlay, req, seen, sent, kept, raced, doubled, ops>>
<1>0. /\ pc = "answering"
      /\ UNCHANGED <<remote, overlay, req, kept, raced, doubled, ops>>
  BY DEF Answer
<1>1. PICK missed \in SUBSET (DOMAIN AccountIds) :
        /\ Loads(missed)
        /\ IF Target \in IdsOf(LoadScreens(missed))
           THEN AnswerBy("tda", Target) /\ UNCHANGED <<seen, sent>>
           ELSE FallBack
  BY DEF Answer
<1>2. Counted
  BY <1>1, LoadsDo DEF Counted
<1>3. CASE Target \in IdsOf(LoadScreens(missed))
  <2>1. AnswerBy("tda", Target) /\ UNCHANGED <<seen, sent>>
    BY <1>1, <1>3
  <2> QED
    BY <1>0, <1>2, <2>1 DEF AnswerBy
<1>4. CASE Target \notin IdsOf(LoadScreens(missed))
  <2>1. FallBack
    BY <1>1, <1>4
  <2>2. GivesUp
    BY <1>0, <2>1 DEF FallBack, GivesUp
  <2> QED
    BY <1>0, <1>2, <2>2
<1> QED
  BY <1>3, <1>4

(* THE LOCAL PROVIDER *)

(* The decorations a request takes from the list it names. *)
Takes(id, what) ==
  \/ req.op = "remove" /\ id = req.id /\ what = req.symbol
  \/ req.op = "pin" /\ ~req.flag /\ id = req.id /\ what = req.symbol
  \/ req.op = "archive" /\ ~req.flag /\ id = req.id /\ what = "archived"
  \/ req.op = "transfer" /\ id \in {req.id, req.to} /\ what = req.symbol
  \/ req.op = "delete" /\ id = req.id

LocalScreen(s) ==
  CASE req.op = "archive" -> [s EXCEPT !.archived = req.flag]
    [] req.op = "pin"     -> [s EXCEPT !.rows = Pinned(@, req.symbol, req.flag)]
    [] OTHER              -> Edited(s)

LEMMA EditedOnce ==
  ASSUME RequestTyped, NEW rows \in Seq(RowsType), RowsNeeded \subseteq Symbols(rows),
         EachOnce(rows), req.op # "pin"
  PROVE  EachOnce(EditedRows(rows))
<1>1. CASE req.op = "add"
  <2>1. EditedRows(rows) = Added(rows, req.symbol) /\ req.symbol \in SymbolSet
    BY <1>1 DEF EditedRows, RequestTyped
  <2> QED
    BY <2>1, AddedRows DEF RowsType
<1>2. CASE req.op = "remove"
  <2>1. EditedRows(rows) = Removed(rows, req.symbol)
    BY <1>2 DEF EditedRows
  <2> QED
    BY <2>1, RemovedRows DEF RowsType
<1>3. CASE req.op = "move"
  <2>1. EditedRows(rows) = Moved(rows, req.symbol, req.before) /\ req.symbol \in Symbols(rows)
    BY <1>3 DEF EditedRows, RowsNeeded
  <2> QED
    BY <2>1, MovedRows DEF RowsType
<1>4. CASE req.op = "transfer"
  <2>1. EditedRows(rows) = Taken(rows, req.symbol) /\ req.symbol \in Symbols(rows)
    BY <1>4 DEF EditedRows, RowsNeeded
  <2> QED
    BY <2>1, TakenRows DEF RowsType
<1>5. CASE req.op \notin {"add", "remove", "pin", "move", "transfer"}
  <2>1. EditedRows(rows) = rows
    BY <1>5 DEF EditedRows
  <2> QED
    BY <2>1
<1> QED
  BY <1>1, <1>2, <1>3, <1>4, <1>5

LEMMA LocalScreenIs ==
  ASSUME RequestTyped, NEW s \in Screens, RowsNeeded \subseteq Symbols(s.rows),
         req.op \notin {"none", "create", "delete"}
  PROVE  LET new == LocalScreen(s)
         IN  /\ new \in Screens /\ new.id = s.id
             /\ \A what : Decorated(s, what) /\ ~Takes(req.id, what) => Decorated(new, what)
             /\ req.op = "archive" /\ req.flag => Decorated(new, "archived")
             /\ req.op = "pin" /\ req.flag => Decorated(new, req.symbol)
             /\ EachOnce(s.rows) => EachOnce(new.rows)
<1> DEFINE new == LocalScreen(s)
           rows == s.rows
<1>0. rows \in Seq(RowsType)
  BY DEF Screens, RowsType, RowSet
<1>a. \A what : Row(what, TRUE).symbol = what /\ Row(what, TRUE).pinned = TRUE
  BY DEF Row
<1>1. CASE req.op = "archive"
  <2>1. req.flag \in BOOLEAN
    BY <1>1 DEF RequestTyped
  <2>2. new = [s EXCEPT !.archived = req.flag]
    BY <1>1 DEF LocalScreen
  <2> HIDE DEF new
  <2>3. /\ new \in Screens /\ new.id = s.id /\ new.rows = s.rows
        /\ new.archived = req.flag
    BY <2>1, <2>2 DEF Screens, RowsType, RowSet
  <2>4. ASSUME NEW what, Decorated(s, what), ~Takes(req.id, what)
        PROVE  Decorated(new, what)
    <3>1. CASE what = "archived"
      <4>1. req.flag
        BY <1>1, <2>4, <3>1 DEF Takes
      <4> QED
        BY <2>3, <3>1, <4>1 DEF Decorated
    <3>2. CASE what # "archived"
      BY <2>3, <2>4, <3>2 DEF Decorated
    <3> QED
      BY <3>1, <3>2
  <2>5. req.flag => Decorated(new, "archived")
    BY <2>3 DEF Decorated
  <2> QED
    BY <1>1, <2>3, <2>4, <2>5 DEF new
<1>2. CASE req.op = "pin"
  <2> DEFINE pinned == Pinned(rows, req.symbol, req.flag)
  <2>1. req.flag \in BOOLEAN /\ req.symbol \in Symbols(rows)
    BY <1>2 DEF RequestTyped, RowsNeeded
  <2>2. /\ pinned \in Seq(RowsType)
        /\ Row(req.symbol, req.flag) \in Range(pinned)
        /\ \A r \in Range(rows) : r.symbol # req.symbol => r \in Range(pinned)
    BY <1>0, <2>1, PinnedRange DEF RowsType
  <2>3. EachOnce(rows) => EachOnce(pinned)
    BY <1>0, <2>1, PinnedRows DEF RowsType
  <2>4. new = [s EXCEPT !.rows = pinned]
    BY <1>2 DEF LocalScreen
  <2> HIDE DEF new, pinned, rows
  <2>5. /\ new \in Screens /\ new.id = s.id /\ new.rows = pinned
        /\ new.archived = s.archived
    BY <2>2, <2>4 DEF Screens, RowsType, RowSet
  <2>6. ASSUME NEW what, Decorated(s, what), ~Takes(req.id, what)
        PROVE  Decorated(new, what)
    <3>1. CASE what = "archived" /\ s.archived
      BY <2>5, <3>1 DEF Decorated
    <3>2. CASE what \in SymbolSet /\ Row(what, TRUE) \in Range(rows)
      <4>1. CASE what # req.symbol
        BY <1>a, <2>2, <2>5, <3>2, <4>1 DEF Decorated
      <4>2. CASE what = req.symbol
        <5>1. req.flag = TRUE
          BY <1>2, <2>1, <2>6, <4>2 DEF Takes
        <5> QED
          BY <2>2, <2>5, <3>2, <4>2, <5>1 DEF Decorated
      <4> QED
        BY <4>1, <4>2
    <3> QED
      BY <2>6, <3>1, <3>2 DEF Decorated, rows
  <2>7. req.flag => Decorated(new, req.symbol)
    <3>1. req.symbol \in SymbolSet
      BY <1>2 DEF RequestTyped
    <3>2. CASE req.flag = TRUE
      BY <2>2, <2>5, <3>1, <3>2 DEF Decorated
    <3>3. CASE req.flag = FALSE
      BY <3>3
    <3> QED
      BY <2>1, <3>2, <3>3
  <2> QED
    BY <1>2, <2>3, <2>5, <2>6, <2>7 DEF new, rows
<1>3. CASE req.op \notin {"archive", "pin"}
  <2> DEFINE edited == EditedRows(rows)
  <2>1. new = Edited(s)
    BY <1>3 DEF LocalScreen
  <2>2. /\ new \in Screens /\ new.id = s.id /\ new.archived = s.archived /\ new.rows = edited
    BY <2>1, EditedScreen
  <2>3. \A r \in Range(rows) :
           \/ r \in Range(edited)
           \/ req.op \in {"remove", "transfer"} /\ r.symbol = req.symbol
           \/ req.op = "pin" /\ r.symbol = req.symbol /\ req.symbol \in Symbols(edited)
    BY <1>0, EditedRange
  <2>4. EachOnce(rows) => EachOnce(edited)
    BY <1>0, <1>3, EditedOnce
  <2> HIDE DEF new, edited, rows
  <2>5. ASSUME NEW what, Decorated(s, what), ~Takes(req.id, what)
        PROVE  Decorated(new, what)
    <3>1. CASE what = "archived" /\ s.archived
      BY <2>2, <3>1 DEF Decorated
    <3>2. CASE what \in SymbolSet /\ Row(what, TRUE) \in Range(rows)
      <4>1. Row(what, TRUE) \in Range(edited)
        BY <1>a, <1>3, <2>3, <2>5, <3>2 DEF Takes
      <4> QED
        BY <2>2, <3>2, <4>1 DEF Decorated
    <3> QED
      BY <2>5, <3>1, <3>2 DEF Decorated, rows
  <2> QED
    BY <1>3, <2>2, <2>4, <2>5 DEF new, rows
<1> QED
  BY <1>1, <1>2, <1>3

LEMMA CarriesFirst ==
  ASSUME NEW lists \in Seq(Screens), NEW id, NEW what
  PROVE  Carries(lists, id, what) <=> id \in IdsOf(lists) /\ Decorated(First(lists, id), what)
<1>1. /\ id \in IdsOf(lists) => Find(lists, id) # 0
      /\ Find(lists, id) # 0 => id \in IdsOf(lists)
  BY FirstFacts
<1> QED
  BY <1>1 DEF Carries, First

(* A list takes the place of the first one with its id and keeps the       *)
(* decorations for which keeps holds.                                      *)
LEMMA UpsertKeeps ==
  ASSUME NEW lists \in Seq(Screens), NEW l \in Screens, l.id \in IdsOf(lists),
         NEW what, NEW id, Carries(lists, id, what),
         id = l.id => (Decorated(First(lists, id), what) => Decorated(l, what))
  PROVE  Carries(Upsert(lists, l), id, what)
<1> DEFINE new == Upsert(lists, l)
<1>1. /\ new \in Seq(Screens)
      /\ IdsOf(new) = IdsOf(lists) \cup {l.id}
      /\ First(new, l.id) = l
      /\ \A i \in IdsOf(lists) : i # l.id => First(new, i) = First(lists, i)
  BY UpsertedLists
<1>2. id \in IdsOf(lists) /\ Decorated(First(lists, id), what)
  BY CarriesFirst
<1> HIDE DEF new
<1>3. id \in IdsOf(new) /\ Decorated(First(new, id), what)
  BY <1>1, <1>2
<1>4. Carries(new, id, what)
  BY <1>1, <1>3, CarriesFirst
<1> QED
  BY <1>4 DEF new

AllOnce(lists) == \A k \in DOMAIN lists : EachOnce(lists[k].rows)

LEMMA AllOnceRange ==
  ASSUME NEW lists
  PROVE  AllOnce(lists) <=> \A l \in Range(lists) : EachOnce(l.rows)
BY DEF AllOnce, Range

LEMMA LoadDataIs ==
  ASSUME TypeInv
  PROVE  /\ LoadData \in Seq(Screens)
         /\ IdsOf(LoadData) \subseteq IdsOf(overlay) \cup OldIds
         /\ \A id, what : Carries(overlay, id, what) => Carries(LoadData, id, what)
         /\ AllOnce(overlay) => AllOnce(LoadData)
<1>1. overlay \in Seq(Screens) /\ Demo \in Seq(Screens)
  BY TypeFacts, ListsAssumption
<1>2. CASE overlay = <<>>
  <2>1. LoadData = Demo
    BY <1>2 DEF LoadData
  <2>2. IdsOf(Demo) \subseteq OldIds
    BY DEF OldIds
  <2>3. DOMAIN overlay = {}
    BY <1>2
  <2>4. IdsOf(overlay) = {}
    BY <2>3 DEF IdsOf
  <2>5. \A id, what : ~Carries(overlay, id, what)
    BY <1>1, <2>4, CarriesFirst
  <2>6. AllOnce(Demo)
    BY OnceAssumption, AllOnceRange
  <2> QED
    BY <1>1, <2>1, <2>2, <2>5, <2>6
<1>3. CASE overlay # <<>>
  <2>1. LoadData = overlay
    BY <1>3 DEF LoadData
  <2> QED
    BY <1>1, <2>1
<1> QED
  BY <1>2, <1>3

LocalFacts(new) ==
  /\ new \in Seq(Screens)
  /\ IdsOf(new) \subseteq IdsOf(overlay) \cup OldIds
  /\ \A id, what : Carries(overlay, id, what) /\ ~Takes(id, what) => Carries(new, id, what)
  /\ req.op = "archive" /\ req.flag => Carries(new, req.id, "archived")
  /\ req.op = "pin" /\ req.flag => Carries(new, req.id, req.symbol)
  /\ AllOnce(overlay) => AllOnce(new)

LEMMA LocallyReplaced ==
  ASSUME TypeInv, req.op \notin {"none", "create", "delete"},
         Find(LoadData, req.id) # 0,
         RowsNeeded \subseteq Symbols(LoadData[Find(LoadData, req.id)].rows)
  PROVE  LocalFacts(Upsert(LoadData, LocalScreen(First(LoadData, req.id))))
<1> DEFINE data == LoadData
           s == First(data, req.id)
           l == LocalScreen(s)
           new == Upsert(data, l)
<1>1. /\ data \in Seq(Screens)
      /\ IdsOf(data) \subseteq IdsOf(overlay) \cup OldIds
      /\ \A id, what : Carries(overlay, id, what) => Carries(data, id, what)
      /\ AllOnce(overlay) => AllOnce(data)
  BY LoadDataIs
<1>2. RowsNeeded \subseteq Symbols(s.rows)
  BY DEF First
<1> HIDE DEF data
<1>3. req.id \in IdsOf(data) /\ s.id = req.id /\ s \in Range(data) /\ s \in Screens
  BY <1>1, FirstFacts DEF data
<1> HIDE DEF s
<1>4. /\ l \in Screens /\ l.id = req.id
      /\ \A what : Decorated(s, what) /\ ~Takes(req.id, what) => Decorated(l, what)
      /\ req.op = "archive" /\ req.flag => Decorated(l, "archived")
      /\ req.op = "pin" /\ req.flag => Decorated(l, req.symbol)
      /\ EachOnce(s.rows) => EachOnce(l.rows)
  <2>1. RequestTyped
    BY DEF TypeInv
  <2> QED
    BY <1>2, <1>3, <2>1, LocalScreenIs
<1> HIDE DEF l
<1>5. /\ new \in Seq(Screens)
      /\ IdsOf(new) = IdsOf(data) \cup {l.id}
      /\ First(new, l.id) = l
      /\ Range(new) \subseteq Range(data) \cup {l}
  BY <1>1, <1>4, UpsertedLists
<1>6. IdsOf(new) \subseteq IdsOf(overlay) \cup OldIds
  BY <1>1, <1>3, <1>4, <1>5
<1>7. ASSUME NEW id, NEW what, Carries(overlay, id, what), ~Takes(id, what)
      PROVE  Carries(new, id, what)
  <2>1. Carries(data, id, what)
    BY <1>1, <1>7
  <2>2. id = l.id => (Decorated(First(data, id), what) => Decorated(l, what))
    BY <1>4, <1>7 DEF s
  <2>3. l.id \in IdsOf(data)
    BY <1>3, <1>4
  <2> QED
    BY <1>1, <1>4, <2>1, <2>2, <2>3, UpsertKeeps
<1>8. req.op = "archive" /\ req.flag => Carries(new, req.id, "archived")
  BY <1>4, <1>5, CarriesFirst
<1>9. AllOnce(overlay) => AllOnce(new)
  BY <1>1, <1>3, <1>4, <1>5, AllOnceRange
<1>10. req.op = "pin" /\ req.flag => Carries(new, req.id, req.symbol)
  BY <1>4, <1>5, CarriesFirst
<1> QED
  BY <1>5, <1>6, <1>7, <1>8, <1>9, <1>10 DEF LocalFacts, s, l, data

LEMMA LocallyDoes ==
  ASSUME TypeInv, req.op # "none", ~LocallyThrows
  PROVE  LocalFacts(LocallyEdited)
<1> DEFINE data == LoadData
           k == Find(data, req.id)
           s == data[k]
           new == LocallyEdited
<1>1. /\ data \in Seq(Screens)
      /\ IdsOf(data) \subseteq IdsOf(overlay) \cup OldIds
      /\ \A id, what : Carries(overlay, id, what) => Carries(data, id, what)
      /\ AllOnce(overlay) => AllOnce(data)
  BY LoadDataIs
<1>2. /\ RequestTyped
      /\ req.op \in {"create", "rename", "add", "remove", "pin", "move",
                     "archive", "delete", "transfer"}
  BY DEF TypeInv, RequestTyped
<1>3. req.op # "create" =>
        /\ k # 0 /\ RowsNeeded \subseteq Symbols(s.rows)
        /\ req.op = "transfer" => Find(data, req.to) # 0
  BY DEF LocallyThrows
<1>4. req.op # "create" =>
        /\ k \in DOMAIN data /\ req.id \in IdsOf(data) /\ s = First(data, req.id)
        /\ s.id = req.id /\ s \in Screens
  BY <1>1, <1>3, FirstFacts DEF First
<1>5. CASE req.op = "create"
  <2> DEFINE l == [id |-> Slug[req.name], name |-> req.name, archived |-> FALSE, rows |-> <<>>]
  <2>1. new = Append(data, l)
    BY <1>5 DEF LocallyEdited
  <2>2. req.name \in Names
    BY <1>2, <1>5 DEF RequestTyped
  <2>3. Slug[req.name] \in OldIds
    <3>1. Slug[req.name] \in Range(Slug)
      BY <2>2, ListsAssumption
    <3> QED
      BY <3>1 DEF OldIds
  <2>4. l \in Screens /\ l.id \in OldIds /\ EachOnce(l.rows)
    <3>1. <<>> \in Seq([symbol : SymbolSet, pinned : BOOLEAN]) /\ DOMAIN <<>> = {}
      BY EmptySeq
    <3>2. l.id = Slug[req.name] /\ l.rows = <<>>
      OBVIOUS
    <3>3. EachOnce(<<>>)
      BY <3>1 DEF EachOnce
    <3> QED
      BY <2>2, <2>3, <3>1, <3>2, <3>3 DEF Screens, Ids
  <2> HIDE DEF l, new, data
  <2>5. /\ Append(data, l) \in Seq(Screens)
        /\ IdsOf(Append(data, l)) = IdsOf(data) \cup {l.id}
        /\ \A id \in IdsOf(data) : Find(Append(data, l), id) = Find(data, id)
        /\ \A i \in DOMAIN data : i \in DOMAIN Append(data, l) /\ Append(data, l)[i] = data[i]
    BY <1>1, <2>4, AppendedLists
  <2>6. Range(Append(data, l)) = Range(data) \cup {l}
    BY <1>1, <2>4, AppendedRange
  <2>7. ASSUME NEW id, NEW what, Carries(data, id, what) PROVE Carries(new, id, what)
    <3>1. id \in IdsOf(data) /\ Decorated(First(data, id), what) /\ Find(data, id) \in DOMAIN data
      BY <1>1, <2>7, CarriesFirst, FirstFacts
    <3>2. id \in IdsOf(new) /\ First(new, id) = First(data, id)
      BY <2>1, <2>5, <3>1 DEF First
    <3> QED
      BY <2>1, <2>5, <3>1, <3>2, CarriesFirst
  <2>8. AllOnce(overlay) => AllOnce(new)
    BY <1>1, <2>1, <2>4, <2>6, AllOnceRange
  <2>9. IdsOf(new) \subseteq IdsOf(overlay) \cup OldIds
    BY <1>1, <2>1, <2>4, <2>5
  <2> QED
    BY <1>1, <1>5, <2>1, <2>5, <2>7, <2>8, <2>9 DEF LocalFacts, new
<1>6. CASE req.op = "delete"
  <2>1. new = RemoveAt(data, k)
    BY <1>6 DEF LocallyEdited
  <2>2. k \in DOMAIN data /\ data[k].id = req.id
    BY <1>4, <1>6
  <2> HIDE DEF new, data, k
  <2>3. /\ RemoveAt(data, k) \in Seq(Screens)
        /\ \A i \in IdsOf(data) : i # data[k].id =>
             i \in IdsOf(RemoveAt(data, k)) /\ First(RemoveAt(data, k), i) = First(data, i)
        /\ Range(RemoveAt(data, k)) \subseteq Range(data)
        /\ IdsOf(RemoveAt(data, k)) \subseteq IdsOf(data)
    BY <1>1, <2>2, RemovedList
  <2>4. ASSUME NEW id, NEW what, Carries(data, id, what), ~Takes(id, what)
        PROVE  Carries(new, id, what)
    <3>1. id \in IdsOf(data) /\ Decorated(First(data, id), what)
      BY <1>1, <2>4, CarriesFirst
    <3>2. id # req.id
      BY <1>6, <2>4 DEF Takes
    <3>3. id \in IdsOf(new) /\ First(new, id) = First(data, id)
      BY <2>1, <2>2, <2>3, <3>1, <3>2
    <3> QED
      BY <2>1, <2>3, <3>1, <3>3, CarriesFirst
  <2>5. AllOnce(overlay) => AllOnce(new)
    BY <1>1, <2>1, <2>3, AllOnceRange
  <2>6. IdsOf(new) \subseteq IdsOf(overlay) \cup OldIds
    BY <1>1, <2>1, <2>3
  <2> QED
    BY <1>1, <1>6, <2>1, <2>3, <2>4, <2>5, <2>6 DEF LocalFacts, new
<1> DEFINE one == Upsert(data, LocalScreen(First(data, req.id)))
<1>7. ASSUME req.op \notin {"create", "delete"}
      PROVE  LocalFacts(one) /\ one = [data EXCEPT ![k] = LocalScreen(s)]
  <2>1. LocalFacts(one)
    BY <1>3, <1>7, LocallyReplaced
  <2>2. LocalScreen(s).id = req.id
    BY <1>2, <1>3, <1>4, <1>7, LocalScreenIs
  <2>3. one = [data EXCEPT ![k] = LocalScreen(s)]
    BY <1>3, <1>4, <1>7, <2>2 DEF Upsert
  <2> QED
    BY <2>1, <2>3
<1>8. CASE req.op \notin {"create", "delete", "transfer"}
  <2>1. new = [data EXCEPT ![k] = LocalScreen(s)]
    <3>1. CASE req.op = "archive"
      BY <3>1, <1>4 DEF LocallyEdited, LocalScreen
    <3>2. CASE req.op = "pin"
      BY <3>2, <1>4 DEF LocallyEdited, LocalScreen
    <3>3. CASE req.op \notin {"archive", "pin"}
      BY <1>8, <3>3 DEF LocallyEdited, LocalScreen
    <3> QED
      BY <3>1, <3>2, <3>3
  <2> QED
    BY <1>7, <1>8, <2>1
<1>9. CASE req.op = "transfer"
  <2> DEFINE to == Find(data, req.to)
             m == [one[to] EXCEPT !.rows = Added(@, req.symbol)]
  <2>1. LocalFacts(one) /\ one = [data EXCEPT ![k] = Edited(s)]
    BY <1>7, <1>9 DEF LocalScreen
  <2>2. new = [one EXCEPT ![to].rows = Added(@, req.symbol)]
    BY <1>9, <2>1 DEF LocallyEdited
  <2>3. new = [one EXCEPT ![to] = m]
    BY <2>2
  <2>4. /\ DOMAIN one = DOMAIN data /\ one \in Seq(Screens)
        /\ \A id : Find(one, id) = Find(data, id)
    <3>1. Edited(s) \in Screens /\ Edited(s).id = data[k].id
      BY <1>2, <1>3, <1>4, <1>9, EditedScreen
    <3>2. k \in DOMAIN data
      BY <1>4, <1>9
    <3> DEFINE e == Edited(s)
    <3>3. e \in Screens /\ e.id = data[k].id
      BY <3>1
    <3> HIDE DEF data, k, e
    <3>4. /\ DOMAIN [data EXCEPT ![k] = e] = DOMAIN data /\ [data EXCEPT ![k] = e] \in Seq(Screens)
      BY <1>1, <3>2, <3>3, ReplacedLists
    <3>5. \A id : Find([data EXCEPT ![k] = e], id) = Find(data, id)
      BY <1>1, <3>2, <3>3, ReplacedLists
    <3> QED
      BY <2>1, <3>4, <3>5 DEF e
  <2>5. to # 0 /\ Find(one, req.to) = to /\ req.symbol \in SymbolSet
    BY <1>2, <1>3, <1>9, <2>4 DEF RequestTyped
  <2> HIDE DEF new, one, data, k, s, to
  <2>6. /\ to \in DOMAIN one /\ one[to].id = req.to /\ one[to] \in Screens /\ one[to] \in Range(one)
        /\ one[to] = First(one, req.to) /\ req.to \in IdsOf(one)
    BY <2>4, <2>5, FirstFacts DEF First
  <2> DEFINE t == one[to]
             rows == Added(t.rows, req.symbol)
  <2>7. /\ rows \in Seq(RowsType) /\ Range(t.rows) \subseteq Range(rows)
        /\ EachOnce(t.rows) => EachOnce(rows)
    <3>1. t.rows \in Seq(RowsType)
      BY <2>6 DEF Screens, RowsType, RowSet
    <3>2. rows \in Seq(RowsType)
      BY <2>5, <3>1, AddedRange DEF RowsType
    <3>3. Range(t.rows) \subseteq Range(rows)
      BY <2>5, <3>1, AddedRange DEF RowsType
    <3>4. EachOnce(t.rows) => EachOnce(rows)
      BY <2>5, <3>1, AddedRows DEF RowsType
    <3> QED
      BY <3>2, <3>3, <3>4
  <2>8. m = [t EXCEPT !.rows = rows]
    OBVIOUS
  <2> HIDE DEF t, rows, m
  <2>9. m \in Screens /\ m.id = req.to /\ m.archived = t.archived /\ m.rows = rows
    BY <2>6, <2>7, <2>8 DEF Screens, RowsType, RowSet, t
  <2>10. \A what : Decorated(t, what) => Decorated(m, what)
    BY <2>7, <2>9 DEF Decorated
  <2>11. new = Upsert(one, m)
    BY <2>3, <2>5, <2>9 DEF Upsert
  <2>12. /\ new \in Seq(Screens)
         /\ IdsOf(new) = IdsOf(one) \cup {m.id}
         /\ Range(new) \subseteq Range(one) \cup {m}
    BY <2>4, <2>9, <2>11, UpsertedLists
  <2>13. ASSUME NEW id, NEW what, Carries(overlay, id, what), ~Takes(id, what)
         PROVE  Carries(new, id, what)
    <3>1. Carries(one, id, what)
      BY <2>1, <2>13 DEF LocalFacts
    <3>2. id = m.id => (Decorated(First(one, id), what) => Decorated(m, what))
      BY <2>6, <2>9, <2>10 DEF t
    <3> QED
      BY <2>4, <2>6, <2>9, <2>11, <3>1, <3>2, UpsertKeeps
  <2>14. IdsOf(new) \subseteq IdsOf(overlay) \cup OldIds
    BY <2>1, <2>6, <2>9, <2>12 DEF LocalFacts
  <2>15. AllOnce(overlay) => AllOnce(new)
    BY <2>1, <2>6, <2>7, <2>9, <2>12, AllOnceRange DEF LocalFacts, t
  <2> QED
    BY <1>9, <2>12, <2>13, <2>14, <2>15 DEF LocalFacts, new
<1> QED
  BY <1>5, <1>6, <1>8, <1>9

LEMMA ServeLocallyDoes ==
  ASSUME TypeInv, ServeLocally
  PROVE  /\ pc = "local" /\ pc' = "idle"
         /\ UNCHANGED <<remote, req, seen, sent, troubled, raced, doubled, ops, troubles>>
         /\ answer'.by \in {"local", "error"}
         /\ \/ UNCHANGED <<overlay, kept>>
            \/ /\ LocalFacts(overlay')
               /\ kept' = kept \cup LocallyKept
<1>0. /\ pc = "local"
      /\ UNCHANGED <<remote, req, seen, sent, troubled, raced, doubled, ops, troubles>>
      /\ IF LocallyThrows
         THEN AnswerBy("error", <<>>) /\ UNCHANGED <<overlay, kept>>
         ELSE /\ overlay' = LocallyEdited
              /\ kept' = kept \cup LocallyKept
              /\ AnswerBy("local", IF req.op = "create" THEN Slug[req.name] ELSE req.id)
  BY DEF ServeLocally
<1>1. CASE LocallyThrows
  BY <1>0, <1>1 DEF AnswerBy
<1>2. CASE ~LocallyThrows
  <2>1. req.op # "none"
    BY <1>0 DEF TypeInv, StagesInOrder
  <2>2. LocalFacts(overlay')
    BY <1>0, <1>2, <2>1, LocallyDoes
  <2>3. pc' = "idle" /\ answer'.by = "local"
    BY <1>0, <1>2 DEF AnswerBy
  <2> QED
    BY <1>0, <1>2, <2>2, <2>3
<1> QED
  BY <1>1, <1>2

(* The decorations it promises are of the list it was asked for. *)
LEMMA LocallyKeptIs ==
  ASSUME NEW d \in LocallyKept
  PROVE  /\ d = Pin(req.id, d.what) /\ d.id = req.id /\ req.flag
         /\ \/ req.op = "archive" /\ d.what = "archived"
            \/ req.op = "pin" /\ d.what = req.symbol /\ HasAtTda(req.id, req.symbol)
<1>1. CASE req.op = "archive" /\ req.flag
  <2>1. d = Archive(req.id)
    BY <1>1 DEF LocallyKept
  <2> QED
    BY <1>1, <2>1 DEF Archive, Pin
<1>2. CASE req.op = "pin" /\ req.flag /\ HasAtTda(req.id, req.symbol)
  <2>1. d = Pin(req.id, req.symbol)
    BY <1>2 DEF LocallyKept
  <2> QED
    BY <1>2, <2>1 DEF Pin
<1> QED
  BY <1>1, <1>2 DEF LocallyKept

(* Whatever is left of the overlay, the request goes to the local provider,*)
(* back to the client, or down with the server.                            *)
LEMMA SaveFailsDoes ==
  ASSUME TypeInv, SaveFails
  PROVE  /\ pc \in {"saving", "local"} /\ Counted
         /\ UNCHANGED <<remote, req, seen, sent, raced, doubled, ops>>
         /\ \/ UNCHANGED <<overlay, kept>>
            \/ overlay' = <<>> /\ kept' = {}
         /\ \/ pc' = "local" /\ answer' = answer
            \/ pc' \in {"idle", "down"} /\ answer'.by \in {"error", "none"}
<1>1. /\ Saves /\ Trouble(TRUE)
      /\ UNCHANGED <<remote, req, raced, doubled, ops>>
      /\ \/ UNCHANGED <<overlay, kept>>
         \/ overlay' = <<>> /\ kept' = {}
      /\ \/ pc = "saving" /\ FallBack
         \/ pc = "local" /\ AnswerBy("error", <<>>) /\ UNCHANGED <<seen, sent>>
         \/ pc' = "down" /\ answer' = NoAnswer /\ UNCHANGED <<seen, sent>>
  BY DEF SaveFails
<1>2. pc \in {"saving", "local"}
  BY <1>1 DEF Saves
<1>3. TRUE \in BOOLEAN
  OBVIOUS
<1>4. troubles' \in 0..MaxTroubles /\ troubled' \in BOOLEAN /\ (troubled => troubled')
  BY <1>1, <1>3, TroubleDoes
<1>5. NoAnswer.by = "none"
  BY DEF NoAnswer
<1>6. CASE pc = "saving" /\ FallBack
  BY <1>1, <1>2, <1>4, <1>6 DEF FallBack, Counted
<1>7. CASE pc = "local" /\ AnswerBy("error", <<>>) /\ UNCHANGED <<seen, sent>>
  <2>1. pc' = "idle" /\ answer'.by = "error"
    BY <1>7 DEF AnswerBy
  <2> QED
    BY <1>1, <1>2, <1>4, <1>7, <2>1 DEF Counted
<1>8. CASE pc' = "down" /\ answer' = NoAnswer /\ UNCHANGED <<seen, sent>>
  BY <1>1, <1>2, <1>4, <1>5, <1>8 DEF Counted
<1> QED
  BY <1>1, <1>6, <1>7, <1>8

LEMMA KnownIds ==
  ASSUME TypeInv
  PROVE  Known \subseteq Ids
<1> DEFINE view == LoadScreens({})
<1>1. IsLoad(view, overlay, remote, {}) /\ overlay \in Seq(Screens)
  BY TypeFacts, LoadScreensLoads
<1>2. View = view
  BY DEF View
<1> HIDE DEF view
<1>3. view \in Seq(Screens)
  BY <1>1 DEF IsLoad
<1>4. \A i \in DOMAIN view : view[i].id \in Ids
  <2>1. \A i \in DOMAIN view : view[i] \in Screens
    BY <1>3, ElementsOfSeq
  <2> QED
    BY <2>1 DEF Screens
<1>5. \A i \in DOMAIN overlay : overlay[i].id \in Ids
  BY TypeFacts DEF Screens
<1> QED
  BY <1>2, <1>4, <1>5 DEF Known, IdsOf

LEMMA CallDoes ==
  ASSUME TypeInv, Call
  PROVE  /\ pc = "idle" /\ ops < MaxOps /\ ops' = ops + 1
         /\ RequestTyped' /\ req'.op # "none"
         /\ kept' \subseteq kept /\ Undone(req)' \cap kept' = {}
         /\ pc' = IF req'.op = "create" THEN "sending"
                  ELSE IF req'.op = "archive" THEN "local" ELSE "resolving"
         /\ troubled' = FALSE /\ raced' = FALSE
         /\ seen' = <<>> /\ sent' = 0 /\ answer' = NoAnswer
         /\ UNCHANGED <<remote, overlay, doubled, troubles>>
<1>0. /\ pc = "idle" /\ ops < MaxOps /\ ops' = ops + 1
      /\ troubled' = FALSE /\ raced' = FALSE
      /\ seen' = <<>> /\ sent' = 0 /\ answer' = NoAnswer
      /\ UNCHANGED <<remote, overlay, doubled, troubles>>
  BY DEF Call
<1>1. PICK r \in Requests :
        /\ req' = r
        /\ kept' = kept \ Undone(r)
        /\ pc' = CASE r.op = "create"  -> "sending"
                   [] r.op = "archive" -> "local"
                   [] OTHER            -> "resolving"
  BY DEF Call
<1>2. Known \subseteq Ids
  BY KnownIds
<1>3. \/ r \in [op : {"create"}, name : Names]
      \/ r \in [op : {"rename"}, id : Known, name : Names]
      \/ r \in [op : {"add", "remove"}, id : Known, symbol : SymbolSet]
      \/ r \in [op : {"pin"}, id : Known, symbol : SymbolSet, flag : BOOLEAN]
      \/ r \in [op : {"move"}, id : Known, symbol : SymbolSet, before : SymbolSet]
      \/ r \in [op : {"archive"}, id : Known, flag : BOOLEAN]
      \/ r \in [op : {"delete"}, id : Known]
      \/ r \in [op : {"transfer"}, id : Known, to : Known, symbol : SymbolSet]
  <2>1. r \in Requests
    OBVIOUS
  <2> QED
    BY <2>1 DEF Requests
<1>4. RequestTyped' /\ req'.op # "none"
  <2>1. CASE r \in [op : {"create"}, name : Names]
    BY <1>1, <1>2, <2>1 DEF RequestTyped
  <2>2. CASE r \in [op : {"rename"}, id : Known, name : Names]
    BY <1>1, <1>2, <2>2 DEF RequestTyped
  <2>3. CASE r \in [op : {"add", "remove"}, id : Known, symbol : SymbolSet]
    BY <1>1, <1>2, <2>3 DEF RequestTyped
  <2>4. CASE r \in [op : {"pin"}, id : Known, symbol : SymbolSet, flag : BOOLEAN]
    BY <1>1, <1>2, <2>4 DEF RequestTyped
  <2>5. CASE r \in [op : {"move"}, id : Known, symbol : SymbolSet, before : SymbolSet]
    BY <1>1, <1>2, <2>5 DEF RequestTyped
  <2>6. CASE r \in [op : {"archive"}, id : Known, flag : BOOLEAN]
    BY <1>1, <1>2, <2>6 DEF RequestTyped
  <2>7. CASE r \in [op : {"delete"}, id : Known]
    BY <1>1, <1>2, <2>7 DEF RequestTyped
  <2>8. CASE r \in [op : {"transfer"}, id : Known, to : Known, symbol : SymbolSet]
    BY <1>1, <1>2, <2>8 DEF RequestTyped
  <2> QED
    BY <1>3, <2>1, <2>2, <2>3, <2>4, <2>5, <2>6, <2>7, <2>8
<1>5. pc' = IF r.op = "create" THEN "sending"
            ELSE IF r.op = "archive" THEN "local" ELSE "resolving"
  BY <1>1
<1>6. Undone(req)' \cap kept' = {}
  <2>1. kept' \cap Undone(r) = {} /\ kept' \subseteq kept
    BY <1>1
  <2>2. CASE r.op # "delete"
    <3>1. Undone(req)' = Undone(r)
      BY <1>1, <2>2 DEF Undone, Pin, Archive
    <3> QED
      BY <2>1, <3>1
  <2>3. CASE r.op = "delete"
    <3>1. Undone(r) = {d \in kept : d.id = r.id} /\ Undone(req)' = {d \in kept' : d.id = r.id}
      BY <1>1, <2>3 DEF Undone
    <3> QED
      BY <2>1, <3>1
  <2> QED
    BY <2>2, <2>3
<1>7. kept' \subseteq kept
  BY <1>1
<1> QED
  BY <1>0, <1>1, <1>4, <1>5, <1>6, <1>7

(* TDA's lists after one of them has changed elsewhere. *)
ListChanged(k, l) ==
  /\ l \in RemoteLists /\ l.id = remote[k].id /\ l.name = remote[k].name
  /\ SymbolsOnce(remote[k]) => SymbolsOnce(l)
  /\ remote' = [remote EXCEPT ![k] = l]
  /\ \/ Range(remote[k].symbols) \subseteq Range(l.symbols) /\ kept' = kept
     \/ \E symbol : /\ Range(l.symbols) = Range(remote[k].symbols) \ {symbol}
                    /\ kept' = kept \ {Pin(l.id, symbol)}

LEMMA ElsewhereDoes ==
  ASSUME TypeInv, Elsewhere
  PROVE  /\ UNCHANGED <<overlay, service, troubled, doubled, ops>>
         /\ raced' = TRUE /\ troubles' \in 0..MaxTroubles
         /\ \E k \in DOMAIN remote :
              \/ \E l : ListChanged(k, l)
              \/ /\ remote' = RemoveAt(remote, k)
                 /\ kept' = {d \in kept : d.id # remote[k].id}
<1>0. /\ UNCHANGED <<overlay, service, troubled, doubled, ops>>
      /\ raced' = TRUE /\ troubles < MaxTroubles /\ troubles' = troubles + 1
  BY DEF Elsewhere
<1>1. troubles' \in 0..MaxTroubles
  BY <1>0, TypeFacts
<1>2. PICK k \in DOMAIN remote :
        \/ \E symbol \in SymbolSet \ Range(remote[k].symbols) :
             /\ remote' = [remote EXCEPT ![k].symbols = Append(@, symbol)]
             /\ UNCHANGED kept
        \/ \E symbol \in Range(remote[k].symbols) :
             /\ remote' = [remote EXCEPT ![k].symbols =
                             Sifted(@, {i \in DOMAIN @ : @[i] # symbol})]
             /\ kept' = kept \ {Pin(remote[k].id, symbol)}
        \/ /\ remote' = RemoveAt(remote, k)
           /\ kept' = {d \in kept : d.id # remote[k].id}
  BY DEF Elsewhere
<1> DEFINE list == remote[k]
           q == list.symbols
           with(new) == [list EXCEPT !.symbols = new]
<1>3. list \in RemoteLists /\ q \in Seq(SymbolSet)
  BY TypeFacts DEF RemoteLists
<1>4. ASSUME NEW new \in Seq(SymbolSet)
      PROVE  /\ with(new) \in RemoteLists /\ with(new).id = list.id /\ with(new).name = list.name
             /\ with(new).symbols = new
  BY <1>3, <1>4 DEF RemoteLists
<1>5. ASSUME NEW symbol \in SymbolSet \ Range(q),
             remote' = [remote EXCEPT ![k].symbols = Append(@, symbol)],
             UNCHANGED kept
      PROVE  \E l : ListChanged(k, l)
  <2> DEFINE new == Append(q, symbol)
  <2>1. remote' = [remote EXCEPT ![k] = with(new)]
    BY <1>5
  <2>2. new \in Seq(SymbolSet) /\ Range(new) = Range(q) \cup {symbol}
    <3> HIDE DEF q
    <3> QED
      BY <1>3, AppendedRange
  <2>3. SymbolsOnce(list) => \A i, j \in DOMAIN new : new[i] = new[j] => i = j
    <3> HIDE DEF q
    <3>1. /\ Len(new) = Len(q) + 1 /\ new[Len(q) + 1] = symbol
          /\ \A i \in 1..Len(q) : new[i] = q[i]
      BY <1>3, AppendProperties
    <3>2. Len(q) \in Nat /\ DOMAIN q = 1..Len(q) /\ DOMAIN new = 1..(Len(q) + 1)
      BY <1>3, <2>2, <3>1, LenProperties
    <3>3. \A i \in DOMAIN q : q[i] # symbol
      BY DEF Range
    <3>4. (\A i, j \in DOMAIN q : q[i] = q[j] => i = j)
            => \A i, j \in DOMAIN new : new[i] = new[j] => i = j
      <4> HIDE DEF new
      <4>1. \A i \in DOMAIN new : i = Len(q) + 1 \/ i \in DOMAIN q
        BY <3>2
      <4>2. \A i \in DOMAIN q : new[i] = q[i]
        BY <3>1, <3>2
      <4> QED
        BY <3>1, <3>3, <4>1, <4>2
    <3> QED
      BY <3>4 DEF SymbolsOnce, q
  <2> HIDE DEF new
  <2>4. with(new) \in RemoteLists /\ with(new).id = list.id /\ with(new).name = list.name
        /\ with(new).symbols = new
    BY <1>4, <2>2
  <2> DEFINE l == with(new)
  <2> HIDE DEF l
  <2>5. /\ l \in RemoteLists /\ l.id = list.id /\ l.name = list.name /\ l.symbols = new
        /\ remote' = [remote EXCEPT ![k] = l]
    BY <2>1, <2>4 DEF l
  <2>6. ListChanged(k, l)
    BY <1>5, <2>2, <2>3, <2>5 DEF ListChanged, SymbolsOnce
  <2> QED
    BY <2>6
<1>6. ASSUME NEW symbol \in Range(q),
             remote' = [remote EXCEPT ![k].symbols = Sifted(@, {i \in DOMAIN @ : @[i] # symbol})],
             kept' = kept \ {Pin(list.id, symbol)}
      PROVE  \E l : ListChanged(k, l)
  <2> DEFINE keep == {i \in DOMAIN q : q[i] # symbol}
             new == Sifted(q, keep)
  <2>1. remote' = [remote EXCEPT ![k] = with(new)]
    BY <1>6
  <2>2. DOMAIN q \cap keep = keep /\ keep \subseteq DOMAIN q
    OBVIOUS
  <2>3. Range(q) \ {symbol} = {q[i] : i \in keep}
    BY DEF Range
  <2> HIDE DEF keep, q
  <2>4. /\ new \in Seq(SymbolSet)
        /\ Range(new) = {q[i] : i \in DOMAIN q \cap keep}
        /\ \E at : Drawn(at, new, q, DOMAIN q \cap keep)
    BY <1>3, SiftedRange, SiftedDrawn
  <2>5. PICK at : Drawn(at, new, q, keep)
    BY <2>2, <2>4
  <2> HIDE DEF new
  <2>6. SymbolsOnce(list) => \A i, j \in DOMAIN new : new[i] = new[j] => i = j
    <3> SUFFICES ASSUME \A i, j \in DOMAIN q : q[i] = q[j] => i = j,
                        NEW i \in DOMAIN new, NEW j \in DOMAIN new, new[i] = new[j]
                 PROVE  i = j
      BY DEF SymbolsOnce, q
    <3>1. /\ at[i] \in DOMAIN q /\ at[j] \in DOMAIN q
          /\ new[i] = q[at[i]] /\ new[j] = q[at[j]]
          /\ (i < j => at[i] < at[j]) /\ (j < i => at[j] < at[i])
      BY <2>2, <2>5 DEF Drawn
    <3>2. at[i] = at[j]
      BY <3>1
    <3>3. i \in Nat /\ j \in Nat /\ at[i] \in Nat /\ at[j] \in Nat
      BY <1>3, <2>4, <3>1, LenProperties
    <3> QED
      BY <3>1, <3>2, <3>3
  <2>7. Range(new) = Range(q) \ {symbol}
    BY <2>2, <2>3, <2>4
  <2>8. with(new) \in RemoteLists /\ with(new).id = list.id /\ with(new).name = list.name
        /\ with(new).symbols = new
    BY <1>4, <2>4
  <2> DEFINE l == with(new)
  <2> HIDE DEF l
  <2>9. /\ l \in RemoteLists /\ l.id = list.id /\ l.name = list.name /\ l.symbols = new
        /\ remote' = [remote EXCEPT ![k] = l]
    BY <2>1, <2>8 DEF l
  <2>10. ListChanged(k, l)
    BY <1>6, <2>6, <2>7, <2>9 DEF ListChanged, SymbolsOnce, q
  <2> QED
    BY <2>10
<1>7. \/ \E l : ListChanged(k, l)
      \/ /\ remote' = RemoveAt(remote, k)
         /\ kept' = {d \in kept : d.id # remote[k].id}
  BY <1>2, <1>5, <1>6
<1> QED
  BY <1>0, <1>1, <1>7

------------------------------------------------------------------------------
(* TYPES AND STAGES *)

LEMMA TypeAtFirst ==
  ASSUME Init
  PROVE  TypeInv
<1>1. /\ remote = InitialRemote /\ overlay \in InitialOverlays
      /\ pc = "idle" /\ req = NoRequest /\ seen = <<>> /\ sent = 0 /\ answer = NoAnswer
      /\ troubled = FALSE /\ raced = FALSE /\ doubled = FALSE
      /\ ops = 0 /\ troubles = 0
  BY DEF Init
<1>2. /\ remote \in Seq(RemoteLists) /\ overlay \in Seq(Screens)
      /\ MaxOps \in Nat /\ MaxTroubles \in Nat
  BY <1>1, ListsAssumption, TdaAssumption
<1>3. seen \in Seq(Screens) /\ DOMAIN seen = {}
  BY <1>1, EmptySeq
<1>4. TypeOK
  <2>1. answer.by = "none"
    BY <1>1 DEF NoAnswer
  <2>2. {troubled, raced, doubled} \subseteq BOOLEAN
    BY <1>1
  <2>3. ops \in 0..MaxOps /\ troubles \in 0..MaxTroubles /\ sent \in 0..2
    BY <1>1, <1>2
  <2>4. pc \in Stages
    BY <1>1 DEF Stages
  <2> QED
    BY <1>2, <1>3, <2>1, <2>2, <2>3, <2>4 DEF TypeOK
<1>5. RequestTyped
  BY <1>1 DEF RequestTyped, NoRequest
<1>6. StagesInOrder
  BY <1>1 DEF StagesInOrder, Busy
<1> QED
  BY <1>4, <1>5, <1>6 DEF TypeInv

LEMMA GivenUpTyped ==
  ASSUME TypeInv, GivesUp, Counted, pc \notin {"idle", "down"}
  PROVE  TypeInv'
<1>1. TypeOK'
  BY DEF TypeInv, TypeOK, GivesUp, Counted, Stages
<1>2. RequestTyped'
  BY DEF TypeInv, RequestTyped, GivesUp
<1>3. StagesInOrder'
  BY DEF TypeInv, StagesInOrder, GivesUp, Busy
<1> QED
  BY <1>1, <1>2, <1>3 DEF TypeInv

LEMMA CallTyped ==
  ASSUME TypeInv, Call
  PROVE  TypeInv'
<1>1. /\ pc = "idle" /\ ops < MaxOps /\ ops' = ops + 1
      /\ RequestTyped' /\ req'.op # "none"
      /\ pc' = IF req'.op = "create" THEN "sending"
               ELSE IF req'.op = "archive" THEN "local" ELSE "resolving"
      /\ troubled' = FALSE /\ raced' = FALSE
      /\ seen' = <<>> /\ sent' = 0 /\ answer' = NoAnswer
      /\ UNCHANGED <<remote, overlay, doubled, troubles>>
  BY CallDoes
<1>2. seen' \in Seq(Screens) /\ DOMAIN seen' = {} /\ Len(seen') = 0
  BY <1>1, EmptySeq
<1>3. ops' \in 0..MaxOps /\ ops' # 0
  BY <1>1, TypeFacts
<1>4. TypeOK'
  <2>1. answer'.by = "none"
    BY <1>1 DEF NoAnswer
  <2>2. {troubled', raced', doubled'} \subseteq BOOLEAN
    BY <1>1 DEF TypeInv, TypeOK
  <2>3. pc' \in Stages
    BY <1>1 DEF Stages
  <2>4. sent' \in 0..2
    BY <1>1
  <2> QED
    BY <1>1, <1>2, <1>3, <2>1, <2>2, <2>3, <2>4 DEF TypeInv, TypeOK
<1>5. StagesInOrder'
  BY <1>1, <1>2, <1>3 DEF StagesInOrder, Busy, Resolved
<1> QED
  BY <1>1, <1>4, <1>5 DEF TypeInv

LEMMA ResolveTyped ==
  ASSUME TypeInv, Resolve
  PROVE  TypeInv'
<1>1. /\ pc = "resolving" /\ seen = <<>> /\ Counted
      /\ \/ GivesUp
         \/ /\ \E j \in DOMAIN remote :
                 LET s == Shown(overlay, remote[j])
                 IN  /\ remote[j].id = req.id /\ s \in Screens
                     /\ RowsNeeded \subseteq Symbols(s.rows)
                     /\ seen' = <<Edited(s)>>
            /\ pc' = IF req.op = "transfer" THEN "resolving" ELSE "sending"
            /\ UNCHANGED <<remote, overlay, req, sent, answer, kept, raced, doubled, ops>>
  BY ResolveDoes
<1>2. CASE GivesUp
  BY <1>1, <1>2, GivenUpTyped
<1>3. CASE ~GivesUp
  <2>1. /\ pc' = IF req.op = "transfer" THEN "resolving" ELSE "sending"
        /\ UNCHANGED <<remote, overlay, req, sent, answer, kept, raced, doubled, ops>>
    BY <1>1, <1>3
  <2>2. PICK j \in DOMAIN remote :
          LET s == Shown(overlay, remote[j])
          IN  /\ remote[j].id = req.id /\ s \in Screens
              /\ RowsNeeded \subseteq Symbols(s.rows)
              /\ seen' = <<Edited(s)>>
    BY <1>1, <1>3
  <2> DEFINE s == Shown(overlay, remote[j])
  <2>3. Edited(s) \in Screens /\ Edited(s).id = req.id
    <3>1. s.id = req.id
      BY <2>2, TypeFacts, ShownList
    <3>2. RequestTyped
      BY DEF TypeInv
    <3> HIDE DEF s
    <3> QED
      BY <2>2, <3>1, <3>2, EditedScreen DEF s
  <2> DEFINE e == Edited(s)
  <2>4. seen' = <<e>> /\ e \in Screens /\ e.id = req.id
    BY <2>2, <2>3
  <2> HIDE DEF e
  <2>5. /\ seen' \in Seq(Screens) /\ Len(seen') = 1 /\ DOMAIN seen' = {1} /\ seen'[1].id = req.id
        /\ seen' # <<>>
    BY <2>4
  <2>6. req.op \notin {"none", "create", "archive"} /\ ops # 0 /\ sent = 0
    BY <1>1 DEF TypeInv, StagesInOrder, Busy
  <2>7. TypeOK'
    BY <1>1, <2>1, <2>5 DEF TypeInv, TypeOK, Stages, Counted
  <2>8. RequestTyped'
    BY <2>1 DEF TypeInv, RequestTyped
  <2>9. StagesInOrder'
    BY <1>1, <2>1, <2>5, <2>6 DEF StagesInOrder, Busy, Resolved
  <2> QED
    BY <2>7, <2>8, <2>9 DEF TypeInv
<1> QED
  BY <1>2, <1>3

LEMMA ResolveDestinationTyped ==
  ASSUME TypeInv, ResolveDestination
  PROVE  TypeInv'
<1>1. /\ pc = "resolving" /\ seen # <<>> /\ Counted
      /\ \/ GivesUp
         \/ /\ \E j \in DOMAIN remote :
                 LET s == Shown(overlay, remote[j])
                 IN  /\ remote[j].id = req.to /\ s \in Screens
                     /\ seen' = Append(seen, WithRow(s, Row(req.symbol, FALSE)))
            /\ pc' = "sending"
            /\ UNCHANGED <<remote, overlay, req, sent, answer, kept, raced, doubled, ops>>
  BY ResolveDestinationDoes
<1>2. CASE GivesUp
  BY <1>1, <1>2, GivenUpTyped
<1>3. CASE ~GivesUp
  <2>1. /\ pc' = "sending"
        /\ UNCHANGED <<remote, overlay, req, sent, answer, kept, raced, doubled, ops>>
    BY <1>1, <1>3
  <2>2. PICK j \in DOMAIN remote :
          LET s == Shown(overlay, remote[j])
          IN  /\ remote[j].id = req.to /\ s \in Screens
              /\ seen' = Append(seen, WithRow(s, Row(req.symbol, FALSE)))
    BY <1>1, <1>3
  <2> DEFINE s == Shown(overlay, remote[j])
             e == WithRow(s, Row(req.symbol, FALSE))
  <2>3. req.op = "transfer" /\ Len(seen) = 1 /\ ops # 0 /\ sent = 0 /\ seen[1].id = req.id
    <3>1. req.op = "transfer" /\ Len(seen) = 1 /\ ops # 0 /\ sent = 0
      BY <1>1 DEF TypeInv, StagesInOrder
    <3>2. 1 \in DOMAIN seen
      BY <3>1, TypeFacts
    <3> QED
      BY <1>1, <3>1, <3>2 DEF TypeInv, StagesInOrder, Busy
  <2>4. e \in Screens /\ e.id = req.to
    <3>1. s.id = req.to
      BY <2>2, TypeFacts, ShownList
    <3>2. req.symbol \in SymbolSet
      BY <2>3 DEF TypeInv, RequestTyped
    <3> HIDE DEF s
    <3> QED
      BY <2>2, <3>1, <3>2, WithRowScreen DEF s
  <2>5. seen' = Append(seen, e) /\ seen \in Seq(Screens)
    BY <2>2, TypeFacts
  <2> HIDE DEF e
  <2>6. /\ seen' \in Seq(Screens) /\ Len(seen') = 2 /\ DOMAIN seen' = 1..2
        /\ seen'[1] = seen[1] /\ seen'[2] = e
    <3>1. /\ Append(seen, e) \in Seq(Screens) /\ Len(Append(seen, e)) = Len(seen) + 1
          /\ \A i \in 1..Len(seen) : Append(seen, e)[i] = seen[i]
          /\ Append(seen, e)[Len(seen) + 1] = e
      BY <2>4, <2>5, AppendProperties
    <3>2. Len(seen') = 2 /\ seen' \in Seq(Screens)
      BY <2>3, <2>5, <3>1
    <3>3. DOMAIN seen' = 1..2
      BY <3>2, LenProperties
    <3> QED
      BY <2>3, <2>5, <3>1, <3>2, <3>3
  <2>7. TypeOK'
    BY <1>1, <2>1, <2>6 DEF TypeInv, TypeOK, Stages, Counted
  <2>8. RequestTyped'
    BY <2>1 DEF TypeInv, RequestTyped
  <2>9. StagesInOrder'
    BY <1>1, <2>1, <2>3, <2>4, <2>6 DEF StagesInOrder, Busy, Resolved
  <2> QED
    BY <2>7, <2>8, <2>9 DEF TypeInv
<1> QED
  BY <1>2, <1>3

LEMMA SendTyped ==
  ASSUME TypeInv, Send
  PROVE  TypeInv'
<1>1. /\ pc = "sending" /\ Counted
      /\ sent' = sent + 1 /\ sent' \in 0..2
      /\ pc' = IF sent + 1 < Len(seen) THEN "sending" ELSE "saving"
      /\ doubled' \in BOOLEAN
      /\ UNCHANGED <<overlay, req, seen, answer, kept, raced, ops>>
      /\ \/ UNCHANGED remote
         \/ remote' = Stored
  BY SendDoes
<1>2. remote' \in Seq(RemoteLists)
  BY <1>1, TypeFacts, StoredDoes
<1>3. TypeOK'
  BY <1>1, <1>2 DEF TypeInv, TypeOK, Stages, Counted
<1>4. RequestTyped'
  BY <1>1 DEF TypeInv, RequestTyped
<1>5. /\ ops # 0 /\ req.op \notin {"none", "archive"} /\ Len(seen) = Resolved /\ sent \in 0..2
      /\ Len(seen) \in Nat
      /\ 1 \in DOMAIN seen => seen[1].id = req.id
      /\ 2 \in DOMAIN seen => seen[2].id = req.to
  BY <1>1, TypeFacts DEF TypeInv, StagesInOrder, Busy
<1>6. StagesInOrder'
  BY <1>1, <1>5 DEF StagesInOrder, Busy, Resolved
<1> QED
  BY <1>3, <1>4, <1>6 DEF TypeInv

LEMMA SaveMergedTyped ==
  ASSUME TypeInv, SaveMerged
  PROVE  TypeInv'
<1>1. /\ pc = "saving" /\ req.op \in {"rename", "add", "remove"} /\ Counted
      /\ \/ GivesUp
         \/ /\ pc' = "answering" /\ \E missed : Overwritten(missed)
            /\ UNCHANGED <<remote, req, seen, sent, answer, raced, doubled, ops>>
  BY SaveMergedDoes
<1>2. CASE GivesUp
  BY <1>1, <1>2, GivenUpTyped
<1>3. CASE ~GivesUp
  <2>1. overlay' \in Seq(Screens)
    BY <1>1, <1>3 DEF Overwritten, IsLoad
  <2>2. /\ pc' = "answering"
        /\ UNCHANGED <<remote, req, seen, sent, answer, raced, doubled, ops>>
    BY <1>1, <1>3
  <2>3. TypeOK'
    BY <1>1, <2>1, <2>2 DEF TypeInv, TypeOK, Stages, Counted
  <2>4. RequestTyped'
    BY <2>2 DEF TypeInv, RequestTyped
  <2>5. StagesInOrder'
    BY <1>1, <2>2 DEF TypeInv, StagesInOrder, Busy
  <2> QED
    BY <2>3, <2>4, <2>5 DEF TypeInv
<1> QED
  BY <1>2, <1>3

LEMMA SaveCreatedTyped ==
  ASSUME TypeInv, SaveCreated
  PROVE  TypeInv'
<1>1. /\ pc = "saving" /\ req.op = "create" /\ Counted
      /\ UNCHANGED <<remote, req, seen, sent, raced, doubled, ops>>
      /\ \/ UNCHANGED <<overlay, kept>>
         \/ \E missed : Overwritten(missed)
      /\ \/ pc' = "local" /\ UNCHANGED answer
         \/ pc' = "idle" /\ answer'.by = "tda"
  BY SaveCreatedDoes
<1>2. overlay' \in Seq(Screens)
  BY <1>1, TypeFacts DEF Overwritten, IsLoad
<1>3. TypeOK'
  BY <1>1, <1>2 DEF TypeInv, TypeOK, Stages, Counted
<1>4. RequestTyped'
  BY <1>1 DEF TypeInv, RequestTyped
<1>5. StagesInOrder'
  BY <1>1 DEF TypeInv, StagesInOrder, Busy
<1> QED
  BY <1>3, <1>4, <1>5 DEF TypeInv

LEMMA SavePinnedTyped ==
  ASSUME TypeInv, SavePinned
  PROVE  TypeInv'
<1>1. /\ pc = "saving" /\ req.op = "pin" /\ Counted
      /\ \/ GivesUp
         \/ /\ \E j \in DOMAIN remote :
                 LET s == Shown(overlay, remote[j])
                     f == FlaggedScreen(s)
                 IN  /\ remote[j].id = req.id
                     /\ overlay' = Upsert(overlay, f)
                     /\ kept' = IF Row(req.symbol, TRUE) \in Range(f.rows)
                                THEN kept \cup {Pin(req.id, req.symbol)} ELSE kept
            /\ pc' = "idle" /\ answer' = [by |-> "tda", id |-> req.id]
            /\ UNCHANGED <<remote, req, seen, sent, raced, doubled, ops>>
  BY SavePinnedDoes
<1>2. CASE GivesUp
  BY <1>1, <1>2, GivenUpTyped
<1>3. CASE ~GivesUp
  <2>1. /\ pc' = "idle" /\ answer' = [by |-> "tda", id |-> req.id]
        /\ UNCHANGED <<remote, req, seen, sent, raced, doubled, ops>>
    BY <1>1, <1>3
  <2>2. PICK j \in DOMAIN remote : overlay' = Upsert(overlay, FlaggedScreen(Shown(overlay, remote[j])))
    BY <1>1, <1>3
  <2>3. req.symbol \in SymbolSet /\ req.flag \in BOOLEAN
    BY <1>1 DEF TypeInv, RequestTyped
  <2>4. Shown(overlay, remote[j]) \in Screens
    BY TypeFacts, ShownList
  <2>5. FlaggedScreen(Shown(overlay, remote[j])) \in Screens
    BY <2>3, <2>4, FlaggedScreenIs
  <2>6. overlay' \in Seq(Screens)
    BY <2>2, <2>5, TypeFacts, UpsertedLists
  <2>7. TypeOK'
    BY <1>1, <2>1, <2>6 DEF TypeInv, TypeOK, Stages, Counted
  <2>8. RequestTyped'
    BY <2>1 DEF TypeInv, RequestTyped
  <2>9. StagesInOrder'
    BY <1>1, <2>1 DEF TypeInv, StagesInOrder, Busy
  <2> QED
    BY <2>7, <2>8, <2>9 DEF TypeInv
<1> QED
  BY <1>2, <1>3

(* The lists a request has edited, as they are in the overlay then. *)
LEMMA SaveEditedDoes ==
  ASSUME TypeInv, SaveEdited
  PROVE  /\ pc = "saving" /\ req.op \in {"move", "transfer"} /\ pc' = "answering"
         /\ 1 \in DOMAIN seen /\ seen[1] \in Screens /\ seen[1].id = req.id
         /\ req.op = "move" => overlay' = Upsert(overlay, seen[1])
         /\ req.op = "transfer" =>
              /\ 2 \in DOMAIN seen /\ seen[2] \in Screens /\ seen[2].id = req.to
              /\ overlay' = Upsert(Upsert(overlay, seen[1]), seen[2])
         /\ DOMAIN seen = IF req.op = "move" THEN {1} ELSE {1, 2}
         /\ UNCHANGED <<remote, req, seen, sent, answer, kept, troubled, raced, doubled, ops, troubles>>
<1>1. /\ pc = "saving" /\ req.op \in {"move", "transfer"} /\ pc' = "answering"
      /\ UNCHANGED <<remote, req, seen, sent, answer, kept, troubled, raced, doubled, ops, troubles>>
      /\ req.op = "move" => overlay' = Upsert(overlay, seen[1])
      /\ req.op = "transfer" => overlay' = Upsert(Upsert(overlay, seen[1]), seen[2])
  BY DEF SaveEdited, history
<1>2. Len(seen) = IF req.op = "move" THEN 1 ELSE 2
  BY <1>1 DEF TypeInv, StagesInOrder, Resolved
<1>3. DOMAIN seen = IF req.op = "move" THEN {1} ELSE {1, 2}
  <2>1. DOMAIN seen = 1..Len(seen)
    BY TypeFacts
  <2>2. 1..1 = {1} /\ 1..2 = {1, 2}
    OBVIOUS
  <2> QED
    BY <1>2, <2>1, <2>2
<1>4. /\ 1 \in DOMAIN seen => seen[1].id = req.id /\ seen[1] \in Screens
      /\ 2 \in DOMAIN seen => seen[2].id = req.to /\ seen[2] \in Screens
  BY <1>1, TypeFacts DEF TypeInv, StagesInOrder, Busy
<1> QED
  BY <1>1, <1>3, <1>4

LEMMA SaveEditedTyped ==
  ASSUME TypeInv, SaveEdited
  PROVE  TypeInv'
<1>1. /\ pc = "saving" /\ req.op \in {"move", "transfer"} /\ pc' = "answering"
      /\ seen[1] \in Screens
      /\ req.op = "move" => overlay' = Upsert(overlay, seen[1])
      /\ req.op = "transfer" =>
           /\ seen[2] \in Screens
           /\ overlay' = Upsert(Upsert(overlay, seen[1]), seen[2])
      /\ UNCHANGED <<remote, req, seen, sent, answer, kept, troubled, raced, doubled, ops, troubles>>
  BY SaveEditedDoes
<1>2. Upsert(overlay, seen[1]) \in Seq(Screens)
  BY <1>1, TypeFacts, UpsertedLists
<1>3. overlay' \in Seq(Screens)
  <2> DEFINE source == Upsert(overlay, seen[1])
  <2>1. source \in Seq(Screens)
    BY <1>2
  <2> HIDE DEF source
  <2>2. req.op = "transfer" => Upsert(source, seen[2]) \in Seq(Screens)
    BY <1>1, <2>1, UpsertedLists
  <2>3. \/ overlay' = source
        \/ req.op = "transfer" /\ overlay' = Upsert(source, seen[2])
    BY <1>1 DEF source
  <2> QED
    BY <2>1, <2>2, <2>3
<1>4. TypeOK'
  BY <1>1, <1>3 DEF TypeInv, TypeOK, Stages
<1>5. RequestTyped'
  BY <1>1 DEF TypeInv, RequestTyped
<1>6. StagesInOrder'
  BY <1>1 DEF TypeInv, StagesInOrder, Busy
<1> QED
  BY <1>4, <1>5, <1>6 DEF TypeInv

LEMMA SaveDeletedTyped ==
  ASSUME TypeInv, SaveDeleted
  PROVE  TypeInv'
<1>1. /\ pc = "saving" /\ req.op = "delete" /\ pc' = "idle"
      /\ overlay' = Sifted(overlay, {k \in DOMAIN overlay : overlay[k].id # req.id})
      /\ answer'.by = "tda"
      /\ UNCHANGED <<remote, req, seen, sent, kept, troubled, raced, doubled, ops, troubles>>
  BY DEF SaveDeleted, history, AnswerBy
<1>2. overlay' \in Seq(Screens)
  <2> DEFINE keep == {k \in DOMAIN overlay : overlay[k].id # req.id}
  <2>1. overlay' = Sifted(overlay, keep) /\ overlay \in Seq(Screens)
    BY <1>1, TypeFacts
  <2> HIDE DEF keep
  <2> QED
    BY <2>1, SiftedRange
<1>3. TypeOK'
  BY <1>1, <1>2 DEF TypeInv, TypeOK, Stages
<1>4. RequestTyped'
  BY <1>1 DEF TypeInv, RequestTyped
<1>5. StagesInOrder'
  BY <1>1 DEF TypeInv, StagesInOrder, Busy
<1> QED
  BY <1>3, <1>4, <1>5 DEF TypeInv

LEMMA AnswerTyped ==
  ASSUME TypeInv, Answer
  PROVE  TypeInv'
<1>1. /\ pc = "answering" /\ Counted
      /\ \/ GivesUp
         \/ /\ pc' = "idle" /\ answer' = [by |-> "tda", id |-> Target]
            /\ UNCHANGED <<remote, overlay, req, seen, sent, kept, raced, doubled, ops>>
  BY AnswerDoes
<1>2. CASE GivesUp
  BY <1>1, <1>2, GivenUpTyped
<1>3. CASE ~GivesUp
  <2>1. /\ pc' = "idle" /\ answer'.by = "tda"
        /\ UNCHANGED <<remote, overlay, req, seen, sent, kept, raced, doubled, ops>>
    BY <1>1, <1>3
  <2>2. TypeOK'
    BY <1>1, <2>1 DEF TypeInv, TypeOK, Stages, Counted
  <2>3. RequestTyped'
    BY <2>1 DEF TypeInv, RequestTyped
  <2>4. StagesInOrder'
    BY <1>1, <2>1 DEF TypeInv, StagesInOrder, Busy
  <2> QED
    BY <2>2, <2>3, <2>4 DEF TypeInv
<1> QED
  BY <1>2, <1>3

LEMMA ServeLocallyTyped ==
  ASSUME TypeInv, ServeLocally
  PROVE  TypeInv'
<1>1. /\ pc = "local" /\ pc' = "idle"
      /\ UNCHANGED <<remote, req, seen, sent, troubled, raced, doubled, ops, troubles>>
      /\ answer'.by \in {"local", "error"}
      /\ UNCHANGED overlay \/ LocalFacts(overlay')
  BY ServeLocallyDoes
<1>2. overlay' \in Seq(Screens)
  BY <1>1, TypeFacts DEF LocalFacts
<1>3. TypeOK'
  BY <1>1, <1>2 DEF TypeInv, TypeOK, Stages
<1>4. RequestTyped'
  BY <1>1 DEF TypeInv, RequestTyped
<1>5. StagesInOrder'
  BY <1>1 DEF TypeInv, StagesInOrder, Busy
<1> QED
  BY <1>3, <1>4, <1>5 DEF TypeInv

LEMMA SaveFailsTyped ==
  ASSUME TypeInv, SaveFails
  PROVE  TypeInv'
<1>1. /\ pc \in {"saving", "local"} /\ Counted
      /\ UNCHANGED <<remote, req, seen, sent, raced, doubled, ops>>
      /\ overlay' = overlay \/ overlay' = <<>>
      /\ \/ pc' = "local" /\ answer' = answer
         \/ pc' \in {"idle", "down"} /\ answer'.by \in {"error", "none"}
  BY SaveFailsDoes
<1>2. overlay' \in Seq(Screens)
  BY <1>1, TypeFacts, EmptySeq
<1>3. TypeOK'
  BY <1>1, <1>2 DEF TypeInv, TypeOK, Stages, Counted
<1>4. RequestTyped'
  BY <1>1 DEF TypeInv, RequestTyped
<1>5. StagesInOrder'
  BY <1>1 DEF TypeInv, StagesInOrder, Busy
<1> QED
  BY <1>3, <1>4, <1>5 DEF TypeInv

LEMMA AbortDoes ==
  ASSUME TypeInv, Abort
  PROVE  /\ pc \notin {"idle", "down"} /\ Counted /\ troubled' = TRUE
         /\ pc' = "down" /\ answer' = NoAnswer
         /\ UNCHANGED <<remote, overlay, req, seen, sent, kept, raced, doubled, ops>>
<1>1. /\ pc \notin {"idle", "down"} /\ Trouble(TRUE)
      /\ pc' = "down" /\ answer' = NoAnswer
      /\ UNCHANGED <<remote, overlay, req, seen, sent, kept, raced, doubled, ops>>
  BY DEF Abort
<1>2. TRUE \in BOOLEAN
  OBVIOUS
<1>3. troubles' \in 0..MaxTroubles /\ troubled' \in BOOLEAN /\ (troubled => troubled') /\ troubled'
  BY <1>1, <1>2, TroubleDoes
<1> QED
  BY <1>1, <1>3 DEF Counted

LEMMA AbortTyped ==
  ASSUME TypeInv, Abort
  PROVE  TypeInv'
<1>1. /\ pc \notin {"idle", "down"} /\ Counted
      /\ pc' = "down" /\ answer' = NoAnswer
      /\ UNCHANGED <<remote, overlay, req, seen, sent, kept, raced, doubled, ops>>
  BY AbortDoes
<1>2. TypeOK'
  BY <1>1 DEF TypeInv, TypeOK, Stages, Counted, NoAnswer
<1>3. RequestTyped'
  BY <1>1 DEF TypeInv, RequestTyped
<1>4. StagesInOrder'
  BY <1>1 DEF TypeInv, StagesInOrder, Busy
<1> QED
  BY <1>2, <1>3, <1>4 DEF TypeInv

LEMMA RestartTyped ==
  ASSUME TypeInv, Restart
  PROVE  TypeInv'
<1>1. /\ pc = "down" /\ pc' = "idle"
      /\ UNCHANGED <<remote, overlay, req, seen, sent, answer, kept, troubled, raced, doubled,
                     ops, troubles>>
  BY DEF Restart, history
<1>2. TypeOK'
  BY <1>1 DEF TypeInv, TypeOK, Stages
<1>3. RequestTyped'
  BY <1>1 DEF TypeInv, RequestTyped
<1>4. StagesInOrder'
  BY <1>1 DEF TypeInv, StagesInOrder, Busy
<1> QED
  BY <1>2, <1>3, <1>4 DEF TypeInv

LEMMA ElsewhereTyped ==
  ASSUME TypeInv, Elsewhere
  PROVE  TypeInv'
<1>1. /\ UNCHANGED <<overlay, service, troubled, doubled, ops>>
      /\ raced' = TRUE /\ troubles' \in 0..MaxTroubles
  BY ElsewhereDoes
<1>2. PICK k \in DOMAIN remote :
        \/ \E l : ListChanged(k, l)
        \/ remote' = RemoveAt(remote, k)
  BY ElsewhereDoes
<1>3. remote \in Seq(RemoteLists)
  BY TypeFacts
<1>4. remote' \in Seq(RemoteLists)
  <2>1. ASSUME NEW l, ListChanged(k, l) PROVE remote' \in Seq(RemoteLists)
    <3>1. l \in RemoteLists /\ l.id = remote[k].id /\ remote' = [remote EXCEPT ![k] = l]
      BY <2>1 DEF ListChanged
    <3>2. [remote EXCEPT ![k] = l] \in Seq(RemoteLists)
      BY <1>3, <3>1, ReplacedLists
    <3> QED
      BY <3>1, <3>2
  <2>2. RemoveAt(remote, k) \in Seq(RemoteLists)
    BY <1>3, RemovedList
  <2> QED
    BY <1>2, <2>1, <2>2
<1>5. UNCHANGED <<pc, req, seen, sent, answer>>
  BY <1>1 DEF service
<1>6. TypeOK'
  BY <1>1, <1>4, <1>5 DEF TypeInv, TypeOK
<1>7. RequestTyped'
  BY <1>5 DEF TypeInv, RequestTyped
<1>8. StagesInOrder'
  BY <1>1, <1>5 DEF TypeInv, StagesInOrder, Busy, Resolved
<1> QED
  BY <1>6, <1>7, <1>8 DEF TypeInv

LEMMA TypeKept ==
  ASSUME TypeInv, [Next]_vars
  PROVE  TypeInv'
<1>1. CASE UNCHANGED vars
  <2>1. UNCHANGED <<remote, overlay, pc, req, seen, sent, answer, kept, troubled, raced, doubled,
                    ops, troubles>>
    BY <1>1 DEF vars, service, history
  <2> QED
    BY <2>1 DEF TypeInv, TypeOK, RequestTyped, StagesInOrder, Busy, Resolved
<1>2. CASE Next
  BY <1>2, CallTyped, ResolveTyped, ResolveDestinationTyped, SendTyped, SaveMergedTyped,
     SaveCreatedTyped, SavePinnedTyped, SaveEditedTyped, SaveDeletedTyped, AnswerTyped,
     ServeLocallyTyped, SaveFailsTyped, AbortTyped, RestartTyped, ElsewhereTyped DEF Next
<1> QED
  BY <1>1, <1>2

LEMMA AlwaysTyped == Spec => []TypeInv
<1>1. Init => TypeInv
  BY TypeAtFirst
<1>2. TypeInv /\ [Next]_vars => TypeInv'
  BY TypeKept
<1> QED
  BY <1>1, <1>2, PTL DEF Spec

(* The lists on both sides, the request and the stage it is in are well    *)
(* formed in every state, whatever order of failures led there.            *)
THEOREM TypeCorrect == Spec => []TypeOK
<1>1. TypeInv => TypeOK
  BY DEF TypeInv
<1> QED
  BY <1>1, AlwaysTyped, PTL

(* Whatever is in the overlay, users see TDA's lists with TDA's names and  *)
(* symbols.                                                                *)
THEOREM OverlayDecorates == Spec => []OverlayOnlyDecorates
<1>1. ASSUME TypeInv PROVE OverlayOnlyDecorates
  <2> DEFINE plain == LoadRemoteScreens({})
             view == LoadScreens({})
  <2>1. /\ plain \in Seq(Screens) /\ view \in Seq(Screens)
        /\ DOMAIN view = DOMAIN plain
        /\ \A i \in DOMAIN view : \E j \in DOMAIN remote :
             plain[i] = AsScreen(remote[j]) /\ view[i] = Shown(overlay, remote[j])
    BY <1>1, TypeFacts, Loaded
  <2>2. View = view
    BY DEF View
  <2> HIDE DEF plain, view
  <2>3. ASSUME NEW i \in DOMAIN plain
        PROVE  /\ view[i].id = plain[i].id /\ view[i].name = plain[i].name
               /\ Symbols(view[i].rows) = Symbols(plain[i].rows)
    <3>1. PICK j \in DOMAIN remote : plain[i] = AsScreen(remote[j]) /\ view[i] = Shown(overlay, remote[j])
      BY <2>1
    <3>2. remote[j] \in RemoteLists /\ overlay \in Seq(Screens)
      BY <1>1, TypeFacts
    <3>3. /\ view[i].id = remote[j].id /\ view[i].name = remote[j].name
          /\ Symbols(view[i].rows) = Range(remote[j].symbols)
      BY <3>1, <3>2, ShownList
    <3>4. /\ plain[i].id = remote[j].id /\ plain[i].name = remote[j].name
          /\ Symbols(plain[i].rows) = Range(remote[j].symbols)
      BY <3>1, <3>2, PlainScreen
    <3> QED
      BY <3>3, <3>4
  <2> QED
    BY <2>1, <2>2, <2>3 DEF OverlayOnlyDecorates, plain
<1> QED
  BY <1>1, AlwaysTyped, PTL

------------------------------------------------------------------------------
(* IDS *)

UsedIds == IdsOf(remote) \cup IdsOf(overlay) \cup IdsOf(seen) \cup {d.id : d \in kept}

(* TDA tells its lists apart, and no list has the id TDA is to give next.  *)
IdsInv ==
  /\ UniqueIds(remote)
  /\ \A id \in UsedIds : \A n \in 1..MaxOps :
       id = NewId(n) => n < ops \/ (n = ops /\ ~Creating)

LEMMA IdsOfElements ==
  ASSUME NEW lists, NEW i \in DOMAIN lists
  PROVE  lists[i].id \in IdsOf(lists)
BY DEF IdsOf

LEMMA LoadedIds ==
  ASSUME NEW screens, NEW missed, NEW over \in Seq(Screens), NEW lists \in Seq(RemoteLists),
         IsLoad(screens, over, lists, missed)
  PROVE  IdsOf(screens) \subseteq IdsOf(lists)
<1> SUFFICES ASSUME NEW i \in DOMAIN screens
             PROVE  screens[i].id \in IdsOf(lists)
  BY DEF IdsOf
<1>1. PICK j \in DOMAIN lists : screens[i] = Shown(over, lists[j])
  BY DEF IsLoad
<1>2. lists[j] \in RemoteLists
  BY ElementsOfSeq
<1>3. screens[i].id = lists[j].id
  BY <1>1, <1>2, ShownList
<1> QED
  BY <1>3 DEF IdsOf

LEMMA IdsStep ==
  ASSUME TypeInv, IdsInv, ops' = ops, Creating' => Creating,
         UniqueIds(remote'), UsedIds' \subseteq UsedIds \cup OldIds
  PROVE  IdsInv'
<1>1. ASSUME NEW id \in UsedIds', NEW n \in 1..MaxOps, id = NewId(n)
      PROVE  n < ops' \/ (n = ops' /\ ~Creating')
  <2>1. id \notin OldIds
    BY <1>1, IdsAssumption
  <2>2. id \in UsedIds
    BY <2>1
  <2>3. n < ops \/ (n = ops /\ ~Creating)
    BY <1>1, <2>2 DEF IdsInv
  <2> QED
    BY <2>3
<1>2. UniqueIds(remote)'
  BY DEF UniqueIds
<1>3. NewId(1) = NewId(1)'
  BY DEF NewId
<1>4. \A n : NewId(n) = <<AccountIds[1], n>>
  BY DEF NewId
<1> QED
  BY <1>1, <1>2 DEF IdsInv

LEMMA SameIds ==
  ASSUME TypeInv, IdsInv, Creating' => Creating,
         UNCHANGED <<remote, overlay, seen, kept, ops>>
  PROVE  IdsInv'
<1>1. UsedIds' \subseteq UsedIds
  BY DEF UsedIds, IdsOf
<1>2. UniqueIds(remote')
  BY DEF IdsInv
<1> QED
  BY <1>1, <1>2, IdsStep

LEMMA OverwrittenIds ==
  ASSUME TypeInv, IdsInv, Creating' => Creating, UNCHANGED <<remote, seen, ops>>,
         NEW missed, Overwritten(missed)
  PROVE  IdsInv'
<1>1. IdsOf(overlay') \subseteq IdsOf(remote)
  BY TypeFacts, LoadedIds DEF Overwritten
<1>2. kept' \subseteq kept
  BY DEF Overwritten
<1>3. UsedIds' \subseteq UsedIds
  BY <1>1, <1>2 DEF UsedIds
<1>4. UniqueIds(remote')
  BY DEF IdsInv
<1> QED
  BY <1>3, <1>4, IdsStep

LEMMA CallIds ==
  ASSUME TypeInv, IdsInv, Call
  PROVE  IdsInv'
<1>1. /\ ops < MaxOps /\ ops' = ops + 1 /\ kept' \subseteq kept
      /\ seen' = <<>> /\ UNCHANGED <<remote, overlay>>
  BY CallDoes
<1>2. UsedIds' \subseteq UsedIds
  <2>1. DOMAIN seen' = {}
    BY <1>1
  <2>2. IdsOf(seen') = {}
    BY <2>1 DEF IdsOf
  <2> QED
    BY <1>1, <2>2 DEF UsedIds
<1>3. UniqueIds(remote)'
  BY <1>1 DEF IdsInv
<1>4. ASSUME NEW id \in UsedIds', NEW n \in 1..MaxOps, id = NewId(n)
      PROVE  n < ops'
  <2>1. n < ops \/ n = ops
    BY <1>2, <1>4 DEF IdsInv
  <2> QED
    BY <1>1, <2>1, TypeFacts
<1> QED
  BY <1>3, <1>4 DEF IdsInv

LEMMA ResolveIds ==
  ASSUME TypeInv, IdsInv, Resolve
  PROVE  IdsInv'
<1>1. /\ pc = "resolving" /\ seen = <<>> /\ Counted
      /\ \/ GivesUp
         \/ /\ \E j \in DOMAIN remote :
                 LET s == Shown(overlay, remote[j])
                 IN  /\ remote[j].id = req.id /\ s \in Screens
                     /\ RowsNeeded \subseteq Symbols(s.rows)
                     /\ seen' = <<Edited(s)>>
            /\ pc' = IF req.op = "transfer" THEN "resolving" ELSE "sending"
            /\ UNCHANGED <<remote, overlay, req, sent, answer, kept, raced, doubled, ops>>
  BY ResolveDoes
<1>2. CASE GivesUp
  <2>1. UNCHANGED <<remote, overlay, seen, kept, ops>> /\ pc' = "local"
    BY <1>2 DEF GivesUp
  <2> QED
    BY <2>1, SameIds DEF Creating
<1>3. CASE ~GivesUp
  <2>1. PICK j \in DOMAIN remote :
          /\ remote[j].id = req.id
          /\ Shown(overlay, remote[j]) \in Screens
          /\ RowsNeeded \subseteq Symbols(Shown(overlay, remote[j]).rows)
          /\ seen' = <<Edited(Shown(overlay, remote[j]))>>
    BY <1>1, <1>3
  <2>2. UNCHANGED <<remote, overlay, req, kept, ops>>
    BY <1>1, <1>3
  <2> DEFINE e == Edited(Shown(overlay, remote[j]))
  <2>3. e.id = req.id
    <3>1. Shown(overlay, remote[j]).id = req.id
      BY <2>1, TypeFacts, ShownList
    <3> QED
      BY <2>1, <3>1, EditedScreen DEF TypeInv
  <2>4. seen' = <<e>>
    BY <2>1
  <2> HIDE DEF e
  <2>5. IdsOf(seen') \subseteq IdsOf(remote)
    <3>1. DOMAIN seen' = {1} /\ seen'[1] = e
      BY <2>4
    <3> QED
      BY <2>1, <2>3, <3>1 DEF IdsOf
  <2>6. UsedIds' \subseteq UsedIds
    BY <2>2, <2>5 DEF UsedIds
  <2>7. req.op # "create"
    BY <1>1 DEF TypeInv, StagesInOrder
  <2>8. ~Creating'
    BY <2>2, <2>7 DEF Creating
  <2>9. UniqueIds(remote')
    BY <2>2 DEF IdsInv
  <2> QED
    BY <2>2, <2>6, <2>8, <2>9, IdsStep
<1> QED
  BY <1>2, <1>3

LEMMA ResolveDestinationIds ==
  ASSUME TypeInv, IdsInv, ResolveDestination
  PROVE  IdsInv'
<1>1. /\ pc = "resolving" /\ seen # <<>> /\ Counted
      /\ \/ GivesUp
         \/ /\ \E j \in DOMAIN remote :
                 LET s == Shown(overlay, remote[j])
                 IN  /\ remote[j].id = req.to /\ s \in Screens
                     /\ seen' = Append(seen, WithRow(s, Row(req.symbol, FALSE)))
            /\ pc' = "sending"
            /\ UNCHANGED <<remote, overlay, req, sent, answer, kept, raced, doubled, ops>>
  BY ResolveDestinationDoes
<1>2. CASE GivesUp
  <2>1. UNCHANGED <<remote, overlay, seen, kept, ops>> /\ pc' = "local"
    BY <1>2 DEF GivesUp
  <2> QED
    BY <2>1, SameIds DEF Creating
<1>3. CASE ~GivesUp
  <2>1. PICK j \in DOMAIN remote :
          /\ remote[j].id = req.to
          /\ Shown(overlay, remote[j]) \in Screens
          /\ seen' = Append(seen, WithRow(Shown(overlay, remote[j]), Row(req.symbol, FALSE)))
    BY <1>1, <1>3
  <2>2. UNCHANGED <<remote, overlay, req, kept, ops>>
    BY <1>1, <1>3
  <2>3. req.op = "transfer" /\ req.symbol \in SymbolSet
    BY <1>1 DEF TypeInv, StagesInOrder, RequestTyped
  <2> DEFINE e == WithRow(Shown(overlay, remote[j]), Row(req.symbol, FALSE))
  <2>4. e \in Screens /\ e.id = req.to
    <3>1. Shown(overlay, remote[j]).id = req.to
      BY <2>1, TypeFacts, ShownList
    <3> QED
      BY <2>1, <2>3, <3>1, WithRowScreen
  <2>5. seen' = Append(seen, e) /\ seen \in Seq(Screens)
    BY <2>1, TypeFacts
  <2> HIDE DEF e
  <2>6. IdsOf(seen') = IdsOf(seen) \cup {e.id}
    BY <2>4, <2>5, AppendedLists
  <2>7. IdsOf(seen') \subseteq UsedIds
    BY <2>1, <2>4, <2>6 DEF UsedIds, IdsOf
  <2>8. UsedIds' \subseteq UsedIds
    BY <2>2, <2>7 DEF UsedIds
  <2>9. ~Creating' /\ UniqueIds(remote')
    BY <2>2, <2>3 DEF Creating, IdsInv
  <2> QED
    BY <2>2, <2>8, <2>9, IdsStep
<1> QED
  BY <1>2, <1>3

LEMMA SendIds ==
  ASSUME TypeInv, IdsInv, Send
  PROVE  IdsInv'
<1>1. /\ pc = "sending"
      /\ pc' = IF sent + 1 < Len(seen) THEN "sending" ELSE "saving"
      /\ UNCHANGED <<overlay, req, seen, kept, ops>>
      /\ UNCHANGED remote \/ remote' = Stored
  BY SendDoes
<1>2. remote \in Seq(RemoteLists) /\ ops \in 0..MaxOps /\ MaxOps \in Nat /\ sent \in 0..2
  BY TypeFacts
<1>a. Creating' => Creating
  BY <1>1 DEF Creating
<1>3. CASE UNCHANGED remote
  BY <1>1, <1>3, <1>a, SameIds
<1>4. CASE remote' = Stored /\ req.op = "create"
  <2>1. PICK l \in RemoteLists : l.id = NewId(ops) /\ Stored = Append(remote, l)
    BY <1>1, <1>4, StoredDoes
  <2>2. ~Creating'
    <3>1. Len(seen) = 0
      BY <1>1, <1>4 DEF TypeInv, StagesInOrder, Resolved
    <3> QED
      BY <1>1, <1>2, <3>1 DEF Creating
  <2>3. ops \in 1..MaxOps /\ Creating
    <3>1. ops # 0
      BY <1>1 DEF TypeInv, StagesInOrder
    <3> QED
      BY <1>1, <1>2, <1>4, <3>1 DEF Creating
  <2>4. l.id \notin IdsOf(remote)
    <3>1. \A id \in UsedIds : id = NewId(ops) => ops < ops \/ (ops = ops /\ ~Creating)
      BY <2>3 DEF IdsInv
    <3>2. NewId(ops) \notin UsedIds
      BY <1>2, <2>3, <3>1
    <3> QED
      BY <2>1, <3>2 DEF UsedIds
  <2> DEFINE n == Len(remote)
             new == Append(remote, l)
  <2>5. /\ new[n + 1] = l
        /\ \A i \in DOMAIN remote : new[i] = remote[i]
        /\ \A i \in DOMAIN new : i \in DOMAIN remote \/ (i = n + 1 /\ i \notin DOMAIN remote)
        /\ IdsOf(new) = IdsOf(remote) \cup {l.id}
    BY <1>2, AppendedLists
  <2>6. UniqueIds(new)
    <3> HIDE DEF new, n
    <3> SUFFICES ASSUME NEW j \in DOMAIN new, NEW k \in DOMAIN new, new[j].id = new[k].id
                 PROVE  j = k
      BY DEF UniqueIds
    <3>1. \A i \in DOMAIN remote : remote[i].id # l.id
      BY <2>4 DEF IdsOf
    <3>2. \A i1, i2 \in DOMAIN remote : remote[i1].id = remote[i2].id => i1 = i2
      BY DEF IdsInv, UniqueIds
    <3> QED
      BY <2>5, <3>1, <3>2
  <2>7. remote' = new
    BY <1>4, <2>1
  <2> HIDE DEF new
  <2>8. UsedIds' = UsedIds \cup {NewId(ops)}
    BY <1>1, <2>1, <2>5, <2>7 DEF UsedIds
  <2>9. ASSUME NEW id \in UsedIds', NEW i \in 1..MaxOps, id = NewId(i)
        PROVE  i < ops' \/ (i = ops' /\ ~Creating')
    <3>1. CASE id \in UsedIds
      BY <1>1, <2>2, <2>9, <3>1 DEF IdsInv
    <3>2. CASE id = NewId(ops)
      <4>1. i = ops
        BY <2>9, <3>2 DEF NewId
      <4> QED
        BY <1>1, <2>2, <4>1
    <3> QED
      BY <2>8, <3>1, <3>2
  <2>10. UniqueIds(remote)'
    BY <2>6, <2>7
  <2> QED
    BY <2>9, <2>10 DEF IdsInv
<1>5. CASE remote' = Stored /\ req.op = "delete"
  <2> DEFINE new == Without(remote, req.id)
  <2>1. remote' = new
    BY <1>1, <1>5, StoredDoes DEF Without
  <2>2. IdsOf(new) = IdsOf(remote) \ {req.id}
    BY <1>2, WithoutLists
  <2>3. UniqueIds(new)
    <3>1. UniqueIds(remote) => UniqueIds(new)
      BY <1>2, WithoutLists
    <3> QED
      BY <3>1 DEF IdsInv
  <2> HIDE DEF new
  <2>4. UsedIds' \subseteq UsedIds
    BY <1>1, <2>1, <2>2 DEF UsedIds
  <2> QED
    BY <1>1, <1>a, <2>1, <2>3, <2>4, IdsStep
<1>6. CASE remote' = Stored /\ req.op \notin {"create", "delete"}
  <2> DEFINE s == seen[sent + 1]
  <2>1. /\ sent + 1 \in DOMAIN seen /\ s \in Screens
        /\ DOMAIN remote' = DOMAIN remote
        /\ \A k \in DOMAIN remote : remote'[k] = IF remote[k].id # s.id THEN remote[k] ELSE AsList(s)
    BY <1>1, <1>6, StoredDoes
  <2>2. \A k \in DOMAIN remote : remote'[k].id = remote[k].id
    <3>1. AsList(s).id = s.id
      BY <2>1, AsListSame DEF SameAs
    <3> QED
      BY <2>1, <3>1
  <2>3. IdsOf(remote') = IdsOf(remote)
    BY <2>1, <2>2 DEF IdsOf
  <2>4. UniqueIds(remote')
    BY <2>1, <2>2 DEF UniqueIds, IdsInv
  <2>5. UsedIds' \subseteq UsedIds
    BY <1>1, <2>3 DEF UsedIds
  <2> QED
    BY <1>1, <1>a, <2>4, <2>5, IdsStep
<1> QED
  BY <1>1, <1>3, <1>4, <1>5, <1>6

LEMMA SaveMergedIds ==
  ASSUME TypeInv, IdsInv, SaveMerged
  PROVE  IdsInv'
<1>1. /\ pc = "saving" /\ req.op \in {"rename", "add", "remove"} /\ Counted
      /\ \/ GivesUp
         \/ /\ pc' = "answering" /\ \E missed : Overwritten(missed)
            /\ UNCHANGED <<remote, req, seen, sent, answer, raced, doubled, ops>>
  BY SaveMergedDoes
<1>2. CASE GivesUp
  <2>1. UNCHANGED <<remote, overlay, seen, kept, ops>> /\ pc' = "local"
    BY <1>2 DEF GivesUp
  <2> QED
    BY <2>1, SameIds DEF Creating
<1>3. CASE ~GivesUp
  BY <1>1, <1>3, OverwrittenIds DEF Creating
<1> QED
  BY <1>2, <1>3

LEMMA SaveCreatedIds ==
  ASSUME TypeInv, IdsInv, SaveCreated
  PROVE  IdsInv'
<1>1. /\ UNCHANGED <<remote, req, seen, sent, raced, doubled, ops>>
      /\ \/ UNCHANGED <<overlay, kept>>
         \/ \E missed : Overwritten(missed)
      /\ pc' \in {"local", "idle"}
  BY SaveCreatedDoes
<1>2. ~Creating'
  BY <1>1 DEF Creating
<1> QED
  BY <1>1, <1>2, SameIds, OverwrittenIds

LEMMA SavePinnedIds ==
  ASSUME TypeInv, IdsInv, SavePinned
  PROVE  IdsInv'
<1>1. /\ pc = "saving" /\ req.op = "pin" /\ Counted
      /\ \/ GivesUp
         \/ /\ \E j \in DOMAIN remote :
                 LET s == Shown(overlay, remote[j])
                     f == FlaggedScreen(s)
                 IN  /\ remote[j].id = req.id
                     /\ overlay' = Upsert(overlay, f)
                     /\ kept' = IF Row(req.symbol, TRUE) \in Range(f.rows)
                                THEN kept \cup {Pin(req.id, req.symbol)} ELSE kept
            /\ pc' = "idle" /\ answer' = [by |-> "tda", id |-> req.id]
            /\ UNCHANGED <<remote, req, seen, sent, raced, doubled, ops>>
  BY SavePinnedDoes
<1>2. CASE GivesUp
  <2>1. UNCHANGED <<remote, overlay, seen, kept, ops>> /\ pc' = "local"
    BY <1>2 DEF GivesUp
  <2> QED
    BY <2>1, SameIds DEF Creating
<1>3. CASE ~GivesUp
  <2>1. pc' = "idle" /\ UNCHANGED <<remote, req, seen, ops>>
    BY <1>1, <1>3
  <2>2. PICK j \in DOMAIN remote :
          /\ remote[j].id = req.id
          /\ overlay' = Upsert(overlay, FlaggedScreen(Shown(overlay, remote[j])))
          /\ kept' \subseteq kept \cup {Pin(req.id, req.symbol)}
    BY <1>1, <1>3
  <2> DEFINE s == Shown(overlay, remote[j])
             f == FlaggedScreen(s)
  <2>3. req.symbol \in SymbolSet /\ req.flag \in BOOLEAN
    BY <1>1 DEF TypeInv, RequestTyped
  <2>4. s \in Screens /\ s.id = req.id
    BY <2>2, TypeFacts, ShownList
  <2> HIDE DEF s
  <2>5. f \in Screens /\ f.id = req.id
    BY <2>3, <2>4, FlaggedScreenIs
  <2>6. overlay' = Upsert(overlay, f)
    BY <2>2 DEF s
  <2> HIDE DEF f
  <2>7. IdsOf(overlay') = IdsOf(overlay) \cup {req.id}
    <3> DEFINE new == Upsert(overlay, f)
    <3>1. IdsOf(new) = IdsOf(overlay) \cup {f.id}
      <4>1. overlay \in Seq(Screens) /\ f \in Screens
        BY <2>5, TypeFacts
      <4> QED
        BY <4>1, UpsertedLists
    <3>2. overlay' = new
      BY <2>6
    <3> HIDE DEF new
    <3> QED
      BY <2>5, <3>1, <3>2
  <2>8. Pin(req.id, req.symbol).id = req.id
    BY DEF Pin
  <2>9. req.id \in IdsOf(remote)
    BY <2>2, IdsOfElements
  <2>10. {d.id : d \in kept'} \subseteq {d.id : d \in kept} \cup {req.id}
    BY <2>2, <2>8
  <2>11. UsedIds' \subseteq UsedIds
    BY <2>1, <2>7, <2>9, <2>10 DEF UsedIds
  <2>12. ~Creating' /\ UniqueIds(remote')
    BY <2>1 DEF Creating, IdsInv
  <2> QED
    BY <2>1, <2>11, <2>12, IdsStep
<1> QED
  BY <1>2, <1>3

LEMMA SaveEditedIds ==
  ASSUME TypeInv, IdsInv, SaveEdited
  PROVE  IdsInv'
<1>1. /\ req.op \in {"move", "transfer"} /\ pc' = "answering"
      /\ 1 \in DOMAIN seen /\ seen[1] \in Screens
      /\ req.op = "move" => overlay' = Upsert(overlay, seen[1])
      /\ req.op = "transfer" =>
           /\ 2 \in DOMAIN seen /\ seen[2] \in Screens
           /\ overlay' = Upsert(Upsert(overlay, seen[1]), seen[2])
      /\ UNCHANGED <<remote, seen, kept, ops>>
  BY SaveEditedDoes
<1> DEFINE source == Upsert(overlay, seen[1])
<1>2. source \in Seq(Screens) /\ IdsOf(source) = IdsOf(overlay) \cup {seen[1].id}
  BY <1>1, TypeFacts, UpsertedLists
<1>3. overlay' = source \/ (req.op = "transfer" /\ overlay' = Upsert(source, seen[2]))
  BY <1>1
<1> HIDE DEF source
<1>4. req.op = "transfer" => IdsOf(Upsert(source, seen[2])) = IdsOf(source) \cup {seen[2].id}
  BY <1>1, <1>2, UpsertedLists
<1>5. seen[1].id \in IdsOf(seen) /\ (req.op = "transfer" => seen[2].id \in IdsOf(seen))
  BY <1>1, IdsOfElements
<1>6. IdsOf(overlay') \subseteq IdsOf(overlay) \cup IdsOf(seen)
  BY <1>2, <1>3, <1>4, <1>5
<1>7. UsedIds' \subseteq UsedIds
  BY <1>1, <1>6 DEF UsedIds
<1>8. ~Creating' /\ UniqueIds(remote')
  BY <1>1 DEF Creating, IdsInv
<1> QED
  BY <1>1, <1>7, <1>8, IdsStep

LEMMA SaveDeletedIds ==
  ASSUME TypeInv, IdsInv, SaveDeleted
  PROVE  IdsInv'
<1> DEFINE new == Without(overlay, req.id)
<1>1. overlay' = new /\ pc' = "idle" /\ UNCHANGED <<remote, seen, kept, ops>>
  BY DEF SaveDeleted, history, AnswerBy, Without
<1>2. overlay \in Seq(Screens)
  BY TypeFacts
<1>3. IdsOf(new) = IdsOf(overlay) \ {req.id}
  BY <1>2, WithoutLists
<1> HIDE DEF new
<1>4. UsedIds' \subseteq UsedIds
  BY <1>1, <1>3 DEF UsedIds
<1>5. ~Creating' /\ UniqueIds(remote')
  BY <1>1 DEF Creating, IdsInv
<1> QED
  BY <1>1, <1>4, <1>5, IdsStep

LEMMA ServeLocallyIds ==
  ASSUME TypeInv, IdsInv, ServeLocally
  PROVE  IdsInv'
<1>1. /\ pc' = "idle" /\ UNCHANGED <<remote, req, seen, ops>>
      /\ \/ UNCHANGED <<overlay, kept>>
         \/ /\ LocalFacts(overlay')
            /\ kept' = kept \cup LocallyKept
  BY ServeLocallyDoes
<1>2. ~Creating' /\ UniqueIds(remote')
  BY <1>1 DEF Creating, IdsInv
<1>3. CASE UNCHANGED <<overlay, kept>>
  BY <1>1, <1>2, <1>3, SameIds
<1>4. CASE ~UNCHANGED <<overlay, kept>>
  <2>1. /\ LocalFacts(overlay')
        /\ kept' = kept \cup LocallyKept
    BY <1>1, <1>4
  <2>2. overlay' \in Seq(Screens) /\ IdsOf(overlay') \subseteq IdsOf(overlay) \cup OldIds
    BY <2>1 DEF LocalFacts
  <2>3. req.op \in {"archive", "pin"} /\ req.flag => req.id \in IdsOf(overlay')
    <3>1. req.op = "archive" /\ req.flag => Carries(overlay', req.id, "archived")
      BY <2>1 DEF LocalFacts
    <3>2. req.op = "pin" /\ req.flag => Carries(overlay', req.id, req.symbol)
      BY <2>1 DEF LocalFacts
    <3> QED
      BY <2>2, <3>1, <3>2, CarriesFirst
  <2>4. \A d \in LocallyKept : d.id \in IdsOf(overlay')
    BY <2>3, LocallyKeptIs
  <2>5. {d.id : d \in kept'} \subseteq {d.id : d \in kept} \cup IdsOf(overlay')
    BY <2>1, <2>3, <2>4
  <2>6. UsedIds' \subseteq UsedIds \cup OldIds
    BY <1>1, <2>2, <2>5 DEF UsedIds
  <2> QED
    BY <1>1, <1>2, <2>6, IdsStep
<1> QED
  BY <1>3, <1>4

LEMMA SaveFailsIds ==
  ASSUME TypeInv, IdsInv, SaveFails
  PROVE  IdsInv'
<1>1. /\ pc' # "sending" /\ UNCHANGED <<remote, seen, ops>>
      /\ \/ UNCHANGED <<overlay, kept>>
         \/ overlay' = <<>> /\ kept' = {}
  BY SaveFailsDoes
<1>2. ~Creating' /\ UniqueIds(remote')
  BY <1>1 DEF Creating, IdsInv
<1>3. CASE UNCHANGED <<overlay, kept>>
  BY <1>1, <1>2, <1>3, SameIds
<1>4. CASE overlay' = <<>> /\ kept' = {}
  <2>1. DOMAIN overlay' = {}
    BY <1>4
  <2>2. IdsOf(overlay') = {} /\ {d.id : d \in kept'} = {}
    BY <1>4, <2>1 DEF IdsOf
  <2>3. UsedIds' \subseteq UsedIds \cup OldIds
    BY <1>1, <2>2 DEF UsedIds
  <2> QED
    BY <1>1, <1>2, <2>3, IdsStep
<1> QED
  BY <1>1, <1>3, <1>4

LEMMA ElsewhereIds ==
  ASSUME TypeInv, IdsInv, Elsewhere
  PROVE  IdsInv'
<1>1. UNCHANGED <<overlay, service, ops>>
  BY ElsewhereDoes
<1>2. PICK k \in DOMAIN remote :
        \/ \E l : ListChanged(k, l)
        \/ /\ remote' = RemoveAt(remote, k)
           /\ kept' = {d \in kept : d.id # remote[k].id}
  BY ElsewhereDoes
<1>3. remote \in Seq(RemoteLists) /\ UniqueIds(remote)
  BY TypeFacts DEF IdsInv
<1>4. UNCHANGED <<pc, req, seen>>
  BY <1>1 DEF service
<1>5. Creating' => Creating
  BY <1>4 DEF Creating
<1>6. UniqueIds(remote') /\ IdsOf(remote') \subseteq IdsOf(remote) /\ kept' \subseteq kept
  <2>1. ASSUME NEW l, ListChanged(k, l)
        PROVE  UniqueIds(remote') /\ IdsOf(remote') \subseteq IdsOf(remote) /\ kept' \subseteq kept
    <3>1. /\ l \in RemoteLists /\ l.id = remote[k].id /\ remote' = [remote EXCEPT ![k] = l]
          /\ kept' \subseteq kept
      BY <2>1 DEF ListChanged
    <3> DEFINE new == [remote EXCEPT ![k] = l]
    <3>2. DOMAIN new = DOMAIN remote
      BY <1>3, <3>1, ReplacedLists
    <3>3. \A i \in DOMAIN remote : new[i] = IF i = k THEN l ELSE remote[i]
      BY <1>3, <3>1, ReplacedLists
    <3>4. remote' = new
      BY <3>1
    <3> HIDE DEF new
    <3>5. \A i \in DOMAIN remote : remote'[i].id = remote[i].id
      BY <3>1, <3>3, <3>4
    <3> QED
      BY <1>3, <3>1, <3>2, <3>4, <3>5 DEF UniqueIds, IdsOf
  <2>2. ASSUME remote' = RemoveAt(remote, k), kept' = {d \in kept : d.id # remote[k].id}
        PROVE  UniqueIds(remote') /\ IdsOf(remote') \subseteq IdsOf(remote) /\ kept' \subseteq kept
    <3>1. /\ IdsOf(RemoveAt(remote, k)) \subseteq IdsOf(remote)
          /\ UniqueIds(remote) => UniqueIds(RemoveAt(remote, k))
      BY <1>3, RemovedList
    <3> QED
      BY <1>3, <2>2, <3>1
  <2> QED
    BY <1>2, <2>1, <2>2
<1>7. UsedIds' \subseteq UsedIds
  BY <1>1, <1>4, <1>6 DEF UsedIds
<1> QED
  BY <1>1, <1>5, <1>6, <1>7, IdsStep

LEMMA IdsAtFirst ==
  ASSUME Init
  PROVE  IdsInv
<1>1. TypeInv /\ remote = InitialRemote /\ overlay \in InitialOverlays /\ seen = <<>>
      /\ kept = UNION {Decorations(l) : l \in Range(View)}
  BY TypeAtFirst DEF Init
<1>2. UniqueIds(remote)
  BY <1>1, IdsAssumption DEF UniqueIds
<1>3. IdsOf(remote) \subseteq OldIds /\ IdsOf(overlay) \subseteq OldIds
  BY <1>1 DEF OldIds
<1>4. IdsOf(seen) = {}
  <2>1. DOMAIN seen = {}
    BY <1>1
  <2> QED
    BY <2>1 DEF IdsOf
<1>5. \A d \in kept : d.id \in IdsOf(remote)
  <2> DEFINE view == LoadScreens({})
  <2>1. View = view
    BY DEF View
  <2>2. IsLoad(view, overlay, remote, {})
    BY <1>1, TypeFacts, LoadScreensLoads
  <2> HIDE DEF view
  <2>3. IdsOf(view) \subseteq IdsOf(remote) /\ view \in Seq(Screens)
    <3>1. view \in Seq(Screens)
      BY <2>2 DEF IsLoad
    <3>2. IdsOf(view) \subseteq IdsOf(remote)
      BY <1>1, <2>2, TypeFacts, LoadedIds
    <3> QED
      BY <3>1, <3>2
  <2>4. ASSUME NEW l \in Range(view), NEW d \in Decorations(l)
        PROVE  d.id \in IdsOf(remote)
    <3>1. l \in Screens
      BY <2>3, ElementsOfSeq
    <3>2. PICK what : d = Pin(l.id, what)
      BY <3>1, DecorationsOf
    <3>3. d.id = l.id
      BY <3>2 DEF Pin
    <3>4. l.id \in IdsOf(view)
      BY DEF Range, IdsOf
    <3> QED
      BY <2>3, <3>3, <3>4
  <2> QED
    BY <1>1, <2>1, <2>4
<1>6. UsedIds \subseteq OldIds
  BY <1>3, <1>4, <1>5 DEF UsedIds
<1>7. \A n \in 1..MaxOps : NewId(n) \notin UsedIds
  BY <1>6, IdsAssumption
<1> QED
  BY <1>2, <1>7 DEF IdsInv

LEMMA IdsKept ==
  ASSUME TypeInv, IdsInv, [Next]_vars
  PROVE  IdsInv'
<1>1. CASE UNCHANGED vars
  <2>1. UNCHANGED <<remote, overlay, pc, req, seen, kept, ops>>
    BY <1>1 DEF vars, service, history
  <2> QED
    BY <2>1, SameIds DEF Creating
<1>2. CASE Answer
  <2>1. pc' \in {"local", "idle"} /\ UNCHANGED <<remote, overlay, seen, kept, ops>>
    BY <1>2, AnswerDoes DEF GivesUp
  <2> QED
    BY <2>1, SameIds DEF Creating
<1>3. CASE Abort
  <2>1. pc' = "down" /\ UNCHANGED <<remote, overlay, seen, kept, ops>>
    BY <1>3, AbortDoes
  <2> QED
    BY <2>1, SameIds DEF Creating
<1>4. CASE Restart
  <2>1. pc' = "idle" /\ UNCHANGED <<remote, overlay, seen, kept, ops>>
    BY <1>4 DEF Restart, history
  <2> QED
    BY <2>1, SameIds DEF Creating
<1> QED
  BY <1>1, <1>2, <1>3, <1>4, CallIds, ResolveIds, ResolveDestinationIds, SendIds, SaveMergedIds,
     SaveCreatedIds, SavePinnedIds, SaveEditedIds, SaveDeletedIds, ServeLocallyIds,
     SaveFailsIds,
     ElsewhereIds DEF Next

------------------------------------------------------------------------------
(* WHAT TDA IS SENT *)

(* Storing the screen loses none of the list's symbols but the one the     *)
(* request takes from it.                                                  *)
Covers(list, screen) ==
  \A s \in Range(list.symbols) :
    \/ s \in Symbols(screen.rows)
    \/ req.op \in {"remove", "transfer"} /\ req.id = screen.id /\ s = req.symbol

SendInv ==
  Busy /\ ~raced =>
    /\ \A i \in DOMAIN seen : \A k \in DOMAIN remote :
         sent < i /\ remote[k].id = seen[i].id => Covers(remote[k], seen[i])
    /\ pc = "resolving" =>
         \A i \in DOMAIN seen : \A k \in DOMAIN remote :
           remote[k].id = seen[i].id => Symbols(seen[i].rows) \subseteq Range(remote[k].symbols)
    /\ 1 \in DOMAIN seen /\ 2 \in DOMAIN seen /\ seen[1].id = seen[2].id
         => Symbols(seen[1].rows) \subseteq Symbols(seen[2].rows)

(* The requests that are past it or not on their way. *)
LEMMA NotBusySendInv ==
  ASSUME pc' \notin {"resolving", "sending", "saving"} \/ raced' = TRUE \/ seen' = <<>>
  PROVE  SendInv'
<1>1. seen' = <<>> => DOMAIN seen' = {}
  OBVIOUS
<1> QED
  BY <1>1 DEF SendInv, Busy

LEMMA ResolveCovers ==
  ASSUME TypeInv, IdsInv, SendInv, Resolve
  PROVE  SendInv'
<1>1. /\ pc = "resolving" /\ seen = <<>> /\ Counted
      /\ \/ GivesUp
         \/ /\ \E j \in DOMAIN remote :
                 LET s == Shown(overlay, remote[j])
                 IN  /\ remote[j].id = req.id /\ s \in Screens
                     /\ RowsNeeded \subseteq Symbols(s.rows)
                     /\ seen' = <<Edited(s)>>
            /\ pc' = IF req.op = "transfer" THEN "resolving" ELSE "sending"
            /\ UNCHANGED <<remote, overlay, req, sent, answer, kept, raced, doubled, ops>>
  BY ResolveDoes
<1>2. CASE GivesUp
  BY <1>2, NotBusySendInv DEF GivesUp
<1>3. CASE ~GivesUp
  <2>1. PICK j \in DOMAIN remote :
          /\ remote[j].id = req.id
          /\ Shown(overlay, remote[j]) \in Screens
          /\ RowsNeeded \subseteq Symbols(Shown(overlay, remote[j]).rows)
          /\ seen' = <<Edited(Shown(overlay, remote[j]))>>
    BY <1>1, <1>3
  <2>2. /\ pc' = IF req.op = "transfer" THEN "resolving" ELSE "sending"
        /\ UNCHANGED <<remote, overlay, req, sent, raced>>
    BY <1>1, <1>3
  <2> DEFINE s == Shown(overlay, remote[j])
             e == Edited(s)
             new == EditedRows(s.rows)
  <2>3. s \in Screens /\ s.id = req.id /\ Symbols(s.rows) = Range(remote[j].symbols)
    BY <2>1, TypeFacts, ShownList
  <2>4. RequestTyped /\ RowsNeeded \subseteq Symbols(s.rows)
    BY <2>1 DEF TypeInv
  <2>5. seen' = <<e>>
    BY <2>1
  <2> HIDE DEF s
  <2>6. e.id = req.id /\ e.rows = new
    BY <2>3, <2>4, EditedScreen
  <2>7. s.rows \in Seq(RowsType)
    BY <2>3 DEF Screens, RowsType, RowSet
  <2>8. /\ \A r \in Range(s.rows) :
             \/ r \in Range(new)
             \/ req.op \in {"remove", "transfer"} /\ r.symbol = req.symbol
             \/ req.op = "pin" /\ r.symbol = req.symbol /\ req.symbol \in Symbols(new)
        /\ req.op = "transfer" => Symbols(new) \subseteq Symbols(s.rows)
    BY <2>4, <2>7, EditedRange
  <2> HIDE DEF new, e
  <2>9. Covers(remote[j], e)
    <3> SUFFICES ASSUME NEW x \in Range(remote[j].symbols)
                 PROVE  \/ x \in Symbols(e.rows)
                        \/ req.op \in {"remove", "transfer"} /\ req.id = e.id /\ x = req.symbol
      BY DEF Covers
    <3>1. PICK r \in Range(s.rows) : r.symbol = x
      BY <2>3, SymbolsAreOfRange
    <3>2. r \in Range(new) => x \in Symbols(new)
      BY <3>1, SymbolsAreOfRange
    <3> QED
      BY <2>6, <2>8, <3>1, <3>2
  <2>10. DOMAIN seen' = {1} /\ seen'[1] = e /\ 2 \notin DOMAIN seen'
    BY <2>5
  <2>11. \A k \in DOMAIN remote : remote[k].id = e.id => k = j
    BY <2>1, <2>6 DEF IdsInv, UniqueIds
  <2>12. pc' = "resolving" => Symbols(e.rows) \subseteq Range(remote[j].symbols)
    BY <2>2, <2>3, <2>6, <2>8
  <2>13. \A i \in DOMAIN seen' : \A k \in DOMAIN remote' :
           remote'[k].id = seen'[i].id => Covers(remote'[k], seen'[i])
    BY <2>2, <2>9, <2>10, <2>11
  <2>14. \A i \in DOMAIN seen' : \A k \in DOMAIN remote' :
           pc' = "resolving" /\ remote'[k].id = seen'[i].id
             => Symbols(seen'[i].rows) \subseteq Range(remote'[k].symbols)
    BY <2>2, <2>10, <2>11, <2>12
  <2>15. \A list, screen : Covers(list, screen) =>
           \A x \in Range(list.symbols) :
              \/ x \in Symbols(screen.rows)
              \/ req'.op \in {"remove", "transfer"} /\ req'.id = screen.id /\ x = req'.symbol
    BY <2>2 DEF Covers
  <2> QED
    BY <2>10, <2>13, <2>14, <2>15 DEF SendInv, Covers
<1> QED
  BY <1>2, <1>3

LEMMA ResolveDestinationCovers ==
  ASSUME TypeInv, IdsInv, SendInv, ResolveDestination
  PROVE  SendInv'
<1>1. /\ pc = "resolving" /\ seen # <<>> /\ Counted
      /\ \/ GivesUp
         \/ /\ \E j \in DOMAIN remote :
                 LET s == Shown(overlay, remote[j])
                 IN  /\ remote[j].id = req.to /\ s \in Screens
                     /\ seen' = Append(seen, WithRow(s, Row(req.symbol, FALSE)))
            /\ pc' = "sending"
            /\ UNCHANGED <<remote, overlay, req, sent, answer, kept, raced, doubled, ops>>
  BY ResolveDestinationDoes
<1>2. CASE GivesUp
  BY <1>2, NotBusySendInv DEF GivesUp
<1>3. CASE raced
  <2>1. raced' = TRUE
    BY <1>1, <1>3 DEF GivesUp, TypeInv, TypeOK
  <2> QED
    BY <2>1, NotBusySendInv
<1>4. CASE ~GivesUp /\ ~raced
  <2>1. PICK j \in DOMAIN remote :
          /\ remote[j].id = req.to
          /\ Shown(overlay, remote[j]) \in Screens
          /\ seen' = Append(seen, WithRow(Shown(overlay, remote[j]), Row(req.symbol, FALSE)))
    BY <1>1, <1>4
  <2>2. pc' = "sending" /\ UNCHANGED <<remote, overlay, req, sent, raced>>
    BY <1>1, <1>4
  <2>3. req.op = "transfer" /\ req.symbol \in SymbolSet /\ Len(seen) = 1 /\ sent = 0
    BY <1>1 DEF TypeInv, StagesInOrder, RequestTyped
  <2> DEFINE s == Shown(overlay, remote[j])
             e == WithRow(s, Row(req.symbol, FALSE))
  <2>4. s \in Screens /\ s.id = req.to /\ Symbols(s.rows) = Range(remote[j].symbols)
    BY <2>1, TypeFacts, ShownList
  <2>5. seen' = Append(seen, e) /\ seen \in Seq(Screens)
    BY <2>1, TypeFacts
  <2> HIDE DEF s
  <2>6. /\ e \in Screens /\ e.id = req.to
        /\ Symbols(e.rows) = Symbols(s.rows) \cup {req.symbol}
    BY <2>3, <2>4, WithRowScreen
  <2> HIDE DEF e
  <2>7. DOMAIN seen' = {1, 2} /\ seen'[1] = seen[1] /\ seen'[2] = e /\ DOMAIN seen = {1}
    <3>1. /\ Append(seen, e) \in Seq(Screens) /\ Len(Append(seen, e)) = Len(seen) + 1
          /\ \A i \in 1..Len(seen) : Append(seen, e)[i] = seen[i]
          /\ Append(seen, e)[Len(seen) + 1] = e
      BY <2>5, <2>6, AppendProperties
    <3>2. Len(seen') = 2 /\ seen' \in Seq(Screens)
      BY <2>3, <2>5, <3>1
    <3>3. DOMAIN seen' = 1..2 /\ DOMAIN seen = 1..1
      BY <2>3, <2>5, <3>2, LenProperties
    <3> QED
      BY <2>3, <2>5, <3>1, <3>3
  <2>8. /\ \A k \in DOMAIN remote : remote[k].id = seen[1].id => Covers(remote[k], seen[1])
        /\ \A k \in DOMAIN remote :
             remote[k].id = seen[1].id => Symbols(seen[1].rows) \subseteq Range(remote[k].symbols)
    BY <1>1, <1>4, <2>3, <2>7 DEF SendInv, Busy
  <2>9. \A k \in DOMAIN remote : remote[k].id = e.id => k = j
    BY <2>1, <2>6 DEF IdsInv, UniqueIds
  <2>10. Covers(remote[j], e)
    BY <2>4, <2>6 DEF Covers
  <2>11. seen[1].id = e.id => Symbols(seen[1].rows) \subseteq Symbols(e.rows)
    BY <2>1, <2>4, <2>6, <2>8
  <2>12. \A list, screen : Covers(list, screen) =>
           \A x \in Range(list.symbols) :
              \/ x \in Symbols(screen.rows)
              \/ req'.op \in {"remove", "transfer"} /\ req'.id = screen.id /\ x = req'.symbol
    BY <2>2 DEF Covers
  <2>13. \A i \in DOMAIN seen' : \A k \in DOMAIN remote' :
           remote'[k].id = seen'[i].id => Covers(remote'[k], seen'[i])
    BY <2>2, <2>7, <2>8, <2>9, <2>10
  <2> QED
    BY <2>2, <2>7, <2>11, <2>12, <2>13 DEF SendInv, Covers
<1> QED
  BY <1>2, <1>3, <1>4

LEMMA SendCovers ==
  ASSUME TypeInv, IdsInv, SendInv, Send
  PROVE  SendInv'
<1>1. /\ pc = "sending"
      /\ sent' = sent + 1
      /\ pc' = IF sent + 1 < Len(seen) THEN "sending" ELSE "saving"
      /\ UNCHANGED <<overlay, req, seen, answer, kept, raced, ops>>
      /\ UNCHANGED remote \/ remote' = Stored
  BY SendDoes
<1>2. /\ sent \in 0..2 /\ Len(seen) \in Nat /\ DOMAIN seen = 1..Len(seen)
      /\ Len(seen) = Resolved /\ req.op # "none" /\ req.op # "archive"
      /\ \A i \in DOMAIN seen : seen[i] \in Screens
  BY <1>1, TypeFacts DEF TypeInv, StagesInOrder, Busy
<1>3. CASE raced
  <2>1. raced' = TRUE
    BY <1>1, <1>3 DEF TypeInv, TypeOK
  <2> QED
    BY <2>1, NotBusySendInv
<1>4. CASE ~raced
  <2>1. /\ \A i \in DOMAIN seen : \A k \in DOMAIN remote :
             sent < i /\ remote[k].id = seen[i].id => Covers(remote[k], seen[i])
        /\ 1 \in DOMAIN seen /\ 2 \in DOMAIN seen /\ seen[1].id = seen[2].id
             => Symbols(seen[1].rows) \subseteq Symbols(seen[2].rows)
    BY <1>1, <1>4 DEF SendInv, Busy
  <2>2. pc' # "resolving"
    BY <1>1
  <2>3. \A i \in DOMAIN seen : \A k \in DOMAIN remote' :
          sent' < i /\ remote'[k].id = seen[i].id => Covers(remote'[k], seen[i])
    <3>1. CASE UNCHANGED remote
      BY <1>1, <1>2, <2>1, <3>1
    <3>2. CASE remote' = Stored /\ req.op \in {"create", "delete"}
      <4>1. Len(seen) <= 1
        BY <1>2, <3>2 DEF Resolved
      <4>2. \A i \in DOMAIN seen : ~(sent' < i)
        BY <1>1, <1>2, <4>1
      <4> QED
        BY <4>2
    <3>3. CASE remote' = Stored /\ req.op \notin {"create", "delete"}
      <4> DEFINE s == seen[sent + 1]
      <4>1. /\ sent + 1 \in DOMAIN seen /\ s \in Screens
            /\ DOMAIN remote' = DOMAIN remote
            /\ \A k \in DOMAIN remote : remote'[k] = IF remote[k].id # s.id THEN remote[k] ELSE AsList(s)
        BY <1>1, <3>3, StoredDoes
      <4> SUFFICES ASSUME NEW i \in DOMAIN seen, NEW k \in DOMAIN remote,
                          sent' < i, remote'[k].id = seen[i].id
                   PROVE  Covers(remote'[k], seen[i])
        BY <4>1
      <4>2. sent = 0 /\ i = 2
        <5>1. Len(seen) <= 2
          BY <1>2 DEF Resolved
        <5> QED
          BY <1>1, <1>2, <5>1
      <4>3. CASE remote[k].id # s.id
        BY <1>2, <2>1, <4>1, <4>2, <4>3
      <4>4. CASE remote[k].id = s.id
        <5>1. remote'[k] = AsList(s) /\ s = seen[1]
          BY <4>1, <4>2, <4>4
        <5>2. AsList(s).id = s.id /\ Range(AsList(s).symbols) = Symbols(s.rows)
          BY <4>1, AsListSame DEF SameAs
        <5>3. Symbols(seen[1].rows) \subseteq Symbols(seen[2].rows)
          BY <1>2, <2>1, <4>1, <4>2, <5>1, <5>2
        <5> QED
          BY <4>2, <5>1, <5>2, <5>3 DEF Covers
      <4> QED
        BY <4>3, <4>4
    <3> QED
      BY <1>1, <3>1, <3>2, <3>3
  <2>4. \A list, screen : Covers(list, screen) =>
           \A x \in Range(list.symbols) :
              \/ x \in Symbols(screen.rows)
              \/ req'.op \in {"remove", "transfer"} /\ req'.id = screen.id /\ x = req'.symbol
    BY <1>1 DEF Covers
  <2> QED
    BY <1>1, <2>1, <2>2, <2>3, <2>4 DEF SendInv, Covers
<1> QED
  BY <1>3, <1>4

LEMMA SendKept ==
  ASSUME TypeInv, IdsInv, SendInv, [Next]_vars
  PROVE  SendInv'
<1>1. CASE UNCHANGED vars
  <2>1. UNCHANGED <<remote, pc, req, seen, sent, raced>>
    BY <1>1 DEF vars, service, history
  <2> QED
    BY <2>1 DEF SendInv, Busy, Covers
<1>2. CASE Call
  BY <1>2, CallDoes, NotBusySendInv
<1>3. CASE SaveMerged \/ SaveCreated \/ SavePinned \/ SaveEdited \/ SaveDeleted
             \/ Answer \/ ServeLocally \/ SaveFails \/ Abort \/ Restart
  <2>1. SaveMerged => pc' \in {"local", "answering"}
    BY SaveMergedDoes DEF GivesUp
  <2>2. SaveCreated => pc' \in {"local", "idle"}
    BY SaveCreatedDoes
  <2>3. SavePinned => pc' \in {"local", "idle"}
    BY SavePinnedDoes DEF GivesUp
  <2>4. SaveEdited => pc' = "answering"
    BY SaveEditedDoes
  <2>5. SaveDeleted => pc' = "idle"
    BY DEF SaveDeleted, AnswerBy
  <2>6. Answer => pc' \in {"local", "idle"}
    BY AnswerDoes DEF GivesUp
  <2>7. ServeLocally => pc' = "idle"
    BY ServeLocallyDoes
  <2>8. (Abort => pc' = "down") /\ (Restart => pc' = "idle")
    BY DEF Abort, Restart
  <2>9. SaveFails => pc' \in {"local", "idle", "down"}
    BY SaveFailsDoes
  <2> QED
    BY <1>3, <2>1, <2>2, <2>3, <2>4, <2>5, <2>6, <2>7, <2>8, <2>9, NotBusySendInv
<1>4. CASE Elsewhere
  BY <1>4, ElsewhereDoes, NotBusySendInv
<1> QED
  BY <1>1, <1>2, <1>3, <1>4, ResolveCovers, ResolveDestinationCovers, SendCovers DEF Next

LEMMA AlwaysCovers == Spec => [](TypeInv /\ IdsInv /\ SendInv)
<1>1. Init => TypeInv /\ IdsInv /\ SendInv
  <2>1. Init => SendInv
    BY DEF Init, SendInv, Busy
  <2> QED
    BY <2>1, TypeAtFirst, IdsAtFirst
<1>2. TypeInv /\ IdsInv /\ SendInv /\ [Next]_vars => (TypeInv /\ IdsInv /\ SendInv)'
  BY TypeKept, IdsKept, SendKept
<1> QED
  BY <1>1, <1>2, PTL DEF Spec

(* No list at TDA loses a symbol the request was not to take from it, as   *)
(* long as nobody else changes it while the request is served.             *)
THEOREM OthersSymbolsStay == Spec => OnlyAskedSymbolsLeave
<1> DEFINE Left(l, s) ==
             \/ \E m \in Range(remote') : m.id = l.id /\ s \in Range(m.symbols)
             \/ /\ req.op \in {"remove", "delete", "transfer"} /\ req.id = l.id
                /\ req.op # "delete" => s = req.symbol
           Step == ~raced' => \A l \in Range(remote) : \A s \in Range(l.symbols) : Left(l, s)
<1>1. TypeInv /\ IdsInv /\ SendInv /\ [Next]_vars => Step
  <2> SUFFICES ASSUME TypeInv, IdsInv, SendInv, [Next]_vars, ~raced',
                      NEW k \in DOMAIN remote, NEW s \in Range(remote[k].symbols)
               PROVE  Left(remote[k], s)
    BY DEF Range
  <2>1. CASE UNCHANGED remote
    <3>1. remote[k] \in Range(remote')
      BY <2>1 DEF Range
    <3> QED
      BY <3>1
  <2>2. CASE ~UNCHANGED remote
    <3>1. Send
      <4>1. ~UNCHANGED vars
        BY <2>2 DEF vars
      <4>2. ~(Call \/ Resolve \/ ResolveDestination \/ SaveMerged \/ SaveCreated \/ SavePinned
              \/ SaveEdited \/ SaveDeleted \/ Answer \/ ServeLocally \/ SaveFails \/ Abort
              \/ Restart)
        BY <2>2 DEF Call, Resolve, ResolveDestination, SaveMerged, SaveAll, SaveCreated, SavePinned,
                    SaveEdited, SaveDeleted, Answer, ServeLocally, SaveFails, Abort, Restart
      <4>3. ~Elsewhere
        BY DEF Elsewhere
      <4> QED
        BY <4>1, <4>2, <4>3 DEF Next
    <3>2. /\ pc = "sending" /\ remote' = Stored /\ ~raced
          /\ UNCHANGED <<req, seen>>
      BY <2>2, <3>1, SendDoes
    <3>3. remote \in Seq(RemoteLists)
      BY TypeFacts
    <3>4. CASE req.op = "create"
      <4>1. PICK l \in RemoteLists : Stored = Append(remote, l)
        BY <3>2, <3>4, StoredDoes
      <4>2. Range(Append(remote, l)) = Range(remote) \cup {l}
        BY <3>3, AppendedRange
      <4>3. remote[k] \in Range(remote')
        BY <3>2, <4>1, <4>2 DEF Range
      <4> QED
        BY <4>3
    <3>5. CASE req.op = "delete"
      <4> DEFINE new == Without(remote, req.id)
      <4>1. remote' = new
        BY <3>2, <3>5, StoredDoes DEF Without
      <4>2. CASE remote[k].id = req.id
        BY <3>5, <4>2
      <4>3. CASE remote[k].id # req.id
        <5>1. /\ new \in Seq(RemoteLists)
              /\ IdsOf(new) = IdsOf(remote) \ {req.id}
              /\ \A i \in IdsOf(remote) : i # req.id => First(new, i) = First(remote, i)
          BY <3>3, WithoutLists
        <5> HIDE DEF new
        <5>2. remote[k].id \in IdsOf(remote) /\ remote[k].id \in IdsOf(new)
          BY <4>3, <5>1 DEF IdsOf
        <5>3. First(new, remote[k].id) = First(remote, remote[k].id)
          BY <4>3, <5>1, <5>2
        <5>4. First(new, remote[k].id) \in Range(new)
          BY <5>1, <5>2, FirstFacts
        <5>5. First(remote, remote[k].id) = remote[k]
          <6>1. Find(remote, remote[k].id) \in DOMAIN remote
                /\ remote[Find(remote, remote[k].id)].id = remote[k].id
            BY <3>3, <5>2, FirstFacts DEF First
          <6> QED
            BY <6>1 DEF First, IdsInv, UniqueIds
        <5> QED
          BY <4>1, <5>3, <5>4, <5>5
      <4> QED
        BY <4>2, <4>3
    <3>6. CASE req.op \notin {"create", "delete"}
      <4> DEFINE e == seen[sent + 1]
      <4>1. /\ sent + 1 \in DOMAIN seen /\ e \in Screens
            /\ DOMAIN remote' = DOMAIN remote
            /\ \A i \in DOMAIN remote : remote'[i] = IF remote[i].id # e.id THEN remote[i] ELSE AsList(e)
        BY <3>2, <3>6, StoredDoes
      <4>2. remote'[k] \in Range(remote')
        BY <4>1 DEF Range
      <4>3. CASE remote[k].id # e.id
        BY <4>1, <4>2, <4>3
      <4>4. CASE remote[k].id = e.id
        <5>1. Covers(remote[k], e)
          <6>1. sent < sent + 1
            BY TypeFacts
          <6> QED
            BY <3>2, <4>1, <4>4, <6>1 DEF SendInv, Busy
        <5>2. remote'[k].id = e.id /\ Range(remote'[k].symbols) = Symbols(e.rows)
          BY <4>1, <4>4, AsListSame DEF SameAs
        <5> HIDE DEF e
        <5>3. CASE s \in Symbols(e.rows)
          BY <4>2, <4>4, <5>2, <5>3
        <5>4. CASE s \notin Symbols(e.rows)
          BY <4>4, <5>1, <5>4 DEF Covers
        <5> QED
          BY <5>3, <5>4
      <4> QED
        BY <4>3, <4>4
    <3> QED
      BY <3>4, <3>5, <3>6
  <2> QED
    BY <2>1, <2>2
<1>2. TypeInv /\ IdsInv /\ SendInv /\ [Next]_vars => [Step]_vars
  BY <1>1
<1> QED
  BY <1>2, AlwaysCovers, PTL DEF Spec, OnlyAskedSymbolsLeave

------------------------------------------------------------------------------
(* PINS AND ARCHIVE FLAGS *)

Has(symbols, what) == what = "archived" \/ what \in symbols

(* As long as TDA has the list, the overlay has the decoration of it, and  *)
(* TDA the row.                                                            *)
KeptAt(over, lists, d) ==
  \A k \in DOMAIN lists : lists[k].id = d.id =>
    Carries(over, d.id, d.what) /\ Has(Range(lists[k].symbols), d.what)

(* Storing the screens takes no decorated row from TDA; those that go to   *)
(* the overlay as they are have the decorations as well.                   *)
KeptIn(op, screens, d) ==
  \A i \in DOMAIN screens : screens[i].id = d.id =>
    /\ Has(Symbols(screens[i].rows), d.what)
    /\ op \in {"move", "transfer"} => Decorated(screens[i], d.what)

KeptInv ==
  /\ \A d \in kept : d = Pin(d.id, d.what) /\ KeptAt(overlay, remote, d)
  /\ Busy => \A d \in kept : KeptIn(req.op, seen, d)
  /\ pc \notin {"idle", "down"} => Undone(req) \cap kept = {}

LEMMA NothingKeptIsTaken ==
  ASSUME KeptInv, pc \notin {"idle", "down"}, NEW d \in kept
  PROVE  ~Takes(d.id, d.what)
<1>1. d = Pin(d.id, d.what) /\ d \notin Undone(req)
  BY DEF KeptInv
<1>2. Takes(d.id, d.what) => d \in Undone(req)
  <2>1. CASE req.op = "remove"
    BY <1>1, <2>1 DEF Takes, Undone
  <2>2. CASE req.op = "pin"
    BY <1>1, <2>2 DEF Takes, Undone
  <2>3. CASE req.op = "archive"
    BY <1>1, <2>3 DEF Takes, Undone, Pin, Archive
  <2>4. CASE req.op = "transfer"
    BY <1>1, <2>4 DEF Takes, Undone
  <2>5. CASE req.op = "delete"
    BY <2>5 DEF Takes, Undone
  <2> QED
    BY <2>1, <2>2, <2>3, <2>4, <2>5 DEF Takes
<1> QED
  BY <1>1, <1>2

LEMMA UndoneShrinks ==
  ASSUME req' = req, kept' \subseteq kept, Undone(req) \cap kept = {}
  PROVE  Undone(req)' \cap kept' = {}
<1>1. CASE req.op # "delete"
  <2>1. Undone(req)' = Undone(req)
    BY <1>1 DEF Undone, Pin, Archive
  <2> QED
    BY <2>1
<1>2. CASE req.op = "delete"
  <2>1. Undone(req) = {d \in kept : d.id = req.id} /\ Undone(req)' = {d \in kept' : d.id = req.id}
    BY <1>2 DEF Undone
  <2> QED
    BY <2>1
<1> QED
  BY <1>1, <1>2

(* The rest of a step that takes no new decorations. *)
LEMMA KeptStep ==
  ASSUME KeptInv, req' = req, kept' \subseteq kept,
         pc' \in {"idle", "down"} \/ pc \notin {"idle", "down"},
         \A d \in kept' : KeptAt(overlay', remote', d),
         pc' \in {"resolving", "sending", "saving"} => \A d \in kept' : KeptIn(req.op, seen', d)
  PROVE  KeptInv'
<1>1. \A d \in kept' : d = Pin(d.id, d.what)
  BY DEF KeptInv
<1>2. pc' \notin {"idle", "down"} => Undone(req)' \cap kept' = {}
  BY UndoneShrinks DEF KeptInv
<1>5. Busy' => pc' \in {"resolving", "sending", "saving"}
  BY DEF Busy
<1>6. \A d \in kept' : (d = Pin(d.id, d.what))'
  BY <1>1 DEF Pin
<1>7. \A d \in kept' : (KeptAt(overlay, remote, d))'
  BY DEF KeptAt, Carries, Has, Decorated
<1>8. Busy' => \A d \in kept' : (KeptIn(req.op, seen, d))'
  BY <1>5 DEF KeptIn, Has, Decorated
<1> QED
  BY <1>2, <1>6, <1>7, <1>8 DEF KeptInv

(* Nothing it speaks of changes. *)
LEMMA SameKept ==
  ASSUME KeptInv, UNCHANGED <<remote, overlay, req, seen, kept>>,
         \/ pc' \in {"idle", "down"}
         \/ pc \notin {"idle", "down"} /\ (pc' \in {"resolving", "sending", "saving"} => Busy)
  PROVE  KeptInv'
BY KeptStep DEF KeptInv

LEMMA CallKept ==
  ASSUME TypeInv, KeptInv, Call
  PROVE  KeptInv'
<1>1. /\ kept' \subseteq kept /\ Undone(req)' \cap kept' = {}
      /\ seen' = <<>> /\ UNCHANGED <<remote, overlay>>
  BY CallDoes
<1>2. DOMAIN seen' = {}
  BY <1>1
<1>3. \A d \in kept' : (d = Pin(d.id, d.what))'
  BY <1>1 DEF KeptInv, Pin
<1>4. \A d \in kept' : (KeptAt(overlay, remote, d))'
  BY <1>1 DEF KeptInv, KeptAt, Carries, Has, Decorated
<1>5. \A d \in kept' : (KeptIn(req.op, seen, d))'
  BY <1>2 DEF KeptIn
<1> QED
  BY <1>1, <1>3, <1>4, <1>5 DEF KeptInv

LEMMA ShownDecorated ==
  ASSUME TypeInv, KeptInv, NEW d \in kept, NEW j \in DOMAIN remote, remote[j].id = d.id
  PROVE  Decorated(Shown(overlay, remote[j]), d.what) /\ Has(Range(remote[j].symbols), d.what)
<1>1. Carries(overlay, d.id, d.what) /\ Has(Range(remote[j].symbols), d.what)
  BY DEF KeptInv, KeptAt
<1> QED
  BY <1>1, TypeFacts, ShownList DEF Has

LEMMA ResolveKept ==
  ASSUME TypeInv, IdsInv, KeptInv, Resolve
  PROVE  KeptInv'
<1>1. /\ pc = "resolving" /\ seen = <<>> /\ Counted
      /\ \/ GivesUp
         \/ /\ \E j \in DOMAIN remote :
                 LET s == Shown(overlay, remote[j])
                 IN  /\ remote[j].id = req.id /\ s \in Screens
                     /\ RowsNeeded \subseteq Symbols(s.rows)
                     /\ seen' = <<Edited(s)>>
            /\ pc' = IF req.op = "transfer" THEN "resolving" ELSE "sending"
            /\ UNCHANGED <<remote, overlay, req, sent, answer, kept, raced, doubled, ops>>
  BY ResolveDoes
<1>2. CASE GivesUp
  BY <1>1, <1>2, SameKept DEF GivesUp
<1>3. CASE ~GivesUp
  <2>1. PICK j \in DOMAIN remote :
          /\ remote[j].id = req.id
          /\ Shown(overlay, remote[j]) \in Screens
          /\ RowsNeeded \subseteq Symbols(Shown(overlay, remote[j]).rows)
          /\ seen' = <<Edited(Shown(overlay, remote[j]))>>
    BY <1>1, <1>3
  <2>2. UNCHANGED <<remote, overlay, req, kept>>
    BY <1>1, <1>3
  <2> DEFINE s == Shown(overlay, remote[j])
             e == Edited(s)
             new == EditedRows(s.rows)
  <2>3. \A d \in kept : d.id = req.id =>
          Decorated(s, d.what) /\ Has(Symbols(s.rows), d.what) /\ ~Takes(d.id, d.what)
    <3> SUFFICES ASSUME NEW d \in kept, d.id = req.id
                 PROVE  Decorated(s, d.what) /\ Has(Symbols(s.rows), d.what) /\ ~Takes(d.id, d.what)
      OBVIOUS
    <3>1. Decorated(s, d.what) /\ Has(Range(remote[j].symbols), d.what)
      BY <2>1, ShownDecorated
    <3>2. Symbols(s.rows) = Range(remote[j].symbols)
      BY TypeFacts, ShownList
    <3>3. ~Takes(d.id, d.what)
      BY <1>1, NothingKeptIsTaken
    <3> QED
      BY <3>1, <3>2, <3>3
  <2>4. s \in Screens /\ s.id = req.id /\ RequestTyped /\ RowsNeeded \subseteq Symbols(s.rows)
    BY <2>1, TypeFacts, ShownList DEF TypeInv
  <2>5. seen' = <<e>>
    BY <2>1
  <2> HIDE DEF s
  <2>6. e.id = req.id /\ e.rows = new /\ e.archived = s.archived
    BY <2>4, EditedScreen
  <2>7. s.rows \in Seq(RowsType)
    BY <2>4 DEF Screens, RowsType, RowSet
  <2>8. \A r \in Range(s.rows) :
           \/ r \in Range(new)
           \/ req.op \in {"remove", "transfer"} /\ r.symbol = req.symbol
           \/ req.op = "pin" /\ r.symbol = req.symbol /\ req.symbol \in Symbols(new)
    BY <2>4, <2>7, EditedRange
  <2> HIDE DEF new, e
  <2>9. ASSUME NEW d \in kept, d.id = req.id
        PROVE  /\ Has(Symbols(e.rows), d.what)
               /\ req.op \in {"move", "transfer"} => Decorated(e, d.what)
    <3>1. ~(req.op \in {"remove", "transfer"} /\ d.what = req.symbol)
      BY <2>3, <2>9 DEF Takes
    <3>2. CASE d.what = "archived" /\ s.archived
      BY <2>6, <3>2 DEF Has, Decorated
    <3>3. CASE d.what \in SymbolSet /\ Row(d.what, TRUE) \in Range(s.rows)
      <4>1. Row(d.what, TRUE).symbol = d.what
        BY DEF Row
      <4>2. Row(d.what, TRUE) \in Range(new) => d.what \in Symbols(new)
        BY <4>1, SymbolsAreOfRange
      <4>3. Has(Symbols(e.rows), d.what)
        BY <2>6, <2>8, <3>1, <3>3, <4>1, <4>2 DEF Has
      <4>4. req.op \in {"move", "transfer"} => Row(d.what, TRUE) \in Range(e.rows)
        BY <2>6, <2>8, <3>1, <3>3, <4>1
      <4> QED
        BY <3>3, <4>3, <4>4 DEF Decorated
    <3> QED
      BY <2>3, <2>9, <3>2, <3>3 DEF Decorated
  <2>10. DOMAIN seen' = {1} /\ seen'[1] = e
    BY <2>5
  <2>11. \A d \in kept : KeptIn(req.op, seen', d)
    BY <2>6, <2>9, <2>10 DEF KeptIn
  <2> QED
    BY <1>1, <2>2, <2>11, KeptStep DEF KeptInv
<1> QED
  BY <1>2, <1>3

LEMMA ResolveDestinationKept ==
  ASSUME TypeInv, IdsInv, KeptInv, ResolveDestination
  PROVE  KeptInv'
<1>1. /\ pc = "resolving" /\ seen # <<>> /\ Counted
      /\ \/ GivesUp
         \/ /\ \E j \in DOMAIN remote :
                 LET s == Shown(overlay, remote[j])
                 IN  /\ remote[j].id = req.to /\ s \in Screens
                     /\ seen' = Append(seen, WithRow(s, Row(req.symbol, FALSE)))
            /\ pc' = "sending"
            /\ UNCHANGED <<remote, overlay, req, sent, answer, kept, raced, doubled, ops>>
  BY ResolveDestinationDoes
<1>2. CASE GivesUp
  BY <1>1, <1>2, SameKept DEF GivesUp
<1>3. CASE ~GivesUp
  <2>1. PICK j \in DOMAIN remote :
          /\ remote[j].id = req.to
          /\ Shown(overlay, remote[j]) \in Screens
          /\ seen' = Append(seen, WithRow(Shown(overlay, remote[j]), Row(req.symbol, FALSE)))
    BY <1>1, <1>3
  <2>2. pc' = "sending" /\ UNCHANGED <<remote, overlay, req, kept>>
    BY <1>1, <1>3
  <2>3. req.op = "transfer" /\ req.symbol \in SymbolSet
    BY <1>1 DEF TypeInv, StagesInOrder, RequestTyped
  <2> DEFINE s == Shown(overlay, remote[j])
             e == WithRow(s, Row(req.symbol, FALSE))
  <2>4. \A d \in kept : d.id = req.to => Decorated(s, d.what) /\ Has(Symbols(s.rows), d.what)
    <3> SUFFICES ASSUME NEW d \in kept, d.id = req.to
                 PROVE  Decorated(s, d.what) /\ Has(Symbols(s.rows), d.what)
      OBVIOUS
    <3>1. Decorated(s, d.what) /\ Has(Range(remote[j].symbols), d.what)
      BY <2>1, ShownDecorated
    <3>2. Symbols(s.rows) = Range(remote[j].symbols)
      BY TypeFacts, ShownList
    <3> QED
      BY <3>1, <3>2
  <2>5. s \in Screens /\ s.id = req.to
    BY <2>1, TypeFacts, ShownList
  <2>6. seen' = Append(seen, e) /\ seen \in Seq(Screens)
    BY <2>1, TypeFacts
  <2> HIDE DEF s
  <2>7. /\ e \in Screens /\ e.id = req.to /\ e.archived = s.archived
        /\ Range(s.rows) \subseteq Range(e.rows) /\ Symbols(s.rows) \subseteq Symbols(e.rows)
    BY <2>3, <2>5, WithRowScreen
  <2> HIDE DEF e
  <2>8. \A d \in kept : d.id = e.id => Decorated(e, d.what) /\ Has(Symbols(e.rows), d.what)
    BY <2>4, <2>7 DEF Decorated, Has
  <2> DEFINE longer == Append(seen, e)
             n == Len(seen) + 1
  <2>9. /\ \A i \in DOMAIN seen : longer[i] = seen[i]
        /\ \A i \in DOMAIN longer : i \in DOMAIN seen \/ i = n
        /\ longer[n] = e
    BY <2>6, <2>7, AppendedLists
  <2> HIDE DEF longer, n
  <2>10. \A d \in kept : KeptIn(req.op, seen, d)
    BY <1>1 DEF KeptInv, Busy
  <2>11. \A d \in kept : KeptIn(req.op, longer, d)
    BY <2>8, <2>9, <2>10 DEF KeptIn
  <2>12. seen' = longer
    BY <2>6 DEF longer
  <2> QED
    BY <1>1, <2>2, <2>11, <2>12, KeptStep DEF KeptInv
<1> QED
  BY <1>2, <1>3

LEMMA SendKeepsThem ==
  ASSUME TypeInv, IdsInv, KeptInv, Send
  PROVE  KeptInv'
<1>1. /\ pc = "sending"
      /\ pc' = IF sent + 1 < Len(seen) THEN "sending" ELSE "saving"
      /\ UNCHANGED <<overlay, req, seen, answer, kept, raced, ops>>
      /\ UNCHANGED remote \/ remote' = Stored
  BY SendDoes
<1>2. \A d \in kept : KeptIn(req.op, seen, d) /\ KeptAt(overlay, remote, d)
  BY <1>1 DEF KeptInv, Busy
<1>3. \A d \in kept : KeptAt(overlay, remote', d)
  <2> SUFFICES ASSUME NEW d \in kept PROVE KeptAt(overlay, remote', d)
    OBVIOUS
  <2>1. CASE UNCHANGED remote
    BY <1>2, <2>1
  <2>2. CASE remote' = Stored /\ req.op = "create"
    <3>1. PICK l \in RemoteLists : l.id = NewId(ops) /\ Stored = Append(remote, l)
      BY <1>1, <2>2, StoredDoes
    <3>2. d.id # NewId(ops)
      <4>1. ops \in 1..MaxOps
        BY <1>1, TypeFacts DEF TypeInv, StagesInOrder
      <4>2. d.id \in UsedIds
        BY DEF UsedIds
      <4> QED
        BY <1>1, <2>2, <4>1, <4>2 DEF IdsInv, Creating
    <3> DEFINE longer == Append(remote, l)
               n == Len(remote) + 1
    <3>3. /\ \A i \in DOMAIN remote : longer[i] = remote[i]
          /\ \A i \in DOMAIN longer : i \in DOMAIN remote \/ i = n
          /\ longer[n] = l
      <4>1. remote \in Seq(RemoteLists)
        BY TypeFacts
      <4> QED
        BY <4>1, AppendedLists
    <3> HIDE DEF longer, n
    <3>4. KeptAt(overlay, longer, d)
      BY <1>2, <3>1, <3>2, <3>3 DEF KeptAt
    <3> QED
      BY <2>2, <3>1, <3>4 DEF longer
  <2>3. CASE remote' = Stored /\ req.op = "delete"
    <3> DEFINE new == Without(remote, req.id)
    <3>1. remote' = new
      BY <1>1, <2>3, StoredDoes DEF Without
    <3>2. Range(new) \subseteq Range(remote)
      <4>1. remote \in Seq(RemoteLists)
        BY TypeFacts
      <4> QED
        BY <4>1, WithoutLists
    <3> HIDE DEF new
    <3>3. \A k \in DOMAIN new : \E j \in DOMAIN remote : new[k] = remote[j]
      BY <3>2 DEF Range
    <3> QED
      BY <1>2, <3>1, <3>3 DEF KeptAt
  <2>4. CASE remote' = Stored /\ req.op \notin {"create", "delete"}
    <3> DEFINE s == seen[sent + 1]
    <3>1. /\ sent + 1 \in DOMAIN seen /\ s \in Screens
          /\ DOMAIN remote' = DOMAIN remote
          /\ \A k \in DOMAIN remote : remote'[k] = IF remote[k].id # s.id THEN remote[k] ELSE AsList(s)
      BY <1>1, <2>4, StoredDoes
    <3>2. AsList(s).id = s.id /\ Range(AsList(s).symbols) = Symbols(s.rows)
      BY <3>1, AsListSame DEF SameAs
    <3>3. s.id = d.id => Has(Symbols(s.rows), d.what)
      BY <1>2, <3>1 DEF KeptIn
    <3> HIDE DEF s
    <3> SUFFICES ASSUME NEW k \in DOMAIN remote, remote'[k].id = d.id
                 PROVE  Carries(overlay, d.id, d.what) /\ Has(Range(remote'[k].symbols), d.what)
      BY <3>1 DEF KeptAt
    <3>4. CASE remote[k].id # s.id
      BY <1>2, <3>1, <3>4 DEF KeptAt
    <3>5. CASE remote[k].id = s.id
      BY <1>2, <3>1, <3>2, <3>3, <3>5 DEF KeptAt
    <3> QED
      BY <3>4, <3>5
  <2> QED
    BY <1>1, <2>1, <2>2, <2>3, <2>4
<1> QED
  BY <1>1, <1>2, <1>3, KeptStep

LEMMA OverwrittenKept ==
  ASSUME TypeInv, IdsInv, KeptInv, UNCHANGED <<remote, req>>,
         pc' \notin {"resolving", "sending", "saving"}, pc \notin {"idle", "down"},
         NEW missed, Overwritten(missed)
  PROVE  KeptInv'
<1> DEFINE new == overlay'
<1>1. /\ IsLoad(new, overlay, remote, missed)
      /\ kept' = {d \in kept : Served(d.id, missed)}
      /\ new \in Seq(Screens)
  BY DEF Overwritten, IsLoad
<1> HIDE DEF new
<1>2. ASSUME NEW d \in kept, Served(d.id, missed), NEW k \in DOMAIN remote, remote[k].id = d.id
      PROVE  Carries(new, d.id, d.what) /\ Has(Range(remote[k].symbols), d.what)
  <2> DEFINE s == Shown(overlay, remote[k])
  <2>1. Decorated(s, d.what) /\ Has(Range(remote[k].symbols), d.what)
    BY <1>2, ShownDecorated
  <2>2. \E i \in DOMAIN new : new[i] = s
    BY <1>1, <1>2 DEF IsLoad
  <2>3. \A i \in DOMAIN new : new[i].id = d.id => new[i] = s
    <3> SUFFICES ASSUME NEW i \in DOMAIN new, new[i].id = d.id PROVE new[i] = s
      OBVIOUS
    <3>1. PICK j \in DOMAIN remote : new[i] = Shown(overlay, remote[j])
      BY <1>1 DEF IsLoad
    <3>2. new[i].id = remote[j].id
      BY <3>1, TypeFacts, ShownList
    <3>3. j = k
      BY <1>2, <3>2 DEF IdsInv, UniqueIds
    <3> QED
      BY <3>1, <3>3
  <2>4. s.id = d.id
    BY <1>2, TypeFacts, ShownList
  <2> HIDE DEF s
  <2>5. d.id \in IdsOf(new)
    BY <2>2, <2>4 DEF IdsOf
  <2>6. Find(new, d.id) \in DOMAIN new /\ First(new, d.id).id = d.id
    BY <1>1, <2>5, FirstFacts
  <2>7. First(new, d.id) = s
    BY <2>3, <2>6 DEF First
  <2>8. Carries(new, d.id, d.what)
    BY <1>1, <2>1, <2>5, <2>7, CarriesFirst
  <2> QED
    BY <2>1, <2>8
<1>3. \A d \in kept' : KeptAt(new, remote, d)
  BY <1>1, <1>2 DEF KeptAt
<1> QED
  BY <1>1, <1>3, KeptStep DEF new

LEMMA UpsertCarries ==
  ASSUME NEW lists \in Seq(Screens), NEW l \in Screens, NEW id, NEW what,
         IF id = l.id THEN Decorated(l, what) ELSE Carries(lists, id, what)
  PROVE  Carries(Upsert(lists, l), id, what)
<1> DEFINE new == Upsert(lists, l)
<1>1. /\ new \in Seq(Screens)
      /\ IdsOf(new) = IdsOf(lists) \cup {l.id}
      /\ First(new, l.id) = l
      /\ \A i \in IdsOf(lists) : i # l.id => First(new, i) = First(lists, i)
  BY UpsertedLists
<1>2. id # l.id => id \in IdsOf(lists) /\ Decorated(First(lists, id), what)
  BY CarriesFirst
<1> HIDE DEF new
<1>3. id \in IdsOf(new) /\ Decorated(First(new, id), what)
  BY <1>1, <1>2
<1>4. Carries(new, id, what)
  BY <1>1, <1>3, CarriesFirst
<1> QED
  BY <1>4 DEF new

LEMMA SavePinnedKept ==
  ASSUME TypeInv, IdsInv, KeptInv, SavePinned
  PROVE  KeptInv'
<1>1. /\ pc = "saving" /\ req.op = "pin"
      /\ \/ GivesUp
         \/ /\ \E j \in DOMAIN remote :
                 LET s == Shown(overlay, remote[j])
                     f == FlaggedScreen(s)
                 IN  /\ remote[j].id = req.id
                     /\ overlay' = Upsert(overlay, f)
                     /\ kept' = IF Row(req.symbol, TRUE) \in Range(f.rows)
                                THEN kept \cup {Pin(req.id, req.symbol)} ELSE kept
            /\ pc' = "idle" /\ answer' = [by |-> "tda", id |-> req.id]
            /\ UNCHANGED <<remote, req, seen, sent, raced, doubled, ops>>
  BY SavePinnedDoes
<1>2. CASE GivesUp
  BY <1>1, <1>2, SameKept DEF GivesUp
<1>3. CASE ~GivesUp
  <2>1. PICK j \in DOMAIN remote :
          LET f == FlaggedScreen(Shown(overlay, remote[j]))
          IN  /\ remote[j].id = req.id
              /\ overlay' = Upsert(overlay, f)
              /\ kept' = IF Row(req.symbol, TRUE) \in Range(f.rows)
                         THEN kept \cup {Pin(req.id, req.symbol)} ELSE kept
    BY <1>1, <1>3
  <2>2. pc' = "idle" /\ UNCHANGED <<remote, req>>
    BY <1>1, <1>3
  <2>3. req.symbol \in SymbolSet /\ req.flag \in BOOLEAN
    BY <1>1 DEF TypeInv, RequestTyped
  <2> DEFINE s == Shown(overlay, remote[j])
             f == FlaggedScreen(s)
             symbols == Range(remote[j].symbols)
  <2>4. s \in Screens /\ s.id = req.id /\ Symbols(s.rows) = symbols
    BY <2>1, TypeFacts, ShownList
  <2>5. \A d \in kept : d.id = req.id => Decorated(s, d.what) /\ ~Takes(d.id, d.what)
    BY <1>1, <2>1, ShownDecorated, NothingKeptIsTaken
  <2>6. overlay' = Upsert(overlay, f) /\ overlay \in Seq(Screens)
        /\ kept' = IF Row(req.symbol, TRUE) \in Range(f.rows)
                   THEN kept \cup {Pin(req.id, req.symbol)} ELSE kept
    BY <2>1, TypeFacts
  <2> HIDE DEF s
  <2>7. /\ f \in Screens /\ f.id = req.id /\ f.archived = s.archived
        /\ f.rows = Flagged(s.rows, req.symbol, req.flag)
    BY <2>3, <2>4, FlaggedScreenIs
  <2>8. s.rows \in Seq(RowsType)
    BY <2>4 DEF Screens, RowsType, RowSet
  <2>9. /\ Symbols(f.rows) = symbols
        /\ \A r \in Range(s.rows) : r.symbol # req.symbol => r \in Range(f.rows)
        /\ req.symbol \in Symbols(s.rows) => Row(req.symbol, req.flag) \in Range(f.rows)
    BY <2>3, <2>4, <2>7, <2>8, FlaggedRows
  <2> HIDE DEF f
  <2>10. \A x : Row(x, TRUE).symbol = x
    BY DEF Row
  <2>11. ASSUME NEW d \in kept, d.id = req.id PROVE Decorated(f, d.what)
    <3>1. CASE d.what = "archived" /\ s.archived
      BY <2>7, <3>1 DEF Decorated
    <3>2. CASE d.what \in SymbolSet /\ Row(d.what, TRUE) \in Range(s.rows)
      <4>1. CASE d.what # req.symbol
        BY <2>9, <2>10, <3>2, <4>1 DEF Decorated
      <4>2. CASE d.what = req.symbol
        <5>1. req.flag = TRUE
          BY <1>1, <2>3, <2>5, <2>11, <4>2 DEF Takes
        <5>2. req.symbol \in Symbols(s.rows)
          BY <2>10, <3>2, <4>2, SymbolsAreOfRange
        <5> QED
          BY <2>9, <3>2, <4>2, <5>1, <5>2 DEF Decorated
      <4> QED
        BY <4>1, <4>2
    <3> QED
      BY <2>5, <2>11, <3>1, <3>2 DEF Decorated
  <2>12. ASSUME NEW d \in kept', NEW k \in DOMAIN remote, remote[k].id = d.id
         PROVE  Carries(overlay', d.id, d.what) /\ Has(Range(remote[k].symbols), d.what)
    <3>1. CASE d \in kept
      <4>1. Carries(overlay, d.id, d.what) /\ Has(Range(remote[k].symbols), d.what)
        BY <2>12, <3>1 DEF KeptInv, KeptAt
      <4>2. Carries(Upsert(overlay, f), d.id, d.what)
        BY <2>6, <2>7, <2>11, <3>1, <4>1, UpsertCarries
      <4> QED
        BY <2>6, <4>1, <4>2
    <3>2. CASE Row(req.symbol, TRUE) \in Range(f.rows) /\ d = Pin(req.id, req.symbol)
      <4>1. d.id = req.id /\ d.what = req.symbol
        BY <3>2 DEF Pin
      <4>2. Decorated(f, d.what)
        BY <2>3, <3>2, <4>1 DEF Decorated
      <4>3. Carries(Upsert(overlay, f), d.id, d.what)
        BY <2>6, <2>7, <4>1, <4>2, UpsertCarries
      <4>4. k = j
        BY <2>1, <2>12, <4>1 DEF IdsInv, UniqueIds
      <4>5. req.symbol \in Symbols(f.rows)
        BY <2>10, <3>2, SymbolsAreOfRange
      <4> QED
        BY <2>6, <2>9, <4>1, <4>3, <4>4, <4>5 DEF Has
    <3> QED
      BY <2>6, <3>1, <3>2
  <2>13. \A d \in kept' : (d = Pin(d.id, d.what))'
    <3>1. \A d \in kept' : d \in kept \/ d = Pin(req.id, req.symbol)
      BY <2>6
    <3> QED
      BY <3>1 DEF KeptInv, Pin
  <2>14. \A d \in kept' : (KeptAt(overlay, remote, d))'
    BY <2>2, <2>12 DEF KeptAt, Carries, Has, Decorated
  <2> QED
    BY <2>2, <2>13, <2>14 DEF KeptInv, Busy
<1> QED
  BY <1>2, <1>3

LEMMA SaveEditedKept ==
  ASSUME TypeInv, IdsInv, KeptInv, SaveEdited
  PROVE  KeptInv'
<1>1. /\ pc = "saving" /\ req.op \in {"move", "transfer"} /\ pc' = "answering"
      /\ 1 \in DOMAIN seen /\ seen[1] \in Screens
      /\ req.op = "move" => overlay' = Upsert(overlay, seen[1])
      /\ req.op = "transfer" =>
           /\ 2 \in DOMAIN seen /\ seen[2] \in Screens
           /\ overlay' = Upsert(Upsert(overlay, seen[1]), seen[2])
      /\ UNCHANGED <<remote, req, kept>>
  BY SaveEditedDoes
<1>2. ASSUME NEW d \in kept, NEW k \in DOMAIN remote, remote[k].id = d.id
      PROVE  Carries(overlay', d.id, d.what) /\ Has(Range(remote[k].symbols), d.what)
  <2>1. Carries(overlay, d.id, d.what) /\ Has(Range(remote[k].symbols), d.what)
    BY <1>2 DEF KeptInv, KeptAt
  <2>2. \A i \in DOMAIN seen : seen[i].id = d.id => Decorated(seen[i], d.what)
    BY <1>1 DEF KeptInv, KeptIn, Busy
  <2> DEFINE source == Upsert(overlay, seen[1])
  <2>3. overlay \in Seq(Screens)
    BY TypeFacts
  <2>4. Carries(source, d.id, d.what)
    BY <1>1, <2>1, <2>2, <2>3, UpsertCarries
  <2>5. source \in Seq(Screens)
    BY <1>1, <2>3, UpsertedLists
  <2>6. req.op = "move" => overlay' = source
    BY <1>1
  <2>7. req.op = "transfer" => overlay' = Upsert(source, seen[2])
    BY <1>1
  <2> HIDE DEF source
  <2>8. req.op = "transfer" => Carries(Upsert(source, seen[2]), d.id, d.what)
    BY <1>1, <2>2, <2>4, <2>5, UpsertCarries
  <2> QED
    BY <1>1, <2>1, <2>4, <2>6, <2>7, <2>8
<1> QED
  BY <1>1, <1>2, KeptStep DEF KeptAt

LEMMA SaveDeletedKept ==
  ASSUME TypeInv, IdsInv, KeptInv, SaveDeleted
  PROVE  KeptInv'
<1> DEFINE new == Without(overlay, req.id)
<1>1. /\ overlay' = new /\ pc = "saving" /\ req.op = "delete" /\ pc' = "idle"
      /\ UNCHANGED <<remote, req, kept>>
  BY DEF SaveDeleted, history, AnswerBy, Without
<1>2. /\ new \in Seq(Screens)
      /\ IdsOf(new) = IdsOf(overlay) \ {req.id}
      /\ \A i \in IdsOf(overlay) : i # req.id => First(new, i) = First(overlay, i)
      /\ overlay \in Seq(Screens)
  BY TypeFacts, WithoutLists
<1> HIDE DEF new
<1>3. ASSUME NEW d \in kept, NEW k \in DOMAIN remote, remote[k].id = d.id
      PROVE  Carries(new, d.id, d.what) /\ Has(Range(remote[k].symbols), d.what)
  <2>1. Carries(overlay, d.id, d.what) /\ Has(Range(remote[k].symbols), d.what)
    BY <1>3 DEF KeptInv, KeptAt
  <2>2. d.id # req.id
    BY <1>1, NothingKeptIsTaken DEF Takes
  <2>3. d.id \in IdsOf(overlay) /\ Decorated(First(overlay, d.id), d.what)
    BY <1>2, <2>1, CarriesFirst
  <2>4. Carries(new, d.id, d.what)
    BY <1>2, <2>2, <2>3, CarriesFirst
  <2> QED
    BY <2>1, <2>4
<1> QED
  BY <1>1, <1>3, KeptStep DEF KeptAt

LEMMA ServeLocallyKept ==
  ASSUME TypeInv, IdsInv, KeptInv, ServeLocally
  PROVE  KeptInv'
<1>1. /\ pc = "local" /\ pc' = "idle" /\ UNCHANGED <<remote, req, seen>>
      /\ \/ UNCHANGED <<overlay, kept>>
         \/ /\ LocalFacts(overlay')
            /\ kept' = kept \cup LocallyKept
  BY ServeLocallyDoes
<1>2. CASE UNCHANGED <<overlay, kept>>
  BY <1>1, <1>2, SameKept
<1>3. CASE /\ LocalFacts(overlay')
           /\ kept' = kept \cup LocallyKept
  <2>1. /\ \A id, what : Carries(overlay, id, what) /\ ~Takes(id, what) => Carries(overlay', id, what)
        /\ req.op = "archive" /\ req.flag => Carries(overlay', req.id, "archived")
        /\ req.op = "pin" /\ req.flag => Carries(overlay', req.id, req.symbol)
    BY <1>3 DEF LocalFacts
  <2>2. ASSUME NEW d \in kept', NEW k \in DOMAIN remote, remote[k].id = d.id
        PROVE  Carries(overlay', d.id, d.what) /\ Has(Range(remote[k].symbols), d.what)
    <3>1. CASE d \in kept
      <4>1. ~Takes(d.id, d.what)
        BY <1>1, <3>1, NothingKeptIsTaken
      <4> QED
        BY <2>1, <2>2, <3>1, <4>1 DEF KeptInv, KeptAt
    <3>2. CASE d \in LocallyKept
      <4>1. /\ d.id = req.id /\ req.flag
            /\ \/ req.op = "archive" /\ d.what = "archived"
               \/ req.op = "pin" /\ d.what = req.symbol /\ HasAtTda(req.id, req.symbol)
        BY <3>2, LocallyKeptIs
      <4>2. Carries(overlay', d.id, d.what)
        BY <2>1, <4>1
      <4>3. CASE d.what = "archived"
        BY <4>2, <4>3 DEF Has
      <4>4. CASE d.what = req.symbol /\ HasAtTda(req.id, req.symbol)
        <5>1. PICK j \in DOMAIN remote :
                remote[j].id = req.id /\ req.symbol \in Range(remote[j].symbols)
          BY <4>4 DEF HasAtTda, Range
        <5>2. j = k
          BY <2>2, <4>1, <5>1 DEF IdsInv, UniqueIds
        <5> QED
          BY <4>2, <4>4, <5>1, <5>2 DEF Has
      <4> QED
        BY <4>1, <4>3, <4>4
    <3> QED
      BY <1>3, <3>1, <3>2
  <2>3. \A d \in kept' : (d = Pin(d.id, d.what))'
    <3>1. \A d \in kept' : d = Pin(d.id, d.what)
      BY <1>3, LocallyKeptIs DEF KeptInv
    <3> QED
      BY <3>1 DEF Pin
  <2>4. \A d \in kept' : (KeptAt(overlay, remote, d))'
    BY <1>1, <2>2 DEF KeptAt, Carries, Has, Decorated
  <2> QED
    BY <1>1, <2>3, <2>4 DEF KeptInv, Busy
<1> QED
  BY <1>1, <1>2, <1>3

LEMMA SaveFailsKept ==
  ASSUME TypeInv, KeptInv, SaveFails
  PROVE  KeptInv'
<1>1. /\ pc \in {"saving", "local"} /\ pc' \in {"local", "idle", "down"}
      /\ UNCHANGED <<remote, req, seen>>
      /\ \/ UNCHANGED <<overlay, kept>>
         \/ overlay' = <<>> /\ kept' = {}
  BY SaveFailsDoes
<1>2. CASE UNCHANGED <<overlay, kept>>
  BY <1>1, <1>2, SameKept
<1>3. CASE kept' = {}
  BY <1>1, <1>3, KeptStep
<1> QED
  BY <1>1, <1>2, <1>3

LEMMA ElsewhereKept ==
  ASSUME TypeInv, IdsInv, KeptInv, Elsewhere
  PROVE  KeptInv'
<1>1. UNCHANGED <<overlay, pc, req, seen>>
  BY ElsewhereDoes DEF service
<1>2. PICK k \in DOMAIN remote :
        \/ \E l : ListChanged(k, l)
        \/ /\ remote' = RemoveAt(remote, k)
           /\ kept' = {d \in kept : d.id # remote[k].id}
  BY ElsewhereDoes
<1>3. remote \in Seq(RemoteLists)
  BY TypeFacts
<1>4. kept' \subseteq kept
  BY <1>2 DEF ListChanged
<1>5. ASSUME NEW l, ListChanged(k, l), NEW d \in kept'
      PROVE  KeptAt(overlay, remote', d)
  <2>1. /\ l.id = remote[k].id /\ remote' = [remote EXCEPT ![k] = l]
        /\ \/ Range(remote[k].symbols) \subseteq Range(l.symbols) /\ kept' = kept
           \/ \E symbol : /\ Range(l.symbols) = Range(remote[k].symbols) \ {symbol}
                          /\ kept' = kept \ {Pin(l.id, symbol)}
    BY <1>5 DEF ListChanged
  <2>2. d \in kept /\ d = Pin(d.id, d.what) /\ KeptAt(overlay, remote, d)
    BY <1>4 DEF KeptInv
  <2>3. d.id = l.id /\ Has(Range(remote[k].symbols), d.what) => Has(Range(l.symbols), d.what)
    BY <2>1, <2>2 DEF Has
  <2>4. /\ DOMAIN remote' = DOMAIN remote
        /\ \A i \in DOMAIN remote : remote'[i] = IF i = k THEN l ELSE remote[i]
    BY <2>1
  <2> QED
    BY <2>1, <2>2, <2>3, <2>4 DEF KeptAt
<1>6. ASSUME remote' = RemoveAt(remote, k), NEW d \in kept'
      PROVE  KeptAt(overlay, remote', d)
  <2> DEFINE new == RemoveAt(remote, k)
  <2>1. Range(new) \subseteq Range(remote)
    BY <1>3, RemovedList
  <2> HIDE DEF new
  <2>2. \A i \in DOMAIN new : \E j \in DOMAIN remote : new[i] = remote[j]
    BY <2>1 DEF Range
  <2>3. KeptAt(overlay, remote, d)
    BY <1>4 DEF KeptInv
  <2>4. KeptAt(overlay, new, d)
    BY <2>2, <2>3 DEF KeptAt
  <2> QED
    BY <1>6, <2>4 DEF new
<1>7. \A d \in kept' : KeptAt(overlay, remote', d)
  BY <1>2, <1>5, <1>6
<1>8. Busy => \A d \in kept' : KeptIn(req.op, seen, d)
  BY <1>4 DEF KeptInv
<1> QED
  BY <1>1, <1>4, <1>7, <1>8, KeptStep DEF Busy

LEMMA KeptKept ==
  ASSUME TypeInv, IdsInv, KeptInv, [Next]_vars
  PROVE  KeptInv'
<1>1. CASE UNCHANGED vars
  <2>1. UNCHANGED <<remote, overlay, pc, req, seen, kept>>
    BY <1>1 DEF vars, service, history
  <2> QED
    BY <2>1, SameKept DEF Busy
<1>2. CASE SaveMerged
  <2>1. /\ pc = "saving"
        /\ \/ GivesUp
           \/ /\ pc' = "answering" /\ \E missed : Overwritten(missed)
              /\ UNCHANGED <<remote, req>>
    BY <1>2, SaveMergedDoes
  <2> QED
    BY <2>1, SameKept, OverwrittenKept DEF GivesUp
<1>3. CASE SaveCreated
  <2>1. /\ pc = "saving" /\ pc' \in {"local", "idle"}
        /\ UNCHANGED <<remote, req, seen>>
        /\ UNCHANGED <<overlay, kept>> \/ \E missed : Overwritten(missed)
    BY <1>3, SaveCreatedDoes
  <2> QED
    BY <2>1, SameKept, OverwrittenKept
<1>4. CASE Answer
  <2>1. /\ pc = "answering" /\ pc' \in {"local", "idle"}
        /\ UNCHANGED <<remote, overlay, req, seen, kept>>
    BY <1>4, AnswerDoes DEF GivesUp
  <2> QED
    BY <2>1, SameKept
<1>5. CASE Abort
  BY <1>5, AbortDoes, SameKept
<1>6. CASE Restart
  <2>1. pc' = "idle" /\ UNCHANGED <<remote, overlay, req, seen, kept>>
    BY <1>6 DEF Restart, history
  <2> QED
    BY <2>1, SameKept
<1> QED
  BY <1>1, <1>2, <1>3, <1>4, <1>5, <1>6, CallKept, ResolveKept, ResolveDestinationKept,
     SendKeepsThem, SavePinnedKept, SaveEditedKept, SaveDeletedKept, ServeLocallyKept,
     SaveFailsKept,
     ElsewhereKept DEF Next

LEMMA KeptAtFirst ==
  ASSUME Init
  PROVE  KeptInv
<1>1. /\ remote = InitialRemote /\ pc = "idle"
      /\ kept = UNION {Decorations(l) : l \in Range(View)}
  BY DEF Init
<1>2. TypeInv /\ UniqueIds(remote)
  BY <1>1, TypeAtFirst, IdsAssumption DEF UniqueIds
<1> DEFINE view == LoadScreens({})
<1>3. IsLoad(view, overlay, remote, {})
  BY <1>2, TypeFacts, LoadScreensLoads
<1>4. kept = UNION {Decorations(l) : l \in Range(view)}
  BY <1>1 DEF View
<1> HIDE DEF view
<1>5. ASSUME NEW d \in kept
      PROVE  d = Pin(d.id, d.what) /\ KeptAt(overlay, remote, d)
  <2>1. PICK i \in DOMAIN view : d \in Decorations(view[i])
    BY <1>4 DEF Range
  <2>2. PICK j \in DOMAIN remote : view[i] = Shown(overlay, remote[j])
    BY <1>3 DEF IsLoad
  <2> DEFINE s == view[i]
  <2>3. /\ s \in Screens /\ s.id = remote[j].id
        /\ \A what : Decorated(s, what) =>
             Carries(overlay, remote[j].id, what) /\ Has(Range(remote[j].symbols), what)
    BY <1>2, <2>2, TypeFacts, ShownList DEF Has
  <2> HIDE DEF s
  <2>4. PICK what : d = Pin(s.id, what) /\ Decorated(s, what)
    BY <2>1, <2>3, DecorationsOf DEF s
  <2>5. d.id = s.id /\ d.what = what
    BY <2>4 DEF Pin
  <2>6. \A k \in DOMAIN remote : remote[k].id = d.id => k = j
    BY <1>2, <2>3, <2>5 DEF UniqueIds
  <2> QED
    BY <2>3, <2>4, <2>5, <2>6 DEF KeptAt
<1> QED
  BY <1>1, <1>5 DEF KeptInv, Busy

(* A pin or an archive flag that a client was told of is shown until it is *)
(* taken back, through whatever goes wrong on either side, but for a load  *)
(* without its account or a write that emptied the overlay and failed.     *)
THEOREM DecorationsAreKept == Spec => []DecorationsSurvive
<1>1. Init => TypeInv /\ IdsInv /\ KeptInv
  BY TypeAtFirst, IdsAtFirst, KeptAtFirst
<1>2. TypeInv /\ IdsInv /\ KeptInv /\ [Next]_vars => (TypeInv /\ IdsInv /\ KeptInv)'
  BY TypeKept, IdsKept, KeptKept
<1>3. TypeInv /\ KeptInv => DecorationsSurvive
  <2> SUFFICES ASSUME TypeInv, KeptInv PROVE DecorationsSurvive
    OBVIOUS
  <2> DEFINE view == LoadScreens({})
  <2>1. IsLoad(view, overlay, remote, {})
    BY TypeFacts, LoadScreensLoads
  <2>2. View = view
    BY DEF View
  <2> HIDE DEF view
  <2>3. ASSUME NEW i \in DOMAIN view, NEW d \in kept, view[i].id = d.id
        PROVE  d \in Decorations(view[i])
    <3>1. PICK j \in DOMAIN remote : view[i] = Shown(overlay, remote[j])
      BY <2>1 DEF IsLoad
    <3>2. view[i] \in Screens /\ view[i].id = remote[j].id
      BY <3>1, TypeFacts, ShownList
    <3>3. Decorated(view[i], d.what)
      BY <2>3, <3>1, <3>2, ShownDecorated
    <3>4. d = Pin(d.id, d.what)
      BY DEF KeptInv
    <3> QED
      BY <2>3, <3>2, <3>3, <3>4, DecorationsOf
  <2> QED
    BY <2>2, <2>3 DEF DecorationsSurvive, Range
<1> QED
  BY <1>1, <1>2, <1>3, PTL DEF Spec

------------------------------------------------------------------------------
(* SYMBOLS TWICE *)

AllSymbolsOnce(lists) == \A k \in DOMAIN lists : SymbolsOnce(lists[k])

(* Unless a transfer has doubled a symbol, nothing holds one twice. *)
OnceInv ==
  ~doubled =>
    /\ AllSymbolsOnce(remote) /\ AllOnce(overlay)
    /\ pc = "saving" => AllOnce(seen)

LEMMA ShownRowsOnce ==
  ASSUME TypeInv, AllSymbolsOnce(remote), AllOnce(overlay), NEW j \in DOMAIN remote
  PROVE  EachOnce(Shown(overlay, remote[j]).rows)
<1>1. /\ \A k \in DOMAIN overlay : EachOnce(overlay[k].rows)
      /\ \A i, k \in DOMAIN remote[j].symbols : remote[j].symbols[i] = remote[j].symbols[k] => i = k
  BY DEF AllSymbolsOnce, SymbolsOnce, AllOnce
<1> QED
  BY <1>1, TypeFacts, ShownOnce

(* The rest of a step, with the primes where they are harmless. *)
LEMMA OnceStep ==
  ASSUME ~doubled' => /\ AllSymbolsOnce(remote') /\ AllOnce(overlay')
                      /\ pc' = "saving" => AllOnce(seen')
  PROVE  OnceInv'
<1>1. AllSymbolsOnce(remote') => AllSymbolsOnce(remote)'
  BY DEF AllSymbolsOnce, SymbolsOnce
<1>2. (AllOnce(overlay') => AllOnce(overlay)') /\ (AllOnce(seen') => AllOnce(seen)')
  BY DEF AllOnce, EachOnce
<1> QED
  BY <1>1, <1>2 DEF OnceInv

LEMMA OverwrittenOnce ==
  ASSUME TypeInv, OnceInv, UNCHANGED <<remote, doubled>>, pc' # "saving",
         NEW missed, Overwritten(missed)
  PROVE  OnceInv'
<1> SUFFICES ASSUME ~doubled' PROVE AllSymbolsOnce(remote') /\ AllOnce(overlay')
  BY OnceStep
<1>1. AllSymbolsOnce(remote) /\ AllOnce(overlay)
  BY DEF OnceInv
<1>2. \A i \in DOMAIN overlay' : \E j \in DOMAIN remote : overlay'[i] = Shown(overlay, remote[j])
  BY DEF Overwritten, IsLoad
<1>3. \A i \in DOMAIN overlay' : EachOnce(overlay'[i].rows)
  BY <1>1, <1>2, ShownRowsOnce
<1> QED
  BY <1>1, <1>3 DEF AllOnce

LEMMA UpsertOnce ==
  ASSUME NEW lists \in Seq(Screens), NEW l \in Screens, AllOnce(lists), EachOnce(l.rows)
  PROVE  Upsert(lists, l) \in Seq(Screens) /\ AllOnce(Upsert(lists, l))
<1> DEFINE new == Upsert(lists, l)
<1>1. new \in Seq(Screens) /\ Range(new) \subseteq Range(lists) \cup {l}
  BY UpsertedLists
<1> HIDE DEF new
<1>2. AllOnce(new)
  BY <1>1, AllOnceRange
<1> QED
  BY <1>1, <1>2 DEF new

LEMMA SendOnce ==
  ASSUME TypeInv, OnceInv, Send
  PROVE  OnceInv'
<1>1. /\ pc = "sending" /\ UNCHANGED <<overlay, seen>>
      /\ doubled \in BOOLEAN /\ (doubled => doubled')
      /\ ~doubled' => \A k \in DOMAIN seen : EachOnce(seen[k].rows)
      /\ UNCHANGED remote \/ remote' = Stored
  BY SendDoes DEF TypeInv, TypeOK
<1> SUFFICES ASSUME ~doubled'
             PROVE  AllSymbolsOnce(remote') /\ AllOnce(overlay') /\ AllOnce(seen')
  BY OnceStep
<1>2. AllSymbolsOnce(remote) /\ AllOnce(overlay) /\ AllOnce(seen)
  BY <1>1 DEF OnceInv, AllOnce
<1>3. AllSymbolsOnce(remote')
  <2>1. CASE UNCHANGED remote
    BY <1>2, <2>1
  <2>2. CASE remote' = Stored /\ req.op = "create"
    <3>1. PICK l \in RemoteLists : l.symbols = <<>> /\ Stored = Append(remote, l)
      BY <1>1, <2>2, StoredDoes
    <3>2. SymbolsOnce(l)
      BY <3>1 DEF SymbolsOnce
    <3> DEFINE longer == Append(remote, l)
               n == Len(remote) + 1
    <3>3. /\ \A i \in DOMAIN remote : longer[i] = remote[i]
          /\ \A i \in DOMAIN longer : i \in DOMAIN remote \/ i = n
          /\ longer[n] = l
      <4>1. remote \in Seq(RemoteLists)
        BY TypeFacts
      <4> QED
        BY <4>1, AppendedLists
    <3> HIDE DEF longer, n
    <3>4. AllSymbolsOnce(longer)
      BY <1>2, <3>2, <3>3 DEF AllSymbolsOnce
    <3> QED
      BY <2>2, <3>1, <3>4 DEF longer
  <2>3. CASE remote' = Stored /\ req.op = "delete"
    <3> DEFINE new == Without(remote, req.id)
    <3>1. remote' = new
      BY <1>1, <2>3, StoredDoes DEF Without
    <3>2. Range(new) \subseteq Range(remote)
      <4>1. remote \in Seq(RemoteLists)
        BY TypeFacts
      <4> QED
        BY <4>1, WithoutLists
    <3> HIDE DEF new
    <3>3. \A k \in DOMAIN new : \E j \in DOMAIN remote : new[k] = remote[j]
      BY <3>2 DEF Range
    <3> QED
      BY <1>2, <3>1, <3>3 DEF AllSymbolsOnce
  <2>4. CASE remote' = Stored /\ req.op \notin {"create", "delete"}
    <3> DEFINE s == seen[sent + 1]
    <3>1. /\ sent + 1 \in DOMAIN seen /\ s \in Screens
          /\ DOMAIN remote' = DOMAIN remote
          /\ \A k \in DOMAIN remote : remote'[k] = IF remote[k].id # s.id THEN remote[k] ELSE AsList(s)
      BY <1>1, <2>4, StoredDoes
    <3>2. SymbolsOnce(AsList(s))
      BY <1>2, <3>1, AsListSame DEF AllOnce
    <3> HIDE DEF s
    <3> QED
      BY <1>2, <3>1, <3>2 DEF AllSymbolsOnce
  <2> QED
    BY <1>1, <2>1, <2>2, <2>3, <2>4
<1> QED
  BY <1>1, <1>2, <1>3

LEMMA SavePinnedOnce ==
  ASSUME TypeInv, OnceInv, SavePinned
  PROVE  OnceInv'
<1>1. /\ pc = "saving" /\ req.op = "pin" /\ pc' # "saving"
      /\ UNCHANGED <<remote, doubled>>
      /\ \/ UNCHANGED overlay
         \/ \E j \in DOMAIN remote :
              overlay' = Upsert(overlay, FlaggedScreen(Shown(overlay, remote[j])))
  BY SavePinnedDoes DEF GivesUp
<1> SUFFICES ASSUME ~doubled' PROVE AllSymbolsOnce(remote') /\ AllOnce(overlay')
  BY <1>1, OnceStep
<1>2. AllSymbolsOnce(remote) /\ AllOnce(overlay)
  BY <1>1 DEF OnceInv
<1>3. ASSUME NEW j \in DOMAIN remote,
             overlay' = Upsert(overlay, FlaggedScreen(Shown(overlay, remote[j])))
      PROVE  AllOnce(overlay')
  <2> DEFINE s == Shown(overlay, remote[j])
             f == FlaggedScreen(s)
  <2>1. s \in Screens /\ EachOnce(s.rows) /\ overlay \in Seq(Screens)
    BY <1>2, TypeFacts, ShownList, ShownRowsOnce
  <2>2. req.symbol \in SymbolSet /\ req.flag \in BOOLEAN
    BY <1>1 DEF TypeInv, RequestTyped
  <2> HIDE DEF s
  <2>3. s.rows \in Seq(RowsType)
    BY <2>1 DEF Screens, RowsType, RowSet
  <2>4. f \in Screens /\ f.rows = Flagged(s.rows, req.symbol, req.flag)
    BY <2>1, <2>2, FlaggedScreenIs
  <2>5. EachOnce(f.rows)
    BY <2>1, <2>2, <2>3, <2>4, FlaggedRows
  <2>6. overlay' = Upsert(overlay, f)
    BY <1>3 DEF s
  <2> HIDE DEF f
  <2> QED
    BY <1>2, <2>1, <2>4, <2>5, <2>6, UpsertOnce
<1> QED
  BY <1>1, <1>2, <1>3

LEMMA SaveEditedOnce ==
  ASSUME TypeInv, OnceInv, SaveEdited
  PROVE  OnceInv'
<1>1. /\ pc = "saving" /\ req.op \in {"move", "transfer"} /\ pc' # "saving"
      /\ 1 \in DOMAIN seen /\ seen[1] \in Screens
      /\ req.op = "move" => overlay' = Upsert(overlay, seen[1])
      /\ req.op = "transfer" =>
           /\ 2 \in DOMAIN seen /\ seen[2] \in Screens
           /\ overlay' = Upsert(Upsert(overlay, seen[1]), seen[2])
      /\ UNCHANGED <<remote, doubled>>
  BY SaveEditedDoes
<1> SUFFICES ASSUME ~doubled' PROVE AllSymbolsOnce(remote') /\ AllOnce(overlay')
  BY <1>1, OnceStep
<1>2. /\ AllSymbolsOnce(remote) /\ AllOnce(overlay) /\ overlay \in Seq(Screens)
      /\ \A i \in DOMAIN seen : EachOnce(seen[i].rows)
  BY <1>1, TypeFacts DEF OnceInv, AllOnce
<1> DEFINE source == Upsert(overlay, seen[1])
<1>3. source \in Seq(Screens) /\ AllOnce(source)
  BY <1>1, <1>2, UpsertOnce
<1>4. overlay' = source \/ (req.op = "transfer" /\ overlay' = Upsert(source, seen[2]))
  BY <1>1
<1> HIDE DEF source
<1>5. req.op = "transfer" => AllOnce(Upsert(source, seen[2]))
  BY <1>1, <1>2, <1>3, UpsertOnce
<1> QED
  BY <1>1, <1>2, <1>3, <1>4, <1>5

LEMMA SaveDeletedOnce ==
  ASSUME TypeInv, OnceInv, SaveDeleted
  PROVE  OnceInv'
<1> DEFINE new == Without(overlay, req.id)
<1>1. /\ overlay' = new /\ pc = "saving" /\ pc' = "idle" /\ UNCHANGED <<remote, doubled>>
  BY DEF SaveDeleted, history, AnswerBy, Without
<1>2. Range(new) \subseteq Range(overlay)
  <2>1. overlay \in Seq(Screens)
    BY TypeFacts
  <2> QED
    BY <2>1, WithoutLists
<1> HIDE DEF new
<1>3. AllOnce(overlay) => AllOnce(new)
  BY <1>2, AllOnceRange
<1> QED
  BY <1>1, <1>3, OnceStep DEF OnceInv

LEMMA ElsewhereOnce ==
  ASSUME TypeInv, OnceInv, Elsewhere
  PROVE  OnceInv'
<1>1. UNCHANGED <<overlay, pc, seen, doubled>>
  BY ElsewhereDoes DEF service
<1>2. PICK k \in DOMAIN remote : (\E l : ListChanged(k, l)) \/ remote' = RemoveAt(remote, k)
  BY ElsewhereDoes
<1>3. AllSymbolsOnce(remote) => AllSymbolsOnce(remote')
  <2>1. ASSUME NEW l, ListChanged(k, l), AllSymbolsOnce(remote) PROVE AllSymbolsOnce(remote')
    <3>1. (SymbolsOnce(remote[k]) => SymbolsOnce(l)) /\ remote' = [remote EXCEPT ![k] = l]
      BY <2>1 DEF ListChanged
    <3>2. /\ DOMAIN remote' = DOMAIN remote
          /\ \A i \in DOMAIN remote : remote'[i] = IF i = k THEN l ELSE remote[i]
      BY <3>1
    <3> QED
      BY <2>1, <3>1, <3>2 DEF AllSymbolsOnce
  <2>2. ASSUME remote' = RemoveAt(remote, k), AllSymbolsOnce(remote) PROVE AllSymbolsOnce(remote')
    <3> DEFINE new == RemoveAt(remote, k)
    <3>1. Range(new) \subseteq Range(remote)
      BY TypeFacts, RemovedList
    <3> HIDE DEF new
    <3>2. \A i \in DOMAIN new : \E j \in DOMAIN remote : new[i] = remote[j]
      BY <3>1 DEF Range
    <3>3. AllSymbolsOnce(new)
      BY <2>2, <3>2 DEF AllSymbolsOnce
    <3> QED
      BY <2>2, <3>3 DEF new
  <2> QED
    BY <1>2, <2>1, <2>2
<1> QED
  BY <1>1, <1>3, OnceStep DEF OnceInv

LEMMA OnceKept ==
  ASSUME TypeInv, OnceInv, [Next]_vars
  PROVE  OnceInv'
<1>1. ASSUME UNCHANGED <<remote, overlay, doubled>>, pc' # "saving" \/ UNCHANGED <<pc, seen>>
      PROVE  OnceInv'
  BY <1>1, OnceStep DEF OnceInv
<1>2. CASE UNCHANGED vars
  <2>1. UNCHANGED <<remote, overlay, pc, seen, doubled>>
    BY <1>2 DEF vars, service, history
  <2> QED
    BY <1>1, <2>1
<1>3. CASE Call
  <2>1. UNCHANGED <<remote, overlay, doubled>> /\ pc' # "saving"
    BY <1>3, CallDoes
  <2> QED
    BY <1>1, <2>1
<1>4. CASE Resolve \/ ResolveDestination
  <2>1. Resolve => UNCHANGED <<remote, overlay, doubled>> /\ pc' # "saving"
    BY ResolveDoes DEF GivesUp
  <2>2. ResolveDestination => UNCHANGED <<remote, overlay, doubled>> /\ pc' # "saving"
    BY ResolveDestinationDoes DEF GivesUp
  <2> QED
    BY <1>1, <1>4, <2>1, <2>2
<1>5. CASE SaveMerged
  <2>1. /\ pc' # "saving" /\ UNCHANGED <<remote, doubled>>
        /\ UNCHANGED overlay \/ \E missed : Overwritten(missed)
    BY <1>5, SaveMergedDoes DEF GivesUp
  <2> QED
    BY <1>1, <2>1, OverwrittenOnce
<1>6. CASE SaveCreated
  <2>1. /\ pc' # "saving" /\ UNCHANGED <<remote, doubled>>
        /\ UNCHANGED overlay \/ \E missed : Overwritten(missed)
    BY <1>6, SaveCreatedDoes
  <2> QED
    BY <1>1, <2>1, OverwrittenOnce
<1>7. CASE Answer \/ Abort \/ Restart
  <2>1. Answer => UNCHANGED <<remote, overlay, doubled>> /\ pc' # "saving"
    BY AnswerDoes DEF GivesUp
  <2>2. Abort => UNCHANGED <<remote, overlay, doubled>> /\ pc' # "saving"
    BY AbortDoes
  <2>3. Restart => UNCHANGED <<remote, overlay, doubled>> /\ pc' # "saving"
    BY DEF Restart, history
  <2> QED
    BY <1>1, <1>7, <2>1, <2>2, <2>3
<1>8. CASE ServeLocally
  <2>1. /\ pc' = "idle" /\ UNCHANGED <<remote, doubled>>
        /\ UNCHANGED overlay \/ (AllOnce(overlay) => AllOnce(overlay'))
    BY <1>8, ServeLocallyDoes DEF LocalFacts
  <2> QED
    BY <2>1, OnceStep DEF OnceInv
<1>9. CASE SaveFails
  <2>1. /\ pc' # "saving" /\ UNCHANGED <<remote, doubled>>
        /\ overlay' = overlay \/ overlay' = <<>>
    BY <1>9, SaveFailsDoes
  <2>2. AllOnce(overlay) => AllOnce(overlay')
    <3>1. DOMAIN <<>> = {}
      BY EmptySeq
    <3> QED
      BY <2>1, <3>1 DEF AllOnce
  <2> QED
    BY <2>1, <2>2, OnceStep DEF OnceInv
<1> QED
  BY <1>2, <1>3, <1>4, <1>5, <1>6, <1>7, <1>8, <1>9, SendOnce, SavePinnedOnce, SaveEditedOnce,
     SaveDeletedOnce, ElsewhereOnce DEF Next

LEMMA OnceAtFirst ==
  ASSUME Init
  PROVE  OnceInv
<1>1. remote = InitialRemote /\ overlay \in InitialOverlays /\ pc = "idle"
  BY DEF Init
<1>2. AllSymbolsOnce(remote)
  <2>1. \A l \in Range(remote) : SymbolsOnce(l)
    BY <1>1, OnceAssumption DEF SymbolsOnce
  <2> QED
    BY <2>1 DEF AllSymbolsOnce, Range
<1>3. AllOnce(overlay)
  BY <1>1, OnceAssumption, AllOnceRange
<1> QED
  BY <1>1, <1>2, <1>3 DEF OnceInv

------------------------------------------------------------------------------
(* WHAT A REQUEST HAS DONE SO FAR *)

(* The screens say what the request asks for. *)
SeenInv ==
  Busy =>
    /\ 1 \in DOMAIN seen =>
         /\ req.op = "rename" => seen[1].name = req.name
         /\ req.op = "add" => req.symbol \in Symbols(seen[1].rows)
         /\ req.op = "remove" => req.symbol \notin Symbols(seen[1].rows)
         /\ req.op = "move" => Before(seen[1].rows, req.symbol, req.before)
         /\ req.op = "transfer" /\ ~doubled => req.symbol \notin Symbols(seen[1].rows)
    /\ 2 \in DOMAIN seen => req.symbol \in Symbols(seen[2].rows)

StoredAs(lists, screen) ==
  \A k \in DOMAIN lists : lists[k].id = screen.id => SameAs(lists[k], screen)

(* No later screen that was sent is of the same list. *)
Latest(i) == \A j \in DOMAIN seen : i < j /\ j <= sent => seen[j].id # seen[i].id

(* If nothing went wrong and nobody interfered, TDA has the last of the    *)
(* screens it was sent for each list, and no longer the list to delete.    *)
DoneInv ==
  pc \in {"sending", "saving"} /\ ~troubled /\ ~raced =>
    /\ req.op \notin {"create", "delete"} =>
         \A i \in DOMAIN seen :
           i <= sent /\ Latest(i) => StoredAs(remote, seen[i])
    /\ pc = "saving" /\ req.op = "delete" => req.id \notin IdsOf(remote)

LEMMA SameSeen ==
  ASSUME SeenInv, UNCHANGED <<req, seen>>, doubled \in BOOLEAN, doubled => doubled',
         Busy' => Busy
  PROVE  SeenInv'
BY DEF SeenInv, Before

LEMMA ResolveSeen ==
  ASSUME TypeInv, OnceInv, SeenInv, Resolve
  PROVE  SeenInv'
<1>1. /\ pc = "resolving" /\ seen = <<>> /\ Counted
      /\ \/ GivesUp
         \/ /\ \E j \in DOMAIN remote :
                 LET s == Shown(overlay, remote[j])
                 IN  /\ remote[j].id = req.id /\ s \in Screens
                     /\ RowsNeeded \subseteq Symbols(s.rows)
                     /\ seen' = <<Edited(s)>>
            /\ pc' = IF req.op = "transfer" THEN "resolving" ELSE "sending"
            /\ UNCHANGED <<remote, overlay, req, sent, answer, kept, raced, doubled, ops>>
  BY ResolveDoes
<1>2. CASE GivesUp
  BY <1>2 DEF GivesUp, SeenInv, Busy
<1>3. CASE ~GivesUp
  <2>1. PICK j \in DOMAIN remote :
          /\ Shown(overlay, remote[j]) \in Screens
          /\ RowsNeeded \subseteq Symbols(Shown(overlay, remote[j]).rows)
          /\ seen' = <<Edited(Shown(overlay, remote[j]))>>
    BY <1>1, <1>3
  <2>2. UNCHANGED <<req, doubled>>
    BY <1>1, <1>3
  <2> DEFINE s == Shown(overlay, remote[j])
             e == Edited(s)
  <2>3. ~doubled => EachOnce(s.rows)
    BY ShownRowsOnce DEF OnceInv
  <2>4. s \in Screens /\ RequestTyped /\ RowsNeeded \subseteq Symbols(s.rows) /\ seen' = <<e>>
    BY <2>1 DEF TypeInv
  <2> HIDE DEF s
  <2>5. s.rows \in Seq(RowsType)
    BY <2>4 DEF Screens, RowsType, RowSet
  <2>6. e.rows = EditedRows(s.rows) /\ (req.op = "rename" => e.name = req.name)
    BY <2>4, EditedScreen
  <2>7. /\ req.op = "add" => req.symbol \in Symbols(e.rows)
        /\ req.op = "remove" => req.symbol \notin Symbols(e.rows)
        /\ req.op = "move" => Before(e.rows, req.symbol, req.before)
        /\ req.op = "transfer" /\ EachOnce(s.rows) => req.symbol \notin Symbols(e.rows)
    BY <2>4, <2>5, <2>6, EditedRange
  <2> HIDE DEF e
  <2>8. DOMAIN seen' = {1} /\ seen'[1] = e /\ 2 \notin DOMAIN seen'
    BY <2>4
  <2>9. Before(e.rows, req.symbol, req.before) => Before(seen[1].rows, req.symbol, req.before)'
    BY <2>2, <2>8 DEF Before, EachOnce
  <2> QED
    BY <2>2, <2>3, <2>6, <2>7, <2>8, <2>9 DEF SeenInv
<1> QED
  BY <1>2, <1>3

LEMMA ResolveDestinationSeen ==
  ASSUME TypeInv, SeenInv, ResolveDestination
  PROVE  SeenInv'
<1>1. /\ pc = "resolving" /\ seen # <<>> /\ Counted
      /\ \/ GivesUp
         \/ /\ \E j \in DOMAIN remote :
                 LET s == Shown(overlay, remote[j])
                 IN  /\ remote[j].id = req.to /\ s \in Screens
                     /\ seen' = Append(seen, WithRow(s, Row(req.symbol, FALSE)))
            /\ pc' = "sending"
            /\ UNCHANGED <<remote, overlay, req, sent, answer, kept, raced, doubled, ops>>
  BY ResolveDestinationDoes
<1>2. CASE GivesUp
  BY <1>2 DEF GivesUp, SeenInv, Busy
<1>3. CASE ~GivesUp
  <2>1. PICK j \in DOMAIN remote :
          /\ Shown(overlay, remote[j]) \in Screens
          /\ seen' = Append(seen, WithRow(Shown(overlay, remote[j]), Row(req.symbol, FALSE)))
    BY <1>1, <1>3
  <2>2. UNCHANGED <<req, doubled>>
    BY <1>1, <1>3
  <2>3. req.op = "transfer" /\ req.symbol \in SymbolSet /\ Len(seen) = 1
    BY <1>1 DEF TypeInv, StagesInOrder, RequestTyped
  <2> DEFINE e == WithRow(Shown(overlay, remote[j]), Row(req.symbol, FALSE))
             longer == Append(seen, e)
             n == Len(seen) + 1
  <2>4. e \in Screens /\ req.symbol \in Symbols(e.rows)
    BY <2>1, <2>3, WithRowScreen
  <2>5. seen' = longer
    BY <2>1
  <2>6. seen \in Seq(Screens) /\ DOMAIN seen = 1..Len(seen)
    BY TypeFacts
  <2> HIDE DEF e
  <2>7. (\A i \in DOMAIN seen : longer[i] = seen[i]) /\ longer[n] = e
    BY <2>4, <2>6, AppendedLists
  <2> HIDE DEF longer
  <2>8. seen'[1] = seen[1] /\ seen'[2] = e /\ 1 \in DOMAIN seen
    BY <2>3, <2>5, <2>6, <2>7
  <2> QED
    BY <1>1, <2>2, <2>3, <2>4, <2>8 DEF SeenInv, Busy
<1> QED
  BY <1>2, <1>3

LEMMA SeenKept ==
  ASSUME TypeInv, OnceInv, SeenInv, [Next]_vars
  PROVE  SeenInv'
<1>1. doubled \in BOOLEAN
  BY DEF TypeInv, TypeOK
<1>2. CASE UNCHANGED vars
  <2>1. UNCHANGED <<pc, req, seen, doubled>>
    BY <1>2 DEF vars, service, history
  <2> QED
    BY <1>1, <2>1, SameSeen DEF Busy
<1>3. CASE Call
  <2>1. seen' = <<>>
    BY <1>3, CallDoes
  <2>2. DOMAIN seen' = {}
    BY <2>1
  <2> QED
    BY <2>2 DEF SeenInv
<1>4. CASE Send
  <2>1. pc = "sending" /\ UNCHANGED <<req, seen>> /\ (doubled => doubled')
    BY <1>4, SendDoes
  <2> QED
    BY <1>1, <2>1, SameSeen DEF Busy
<1>5. CASE Elsewhere
  <2>1. UNCHANGED <<pc, req, seen, doubled>>
    BY <1>5, ElsewhereDoes DEF service
  <2> QED
    BY <1>1, <2>1, SameSeen DEF Busy
<1>6. CASE SaveMerged \/ SaveCreated \/ SavePinned \/ SaveEdited \/ SaveDeleted
             \/ Answer \/ ServeLocally \/ SaveFails \/ Abort \/ Restart
  <2>1. pc' \notin {"resolving", "sending", "saving"}
    <3>1. SaveMerged => pc' \in {"local", "answering"}
      BY SaveMergedDoes DEF GivesUp
    <3>2. SaveCreated => pc' \in {"local", "idle"}
      BY SaveCreatedDoes
    <3>3. SavePinned => pc' \in {"local", "idle"}
      BY SavePinnedDoes DEF GivesUp
    <3>4. SaveEdited => pc' = "answering"
      BY SaveEditedDoes
    <3>5. SaveDeleted => pc' = "idle"
      BY DEF SaveDeleted, AnswerBy
    <3>6. Answer => pc' \in {"local", "idle"}
      BY AnswerDoes DEF GivesUp
    <3>7. ServeLocally => pc' = "idle"
      BY ServeLocallyDoes
    <3>8. (Abort => pc' = "down") /\ (Restart => pc' = "idle")
      BY DEF Abort, Restart
    <3>9. SaveFails => pc' \in {"local", "idle", "down"}
      BY SaveFailsDoes
    <3> QED
      BY <1>6, <3>1, <3>2, <3>3, <3>4, <3>5, <3>6, <3>7, <3>8, <3>9
  <2> QED
    BY <2>1 DEF SeenInv, Busy
<1> QED
  BY <1>2, <1>3, <1>4, <1>5, <1>6, ResolveSeen, ResolveDestinationSeen DEF Next

LEMMA SeenAtFirst ==
  ASSUME Init
  PROVE  SeenInv /\ DoneInv
BY DEF Init, SeenInv, DoneInv, Busy

(* Nothing has been sent. *)
LEMMA NothingDone ==
  ASSUME sent' = 0, \A i \in DOMAIN seen' : i \in Nat /\ i # 0, pc' # "saving"
  PROVE  DoneInv'
<1>1. \A i \in DOMAIN seen' : ~(i <= sent')
  OBVIOUS
<1> QED
  BY <1>1 DEF DoneInv

LEMMA NotSendingDone ==
  ASSUME pc' \notin {"sending", "saving"} \/ raced' = TRUE
  PROVE  DoneInv'
BY DEF DoneInv

LEMMA SendDone ==
  ASSUME TypeInv, DoneInv, Send
  PROVE  DoneInv'
<1>1. /\ pc = "sending" /\ sent' = sent + 1 /\ Counted
      /\ UNCHANGED <<overlay, req, seen, answer, kept, raced, ops>>
      /\ \/ UNCHANGED remote /\ troubled'
         \/ remote' = Stored
  BY SendDoes
<1> SUFFICES ASSUME ~troubled', ~raced'
             PROVE  DoneInv'
  BY DEF DoneInv
<1>2. remote' = Stored /\ ~troubled /\ ~raced
  BY <1>1 DEF Counted, TypeInv, TypeOK
<1>3. CASE req.op = "create"
  BY <1>1, <1>3 DEF DoneInv
<1>4. CASE req.op = "delete"
  <2> DEFINE new == Without(remote, req.id)
  <2>1. remote' = new
    BY <1>1, <1>2, <1>4, StoredDoes DEF Without
  <2>2. IdsOf(new) = IdsOf(remote) \ {req.id}
    <3>1. remote \in Seq(RemoteLists)
      BY TypeFacts
    <3> QED
      BY <3>1, WithoutLists
  <2> HIDE DEF new
  <2>3. req.id \notin IdsOf(remote')
    BY <2>1, <2>2
  <2>4. req.id \notin IdsOf(remote)'
    BY <1>1, <2>3 DEF IdsOf
  <2> QED
    BY <1>1, <1>4, <2>4 DEF DoneInv
<1>5. CASE req.op \notin {"create", "delete"}
  <2> DEFINE s == seen[sent + 1]
  <2>1. /\ sent + 1 \in DOMAIN seen /\ s \in Screens
        /\ DOMAIN remote' = DOMAIN remote
        /\ \A k \in DOMAIN remote : remote'[k] = IF remote[k].id # s.id THEN remote[k] ELSE AsList(s)
    BY <1>1, <1>2, <1>5, StoredDoes
  <2>2. AsList(s).id = s.id /\ SameAs(AsList(s), s)
    BY <2>1, AsListSame DEF SameAs
  <2>3. sent \in Nat /\ DOMAIN seen \subseteq Nat
    BY TypeFacts
  <2>4. ASSUME NEW i \in DOMAIN seen, i <= sent',
               Latest(i)'
        PROVE  StoredAs(remote', seen[i])
    <3> SUFFICES ASSUME NEW k \in DOMAIN remote, remote'[k].id = seen[i].id
                 PROVE  SameAs(remote'[k], seen[i])
      BY <2>1 DEF StoredAs
    <3>1. CASE i = sent + 1
      <4>1. remote'[k] = AsList(s)
        BY <2>1, <3>1
      <4> QED
        BY <2>2, <3>1, <4>1
    <3>2. CASE i # sent + 1
      <4>1. i <= sent /\ s.id # seen[i].id
        BY <1>1, <2>1, <2>3, <2>4, <3>2 DEF Latest
      <4>2. \A j \in DOMAIN seen : i < j /\ j <= sent => seen[j].id # seen[i].id
        BY <1>1, <2>3, <2>4 DEF Latest
      <4>3. StoredAs(remote, seen[i])
        BY <1>1, <1>2, <1>5, <4>1, <4>2 DEF DoneInv, Latest
      <4> HIDE DEF s
      <4>4. remote[k].id # s.id
        BY <2>1, <2>2, <4>1
      <4> QED
        BY <2>1, <4>3, <4>4 DEF StoredAs
    <3> QED
      BY <3>1, <3>2
  <2>5. \A i \in DOMAIN seen : StoredAs(remote', seen[i]) => StoredAs(remote, seen[i])'
    BY <1>1 DEF StoredAs, SameAs
  <2> QED
    BY <1>1, <1>5, <2>4, <2>5 DEF DoneInv
<1> QED
  BY <1>3, <1>4, <1>5

LEMMA DoneKept ==
  ASSUME TypeInv, DoneInv, [Next]_vars
  PROVE  DoneInv'
<1>1. CASE UNCHANGED vars
  <2>1. UNCHANGED <<remote, pc, req, seen, sent, troubled, raced>>
    BY <1>1 DEF vars, service, history
  <2> QED
    BY <2>1 DEF DoneInv, StoredAs, IdsOf, SameAs, Latest
<1>2. CASE Call
  <2>1. sent' = 0 /\ seen' = <<>> /\ pc' # "saving"
    BY <1>2, CallDoes
  <2>2. DOMAIN seen' = {}
    BY <2>1
  <2> QED
    BY <2>1, <2>2, NothingDone
<1>3. CASE Resolve \/ ResolveDestination
  <2>1. /\ pc = "resolving" /\ pc' # "saving"
        /\ sent' = sent
    <3>1. Resolve => /\ pc = "resolving" /\ pc' # "saving" /\ sent' = sent
      BY ResolveDoes DEF GivesUp
    <3>2. ResolveDestination => /\ pc = "resolving" /\ pc' # "saving" /\ sent' = sent
      BY ResolveDestinationDoes DEF GivesUp
    <3> QED
      BY <1>3, <3>1, <3>2
  <2>2. sent = 0
    BY <2>1 DEF TypeInv, StagesInOrder
  <2>3. \A i \in DOMAIN seen' : i \in Nat /\ i # 0
    <3>1. TypeInv'
      BY TypeKept
    <3>2. seen' \in Seq(Screens)
      BY <3>1 DEF TypeInv, TypeOK
    <3>3. DOMAIN seen' = 1..Len(seen') /\ Len(seen') \in Nat
      BY <3>2, LenProperties
    <3> QED
      BY <3>3
  <2> QED
    BY <2>1, <2>2, <2>3, NothingDone
<1>4. CASE Elsewhere
  BY <1>4, ElsewhereDoes, NotSendingDone
<1>5. CASE SaveMerged \/ SaveCreated \/ SavePinned \/ SaveEdited \/ SaveDeleted
             \/ Answer \/ ServeLocally \/ SaveFails \/ Abort \/ Restart
  <2>1. pc' \notin {"sending", "saving"}
    <3>1. SaveMerged => pc' \in {"local", "answering"}
      BY SaveMergedDoes DEF GivesUp
    <3>2. SaveCreated => pc' \in {"local", "idle"}
      BY SaveCreatedDoes
    <3>3. SavePinned => pc' \in {"local", "idle"}
      BY SavePinnedDoes DEF GivesUp
    <3>4. SaveEdited => pc' = "answering"
      BY SaveEditedDoes
    <3>5. SaveDeleted => pc' = "idle"
      BY DEF SaveDeleted, AnswerBy
    <3>6. Answer => pc' \in {"local", "idle"}
      BY AnswerDoes DEF GivesUp
    <3>7. ServeLocally => pc' = "idle"
      BY ServeLocallyDoes
    <3>8. (Abort => pc' = "down") /\ (Restart => pc' = "idle")
      BY DEF Abort, Restart
    <3>9. SaveFails => pc' \in {"local", "idle", "down"}
      BY SaveFailsDoes
    <3> QED
      BY <1>5, <3>1, <3>2, <3>3, <3>4, <3>5, <3>6, <3>7, <3>8, <3>9
  <2> QED
    BY <2>1, NotSendingDone
<1> QED
  BY <1>1, <1>2, <1>3, <1>4, <1>5, SendDone DEF Next

------------------------------------------------------------------------------
(* ANSWERS *)

(* What the request is to bring about is so, for whoever looks next. *)
Told(over, lists) ==
  \A j \in DOMAIN lists : lists[j].id \in {req.id, Target} => Holds(Shown(over, lists[j]))

Made(lists) ==
  \E j \in DOMAIN lists :
    lists[j].id = answer.id /\ lists[j].name = req.name /\ Served(lists[j].id, {})

CameTrue(over, lists) ==
  /\ req.op = "create" => Made(lists)
  /\ req.op = "delete" => req.id \notin IdsOf(lists) \cup IdsOf(over)
  /\ req.op \notin {"create", "delete"} => Told(over, lists)

Answered == pc = "idle" /\ answer.by = "tda"

(* What a request was for is done when TDA's provider starts on its answer,*)
(* and stays done until others interfere.                                  *)
AnswerInv ==
  /\ pc # "idle" => answer.by # "tda"
  /\ pc = "answering" => req.op \in {"rename", "add", "remove", "move", "transfer"}
  /\ (pc = "answering" \/ Answered) /\ ~troubled /\ ~raced => CameTrue(overlay, remote)

LEMMA NotAnswered ==
  ASSUME pc' # "answering", answer'.by # "tda"
  PROVE  AnswerInv'
BY DEF AnswerInv, Answered

LEMMA SameTruth ==
  ASSUME UNCHANGED <<req, doubled, remote, overlay, answer>>, CameTrue(overlay, remote)
  PROVE  CameTrue(overlay, remote)'
<1>1. Told(overlay, remote) => Told(overlay, remote)'
  BY DEF Told, Holds, Target
<1>2. IdsOf(remote)' = IdsOf(remote) /\ IdsOf(overlay)' = IdsOf(overlay)
  OBVIOUS
<1> QED
  BY <1>1, <1>2 DEF CameTrue, Made

LEMMA SameAnswer ==
  ASSUME AnswerInv, UNCHANGED <<pc, req, answer, troubled, raced, doubled, remote, overlay>>
  PROVE  AnswerInv'
BY SameTruth DEF AnswerInv, Answered

LEMMA GivenUp ==
  ASSUME AnswerInv, pc # "idle", GivesUp
  PROVE  AnswerInv'
BY NotAnswered DEF GivesUp, AnswerInv

(* TDA has what it was sent. *)
LEMMA Finished ==
  ASSUME TypeInv, DoneInv, pc = "saving", ~troubled, ~raced,
         req.op \notin {"create", "delete"}, NEW k \in DOMAIN remote
  PROVE  /\ 1 \in DOMAIN seen /\ seen[1] \in Screens /\ seen[1].id = req.id
         /\ req.op = "transfer" => 2 \in DOMAIN seen /\ seen[2] \in Screens /\ seen[2].id = req.to
         /\ req.op = "transfer" /\ remote[k].id = req.to => SameAs(remote[k], seen[2])
         /\ remote[k].id = req.id /\ (req.op = "transfer" => req.id # req.to)
              => SameAs(remote[k], seen[1])
<1>1. /\ DOMAIN seen = 1..Len(seen) /\ Len(seen) \in Nat /\ sent \in Nat
      /\ \A i \in DOMAIN seen : seen[i] \in Screens
  BY TypeFacts
<1>2. /\ Len(seen) = Resolved /\ Len(seen) <= sent
      /\ 1 \in DOMAIN seen => seen[1].id = req.id
      /\ 2 \in DOMAIN seen => seen[2].id = req.to
  BY DEF TypeInv, StagesInOrder, Busy
<1>3. Len(seen) = IF req.op = "transfer" THEN 2 ELSE 1
  BY <1>2 DEF Resolved
<1>4. \A i \in DOMAIN seen : i <= sent /\ Latest(i) => StoredAs(remote, seen[i])
  BY DEF DoneInv
<1>5. req.op = "transfer" => StoredAs(remote, seen[2])
  <2>1. req.op = "transfer" => 2 \in DOMAIN seen /\ 2 <= sent /\ Latest(2)
    BY <1>1, <1>2, <1>3 DEF Latest
  <2> QED
    BY <1>4, <2>1
<1>6. (req.op = "transfer" => req.id # req.to) => StoredAs(remote, seen[1])
  <2>1. 1 \in DOMAIN seen /\ 1 <= sent
    BY <1>1, <1>2, <1>3
  <2>2. (req.op = "transfer" => req.id # req.to) => Latest(1)
    <3>1. \A j \in DOMAIN seen : 1 < j => j = 2 /\ req.op = "transfer"
      BY <1>1, <1>3
    <3> QED
      BY <1>2, <2>1, <3>1 DEF Latest
  <2> QED
    BY <1>4, <2>1, <2>2
<1> QED
  BY <1>1, <1>2, <1>3, <1>5, <1>6 DEF StoredAs

LEMMA SaveMergedTrue ==
  ASSUME TypeInv, SeenInv, DoneInv, AnswerInv, SaveMerged
  PROVE  AnswerInv'
<1>1. /\ pc = "saving" /\ req.op \in {"rename", "add", "remove"} /\ Counted
      /\ \/ GivesUp
         \/ /\ pc' = "answering" /\ \E missed : Overwritten(missed)
            /\ UNCHANGED <<remote, req, seen, sent, answer, raced, doubled, ops>>
  BY SaveMergedDoes
<1>2. CASE GivesUp
  BY <1>1, <1>2, GivenUp
<1>3. CASE ~GivesUp
  <2>1. /\ pc' = "answering"
        /\ UNCHANGED <<remote, req, answer, raced, doubled>>
    BY <1>1, <1>3
  <2>2. overlay' \in Seq(Screens)
    BY <1>1, <1>3 DEF Overwritten, IsLoad
  <2>3. ASSUME ~troubled', ~raced', NEW j \in DOMAIN remote, remote[j].id \in {req.id, Target}
        PROVE  Holds(Shown(overlay', remote[j]))
    <3>1. ~troubled /\ ~raced
      BY <1>1, <2>1, <2>3 DEF Counted
    <3>2. remote[j].id = req.id
      BY <1>1, <2>3 DEF Target
    <3>3. 1 \in DOMAIN seen /\ SameAs(remote[j], seen[1])
      BY <1>1, <3>1, <3>2, Finished
    <3> DEFINE new == overlay'
               s == Shown(new, remote[j])
    <3>4. new \in Seq(Screens) /\ remote[j] \in RemoteLists
      BY <2>2, TypeFacts
    <3> HIDE DEF new
    <3>5. s.name = remote[j].name /\ Symbols(s.rows) = Range(remote[j].symbols)
      BY <3>4, ShownList
    <3> HIDE DEF s
    <3>6. s.name = seen[1].name /\ Symbols(s.rows) = Symbols(seen[1].rows)
      BY <3>3, <3>5 DEF SameAs
    <3>7. /\ req.op = "rename" => seen[1].name = req.name
          /\ req.op = "add" => req.symbol \in Symbols(seen[1].rows)
          /\ req.op = "remove" => req.symbol \notin Symbols(seen[1].rows)
      BY <1>1, <3>3 DEF SeenInv, Busy
    <3>8. Holds(s)
      BY <1>1, <3>6, <3>7 DEF Holds
    <3> QED
      BY <3>8 DEF s, new
  <2>4. ASSUME ~troubled', ~raced' PROVE Told(overlay, remote)'
    BY <2>1, <2>3, <2>4 DEF Told, Holds, Target
  <2> QED
    BY <1>1, <2>1, <2>4 DEF AnswerInv, Answered, CameTrue
<1> QED
  BY <1>2, <1>3

LEMMA SaveCreatedTrue ==
  ASSUME TypeInv, AnswerInv, SaveCreated
  PROVE  AnswerInv'
<1>1. /\ pc = "saving" /\ req.op = "create" /\ UNCHANGED <<remote, req>>
      /\ \/ pc' = "local" /\ UNCHANGED answer
         \/ /\ pc' = "idle"
            /\ \E j \in DOMAIN remote : /\ remote[j].id = answer'.id
                                        /\ remote[j].name = req.name
                                        /\ Served(remote[j].id, {})
  BY SaveCreatedDoes
<1>2. CASE pc' = "local" /\ UNCHANGED answer
  BY <1>1, <1>2, NotAnswered DEF AnswerInv
<1>3. CASE ~(pc' = "local" /\ UNCHANGED answer)
  <2>1. Made(remote)'
    BY <1>1, <1>3 DEF Made, Served
  <2> QED
    BY <1>1, <1>3, <2>1 DEF AnswerInv, CameTrue
<1> QED
  BY <1>2, <1>3

LEMMA SavePinnedTrue ==
  ASSUME TypeInv, IdsInv, AnswerInv, SavePinned
  PROVE  AnswerInv'
<1>1. /\ pc = "saving" /\ req.op = "pin"
      /\ \/ GivesUp
         \/ /\ \E j \in DOMAIN remote :
                 LET s == Shown(overlay, remote[j])
                     f == FlaggedScreen(s)
                 IN  remote[j].id = req.id /\ overlay' = Upsert(overlay, f)
            /\ pc' = "idle" /\ UNCHANGED <<remote, req, doubled>>
  BY SavePinnedDoes
<1>2. CASE GivesUp
  BY <1>1, <1>2, GivenUp
<1>3. CASE ~GivesUp
  <2>1. PICK j \in DOMAIN remote :
          /\ remote[j].id = req.id
          /\ overlay' = Upsert(overlay, FlaggedScreen(Shown(overlay, remote[j])))
    BY <1>1, <1>3
  <2>2. pc' = "idle" /\ UNCHANGED <<remote, req, doubled>>
    BY <1>1, <1>3
  <2>3. req.symbol \in SymbolSet /\ req.flag \in BOOLEAN
    BY <1>1 DEF TypeInv, RequestTyped
  <2> DEFINE s == Shown(overlay, remote[j])
             f == FlaggedScreen(s)
             new == Upsert(overlay, f)
             k == Find(new, req.id)
  <2>4. s \in Screens /\ s.id = req.id /\ Symbols(s.rows) = Range(remote[j].symbols)
    BY <2>1, TypeFacts, ShownList
  <2>5. overlay' = new /\ overlay \in Seq(Screens)
    BY <2>1, TypeFacts
  <2> HIDE DEF s
  <2>6. f \in Screens /\ f.id = req.id /\ f.rows = Flagged(s.rows, req.symbol, req.flag)
    BY <2>3, <2>4, FlaggedScreenIs
  <2>7. s.rows \in Seq(RowsType)
    BY <2>4 DEF Screens, RowsType, RowSet
  <2>8. /\ Symbols(f.rows) = Range(remote[j].symbols)
        /\ \A r \in Range(f.rows) : r.symbol = req.symbol => r = Row(req.symbol, req.flag)
    BY <2>3, <2>4, <2>6, <2>7, FlaggedRows
  <2> HIDE DEF f
  <2>9. new \in Seq(Screens) /\ First(new, req.id) = f /\ req.id \in IdsOf(new)
    BY <2>5, <2>6, UpsertedLists
  <2> HIDE DEF new
  <2>10. k \in DOMAIN new /\ new[k] = f
    BY <2>9, FirstFacts DEF First
  <2>11. ASSUME NEW i \in DOMAIN remote, remote[i].id = req.id
         PROVE  Row(req.symbol, ~req.flag) \notin Range(Shown(new, remote[i]).rows)
    <3>1. i = j
      BY <2>1, <2>11 DEF IdsInv, UniqueIds
    <3>2. remote[i] \in RemoteLists
      BY TypeFacts
    <3>3. k = Find(new, remote[i].id)
      BY <2>11
    <3> DEFINE l == remote[i]
               symbol == req.symbol
               flag == req.flag
               other == ~req.flag
    <3>4. l \in RemoteLists /\ k = Find(new, l.id)
      BY <3>2, <3>3
    <3>9. other # flag
      BY <2>3
    <3>5. \A r \in Range(new[k].rows) : r.symbol = symbol => r = Row(symbol, flag)
      BY <2>8, <2>10
    <3>6. symbol \in Range(l.symbols) => symbol \in Symbols(new[k].rows)
      BY <2>8, <2>10, <3>1
    <3> HIDE DEF k, l, symbol, flag, other
    <3>7. new \in Seq(Screens) /\ k \in DOMAIN new
      BY <2>9, <2>10
    <3>8. Row(symbol, other) \notin Range(Shown(new, l).rows)
      BY <3>4, <3>5, <3>6, <3>7, <3>9, ShownFlag
    <3> QED
      BY <3>8 DEF l, symbol, other
  <2>12. ASSUME NEW i \in DOMAIN remote, remote[i].id \in {req.id, Target}
         PROVE  Holds(Shown(new, remote[i]))
    BY <1>1, <2>11, <2>12 DEF Holds, Target
  <2>13. Told(overlay, remote)'
    BY <2>2, <2>5, <2>12 DEF Told, Holds, Target
  <2> QED
    BY <1>1, <2>2, <2>13 DEF AnswerInv, Answered, CameTrue
<1> QED
  BY <1>2, <1>3

LEMMA SaveEditedTrue ==
  ASSUME TypeInv, SeenInv, DoneInv, AnswerInv, SaveEdited
  PROVE  AnswerInv'
<1>1. /\ pc = "saving" /\ req.op \in {"move", "transfer"} /\ pc' = "answering"
      /\ 1 \in DOMAIN seen /\ seen[1] \in Screens /\ seen[1].id = req.id
      /\ req.op = "move" => overlay' = Upsert(overlay, seen[1])
      /\ req.op = "transfer" =>
           /\ 2 \in DOMAIN seen /\ seen[2] \in Screens
           /\ overlay' = Upsert(Upsert(overlay, seen[1]), seen[2])
      /\ UNCHANGED <<remote, req, seen, answer, troubled, raced, doubled>>
  BY SaveEditedDoes
<1>2. overlay \in Seq(Screens) /\ \A j \in DOMAIN remote : remote[j] \in RemoteLists
  BY TypeFacts
<1> DEFINE source == Upsert(overlay, seen[1])
           k == Find(source, req.id)
           new == overlay'
<1>3. source \in Seq(Screens) /\ First(source, req.id) = seen[1] /\ req.id \in IdsOf(source)
  BY <1>1, <1>2, UpsertedLists
<1>4. k \in DOMAIN source /\ source[k] = seen[1]
  <2> HIDE DEF source
  <2> QED
    BY <1>3, FirstFacts DEF First
<1>5. new \in Seq(Screens)
  <2>1. CASE req.op = "move"
    BY <1>1, <1>3, <2>1
  <2>2. CASE req.op = "transfer"
    <3>1. new = Upsert(source, seen[2])
      BY <1>1, <2>2
    <3> HIDE DEF source, new
    <3> QED
      BY <1>1, <1>3, <2>2, <3>1, UpsertedLists
  <2> QED
    BY <1>1, <2>1, <2>2
<1>6. req.op = "move" => new = source
  BY <1>1
<1> HIDE DEF source, new
<1>7. ASSUME ~troubled, ~raced, NEW j \in DOMAIN remote, remote[j].id \in {req.id, Target}
      PROVE  Holds(Shown(new, remote[j]))
  <2> DEFINE s == Shown(new, remote[j])
  <2>1. s.id = remote[j].id /\ Symbols(s.rows) = Range(remote[j].symbols)
    BY <1>2, <1>5, ShownList
  <2>2. CASE req.op = "move"
    <3>1. remote[j].id = req.id
      BY <1>7, <2>2 DEF Target
    <3>2. SameAs(remote[j], seen[1])
      BY <1>1, <1>7, <2>2, <3>1, Finished
    <3>3. Before(seen[1].rows, req.symbol, req.before)
      BY <1>1, <2>2 DEF SeenInv, Busy
    <3>4. k = Find(source, remote[j].id) /\ Symbols(source[k].rows) = Range(remote[j].symbols)
      BY <1>4, <3>1, <3>2 DEF SameAs
    <3> HIDE DEF k
    <3>5. Shown(source, remote[j]).rows = source[k].rows
      BY <1>2, <1>3, <1>4, <3>4, ShownInOrder
    <3>6. s.rows = seen[1].rows
      BY <1>4, <1>6, <2>2, <3>5
    <3> HIDE DEF s
    <3>7. Holds(s)
      BY <2>2, <3>3, <3>6 DEF Holds, Before
    <3> QED
      BY <3>7 DEF s
  <2>3. CASE req.op = "transfer"
    <3> HIDE DEF s
    <3>1. s.id = req.to => req.symbol \in Symbols(s.rows)
      <4>1. s.id = req.to => SameAs(remote[j], seen[2])
        BY <1>1, <1>7, <2>1, <2>3, Finished
      <4>2. req.symbol \in Symbols(seen[2].rows)
        BY <1>1, <2>3 DEF SeenInv, Busy
      <4> QED
        BY <2>1, <4>1, <4>2 DEF SameAs
    <3>2. ~doubled /\ s.id # req.to => req.symbol \notin Symbols(s.rows)
      <4> SUFFICES ASSUME ~doubled, s.id # req.to
                   PROVE  req.symbol \notin Symbols(s.rows)
        OBVIOUS
      <4>1. remote[j].id = req.id /\ req.id # req.to
        BY <1>7, <2>1, <2>3 DEF Target
      <4>2. SameAs(remote[j], seen[1])
        BY <1>1, <1>7, <2>3, <4>1, Finished
      <4>3. req.symbol \notin Symbols(seen[1].rows)
        BY <1>1, <2>3 DEF SeenInv, Busy
      <4> QED
        BY <2>1, <4>2, <4>3 DEF SameAs
    <3>3. Holds(s)
      BY <2>3, <3>1, <3>2 DEF Holds
    <3> QED
      BY <3>3 DEF s
  <2> QED
    BY <1>1, <2>2, <2>3
<1>8. ASSUME ~troubled', ~raced' PROVE Told(overlay, remote)'
  BY <1>1, <1>7, <1>8 DEF Told, Holds, Target, new
<1> QED
  BY <1>1, <1>8 DEF AnswerInv, Answered, CameTrue

LEMMA SaveDeletedTrue ==
  ASSUME TypeInv, DoneInv, AnswerInv, SaveDeleted
  PROVE  AnswerInv'
<1> DEFINE new == Without(overlay, req.id)
<1>1. /\ overlay' = new /\ pc = "saving" /\ req.op = "delete" /\ pc' = "idle"
      /\ UNCHANGED <<remote, req, troubled, raced>>
  BY DEF SaveDeleted, history, AnswerBy, Without
<1>2. IdsOf(new) = IdsOf(overlay) \ {req.id}
  BY TypeFacts, WithoutLists
<1> HIDE DEF new
<1>3. ~troubled /\ ~raced => req.id \notin IdsOf(remote)
  BY <1>1 DEF DoneInv
<1>4. ~troubled' /\ ~raced' => (req.id \notin IdsOf(remote) \cup IdsOf(overlay))'
  BY <1>1, <1>2, <1>3 DEF IdsOf
<1> QED
  BY <1>1, <1>4 DEF AnswerInv, Answered, CameTrue

LEMMA AnswerTrue ==
  ASSUME TypeInv, AnswerInv, Answer
  PROVE  AnswerInv'
<1>1. /\ pc = "answering" /\ Counted
      /\ \/ GivesUp
         \/ /\ pc' = "idle"
            /\ UNCHANGED <<remote, overlay, req, raced, doubled>>
  BY AnswerDoes
<1>2. CASE GivesUp
  BY <1>1, <1>2, GivenUp
<1>3. CASE ~GivesUp
  <2>1. ~troubled' /\ ~raced' => Told(overlay, remote)
    BY <1>1, <1>3 DEF AnswerInv, CameTrue, Counted
  <2>2. Told(overlay, remote) => Told(overlay, remote)'
    BY <1>1, <1>3 DEF Told, Holds, Target
  <2>3. req'.op \notin {"create", "delete"}
    BY <1>1, <1>3 DEF AnswerInv
  <2> QED
    BY <1>1, <1>3, <2>1, <2>2, <2>3 DEF AnswerInv, CameTrue
<1> QED
  BY <1>2, <1>3

LEMMA AnswerKept ==
  ASSUME TypeInv, IdsInv, SeenInv, DoneInv, AnswerInv, [Next]_vars
  PROVE  AnswerInv'
<1>1. CASE UNCHANGED vars
  <2>1. UNCHANGED <<pc, req, answer, troubled, raced, doubled, remote, overlay>>
    BY <1>1 DEF vars, service, history
  <2> QED
    BY <2>1, SameAnswer
<1>2. CASE Call
  <2>1. answer' = NoAnswer /\ pc' # "answering"
    BY <1>2, CallDoes
  <2> QED
    BY <2>1, NotAnswered DEF NoAnswer
<1>3. CASE Resolve \/ ResolveDestination \/ Send
  <2>1. pc \in {"resolving", "sending"} /\ pc' # "answering" /\ answer' = answer
    <3>1. Resolve => pc = "resolving" /\ pc' # "answering" /\ answer' = answer
      BY ResolveDoes DEF GivesUp
    <3>2. ResolveDestination => pc = "resolving" /\ pc' # "answering" /\ answer' = answer
      BY ResolveDestinationDoes DEF GivesUp
    <3>3. Send => pc = "sending" /\ pc' # "answering" /\ answer' = answer
      BY SendDoes
    <3> QED
      BY <1>3, <3>1, <3>2, <3>3
  <2> QED
    BY <2>1, NotAnswered DEF AnswerInv
<1>4. CASE ServeLocally
  BY <1>4, ServeLocallyDoes, NotAnswered
<1>5. CASE Abort
  BY <1>5, AbortDoes, NotAnswered DEF NoAnswer
<1>8. CASE SaveFails
  <2>1. pc # "idle" /\ pc' # "answering" /\ (answer' = answer \/ answer'.by \in {"error", "none"})
    BY <1>8, SaveFailsDoes
  <2> QED
    BY <2>1, NotAnswered DEF AnswerInv
<1>6. CASE Restart
  <2>1. pc = "down" /\ pc' = "idle" /\ answer' = answer
    BY <1>6 DEF Restart
  <2> QED
    BY <2>1, NotAnswered DEF AnswerInv
<1>7. CASE Elsewhere
  <2>1. UNCHANGED <<pc, req, answer>> /\ raced' = TRUE
    BY <1>7, ElsewhereDoes DEF service
  <2> QED
    BY <2>1 DEF AnswerInv
<1> QED
  BY <1>1, <1>2, <1>3, <1>4, <1>5, <1>6, <1>7, <1>8, SaveMergedTrue, SaveCreatedTrue,
     SavePinnedTrue, SaveEditedTrue, SaveDeletedTrue, AnswerTrue DEF Next

(* What TDA's provider reports is so for whoever looks next, unless a call *)
(* went wrong or others changed the lists meanwhile.                       *)
THEOREM AnswersTrue == Spec => []AnswersComeTrue
<1> DEFINE Inv == TypeInv /\ IdsInv /\ OnceInv /\ SeenInv /\ DoneInv /\ AnswerInv
<1>1. Init => Inv
  <2>1. Init => AnswerInv
    BY DEF Init, AnswerInv, Answered, NoAnswer
  <2> QED
    BY <2>1, TypeAtFirst, IdsAtFirst, OnceAtFirst, SeenAtFirst
<1>2. Inv /\ [Next]_vars => Inv'
  BY TypeKept, IdsKept, OnceKept, SeenKept, DoneKept, AnswerKept
<1>3. Inv => AnswersComeTrue
  <2> SUFFICES ASSUME TypeInv, AnswerInv, Answered, ~troubled, ~raced
               PROVE  AnswersComeTrue
    BY DEF AnswersComeTrue, Answered
  <2> DEFINE view == LoadScreens({})
  <2>1. IsLoad(view, overlay, remote, {})
    BY TypeFacts, LoadScreensLoads
  <2>2. View = view
    BY DEF View
  <2> HIDE DEF view
  <2>3. CameTrue(overlay, remote)
    BY DEF AnswerInv
  <2>4. view \in Seq(Screens) /\ overlay \in Seq(Screens) /\ remote \in Seq(RemoteLists)
    BY <2>1, TypeFacts DEF IsLoad
  <2>5. CASE req.op = "create"
    <3>1. PICK j \in DOMAIN remote :
            remote[j].id = answer.id /\ remote[j].name = req.name /\ Served(remote[j].id, {})
      BY <2>3, <2>5 DEF CameTrue, Made
    <3>2. PICK i \in DOMAIN view : view[i] = Shown(overlay, remote[j])
      BY <2>1, <3>1 DEF IsLoad
    <3>3. view[i].id = answer.id /\ view[i].name = req.name
      BY <3>1, <3>2, TypeFacts, ShownList
    <3>4. view[i] \in Range(view)
      BY <2>4, ElementsOfSeq
    <3> QED
      BY <2>2, <2>5, <3>3, <3>4 DEF AnswersComeTrue
  <2>6. CASE req.op = "delete"
    <3>1. IdsOf(view) \subseteq IdsOf(remote)
      BY <2>1, <2>4, LoadedIds
    <3> QED
      BY <2>2, <2>3, <2>6, <3>1 DEF AnswersComeTrue, CameTrue
  <2>7. CASE req.op \notin {"create", "delete"}
    <3>1. ASSUME NEW i \in DOMAIN view, view[i].id \in {req.id, Target}
          PROVE  Holds(view[i])
      <4>1. PICK j \in DOMAIN remote : view[i] = Shown(overlay, remote[j])
        BY <2>1 DEF IsLoad
      <4>2. view[i].id = remote[j].id
        BY <4>1, TypeFacts, ShownList
      <4> QED
        BY <2>3, <2>7, <3>1, <4>1, <4>2 DEF CameTrue, Told
    <3>2. \A l \in Range(view) : l.id \in {req.id, Target} => Holds(l)
      BY <3>1 DEF Range
    <3> QED
      BY <2>2, <2>7, <3>2 DEF AnswersComeTrue
  <2> QED
    BY <2>5, <2>6, <2>7
<1> QED
  BY <1>1, <1>2, <1>3, PTL DEF Spec
==============================================================================
