------------------------ MODULE ChartAnnotationsProofs ------------------------
(***************************************************************************)
(* For any charts, nesting of their keys, drawings, bounds and depth:      *)
(* ChartAnnotations keeps its types, histories stay bounded and ordered,   *)
(* a version id never changes its meaning, every service edit can be       *)
(* undone, and a rollback brings back what was asked for.                  *)
(*                                                                         *)
(* The file is written from trees that were in some process's memory while *)
(* others wrote.  Hence the invariants speak of all histories of a chart   *)
(* at once, on disk, lost with the file, and in memory: any two of them    *)
(* agree on the versions they share.                                       *)
(***************************************************************************)
EXTENDS ChartAnnotations, SequenceLemmas, FiniteSetTheorems

LEMMA GreatestNumber ==
  ASSUME NEW N \in Nat, NEW T, T \subseteq 1..N, T # {}
  PROVE  \E n \in T : \A m \in T : m <= n
<1> DEFINE U == {N - n : n \in T}
<1>1. U \subseteq Nat /\ U # {}
  <2>1. \A n \in T : N - n \in Nat
    OBVIOUS
  <2> QED
    BY <2>1
<1> HIDE DEF U
<1>2. PICK u \in U : \A v \in U : u <= v
  BY <1>1, LeastNumber
<1>3. PICK n \in T : u = N - n
  BY DEF U
<1>4. \A m \in T : N - m \in U
  BY DEF U
<1>5. \A m \in T : N - n <= N - m /\ m \in Int /\ n \in Int
  BY <1>2, <1>3, <1>4
<1>6. \A m \in T : m <= n
  BY <1>5
<1> QED
  BY <1>6

------------------------------------------------------------------------------
(* Drawings. *)

LEMMA BlanksType ==
  ASSUME NEW n \in Nat
  PROVE  Blanks(n) \in Drawing
<1>1. Blanks(n) \in [1..n -> Marker \cup {Blank}]
  BY DEF Blanks
<1> QED
  BY <1>1, SeqDef DEF Drawing

LEMMA WithoutType ==
  ASSUME NEW d \in Drawing, NEW ids
  PROVE  Without(d, ids) \in Drawing
<1> DEFINE S == Marker \cup {Blank}
           keep == {k \in DOMAIN d : d[k].id \notin ids}
<1>1. d \in Seq(S)
  BY DEF Drawing
<1> HIDE DEF S, keep
<1>2. Sifted(d, keep) \in Seq(S)
  BY <1>1, SiftedDrawn
<1> QED
  BY <1>2 DEF Without, Drawing, S, keep

LEMMA UpsertedType ==
  ASSUME NEW d \in Drawing, NEW m \in Marker
  PROVE  /\ Repriced(d, m) \in Drawing
         /\ Append(d, m) \in Drawing
         /\ Upserted(d, m) \in Drawing
<1> DEFINE S == Marker \cup {Blank}
<1>1. d \in Seq(S) /\ m \in S
  BY DEF Drawing
<1> HIDE DEF S
<1>2. d \in [1..Len(d) -> S] /\ Len(d) \in Nat
  BY <1>1, LenProperties
<1>3. Repriced(d, m) \in [1..Len(d) -> S]
  BY <1>1, <1>2 DEF Repriced
<1>4. Repriced(d, m) \in Seq(S)
  BY <1>2, <1>3, SeqDef
<1>5. Append(d, m) \in Seq(S)
  BY <1>1, AppendProperties
<1> QED
  BY <1>4, <1>5 DEF Upserted, Drawing, S

------------------------------------------------------------------------------
(* Histories. *)

Histories == Seq(Version)

LEMMA VersionsOf ==
  ASSUME NEW h \in Histories
  PROVE  /\ Len(h) \in Nat /\ DOMAIN h = 1..Len(h)
         /\ \A k \in 1..Len(h) : h[k] \in Version /\ h[k].id \in Nat /\ k \in Nat
<1>1. Len(h) \in Nat /\ DOMAIN h = 1..Len(h)
  BY LenProperties DEF Histories
<1>2. \A k \in 1..Len(h) : h[k] \in Version
  BY ElementOfSeq DEF Histories
<1> QED
  BY <1>1, <1>2 DEF Version

LEMMA LastWithFinds ==
  ASSUME NEW versions \in Histories, NEW id,
         NEW k \in DOMAIN versions, versions[k].id = id
  PROVE  /\ LastWith(versions, id) \in DOMAIN versions
         /\ versions[LastWith(versions, id)].id = id
         /\ DrawingOf(versions, id) \in Drawing
<1>1. Len(versions) \in Nat /\ DOMAIN versions = 1..Len(versions)
  BY LenProperties DEF Histories
<1> DEFINE T == {i \in DOMAIN versions : versions[i].id = id}
<1>2. PICK n \in T : \A m \in T : m <= n
  <2>1. T \subseteq 1..Len(versions) /\ T # {}
    BY <1>1
  <2> HIDE DEF T
  <2> QED
    BY <1>1, <2>1, GreatestNumber
<1>3. /\ LastWith(versions, id) \in DOMAIN versions
      /\ versions[LastWith(versions, id)].id = id
  BY <1>2 DEF LastWith
<1>4. versions[LastWith(versions, id)] \in Version
  BY <1>1, <1>3, ElementOfSeq DEF Histories
<1> QED
  BY <1>3, <1>4 DEF DrawingOf, Version

LEMMA ParsedType ==
  ASSUME NEW versions \in Histories
  PROVE  /\ Parsed(versions) \in Histories
         /\ Len(Parsed(versions)) = Len(versions)
         /\ DOMAIN Parsed(versions) = DOMAIN versions
         /\ \A k \in DOMAIN versions : Parsed(versions)[k].id = versions[k].id
<1>1. Len(versions) \in Nat /\ DOMAIN versions = 1..Len(versions)
  BY LenProperties DEF Histories
<1>2. ASSUME NEW k \in DOMAIN versions
      PROVE  /\ versions[k] \in Version
             /\ DrawingOf(versions, versions[k].id) \in Drawing
  BY <1>1, ElementOfSeq, LastWithFinds DEF Histories
<1>3. ASSUME NEW k \in DOMAIN versions
      PROVE  /\ [versions[k] EXCEPT !.drawing = DrawingOf(versions, versions[k].id)] \in Version
             /\ [versions[k] EXCEPT !.drawing = DrawingOf(versions, versions[k].id)].id
                  = versions[k].id
  BY <1>2 DEF Version
<1>4. Parsed(versions) \in [1..Len(versions) -> Version]
  BY <1>1, <1>3 DEF Parsed
<1>5. Parsed(versions) \in Seq(Version)
  BY <1>1, <1>4, SeqDef
<1>6. DOMAIN Parsed(versions) = 1..Len(versions)
  BY <1>4
<1>7. Len(Parsed(versions)) = Len(versions)
  BY <1>1, <1>5, <1>6, LenProperties
<1> QED
  BY <1>1, <1>3, <1>5, <1>6, <1>7 DEF Parsed, Histories

(* Where no two versions share an id, each has the drawing stored with it. *)
LEMMA DescendingParsed ==
  ASSUME NEW versions \in Histories, Descending(versions)
  PROVE  /\ Parsed(versions) = versions
         /\ \A k \in DOMAIN versions :
              DrawingOf(versions, versions[k].id) = versions[k].drawing
<1>1. /\ Len(versions) \in Nat /\ DOMAIN versions = 1..Len(versions)
      /\ \A k \in DOMAIN versions : versions[k] \in Version
  BY LenProperties, ElementOfSeq DEF Histories
<1>2. \A j, k \in DOMAIN versions : versions[j].id = versions[k].id => j = k
  BY <1>1 DEF Descending, Version
<1>3. ASSUME NEW k \in DOMAIN versions
      PROVE  DrawingOf(versions, versions[k].id) = versions[k].drawing
  <2>1. LastWith(versions, versions[k].id) = k
    BY <1>2, LastWithFinds
  <2> QED
    BY <2>1 DEF DrawingOf
<1>4. ASSUME NEW k \in DOMAIN versions
      PROVE  Parsed(versions)[k] = versions[k]
  BY <1>1, <1>3 DEF Parsed, Version
<1>5. Parsed(versions) = [k \in DOMAIN versions |-> versions[k]]
  BY <1>4 DEF Parsed
<1>6. versions = [k \in DOMAIN versions |-> versions[k]]
  BY <1>1, LenProperties DEF Histories
<1> QED
  BY <1>3, <1>5, <1>6

LEMMA WithDrawingType ==
  ASSUME NEW versions \in Histories, NEW id, NEW drawing \in Drawing
  PROVE  LET r == WithDrawing(versions, id, drawing)
         IN  /\ r \in Histories /\ Len(r) = Len(versions)
             /\ \A k \in 1..Len(versions) :
                  /\ r[k].id = versions[k].id
                  /\ r[k] = versions[k] \/ versions[k].id = id
                  /\ versions[k].id = id => r[k].drawing = drawing
<1> DEFINE r == WithDrawing(versions, id, drawing)
<1>1. /\ Len(versions) \in Nat /\ DOMAIN versions = 1..Len(versions)
      /\ \A k \in 1..Len(versions) : versions[k] \in Version
  BY LenProperties, ElementOfSeq DEF Histories
<1>2. ASSUME NEW k \in 1..Len(versions)
      PROVE  /\ r[k] \in Version
             /\ r[k].id = versions[k].id
             /\ r[k] = versions[k] \/ versions[k].id = id
             /\ versions[k].id = id => r[k].drawing = drawing
  <2>1. r[k] = IF versions[k].id = id THEN [versions[k] EXCEPT !.drawing = drawing]
               ELSE versions[k]
    BY <1>1 DEF WithDrawing
  <2> HIDE DEF r
  <2> QED
    BY <1>1, <2>1 DEF Version
<1>3. r = [k \in 1..Len(versions) |-> r[k]]
  BY <1>1 DEF WithDrawing
<1> HIDE DEF r
<1>4. r \in [1..Len(versions) -> Version]
  BY <1>2, <1>3
<1>5. r \in Seq(Version) /\ DOMAIN r = 1..Len(versions)
  BY <1>1, <1>4, SeqDef
<1>6. Len(r) = Len(versions)
  BY <1>1, <1>5, LenProperties
<1> QED
  BY <1>2, <1>5, <1>6 DEF r, Histories

(* What a push makes of the versions, oldest dropped or not: the versions  *)
(* move back by one.                                                       *)
LEMMA PushedVersions ==
  ASSUME NEW s \in State, NEW id \in Nat, s.current # <<>>
  PROVE  LET h == Pushed(s, id).versions
             n == Len(s.versions)
         IN  /\ h \in Histories
             /\ Len(h) = IF Full(s) THEN n ELSE n + 1
             /\ h[1].id = id
             /\ \A k \in 2..Len(h) : h[k].id = s.versions[k - 1].id
             /\ Descending(s.versions) /\ (\A k \in 1..n : s.versions[k].id < id) =>
                  /\ h[1].drawing = s.current
                  /\ \A k \in 2..Len(h) : h[k] = s.versions[k - 1]
<1> DEFINE new == [id |-> id, count |-> Len(s.current), drawing |-> s.current]
           old == s.versions
           n == Len(old)
           longer == <<new>> \o old
           all == WithDrawing(longer, id, s.current)
           cut == SubSeq(all, 1, n)
           h == Pushed(s, id).versions
           Fresh == Descending(old) /\ \A k \in 1..n : old[k].id < id
<1>1. /\ old \in Histories /\ n \in Nat /\ DOMAIN old = 1..n
      /\ \A k \in 1..n : old[k] \in Version
  BY LenProperties, ElementOfSeq DEF State, Histories
<1>2. new \in Version /\ s.current \in Drawing /\ new.id = id /\ new.drawing = s.current
  BY LenProperties DEF State, Version, Drawing
<1>3. h = IF Full(s) THEN WithoutOldest(all) ELSE all
  BY DEF Pushed, State
<1>4. Full(s) <=> n >= Depth
  BY DEF Full
<1>5. n >= Depth => n >= 1
  BY <1>1, DepthAssumption
<1> HIDE DEF new, n, old
<1>6. /\ longer \in Histories /\ Len(longer) = n + 1 /\ longer[1] = new
      /\ \A k \in 2..(n + 1) : longer[k] = old[k - 1]
  <2> DEFINE one == <<new>>
  <2>1. one \in Seq(Version) /\ Len(one) = 1 /\ one[1] = new
    BY <1>2
  <2>2. old \in Seq(Version)
    BY <1>1 DEF Histories
  <2> HIDE DEF one
  <2>3. /\ one \o old \in Seq(Version) /\ Len(one \o old) = Len(one) + Len(old)
        /\ \A i \in 1..(Len(one) + Len(old)) :
             (one \o old)[i] = IF i <= Len(one) THEN one[i] ELSE old[i - Len(one)]
    BY <2>1, <2>2, ConcatProperties
  <2>4. n = Len(old)
    BY DEF n
  <2>5. 1 + n = n + 1 /\ 1 \in 1..(n + 1)
        /\ \A k \in 2..(n + 1) : k \in 1..(n + 1) /\ ~(k <= 1)
    BY <1>1
  <2>6. longer = one \o old
    BY DEF one
  <2> HIDE DEF longer
  <2> QED
    BY <2>1, <2>3, <2>4, <2>5, <2>6 DEF Histories
<1> HIDE DEF longer
<1>7. /\ all \in Histories /\ Len(all) = n + 1
      /\ \A k \in 1..(n + 1) : /\ all[k].id = longer[k].id
                               /\ all[k] = longer[k] \/ longer[k].id = id
                               /\ longer[k].id = id => all[k].drawing = s.current
  BY <1>2, <1>6, WithDrawingType
<1> HIDE DEF all
<1>8. \A k \in 2..(n + 1) : k \in 1..(n + 1) /\ k - 1 \in 1..n
  BY <1>1
<1>9. 1 \in 1..(n + 1)
  BY <1>1
<1>10. /\ all[1].id = id /\ all[1].drawing = s.current
       /\ \A k \in 2..(n + 1) : all[k].id = old[k - 1].id
       /\ Fresh => \A k \in 2..(n + 1) : all[k] = old[k - 1]
  <2>1. all[1].id = id /\ all[1].drawing = s.current
    BY <1>2, <1>6, <1>7, <1>9
  <2>2. \A k \in 2..(n + 1) : all[k].id = old[k - 1].id
    BY <1>6, <1>7, <1>8
  <2>3. ASSUME Fresh, NEW k \in 2..(n + 1)
        PROVE  all[k] = old[k - 1]
    <3>1. old[k - 1].id \in Nat /\ old[k - 1].id < id
      BY <1>1, <1>8, <2>3 DEF Version
    <3>2. longer[k].id # id
      BY <1>6, <3>1
    <3> QED
      BY <1>6, <1>7, <1>8, <3>2
  <2> QED
    BY <2>1, <2>2, <2>3
<1>11. CASE ~Full(s)
  <2>1. h = all
    BY <1>3, <1>11
  <2> HIDE DEF h
  <2> QED
    BY <1>7, <1>10, <1>11, <2>1 DEF n, h, old
<1>12. CASE Full(s)
  <2>1. n >= 1 /\ \A k \in 1..n : k \in 1..(n + 1)
    BY <1>1, <1>4, <1>5, <1>12
  <2>2. /\ cut \in Histories /\ Len(cut) = n
        /\ \A k \in 1..n : cut[k] = all[k]
    <3>1. \A k \in 1..n : all[k] \in Version
      BY <1>7, <2>1, ElementOfSeq DEF Histories
    <3>2. n - 1 + 1 = n /\ \A k \in 1..n : 1 + k - 1 = k
      BY <1>1
    <3> QED
      BY <1>1, <2>1, <3>1, <3>2, SubSeqProperties DEF Histories
  <2> DEFINE last == all[n + 1].id
             r == WithDrawing(cut, last, <<>>)
  <2>3. h = r
    BY <1>3, <1>7, <1>1, <1>12 DEF WithoutOldest
  <2>4. <<>> \in Drawing
    BY EmptySeq DEF Drawing
  <2> HIDE DEF cut
  <2>5. /\ r \in Histories /\ Len(r) = n
        /\ \A k \in 1..n : r[k].id = cut[k].id /\ (r[k] = cut[k] \/ cut[k].id = last)
    BY <2>2, <2>4, WithDrawingType
  <2>6. \A k \in 2..n : k \in 2..(n + 1) /\ k \in 1..n
    BY <1>1
  <2>7. 1 \in 1..n
    BY <1>1, <2>1
  <2>8. ASSUME Fresh, NEW k \in 1..n
        PROVE  r[k] = all[k]
    <3>1. last = old[n].id /\ n \in 1..n
      BY <1>1, <1>10, <2>1
    <3>2. CASE k = 1
      <4>1. old[n].id \in Nat /\ old[n].id < id
        BY <1>1, <2>8, <3>1 DEF Version
      <4>2. cut[k].id # last
        BY <1>10, <2>2, <2>7, <3>1, <3>2, <4>1
      <4> QED
        BY <2>2, <2>5, <4>2
    <3>3. CASE k # 1
      <4>1. k \in 2..(n + 1) /\ k - 1 \in 1..n /\ k - 1 < n
        BY <1>1, <3>3
      <4>2. old[k - 1].id > old[n].id /\ old[n].id \in Nat /\ old[k - 1].id \in Nat
        BY <1>1, <2>8, <3>1, <4>1 DEF Descending, Version
      <4>3. cut[k].id # last
        BY <1>10, <2>2, <3>1, <4>1, <4>2
      <4> QED
        BY <2>2, <2>5, <4>3
    <3> QED
      BY <3>2, <3>3
  <2> HIDE DEF r, h
  <2>9. h \in Histories /\ Len(h) = IF Full(s) THEN n ELSE n + 1
    BY <2>3, <2>5, <1>12
  <2>10. h[1].id = id /\ \A k \in 2..Len(h) : h[k].id = old[k - 1].id
    BY <1>10, <2>2, <2>3, <2>5, <2>6, <2>7
  <2>11. Fresh => h[1].drawing = s.current /\ \A k \in 2..Len(h) : h[k] = old[k - 1]
    BY <1>10, <2>3, <2>5, <2>6, <2>7, <2>8
  <2> QED
    BY <2>9, <2>10, <2>11 DEF n, h, old
<1> QED
  BY <1>11, <1>12

LEMMA PushedState ==
  ASSUME NEW s \in State, NEW id \in Nat
  PROVE  /\ Pushed(s, id) \in State
         /\ Pushed(s, id).current = s.current
         /\ Len(s.versions) <= Depth => Len(Pushed(s, id).versions) <= Depth
         /\ \A v \in VersionIds(s) :
              (Full(s) /\ Oldest(s) = v) \/ v \in VersionIds(Pushed(s, id))
<1> DEFINE h == Pushed(s, id).versions
           n == Len(s.versions)
<1>1. n \in Nat /\ DOMAIN s.versions = 1..n /\ s.versions \in Histories
  BY LenProperties DEF State, Histories
<1>2. CASE s.current = <<>>
  BY <1>2 DEF Pushed
<1>3. CASE s.current # <<>>
  <2>1. /\ h \in Histories
        /\ Len(h) = IF Full(s) THEN n ELSE n + 1
        /\ h[1].id = id
        /\ \A k \in 2..Len(h) : h[k].id = s.versions[k - 1].id
    BY <1>3, PushedVersions
  <2>2. Pushed(s, id) = [s EXCEPT !.versions = h]
    BY DEF Pushed, State
  <2> HIDE DEF h
  <2>3. /\ Pushed(s, id) \in State /\ Pushed(s, id).current = s.current
        /\ Pushed(s, id).versions = h
    BY <2>1, <2>2 DEF State, Histories
  <2>4. n <= Depth => Len(h) <= Depth
    <3>1. ~Full(s) => ~(n >= Depth)
      BY <1>3 DEF Full
    <3> QED
      BY <1>1, <2>1, <3>1, DepthAssumption
  <2>5. ASSUME NEW v \in VersionIds(s), ~(Full(s) /\ Oldest(s) = v)
        PROVE  v \in VersionIds(Pushed(s, id))
    <3>1. PICK j \in 1..n : s.versions[j].id = v
      BY <1>1 DEF VersionIds
    <3>2. Full(s) => j # n
      BY <2>5, <3>1 DEF Oldest
    <3>3. j + 1 \in 2..Len(h) /\ (j + 1) - 1 = j
      BY <1>1, <2>1, <3>2
    <3>4. h[j + 1].id = v
      BY <2>1, <3>1, <3>3
    <3>5. Len(h) \in Nat /\ DOMAIN h = 1..Len(h)
      BY <2>1, LenProperties DEF Histories
    <3>6. j + 1 \in DOMAIN h
      BY <1>1, <3>3, <3>5
    <3> QED
      BY <2>3, <3>4, <3>6 DEF VersionIds
  <2> QED
    BY <2>3, <2>4, <2>5
<1> QED
  BY <1>2, <1>3

(* A history all of whose versions have a number of their own, drawn up to *)
(* time t.                                                                 *)
Numbered(h, t) == Descending(h) /\ \A k \in DOMAIN h : h[k].id <= t

LEMMA NumberedAgrees ==
  ASSUME NEW h \in Histories, NEW t, Numbered(h, t)
  PROVE  SameVersions(h, h)
<1>1. \A k \in DOMAIN h : h[k].id \in Nat /\ k \in Nat
  BY VersionsOf
<1> QED
  BY <1>1 DEF Numbered, Descending, SameVersions

(* A push in a later millisecond.                                          *)
LEMMA PushedNumbered ==
  ASSUME NEW s \in State, NEW t \in Nat, Numbered(s.versions, t)
  PROVE  LET new == Pushed(s, t + 1)
         IN  /\ Numbered(new.versions, t + 1)
             /\ \A g \in Histories :
                  Numbered(g, t) /\ SameVersions(g, s.versions) =>
                    SameVersions(g, new.versions) /\ SameVersions(new.versions, g)
             /\ s.current # <<>> =>
                  \E k \in DOMAIN new.versions : new.versions[k].drawing = s.current
             /\ \A v \in VersionIds(s) :
                  \/ Full(s) /\ Oldest(s) = v
                  \/ DrawingOf(new.versions, v) = DrawingOf(s.versions, v)
<1> DEFINE old == s.versions
           new == Pushed(s, t + 1)
           h == new.versions
           n == Len(old)
<1>1. /\ n \in Nat /\ DOMAIN old = 1..n /\ old \in Histories
      /\ \A k \in 1..n : old[k].id \in Nat /\ old[k].id <= t
  <2>1. old \in Histories
    BY DEF State, Histories
  <2> QED
    BY <2>1, VersionsOf DEF Numbered
<1>2. \A k \in 1..n : old[k].id < t + 1
  BY <1>1
<1>3. t + 1 \in Nat
  OBVIOUS
<1>4. CASE s.current = <<>>
  <2>1. new = s
    BY <1>4 DEF Pushed
  <2>2. Numbered(old, t + 1)
    BY <1>1, <1>2 DEF Numbered
  <2> HIDE DEF new
  <2> QED
    BY <1>4, <2>1, <2>2 DEF SameVersions, new
<1>5. CASE s.current # <<>>
  <2>1. /\ h \in Histories /\ h[1].id = t + 1 /\ h[1].drawing = s.current
        /\ Len(h) = IF Full(s) THEN n ELSE n + 1
        /\ \A k \in 2..Len(h) : h[k] = old[k - 1]
    BY <1>1, <1>2, <1>3, <1>5, PushedVersions DEF Numbered
  <2> HIDE DEF new
  <2>2. Len(h) \in Nat /\ DOMAIN h = 1..Len(h) /\ Len(h) >= 1
    <3>1. Full(s) => n >= 1
      BY <1>1, DepthAssumption DEF Full
    <3>2. Len(h) \in Nat /\ DOMAIN h = 1..Len(h)
      BY <2>1, LenProperties DEF Histories
    <3> QED
      BY <1>1, <2>1, <3>1, <3>2
  <2> HIDE DEF h, n, old
  <2>3. \A k \in 2..Len(h) : k - 1 \in 1..n /\ k \in Nat
    BY <1>1, <2>1, <2>2
  <2>4. \A k \in 1..Len(h) : k = 1 \/ k \in 2..Len(h)
    BY <2>2
  <2>5. Descending(h)
    <3> SUFFICES ASSUME NEW j \in 1..Len(h), NEW k \in 1..Len(h), j < k
                 PROVE  h[j].id > h[k].id
      BY <2>2 DEF Descending
    <3>1. k \in 2..Len(h)
      BY <2>2
    <3>2. h[k] = old[k - 1] /\ k - 1 \in 1..n
      BY <2>1, <2>3, <3>1
    <3>3. CASE j = 1
      BY <1>1, <1>2, <2>1, <3>2, <3>3
    <3>4. CASE j \in 2..Len(h)
      <4>1. h[j] = old[j - 1] /\ j - 1 \in 1..n /\ j - 1 < k - 1
        BY <2>1, <2>3, <3>4
      <4> QED
        BY <1>1, <3>2, <4>1 DEF Numbered, Descending, old
    <3> QED
      BY <2>4, <3>3, <3>4
  <2>6. \A k \in 1..Len(h) : h[k].id <= t + 1
    <3>1. \A k \in 2..Len(h) : h[k].id \in Nat /\ h[k].id <= t
      BY <1>1, <2>1, <2>3
    <3> QED
      BY <2>1, <2>4, <3>1
  <2>7. Numbered(h, t + 1)
    BY <2>2, <2>5, <2>6 DEF Numbered
  <2>8. ASSUME NEW g \in Histories, Numbered(g, t), SameVersions(g, old)
        PROVE  SameVersions(g, h) /\ SameVersions(h, g)
    <3>1. \A j \in DOMAIN g : g[j].id \in Nat /\ g[j].id # t + 1
      <4>1. \A j \in DOMAIN g : g[j].id \in Nat /\ g[j].id <= t
        BY <2>8, VersionsOf DEF Numbered
      <4> QED
        BY <4>1
    <3>2. ASSUME NEW j \in DOMAIN g, NEW k \in 1..Len(h), g[j].id = h[k].id
          PROVE  g[j] = h[k]
      <4>1. k \in 2..Len(h)
        BY <2>1, <2>4, <3>1, <3>2
      <4>2. h[k] = old[k - 1] /\ k - 1 \in DOMAIN old
        BY <1>1, <2>1, <2>3, <4>1
      <4> QED
        BY <2>8, <3>2, <4>2 DEF SameVersions
    <3> QED
      BY <2>2, <3>2 DEF SameVersions
  <2>9. \E k \in DOMAIN h : h[k].drawing = s.current
    BY <2>1, <2>2
  <2>10. ASSUME NEW v \in VersionIds(s), ~(Full(s) /\ Oldest(s) = v)
         PROVE  DrawingOf(h, v) = DrawingOf(old, v)
    <3>1. PICK j \in 1..n : old[j].id = v
      BY <1>1 DEF VersionIds, old
    <3>2. Full(s) => j # n
      BY <2>10, <3>1 DEF Oldest, old, n
    <3>3. j + 1 \in 2..Len(h) /\ (j + 1) - 1 = j /\ j + 1 \in DOMAIN h
      BY <1>1, <2>1, <2>2, <3>2
    <3>4. h[j + 1] = old[j]
      BY <2>1, <3>3
    <3>5. Descending(old)
      BY DEF Numbered, old
    <3>6. DrawingOf(old, v) = old[j].drawing
      BY <1>1, <3>1, <3>5, DescendingParsed
    <3>7. DrawingOf(h, v) = h[j + 1].drawing
      BY <2>1, <2>5, <3>1, <3>3, <3>4, DescendingParsed
    <3> QED
      BY <3>4, <3>6, <3>7
  <2> QED
    BY <2>7, <2>8, <2>9, <2>10 DEF h, old, new
<1> QED
  BY <1>4, <1>5

------------------------------------------------------------------------------
(* Entries and how they are read. *)

LEMMA EmptyTypes ==
  /\ <<>> \in Drawing /\ <<>> \in Histories
  /\ NoState \in State /\ None \in Entry /\ Nothing \in Entries
  /\ Unreadable \in [ok : BOOLEAN, entries : Entries]
  /\ NoJob \in Job
<1>1. <<>> \in Drawing /\ <<>> \in Histories
  BY EmptySeq DEF Drawing, Histories
<1>2. NoState \in State
  BY <1>1 DEF NoState, State, Histories
<1>3. None \in Entry
  BY <1>2 DEF None, Entry
<1>4. Nothing \in Entries
  BY <1>3 DEF Nothing, Entries
<1>5. SomeChart \in Charts
  BY ChartsAssumption DEF SomeChart
<1>6. NoJob \in Job
  BY <1>2, <1>5 DEF NoJob, Job
<1> QED
  BY <1>1, <1>2, <1>3, <1>4, <1>6 DEF Unreadable

LEMMA EntryTypes ==
  /\ \A s \in State : AsHistory(s) \in Entry /\ AsHistory(s).state = s
  /\ \A d \in Drawing :
       AsArray(d) \in Entry /\ AsArray(d).state.versions = <<>>
  /\ None.state.versions = <<>>
<1>1. ASSUME NEW d \in Drawing
      PROVE  /\ [NoState EXCEPT !.current = d] \in State
             /\ [NoState EXCEPT !.current = d].versions = <<>>
  BY EmptyTypes DEF State, NoState, Histories
<1> QED
  BY <1>1 DEF AsHistory, AsArray, Entry, None, NoState

LEMMA InnerBlanks ==
  ASSUME NEW entries, NEW c
  PROVE  Blanks(Cardinality(Inner(entries, c))) \in Drawing
<1>1. Inner(entries, c) \in SUBSET Charts
  BY DEF Inner
<1>2. Cardinality(Inner(entries, c)) \in Nat
  BY <1>1, ChartsAssumption, FS_Subset, FS_CardinalityType
<1> QED
  BY <1>2, BlanksType

LEMMA JoinedDrawings ==
  ASSUME NEW a \in Drawing, NEW b \in Drawing
  PROVE  a \o b \in Drawing
BY ConcatProperties DEF Drawing

(* What the service reads of an entry: its history or none. *)
LEMMA ReadState ==
  ASSUME NEW entries \in Entries, NEW c \in Charts
  PROVE  LET s == StateIn(entries, c)
             h == entries[c].state.versions
         IN  /\ s \in State
             /\ s.versions \in {Parsed(h), <<>>}
             /\ Len(h) <= Depth => Len(s.versions) <= Depth
             /\ Descending(h) => s.versions \in {h, <<>>}
             /\ \A new \in State : entries[c] = AsHistory(new) /\ Descending(h) =>
                  s = new
<1> DEFINE s == StateIn(entries, c)
           e == entries[c]
           h == e.state.versions
           cur == e.state.current \o Blanks(Cardinality(Inner(entries, c)))
<1>1. e \in Entry /\ e.state \in State /\ h \in Histories /\ e.state.current \in Drawing
  BY DEF Entries, Entry, State, Histories
<1>2. cur \in Drawing
  BY <1>1, InnerBlanks, JoinedDrawings
<1> HIDE DEF cur
<1>3. Parsed(h) \in Histories /\ Len(Parsed(h)) = Len(h) /\ Len(h) \in Nat
  BY <1>1, ParsedType, VersionsOf
<1>4. Len(<<>>) = 0 /\ Depth \in Nat
  BY EmptySeq, DepthAssumption
<1>5. Descending(h) => Parsed(h) = h
  BY <1>1, DescendingParsed
<1>6. CASE e.kind = "history"
  <2>1. s = [e.state EXCEPT !.versions = Parsed(h)]
    BY <1>6 DEF StateIn
  <2>2. s \in State /\ s.versions = Parsed(h) /\ s.current = e.state.current
    BY <1>1, <1>3, <2>1 DEF State, Histories
  <2>3. ASSUME NEW new \in State, e = AsHistory(new), Descending(h)
        PROVE  s = new
    <3>1. new = e.state
      BY <2>3 DEF AsHistory
    <3> QED
      BY <1>1, <1>5, <2>1, <2>3, <3>1 DEF State
  <2> QED
    BY <1>3, <1>5, <2>2, <2>3
<1>7. CASE e.kind = "array" /\ e.state.current # <<>>
  <2>1. s = [NoState EXCEPT !.current = cur]
    BY <1>7 DEF StateIn, cur
  <2>2. s \in State /\ s.versions = <<>>
    BY <1>2, <2>1, EmptyTypes DEF State, NoState, Histories
  <2>3. \A new \in State : e # AsHistory(new)
    BY <1>7 DEF AsHistory
  <2> QED
    BY <1>4, <2>2, <2>3
<1>8. CASE ~(e.kind = "history") /\ ~(e.kind = "array" /\ e.state.current # <<>>)
  <2>1. s = NoState
    BY <1>8 DEF StateIn
  <2>2. s \in State /\ s.versions = <<>>
    BY <2>1, EmptyTypes DEF NoState
  <2>3. \A new \in State : e # AsHistory(new)
    BY <1>8 DEF AsHistory
  <2> QED
    BY <1>4, <2>2, <2>3
<1> QED
  BY <1>6, <1>7, <1>8

(* What the view makes of the file. *)
LEMMA NotesTypes ==
  ASSUME NEW entries \in Entries
  PROVE  /\ DOMAIN NotesIn(entries) \subseteq Charts
         /\ \A c \in DOMAIN NotesIn(entries) : NotesIn(entries)[c] \in Drawing
<1>1. DOMAIN NotesIn(entries) \subseteq Charts
  BY DEF NotesIn
<1>2. ASSUME NEW c \in DOMAIN NotesIn(entries)
      PROVE  NotesIn(entries)[c] \in Drawing
  <2> DEFINE shown == IF entries[c].kind = "array" THEN entries[c].state.current
                      ELSE IF entries[c].kind = "history" THEN Blanks(2) ELSE <<>>
  <2>1. entries[c] \in Entry
    BY <1>1 DEF Entries
  <2>2. shown \in Drawing
    BY <2>1, BlanksType, EmptyTypes DEF Entry, State
  <2>3. NotesIn(entries)[c] = shown \o Blanks(Cardinality(Inner(entries, c)))
    BY <1>2 DEF NotesIn
  <2> HIDE DEF shown
  <2> QED
    BY <2>2, <2>3, InnerBlanks, JoinedDrawings
<1> QED
  BY <1>1, <1>2

LEMMA PutTypes ==
  ASSUME NEW entries \in Entries, NEW c \in Charts, NEW e \in Entry
  PROVE  /\ Put(entries, c, e) \in Entries
         /\ Put(entries, c, e)[c] = e
         /\ \A d \in Charts \ {c} : Put(entries, c, e)[d] \in {None, entries[d]}
BY EmptyTypes DEF Put, Entries

------------------------------------------------------------------------------
(* Service edits. *)

(* What the four operations have in common: the drawing at hand is pushed, *)
(* and another takes its place.                                            *)
ServiceEdit(p, c, id, v, d) ==
  /\ Edit(p, c, id, v, [Pushed(Before(c), id) EXCEPT !.current = d])
  /\ v # 0 => v \in VersionIds(Before(c)) /\ d \in Restored(Before(c), Pushed(Before(c), id), v)

ServiceOps(c) ==
  \/ ReplaceChartAnnotations(c) \/ UpsertChartAnnotation(c)
  \/ DeleteChartAnnotation(c)
  \/ \E p \in Procs : RollbackChartAnnotations(p, c)

LEMMA TimesLater ==
  ASSUME TypeOK, NEW id \in Times
  PROVE  id \in Nat \ {0} /\ id >= now /\ (id = now \/ id = now + 1)
BY DEF TypeOK, Times

LEMMA BeforeType ==
  ASSUME TypeOK, NEW c \in Charts
  PROVE  Before(c) \in State
<1>1. file.entries \in Entries
  BY DEF TypeOK
<1> QED
  BY <1>1, ReadState DEF Before

LEMMA ServiceOpsAreEdits ==
  ASSUME TypeOK, NEW c \in Charts, ServiceOps(c)
  PROVE  \E p \in Procs, id \in Times, v \in Nat, d \in Drawing : ServiceEdit(p, c, id, v, d)
<1>1. server \in Procs /\ Before(c) \in State /\ Before(c).current \in Drawing
  BY BeforeType DEF Procs, State
<1>2. \A id \in Times : /\ Pushed(Before(c), id) \in State
                        /\ Pushed(Before(c), id).current = Before(c).current
  BY <1>1, TimesLater, PushedState
<1>3. CASE ReplaceChartAnnotations(c)
  <2>1. PICK drawing \in Drawings, id \in Times :
          Edit(server, c, id, 0, [Pushed(Before(c), id) EXCEPT !.current = drawing])
    BY <1>3 DEF ReplaceChartAnnotations
  <2>2. drawing \in Drawing
    <3>1. drawing \in Seq(Marker)
      BY DrawingsAssumption
    <3>2. Marker \subseteq Marker \cup {Blank}
      OBVIOUS
    <3> QED
      BY <3>1, <3>2, SeqMonotonic DEF Drawing
  <2>3. ServiceEdit(server, c, id, 0, drawing)
    BY <2>1 DEF ServiceEdit
  <2> QED
    BY <1>1, <2>2, <2>3
<1>4. CASE UpsertChartAnnotation(c)
  <2>1. PICK m \in Marker, id \in Times :
          Edit(server, c, id, 0, [Pushed(Before(c), id) EXCEPT !.current = Upserted(@, m)])
    BY <1>4 DEF UpsertChartAnnotation
  <2> DEFINE d == Upserted(Before(c).current, m)
  <2>2. d \in Drawing
    BY <1>1, UpsertedType
  <2>3. [Pushed(Before(c), id) EXCEPT !.current = Upserted(@, m)]
          = [Pushed(Before(c), id) EXCEPT !.current = d]
    BY <1>2
  <2>4. ServiceEdit(server, c, id, 0, d)
    BY <2>1, <2>3 DEF ServiceEdit
  <2> QED
    BY <1>1, <2>2, <2>4
<1>5. CASE DeleteChartAnnotation(c)
  <2>1. PICK marker \in Ids, id \in Times :
          Edit(server, c, id, 0,
               [Pushed(Before(c), id) EXCEPT !.current = Without(@, {marker})])
    BY <1>5 DEF DeleteChartAnnotation
  <2> DEFINE d == Without(Before(c).current, {marker})
  <2>2. d \in Drawing
    BY <1>1, WithoutType
  <2>3. [Pushed(Before(c), id) EXCEPT !.current = Without(@, {marker})]
          = [Pushed(Before(c), id) EXCEPT !.current = d]
    BY <1>2
  <2>4. ServiceEdit(server, c, id, 0, d)
    BY <2>1, <2>3 DEF ServiceEdit
  <2> QED
    BY <1>1, <2>2, <2>4
<1>6. CASE \E p \in Procs : RollbackChartAnnotations(p, c)
  <2>1. PICK p \in Procs : RollbackChartAnnotations(p, c)
    BY <1>6
  <2>2. PICK v \in VersionIds(Before(c)), id \in Times :
          LET new == Pushed(Before(c), id)
          IN  \E d \in Restored(Before(c), new, v) :
                Edit(p, c, id, v, [new EXCEPT !.current = d])
    BY <2>1 DEF RollbackChartAnnotations
  <2>3. PICK d \in Restored(Before(c), Pushed(Before(c), id), v) :
          Edit(p, c, id, v, [Pushed(Before(c), id) EXCEPT !.current = d])
    BY <2>2
  <2>4. Before(c).versions \in Histories
    BY <1>1 DEF State, Histories
  <2>5. v \in Nat
    BY <2>4, VersionsOf DEF VersionIds
  <2>6. \A s \in State : \A w \in VersionIds(s) : DrawingOf(s.versions, w) \in Drawing
    <3> SUFFICES ASSUME NEW s \in State, NEW w \in VersionIds(s)
                 PROVE  DrawingOf(s.versions, w) \in Drawing
      OBVIOUS
    <3>1. s.versions \in Histories
      BY DEF State, Histories
    <3> QED
      BY <3>1, LastWithFinds DEF VersionIds
  <2>7. id \in Nat
    BY TimesLater
  <2>8. d \in Drawing
    <3>1. CASE Full(Before(c)) /\ Oldest(Before(c)) = v
      BY <1>1, <2>3, <2>6, <3>1, EmptyTypes, BlanksType DEF Restored
    <3>2. CASE ~(Full(Before(c)) /\ Oldest(Before(c)) = v)
      <4>1. v \in VersionIds(Pushed(Before(c), id))
        BY <1>1, <2>7, <3>2, PushedState
      <4> QED
        BY <1>2, <2>3, <2>6, <3>2, <4>1 DEF Restored
    <3> QED
      BY <3>1, <3>2
  <2>9. ServiceEdit(p, c, id, v, d)
    BY <2>3 DEF ServiceEdit
  <2> QED
    BY <2>5, <2>8, <2>9
<1> QED
  BY <1>3, <1>4, <1>5, <1>6 DEF ServiceOps

------------------------------------------------------------------------------
(* Type correctness, action by action. *)

LEMMA ServiceEditTypes ==
  ASSUME TypeOK, NEW p \in Procs, NEW c \in Charts, NEW id \in Times, NEW v \in Nat,
         NEW d \in Drawing, ServiceEdit(p, c, id, v, d)
  PROVE  TypeOK'
<1> DEFINE state == [Pushed(Before(c), id) EXCEPT !.current = d]
           new == [chart |-> c, base |-> Before(c), state |-> state, version |-> v]
<1>1. id \in Nat \ {0} /\ id \in Nat
  BY TimesLater
<1>2. Before(c) \in State /\ Pushed(Before(c), id) \in State
  BY <1>1, BeforeType, PushedState
<1>3. state \in State
  BY <1>2 DEF State
<1>4. new \in Job
  BY <1>2, <1>3 DEF Job
<1>5. Edit(p, c, id, v, state)
  BY DEF ServiceEdit
<1> HIDE DEF state
<1>6. job' = [job EXCEPT ![p] = new]
  BY <1>5 DEF Edit
<1> HIDE DEF new
<1>7. job' \in [Procs -> Job] /\ pc' \in [Procs -> {"idle", "loaded", "ready", "writing"}]
  BY <1>4, <1>5, <1>6 DEF Edit, TypeOK
<1>8. now' \in Nat \ {0} /\ collisions' \in Nat /\ ops' \in Nat
  BY <1>1, <1>5 DEF Edit, TypeOK
<1>9. UNCHANGED <<file, buf, opened, notes, saved, crashes>>
  BY <1>5 DEF Edit, view
<1> QED
  BY <1>7, <1>8, <1>9 DEF TypeOK

LEMMA SaveTypes ==
  ASSUME TypeOK, NEW p \in Procs, Save(p)
  PROVE  TypeOK'
<1>1. job[p] \in Job /\ file.entries \in Entries
  BY DEF TypeOK
<1>2. Put(file.entries, job[p].chart, AsHistory(job[p].state)) \in Entries
  BY <1>1, PutTypes, EntryTypes DEF Job
<1> QED
  BY <1>2 DEF Save, TypeOK, view

LEMMA RedrawnTypes ==
  ASSUME NEW s \in Drawing, NEW t \in Redrawn(s)
  PROVE  t \in Drawing
<1>1. Without(s, Risk) \in Drawing
  BY WithoutType
<1> QED
  BY <1>1, UpsertedType DEF Redrawn

LEMMA ViewEditTypes ==
  ASSUME TypeOK, NEW new, DOMAIN new \subseteq Charts,
         \A c \in DOMAIN new : new[c] \in Drawing, ViewEdit(new)
  PROVE  /\ TypeOK'
         /\ \A c \in Charts : buf'[desktop][c].state.versions = <<>>
<1> DEFINE tree == [c \in Charts |-> IF c \in DOMAIN new THEN AsArray(new[c]) ELSE None]
<1>1. \A c \in Charts : tree[c] \in Entry /\ tree[c].state.versions = <<>>
  BY EntryTypes, EmptyTypes
<1>2. tree \in Entries
  BY <1>1 DEF Entries
<1>3. buf' = [buf EXCEPT ![desktop] = tree] /\ desktop \in Procs
  BY DEF ViewEdit, Procs
<1> HIDE DEF tree
<1>4. buf' \in [Procs -> Entries] /\ buf'[desktop] = tree
  BY <1>2, <1>3 DEF TypeOK
<1>5. pc' \in [Procs -> {"idle", "loaded", "ready", "writing"}] /\ ops' \in Nat
  <2>1. pc' = [pc EXCEPT ![desktop] = "ready"] /\ ops' = ops + 1
    BY DEF ViewEdit
  <2>2. pc \in [Procs -> {"idle", "loaded", "ready", "writing"}]
    BY DEF TypeOK
  <2>3. ops' \in Nat
    BY <2>1 DEF TypeOK
  <2>4. pc' \in [Procs -> {"idle", "loaded", "ready", "writing"}]
    BY <2>1, <2>2
  <2> QED
    BY <2>3, <2>4
<1> QED
  BY <1>1, <1>4, <1>5 DEF ViewEdit, TypeOK

LEMMA DrawTypes ==
  ASSUME TypeOK, NEW c \in Charts, Draw(c) \/ ClearMarkers(c)
  PROVE  \E new : /\ DOMAIN new \subseteq Charts
                  /\ \A d \in DOMAIN new : new[d] \in Drawing
                  /\ ViewEdit(new)
<1>1. DOMAIN notes \subseteq Charts /\ \A d \in DOMAIN notes : notes[d] \in Drawing
  BY DEF TypeOK
<1>2. CASE Draw(c)
  <2>1. PICK s \in Redrawn(NotesOn(c)) :
          ViewEdit([d \in DOMAIN notes \cup {c} |-> IF d = c THEN s ELSE notes[d]])
    BY <1>2 DEF Draw
  <2>2. NotesOn(c) \in Drawing
    BY <1>1, EmptyTypes DEF NotesOn
  <2>3. s \in Drawing
    BY <2>2, RedrawnTypes
  <2> DEFINE new == [d \in DOMAIN notes \cup {c} |-> IF d = c THEN s ELSE notes[d]]
  <2>4. DOMAIN new \subseteq Charts /\ \A d \in DOMAIN new : new[d] \in Drawing
    BY <1>1, <2>3
  <2>5. ViewEdit(new)
    BY <2>1
  <2> HIDE DEF new
  <2> QED
    BY <2>4, <2>5
<1>3. CASE ClearMarkers(c)
  <2> DEFINE new == [d \in DOMAIN notes \ {c} |-> notes[d]]
  <2>1. DOMAIN new \subseteq Charts /\ \A d \in DOMAIN new : new[d] \in Drawing
    BY <1>1
  <2>2. ViewEdit(new)
    BY <1>3 DEF ClearMarkers
  <2> HIDE DEF new
  <2> QED
    BY <2>1, <2>2
<1> QED
  BY <1>2, <1>3

LEMMA LastSeenTypes ==
  ASSUME TypeOK
  PROVE  LastSeen \in Entries /\ LastSeen \in {file.entries, saved}
BY DEF TypeOK, LastSeen

LEMMA WriteTypes ==
  ASSUME TypeOK, NEW p \in Procs, Truncate(p) \/ Flush(p) \/ WriteFails(p)
  PROVE  /\ TypeOK'
         /\ file'.entries \in {file.entries, buf[p], Nothing}
         /\ saved' \in {file.entries, saved}
         /\ \A q \in Procs : /\ job'[q] \in {job[q], NoJob}
                             /\ buf'[q] \in {buf[q], Nothing}
<1>1. LastSeen \in Entries /\ LastSeen \in {file.entries, saved}
  BY LastSeenTypes
<1>2. CASE Truncate(p)
  <2>1. Unreadable.entries = Nothing
    BY DEF Unreadable
  <2>2. TypeOK'
    BY <1>1, <1>2, EmptyTypes DEF Truncate, TypeOK, view
  <2> QED
    BY <1>1, <1>2, <2>1, <2>2 DEF Truncate
<1>3. ASSUME Finish(p)
      PROVE  /\ pc' \in [Procs -> {"idle", "loaded", "ready", "writing"}]
             /\ job' \in [Procs -> Job] /\ buf' \in [Procs -> Entries]
             /\ \A q \in Procs : /\ job'[q] \in {job[q], NoJob}
                                 /\ buf'[q] \in {buf[q], Nothing}
             /\ UNCHANGED <<now, opened, notes, collisions, ops>>
  <2>1. pc' \in [Procs -> {"idle", "loaded", "ready", "writing"}]
    BY <1>3 DEF Finish, TypeOK
  <2>2. /\ job' \in [Procs -> Job] /\ buf' \in [Procs -> Entries]
        /\ \A q \in Procs : job'[q] \in {job[q], NoJob} /\ buf'[q] \in {buf[q], Nothing}
    BY <1>3, EmptyTypes DEF Finish, TypeOK
  <2> QED
    BY <1>3, <2>1, <2>2 DEF Finish, view
<1>4. CASE Flush(p)
  <2>1. Finish(p) /\ saved' = LastSeen /\ crashes' = crashes
    BY <1>4 DEF Flush
  <2>2. file' = Holding(buf[p]) \/ file' = Unreadable
    BY <1>4 DEF Flush
  <2>3. buf[p] \in Entries
    BY DEF TypeOK
  <2>4. Holding(buf[p]) \in [ok : BOOLEAN, entries : Entries]
    BY <2>3 DEF Holding
  <2>5. file' \in [ok : BOOLEAN, entries : Entries]
    BY <2>2, <2>4, EmptyTypes
  <2>6. file'.entries \in {buf[p], Nothing}
    BY <2>2 DEF Holding, Unreadable
  <2> QED
    BY <1>1, <1>3, <2>1, <2>5, <2>6 DEF TypeOK
<1>5. CASE WriteFails(p)
  <2>1. Finish(p) /\ UNCHANGED <<file, saved>> /\ crashes' = crashes + 1
    BY <1>5 DEF WriteFails
  <2> QED
    BY <1>3, <2>1 DEF TypeOK
<1> QED
  BY <1>2, <1>4, <1>5

LEMMA OpenTypes ==
  ASSUME TypeOK, Open \/ CloseDesktop
  PROVE  TypeOK' /\ UNCHANGED <<file, now, pc, job, buf, saved, collisions>>
<1>1. CASE Open
  <2>1. file.entries \in Entries
    BY DEF TypeOK
  <2> QED
    BY <1>1, <2>1, NotesTypes DEF Open, TypeOK
<1>2. CASE CloseDesktop
  <2>1. DOMAIN <<>> = {}
    OBVIOUS
  <2> QED
    BY <1>2, <2>1 DEF CloseDesktop, TypeOK
<1> QED
  BY <1>1, <1>2

LEMMA InitTypes == Init => TypeOK
<1> SUFFICES ASSUME Init PROVE TypeOK
  OBVIOUS
<1>1. DOMAIN notes = {} /\ notes = <<>>
  BY DEF Init
<1>2. file \in [ok : BOOLEAN, entries : Entries] /\ saved \in Entries
  BY EmptyTypes DEF Init
<1>3. pc \in [Procs -> {"idle", "loaded", "ready", "writing"}]
  BY DEF Init
<1>4. job \in [Procs -> Job] /\ buf \in [Procs -> Entries]
  BY EmptyTypes DEF Init
<1>5. now \in Nat \ {0} /\ collisions \in Nat /\ ops \in Nat /\ crashes \in Nat
  BY DEF Init
<1>6. opened \in BOOLEAN
  BY DEF Init
<1> QED
  BY <1>1, <1>2, <1>3, <1>4, <1>5, <1>6 DEF TypeOK

------------------------------------------------------------------------------
(* The histories of a chart. *)

InPlay(c) ==
  {file.entries[c].state.versions, saved[c].state.versions}
    \cup {buf[p][c].state.versions : p \in Procs}
    \cup {job[p].state.versions : p \in {q \in Procs : job[q].chart = c}}

Bounded(c) ==
  \A h \in InPlay(c) : Len(h) <= Depth /\ (collisions = 0 => Numbered(h, now))

Agree(c) == \A g, h \in InPlay(c) : SameVersions(g, h)

KeptInv == /\ TypeOK
           /\ \A c \in Charts : Bounded(c) /\ (collisions = 0 => Agree(c))

LEMMA InPlayTypes ==
  ASSUME TypeOK, NEW c \in Charts
  PROVE  InPlay(c) \subseteq Histories
<1>1. \A e \in Entries : e[c].state.versions \in Histories
  BY DEF Entries, Entry, State, Histories
<1>2. \A p \in Procs : job[p].state.versions \in Histories
  BY DEF TypeOK, Job, State, Histories
<1>3. /\ file.entries \in Entries /\ saved \in Entries
      /\ \A p \in Procs : buf[p] \in Entries
  BY DEF TypeOK
<1> QED
  BY <1>1, <1>2, <1>3 DEF InPlay

LEMMA EmptyHistory ==
  /\ Len(<<>>) <= Depth
  /\ \A t : Numbered(<<>>, t)
  /\ \A g : SameVersions(<<>>, g) /\ SameVersions(g, <<>>)
<1>1. DOMAIN <<>> = {} /\ Len(<<>>) = 0 /\ Depth \in Nat
  BY EmptySeq, DepthAssumption
<1> QED
  BY <1>1 DEF Numbered, Descending, SameVersions

(* A step that only passes histories on. *)
LEMMA PassedOn ==
  ASSUME KeptInv, TypeOK', now' = now, collisions' = collisions,
         \A c \in Charts : InPlay(c)' \subseteq InPlay(c) \cup {<<>>}
  PROVE  KeptInv'
<1> SUFFICES ASSUME NEW c \in Charts
             PROVE  Bounded(c)' /\ (collisions' = 0 => Agree(c)')
  BY DEF KeptInv
<1>1. Bounded(c) /\ (collisions = 0 => Agree(c))
  BY DEF KeptInv
<1>2. Bounded(c)'
  BY <1>1, EmptyHistory DEF Bounded
<1>3. collisions' = 0 => Agree(c)'
  BY <1>1, EmptyHistory DEF Agree
<1> QED
  BY <1>2, <1>3

LEMMA EditKeeps ==
  ASSUME KeptInv, NEW p \in Procs, NEW c \in Charts, NEW id \in Times, NEW v \in Nat,
         NEW d \in Drawing, ServiceEdit(p, c, id, v, d)
  PROVE  KeptInv'
<1> DEFINE s == Before(c)
           h == Pushed(s, id).versions
           old == file.entries[c].state.versions
<1>1. TypeOK /\ TypeOK'
  BY ServiceEditTypes DEF KeptInv
<1>2. /\ id \in Nat /\ (id = now \/ id = now + 1) /\ now \in Nat
      /\ s \in State /\ Pushed(s, id) \in State /\ file.entries \in Entries
  BY <1>1, TimesLater, BeforeType, PushedState DEF TypeOK
<1>3. Bounded(c) /\ (collisions = 0 => Agree(c)) /\ old \in InPlay(c) /\ old \in Histories
  BY <1>1, InPlayTypes DEF KeptInv, InPlay
<1>4. /\ s.versions \in {Parsed(old), <<>>}
      /\ Len(s.versions) <= Depth
      /\ Descending(old) => s.versions \in {old, <<>>}
  BY <1>2, <1>3, ReadState DEF Before, Bounded
<1>5. Len(h) <= Depth
  BY <1>2, <1>4, PushedState
<1>6. /\ now' = id
      /\ collisions' = IF id = now THEN collisions + 1 ELSE collisions
      /\ UNCHANGED <<file, buf, saved>>
  BY DEF ServiceEdit, Edit
<1>7. /\ job'[p].chart = c /\ job'[p].state.versions = h
      /\ \A q \in Procs \ {p} : job'[q] = job[q]
  <2> DEFINE state == [Pushed(s, id) EXCEPT !.current = d]
             new == [chart |-> c, base |-> s, state |-> state, version |-> v]
  <2>1. job' = [job EXCEPT ![p] = new]
    BY DEF ServiceEdit, Edit
  <2>2. new.chart = c /\ new.state.versions = h
    BY <1>2 DEF State
  <2> HIDE DEF new
  <2> QED
    BY <1>1, <2>1, <2>2 DEF TypeOK
<1> HIDE DEF h, s, old
<1>8. /\ InPlay(c)' \subseteq InPlay(c) \cup {h}
      /\ \A e \in Charts \ {c} : InPlay(e)' \subseteq InPlay(e)
  <2>1. UNCHANGED <<file.entries, saved, buf>>
    BY <1>6
  <2>2. ASSUME NEW e \in Charts, NEW q \in Procs, job'[q].chart = e
        PROVE  \/ job[q].chart = e /\ job'[q] = job[q]
               \/ e = c /\ job'[q].state.versions = h
    <3>1. q = p \/ job'[q] = job[q]
      BY <1>7
    <3> QED
      BY <1>7, <2>2, <3>1
  <2> QED
    BY <2>1, <2>2 DEF InPlay
<1>9. CASE id = now
  <2>1. collisions' # 0
    BY <1>1, <1>6, <1>9 DEF TypeOK
  <2>2. ASSUME NEW e \in Charts
        PROVE  \A g \in InPlay(e)' : Len(g) <= Depth
    <3>1. Bounded(e)
      BY DEF KeptInv
    <3> QED
      BY <1>5, <1>8, <3>1 DEF Bounded
  <2> QED
    BY <1>1, <2>1, <2>2 DEF KeptInv, Bounded
<1>10. CASE id = now + 1
  <2>1. id # now /\ collisions' = collisions
    BY <1>2, <1>6, <1>10
  <2>2. ASSUME NEW g, NEW e \in Charts, g \in InPlay(e), Numbered(g, now)
        PROVE  Numbered(g, now')
    <3>1. g \in Histories
      BY <1>1, <2>2, InPlayTypes
    <3>2. \A k \in DOMAIN g : g[k].id \in Nat
      BY <3>1, VersionsOf
    <3> QED
      BY <1>2, <1>6, <1>10, <2>2, <3>2 DEF Numbered
  <2>3. ASSUME collisions = 0
        PROVE  /\ Numbered(h, now') /\ SameVersions(h, h)
               /\ \A g \in InPlay(c) : SameVersions(g, h) /\ SameVersions(h, g)
    <3>1. \A g \in InPlay(c) : /\ Numbered(g, now) /\ g \in Histories
                              /\ SameVersions(g, old)
      BY <1>1, <1>3, <2>3, InPlayTypes DEF Bounded, Agree
    <3>2. s.versions \in {old, <<>>}
      BY <1>3, <1>4, <3>1 DEF Numbered
    <3>3. Numbered(s.versions, now) /\ \A g \in InPlay(c) : SameVersions(g, s.versions)
      BY <1>3, <3>1, <3>2, EmptyHistory
    <3>4. /\ Numbered(h, now + 1)
          /\ \A g \in Histories :
               Numbered(g, now) /\ SameVersions(g, s.versions) =>
                 SameVersions(g, h) /\ SameVersions(h, g)
      BY <1>2, <1>10, <3>3, PushedNumbered DEF h
    <3>5. h \in Histories
      BY <1>2 DEF State, Histories, h
    <3> QED
      BY <1>6, <1>10, <3>1, <3>3, <3>4, <3>5, NumberedAgrees
  <2>4. ASSUME NEW e \in Charts
        PROVE  Bounded(e)' /\ (collisions' = 0 => Agree(e)')
    <3>1. Bounded(e) /\ (collisions = 0 => Agree(e))
      BY DEF KeptInv
    <3>2. Bounded(e)'
      BY <1>5, <1>8, <2>1, <2>2, <2>3, <3>1 DEF Bounded
    <3>3. collisions' = 0 => Agree(e)'
      BY <1>8, <2>1, <2>3, <3>1 DEF Agree
    <3> QED
      BY <3>2, <3>3
  <2> QED
    BY <1>1, <2>4 DEF KeptInv
<1> QED
  BY <1>2, <1>9, <1>10

LEMMA SaveKeeps ==
  ASSUME KeptInv, NEW p \in Procs, Save(p)
  PROVE  KeptInv'
<1> DEFINE chart == job[p].chart
           tree == Put(file.entries, chart, AsHistory(job[p].state))
<1>1. TypeOK /\ TypeOK'
  BY SaveTypes DEF KeptInv
<1>2. /\ UNCHANGED <<file, now, job, saved, collisions>>
      /\ buf' = [buf EXCEPT ![p] = tree]
  BY DEF Save
<1>3. chart \in Charts /\ job[p].state \in State /\ file.entries \in Entries
  BY <1>1 DEF TypeOK, Job
<1>4. /\ tree[chart].state.versions = job[p].state.versions
      /\ \A c \in Charts \ {chart} : tree[c] \in {None, file.entries[c]}
  BY <1>3, PutTypes, EntryTypes
<1> HIDE DEF tree
<1>5. buf'[p] = tree /\ \A q \in Procs \ {p} : buf'[q] = buf[q]
  BY <1>1, <1>2 DEF TypeOK
<1>6. ASSUME NEW c \in Charts
      PROVE  tree[c].state.versions \in InPlay(c) \cup {<<>>}
  <2>1. CASE c = chart
    BY <1>4, <2>1 DEF InPlay
  <2>2. CASE c # chart
    BY <1>4, <2>2, EntryTypes DEF InPlay
  <2> QED
    BY <2>1, <2>2
<1>7. ASSUME NEW c \in Charts
      PROVE  InPlay(c)' \subseteq InPlay(c) \cup {<<>>}
  <2>1. \A q \in Procs : buf'[q][c].state.versions \in InPlay(c) \cup {<<>>}
    <3> SUFFICES ASSUME NEW q \in Procs
                 PROVE  buf'[q][c].state.versions \in InPlay(c) \cup {<<>>}
      OBVIOUS
    <3>1. CASE q = p
      BY <1>5, <1>6, <3>1
    <3>2. CASE q # p
      BY <1>5, <3>2 DEF InPlay
    <3> QED
      BY <3>1, <3>2
  <2>2. UNCHANGED <<file, job, saved>>
    BY <1>2
  <2> QED
    BY <2>1, <2>2 DEF InPlay
<1> QED
  BY <1>1, <1>2, <1>7, PassedOn

LEMMA ViewEditKeeps ==
  ASSUME KeptInv, NEW new, DOMAIN new \subseteq Charts,
         \A c \in DOMAIN new : new[c] \in Drawing, ViewEdit(new)
  PROVE  KeptInv'
<1>1. TypeOK /\ TypeOK' /\ \A c \in Charts : buf'[desktop][c].state.versions = <<>>
  BY ViewEditTypes DEF KeptInv
<1>2. UNCHANGED <<file, now, job, saved, collisions>>
  BY DEF ViewEdit
<1>3. \A q \in Procs \ {desktop} : buf'[q] = buf[q]
  BY <1>1 DEF ViewEdit, TypeOK
<1>4. ASSUME NEW c \in Charts
      PROVE  InPlay(c)' \subseteq InPlay(c) \cup {<<>>}
  <2>1. \A q \in Procs : buf'[q][c].state.versions \in InPlay(c) \cup {<<>>}
    BY <1>1, <1>3 DEF InPlay
  <2> QED
    BY <1>2, <2>1 DEF InPlay
<1> QED
  BY <1>1, <1>2, <1>4, PassedOn

LEMMA WriteKeeps ==
  ASSUME KeptInv, NEW p \in Procs, Truncate(p) \/ Flush(p) \/ WriteFails(p)
  PROVE  KeptInv'
<1>1. /\ TypeOK'
      /\ file'.entries \in {file.entries, buf[p], Nothing}
      /\ saved' \in {file.entries, saved}
      /\ \A q \in Procs : /\ job'[q] \in {job[q], NoJob}
                          /\ buf'[q] \in {buf[q], Nothing}
  BY WriteTypes DEF KeptInv
<1>2. now' = now /\ collisions' = collisions
  BY DEF Truncate, Flush, WriteFails, Finish
<1>3. /\ NoJob.state.versions = <<>>
      /\ \A c \in Charts : Nothing[c].state.versions = <<>>
  BY EntryTypes DEF NoJob, NoState, Nothing
<1>4. ASSUME NEW c \in Charts
      PROVE  InPlay(c)' \subseteq InPlay(c) \cup {<<>>}
  <2>1. /\ file'.entries[c].state.versions \in InPlay(c) \cup {<<>>}
        /\ saved'[c].state.versions \in InPlay(c) \cup {<<>>}
    BY <1>1, <1>3 DEF InPlay
  <2>2. \A q \in Procs : buf'[q][c].state.versions \in InPlay(c) \cup {<<>>}
    BY <1>1, <1>3 DEF InPlay
  <2>3. ASSUME NEW q \in Procs, job'[q].chart = c
        PROVE  job'[q].state.versions \in InPlay(c) \cup {<<>>}
    BY <1>1, <1>3, <2>3 DEF InPlay
  <2> QED
    BY <2>1, <2>2, <2>3 DEF InPlay
<1> QED
  BY <1>1, <1>2, <1>4, PassedOn

LEMMA OpenKeeps ==
  ASSUME KeptInv, Open \/ CloseDesktop
  PROVE  KeptInv'
<1>1. TypeOK' /\ UNCHANGED <<file, now, pc, job, buf, saved, collisions>>
  BY OpenTypes DEF KeptInv
<1>2. \A c \in Charts : InPlay(c)' \subseteq InPlay(c) \cup {<<>>}
  BY <1>1 DEF InPlay
<1> QED
  BY <1>1, <1>2, PassedOn

LEMMA InitKept == Init => KeptInv
<1> SUFFICES ASSUME Init PROVE KeptInv
  OBVIOUS
<1>1. /\ file.entries = Nothing /\ saved = Nothing
      /\ \A p \in Procs : buf[p] = Nothing /\ job[p] = NoJob
  BY DEF Init, Unreadable
<1>2. /\ NoJob.state.versions = <<>>
      /\ \A c \in Charts : Nothing[c].state.versions = <<>>
  BY EntryTypes DEF NoJob, NoState, Nothing
<1>3. \A c \in Charts : \A h \in InPlay(c) : h = <<>>
  BY <1>1, <1>2 DEF InPlay
<1> QED
  BY <1>3, InitTypes, EmptyHistory DEF KeptInv, Bounded, Agree

(* The steps, as the proofs tell them apart. *)
LEMMA StepKinds ==
  ASSUME TypeOK, Next
  PROVE  \/ \E p \in Procs, c \in Charts, id \in Times, v \in Nat, d \in Drawing :
               ServiceEdit(p, c, id, v, d)
         \/ \E new : /\ DOMAIN new \subseteq Charts
                     /\ \A c \in DOMAIN new : new[c] \in Drawing
                     /\ ViewEdit(new)
         \/ Open \/ CloseDesktop
         \/ \E p \in Procs : Save(p) \/ Truncate(p) \/ Flush(p) \/ WriteFails(p)
<1>1. CASE \E c \in Charts : ServiceOps(c)
  BY <1>1, ServiceOpsAreEdits
<1>2. CASE \E c \in ViewCharts : Draw(c) \/ ClearMarkers(c)
  <2>1. PICK c \in Charts : Draw(c) \/ ClearMarkers(c)
    BY <1>2, ViewAssumption
  <2> QED
    BY <2>1, DrawTypes
<1> QED
  BY <1>1, <1>2 DEF Next, ServiceOps

LEMMA StutterTypes ==
  ASSUME UNCHANGED vars
  PROVE  UNCHANGED <<file, now, pc, job, buf, opened, notes, saved, collisions, ops, crashes>>
BY DEF vars

LEMMA NextKeeps == KeptInv /\ [Next]_vars => KeptInv'
<1> SUFFICES ASSUME KeptInv, [Next]_vars PROVE KeptInv'
  OBVIOUS
<1>1. CASE Next
  <2>1. TypeOK
    BY DEF KeptInv
  <2> QED
    BY <1>1, <2>1, StepKinds, EditKeeps, ViewEditKeeps, OpenKeeps, SaveKeeps, WriteKeeps
<1>2. CASE UNCHANGED vars
  <2>1. UNCHANGED <<file, now, pc, job, buf, opened, notes, saved, collisions, ops, crashes>>
    BY <1>2, StutterTypes
  <2>2. TypeOK'
    BY <2>1 DEF KeptInv, TypeOK
  <2>3. \A c \in Charts : InPlay(c)' \subseteq InPlay(c) \cup {<<>>}
    BY <2>1 DEF InPlay
  <2> QED
    BY <2>1, <2>2, <2>3, PassedOn
<1> QED
  BY <1>1, <1>2

LEMMA KeptHolds == Spec => []KeptInv
BY InitKept, NextKeeps, PTL DEF Spec

(* The file, the trees in memory and the view's notes are well-formed,     *)
(* whichever program wrote what the other reads.                           *)
THEOREM TypeCorrect == Spec => []TypeOK
<1>1. KeptInv => TypeOK
  BY DEF KeptInv
<1> QED
  BY <1>1, KeptHolds, PTL

(* No interleaving of service and view makes a history longer than its     *)
(* depth, nor, unless two edits fell into one millisecond, disorders it.   *)
THEOREM HistoriesStayOrdered == Spec => []HistoryWellKept
<1>1. ASSUME KeptInv PROVE HistoryWellKept
  <2> SUFFICES ASSUME NEW c \in Charts
               PROVE  LET versions == file.entries[c].state.versions
                      IN  /\ Len(versions) <= Depth
                          /\ collisions > 0 \/ Descending(versions)
    BY DEF HistoryWellKept
  <2>1. Bounded(c) /\ file.entries[c].state.versions \in InPlay(c) /\ collisions \in Nat
    BY <1>1 DEF KeptInv, InPlay, TypeOK
  <2>2. collisions = 0 \/ collisions > 0
    BY <2>1
  <2> QED
    BY <2>1, <2>2 DEF Bounded, Numbered
<1> QED
  BY <1>1, KeptHolds, PTL

------------------------------------------------------------------------------
(* What a version id stands for. *)

LEMMA NextSeen ==
  ASSUME TypeOK, [Next]_vars
  PROVE  /\ collisions' = 0 => collisions = 0
         /\ \/ LastSeen' = LastSeen
            \/ \E p \in Procs : LastSeen' = buf[p]
<1>1. ASSUME UNCHANGED <<file, saved>>
      PROVE  LastSeen' = LastSeen
  BY <1>1 DEF LastSeen
<1>2. ASSUME NEW p \in Procs, Truncate(p)
      PROVE  LastSeen' = LastSeen
  <2>1. saved' = LastSeen /\ file' = Unreadable
    BY <1>2 DEF Truncate
  <2> QED
    BY <2>1 DEF LastSeen, Unreadable
<1>3. ASSUME NEW p \in Procs, Flush(p)
      PROVE  LastSeen' \in {LastSeen, buf[p]}
  <2>1. saved' = LastSeen /\ (file' = Holding(buf[p]) \/ file' = Unreadable)
    BY <1>3 DEF Flush
  <2> QED
    BY <2>1 DEF LastSeen, Unreadable, Holding
<1>4. ASSUME NEW p \in Procs, Truncate(p) \/ Flush(p) \/ WriteFails(p)
      PROVE  collisions' = collisions
  BY <1>4 DEF Truncate, Flush, WriteFails, Finish
<1>5. ASSUME NEW p \in Procs, WriteFails(p)
      PROVE  UNCHANGED <<file, saved>>
  BY <1>5 DEF WriteFails
<1>6. ASSUME NEW p \in Procs, Save(p)
      PROVE  UNCHANGED <<file, saved, collisions>>
  BY <1>6 DEF Save
<1>7. ASSUME Open \/ CloseDesktop \/ UNCHANGED vars
      PROVE  UNCHANGED <<file, saved, collisions>>
  BY <1>7 DEF Open, CloseDesktop, vars
<1>8. ASSUME NEW new, ViewEdit(new)
      PROVE  UNCHANGED <<file, saved, collisions>>
  BY <1>8 DEF ViewEdit
<1>9. ASSUME NEW p \in Procs, NEW c \in Charts, NEW id \in Times, NEW v \in Nat,
             NEW d \in Drawing, ServiceEdit(p, c, id, v, d)
      PROVE  UNCHANGED <<file, saved>> /\ (collisions' = 0 => collisions = 0)
  BY <1>9 DEF ServiceEdit, Edit, TypeOK
<1> DEFINE Claim == /\ collisions' = 0 => collisions = 0
                    /\ LastSeen' = LastSeen \/ \E p \in Procs : LastSeen' = buf[p]
<1>10. ASSUME UNCHANGED <<file, saved>>, collisions' = 0 => collisions = 0
       PROVE  Claim
  BY <1>1, <1>10
<1>11. ASSUME NEW p \in Procs, Save(p) \/ Truncate(p) \/ Flush(p) \/ WriteFails(p)
       PROVE  Claim
  BY <1>2, <1>3, <1>4, <1>5, <1>6, <1>10, <1>11
<1>12. ASSUME NEW new, ViewEdit(new)
       PROVE  Claim
  BY <1>8, <1>10, <1>12
<1>13. ASSUME Open \/ CloseDesktop \/ UNCHANGED vars
       PROVE  Claim
  BY <1>7, <1>10, <1>13
<1>14. ASSUME NEW p \in Procs, NEW c \in Charts, NEW id \in Times, NEW v \in Nat,
              NEW d \in Drawing, ServiceEdit(p, c, id, v, d)
       PROVE  Claim
  BY <1>9, <1>10, <1>14
<1> HIDE DEF Claim
<1>15. Claim
  BY <1>11, <1>12, <1>13, <1>14, StepKinds
<1> QED
  BY <1>15 DEF Claim

(* Until two edits share a millisecond, a version id means the same        *)
(* drawing wherever and whenever it is listed: all histories that can      *)
(* reach the file agree, and a new version has an id none of them knows.   *)
THEOREM VersionsKeepTheirMeaning == Spec => VersionsAreImmutable
<1>1. ASSUME KeptInv, [Next]_vars, collisions' = 0, NEW c \in Charts
      PROVE  SameVersions(LastSeen[c].state.versions, LastSeen'[c].state.versions)
  <2>1. TypeOK /\ collisions = 0 /\ Agree(c)
    BY <1>1, NextSeen DEF KeptInv
  <2>2. LastSeen[c].state.versions \in InPlay(c)
    BY <2>1, LastSeenTypes DEF InPlay
  <2>3. LastSeen'[c].state.versions \in InPlay(c)
    <3>1. CASE LastSeen' = LastSeen
      BY <2>2, <3>1
    <3>2. CASE \E p \in Procs : LastSeen' = buf[p]
      BY <3>2 DEF InPlay
    <3> QED
      BY <1>1, <2>1, <3>1, <3>2, NextSeen
  <2> QED
    BY <2>1, <2>2, <2>3 DEF Agree
<1>2. KeptInv /\ [Next]_vars =>
        [collisions' = 0 => \A c \in Charts :
           SameVersions(LastSeen[c].state.versions, LastSeen'[c].state.versions)]_vars
  BY <1>1
<1> QED
  BY <1>2, KeptHolds, PTL DEF Spec, VersionsAreImmutable

------------------------------------------------------------------------------
(* What an edit is about to put in its chart's place.                      *)

Undoable(j) ==
  j.base.current # <<>> =>
    \E k \in DOMAIN j.state.versions : j.state.versions[k].drawing = j.base.current

BringsBack(j) ==
  j.version # 0 => \/ Full(j.base) /\ Oldest(j.base) = j.version
                   \/ j.state.current = DrawingOf(j.base.versions, j.version)

(* The tree of an edit holds its chart as the edit left it; trees of the   *)
(* view belong to no edit.                                                 *)
EditInv ==
  \A p \in Procs :
     /\ pc[p] = "idle" => job[p] = NoJob
     /\ pc[p] \in {"ready", "writing"} =>
          job[p] = NoJob \/ buf[p][job[p].chart] = AsHistory(job[p].state)
     /\ collisions = 0 => Undoable(job[p]) /\ BringsBack(job[p])

LEMMA NoJobIsFine == Undoable(NoJob) /\ BringsBack(NoJob)
BY DEF Undoable, BringsBack, NoJob, NoState

LEMMA EditServes ==
  ASSUME KeptInv, EditInv, NEW p \in Procs, NEW c \in Charts, NEW id \in Times,
         NEW v \in Nat, NEW d \in Drawing, ServiceEdit(p, c, id, v, d)
  PROVE  EditInv'
<1> DEFINE s == Before(c)
           state == [Pushed(s, id) EXCEPT !.current = d]
           new == [chart |-> c, base |-> s, state |-> state, version |-> v]
           old == file.entries[c].state.versions
<1>1. TypeOK
  BY DEF KeptInv
<1>2. /\ id \in Nat /\ (id = now \/ id = now + 1) /\ now \in Nat
      /\ s \in State /\ Pushed(s, id) \in State /\ file.entries \in Entries
  BY <1>1, TimesLater, BeforeType, PushedState DEF TypeOK
<1>3. /\ job' = [job EXCEPT ![p] = new] /\ pc' = [pc EXCEPT ![p] = "loaded"]
      /\ collisions' = IF id = now THEN collisions + 1 ELSE collisions
      /\ buf' = buf
      /\ v # 0 => v \in VersionIds(s) /\ d \in Restored(s, Pushed(s, id), v)
  BY DEF ServiceEdit, Edit
<1>4. /\ new.base = s /\ new.version = v
      /\ new.state.versions = Pushed(s, id).versions /\ new.state.current = d
  BY <1>2 DEF State
<1> HIDE DEF s, new, old
<1>5. /\ job'[p] = new /\ pc'[p] = "loaded"
      /\ \A q \in Procs \ {p} : job'[q] = job[q] /\ pc'[q] = pc[q]
  BY <1>1, <1>3 DEF TypeOK
<1>6. collisions' = 0 => collisions = 0 /\ id = now + 1
  BY <1>1, <1>2, <1>3 DEF TypeOK
<1>7. ASSUME collisions' = 0
      PROVE  Undoable(new) /\ BringsBack(new)
  <2>1. collisions = 0 /\ id = now + 1
    BY <1>6, <1>7
  <2>2. Numbered(old, now)
    BY <2>1 DEF KeptInv, Bounded, InPlay, old
  <2>3. s.versions \in {old, <<>>}
    BY <1>2, <2>2, ReadState DEF Before, Numbered, s, old
  <2>4. Numbered(s.versions, now)
    BY <2>2, <2>3, EmptyHistory
  <2>5. /\ s.current # <<>> => \E k \in DOMAIN Pushed(s, id).versions :
                               Pushed(s, id).versions[k].drawing = s.current
        /\ \A w \in VersionIds(s) :
             \/ Full(s) /\ Oldest(s) = w
             \/ DrawingOf(Pushed(s, id).versions, w) = DrawingOf(s.versions, w)
    BY <1>2, <2>1, <2>4, PushedNumbered
  <2>6. Undoable(new)
    BY <1>4, <2>5 DEF Undoable
  <2>7. BringsBack(new)
    <3> SUFFICES ASSUME v # 0, ~(Full(s) /\ Oldest(s) = v)
                 PROVE  d = DrawingOf(s.versions, v)
      BY <1>4 DEF BringsBack
    <3>1. v \in VersionIds(s) /\ d \in Restored(s, Pushed(s, id), v)
      BY <1>3
    <3>2. d = DrawingOf(Pushed(s, id).versions, v)
      BY <3>1 DEF Restored
    <3> QED
      BY <2>5, <3>1, <3>2
  <2> QED
    BY <2>6, <2>7
<1>8. ASSUME NEW q \in Procs
      PROVE  /\ pc'[q] = "idle" => job'[q] = NoJob
             /\ pc'[q] \in {"ready", "writing"} =>
                  job'[q] = NoJob \/ buf'[q][job'[q].chart] = AsHistory(job'[q].state)
             /\ collisions' = 0 => Undoable(job'[q]) /\ BringsBack(job'[q])
  <2>1. CASE q = p
    BY <1>5, <1>7, <2>1
  <2>2. CASE q # p
    BY <1>3, <1>5, <1>6, <2>2 DEF EditInv
  <2> QED
    BY <2>1, <2>2
<1> QED
  BY <1>8 DEF EditInv, Undoable, BringsBack

LEMMA SaveServes ==
  ASSUME TypeOK, EditInv, NEW p \in Procs, Save(p)
  PROVE  EditInv'
<1> DEFINE tree == Put(file.entries, job[p].chart, AsHistory(job[p].state))
<1>1. /\ buf' = [buf EXCEPT ![p] = tree] /\ pc' = [pc EXCEPT ![p] = "ready"]
      /\ UNCHANGED <<job, collisions>>
  BY DEF Save
<1>2. job[p].chart \in Charts /\ job[p].state \in State /\ file.entries \in Entries
  BY DEF TypeOK, Job
<1>3. tree[job[p].chart] = AsHistory(job[p].state)
  BY <1>2, PutTypes, EntryTypes
<1> HIDE DEF tree
<1>4. /\ buf'[p] = tree /\ pc'[p] = "ready"
      /\ \A q \in Procs \ {p} : buf'[q] = buf[q] /\ pc'[q] = pc[q]
  BY <1>1 DEF TypeOK
<1>5. ASSUME NEW q \in Procs
      PROVE  /\ pc'[q] = "idle" => job'[q] = NoJob
             /\ pc'[q] \in {"ready", "writing"} =>
                  job'[q] = NoJob \/ buf'[q][job'[q].chart] = AsHistory(job'[q].state)
             /\ collisions' = 0 => Undoable(job'[q]) /\ BringsBack(job'[q])
  <2>1. CASE q = p
    BY <1>1, <1>3, <1>4, <2>1 DEF EditInv
  <2>2. CASE q # p
    BY <1>1, <1>4, <2>2 DEF EditInv
  <2> QED
    BY <2>1, <2>2
<1> QED
  BY <1>5 DEF EditInv, Undoable, BringsBack

LEMMA ViewEditServes ==
  ASSUME TypeOK, EditInv, NEW new, ViewEdit(new)
  PROVE  EditInv'
<1>1. /\ pc[desktop] = "idle" /\ desktop \in Procs
      /\ UNCHANGED <<job, collisions>>
  BY DEF ViewEdit, Procs
<1>2. \A q \in Procs \ {desktop} : buf'[q] = buf[q] /\ pc'[q] = pc[q]
  BY DEF ViewEdit, TypeOK
<1>3. job[desktop] = NoJob
  BY <1>1 DEF EditInv
<1>4. ASSUME NEW q \in Procs
      PROVE  /\ pc'[q] = "idle" => job'[q] = NoJob
             /\ pc'[q] \in {"ready", "writing"} =>
                  job'[q] = NoJob \/ buf'[q][job'[q].chart] = AsHistory(job'[q].state)
             /\ collisions' = 0 => Undoable(job'[q]) /\ BringsBack(job'[q])
  <2>1. CASE q = desktop
    BY <1>1, <1>3, <2>1, NoJobIsFine
  <2>2. CASE q # desktop
    BY <1>1, <1>2, <2>2 DEF EditInv
  <2> QED
    BY <2>1, <2>2
<1> QED
  BY <1>4 DEF EditInv, Undoable, BringsBack

LEMMA WriteServes ==
  ASSUME TypeOK, EditInv, NEW p \in Procs, Truncate(p) \/ Flush(p) \/ WriteFails(p)
  PROVE  EditInv'
<1>1. /\ collisions' = collisions
      /\ \A q \in Procs \ {p} : job'[q] = job[q] /\ buf'[q] = buf[q] /\ pc'[q] = pc[q]
      /\ \/ job'[p] = NoJob
         \/ /\ job'[p] = job[p] /\ buf'[p] = buf[p]
            /\ pc[p] = "ready" /\ pc'[p] = "writing"
  <2>1. CASE Truncate(p)
    BY <2>1 DEF Truncate, TypeOK
  <2>2. ASSUME Finish(p)
        PROVE  /\ collisions' = collisions /\ job'[p] = NoJob
               /\ \A q \in Procs \ {p} :
                    job'[q] = job[q] /\ buf'[q] = buf[q] /\ pc'[q] = pc[q]
    BY <2>2 DEF Finish, TypeOK
  <2> QED
    BY <2>1, <2>2 DEF Flush, WriteFails
<1>2. ASSUME NEW q \in Procs
      PROVE  /\ pc'[q] = "idle" => job'[q] = NoJob
             /\ pc'[q] \in {"ready", "writing"} =>
                  job'[q] = NoJob \/ buf'[q][job'[q].chart] = AsHistory(job'[q].state)
             /\ collisions' = 0 => Undoable(job'[q]) /\ BringsBack(job'[q])
  <2>1. CASE q = p
    BY <1>1, <2>1, NoJobIsFine DEF EditInv
  <2>2. CASE q # p
    BY <1>1, <2>2 DEF EditInv
  <2> QED
    BY <2>1, <2>2
<1> QED
  BY <1>2 DEF EditInv, Undoable, BringsBack

LEMMA EditHolds == Spec => [](KeptInv /\ EditInv)
<1>1. Init => EditInv
  <2>1. ASSUME Init, NEW p \in Procs
        PROVE  pc[p] = "idle" /\ job[p] = NoJob
    BY <2>1 DEF Init
  <2> QED
    BY <2>1, NoJobIsFine DEF EditInv
<1>2. ASSUME KeptInv, EditInv, [Next]_vars
      PROVE  EditInv'
  <2>1. TypeOK
    BY <1>2 DEF KeptInv
  <2>2. CASE UNCHANGED <<pc, job, buf, collisions>>
    BY <1>2, <2>2 DEF EditInv, Undoable, BringsBack
  <2>3. CASE Open \/ CloseDesktop \/ UNCHANGED vars
    BY <2>2, <2>3 DEF Open, CloseDesktop, vars
  <2>4. CASE Next
    BY <1>2, <2>1, <2>3, <2>4, StepKinds, EditServes, SaveServes, ViewEditServes, WriteServes
  <2> QED
    BY <1>2, <2>3, <2>4
<1> QED
  BY <1>1, <1>2, KeptHolds, PTL DEF Spec

(* What lands is what the edit had in hand.                                *)
LEMMA LandedIsState ==
  ASSUME KeptInv, EditInv, [Next]_vars, NEW p \in Procs, Lands(p), collisions = 0
  PROVE  \/ job[p] = NoJob
         \/ Landed(p) = job[p].state
<1> SUFFICES ASSUME job[p] # NoJob
             PROVE  Landed(p) = job[p].state
  OBVIOUS
<1>1. TypeOK
  BY DEF KeptInv
<1>2. Flush(p)
  <2>1. pc[p] = "writing" /\ pc'[p] = "idle" /\ crashes' = crashes /\ crashes \in Nat
    BY <1>1 DEF Lands, TypeOK
  <2>2. ~UNCHANGED vars
    BY <2>1 DEF vars
  <2>3. ASSUME NEW q \in Procs, Save(q) \/ Truncate(q)
        PROVE  FALSE
    BY <1>1, <2>1, <2>3 DEF Save, Truncate, TypeOK
  <2>4. ASSUME NEW q \in Procs, Flush(q)
        PROVE  q = p
    BY <1>1, <2>1, <2>4 DEF Flush, Finish, TypeOK
  <2>5. ASSUME NEW q \in Procs, WriteFails(q)
        PROVE  FALSE
    <3>1. crashes' = crashes + 1
      BY <2>5 DEF WriteFails
    <3> QED
      BY <2>1, <3>1
  <2>6. ASSUME Open \/ CloseDesktop
        PROVE  FALSE
    BY <2>1, <2>6 DEF Open, CloseDesktop
  <2>7. ASSUME NEW new, ViewEdit(new)
        PROVE  FALSE
    <3>1. pc' = [pc EXCEPT ![desktop] = "ready"]
      BY <2>7 DEF ViewEdit
    <3> QED
      BY <1>1, <2>1, <3>1 DEF TypeOK
  <2>8. ASSUME NEW q \in Procs, NEW c \in Charts, NEW id \in Times, NEW v \in Nat,
               NEW d \in Drawing, ServiceEdit(q, c, id, v, d)
        PROVE  FALSE
    <3>1. pc' = [pc EXCEPT ![q] = "loaded"]
      BY <2>8 DEF ServiceEdit, Edit
    <3> QED
      BY <1>1, <2>1, <3>1 DEF TypeOK
  <2> QED
    BY <1>1, <2>2, <2>3, <2>4, <2>5, <2>6, <2>7, <2>8, StepKinds
<1>3. file' = Holding(buf[p])
  BY <1>2 DEF Flush, Lands, Unreadable
<1>4. buf[p][job[p].chart] = AsHistory(job[p].state)
  BY <1>2 DEF EditInv, Flush
<1>5. /\ job[p].chart \in Charts /\ job[p].state \in State /\ buf[p] \in Entries
  BY <1>1 DEF TypeOK, Job
<1>6. Descending(buf[p][job[p].chart].state.versions)
  BY <1>5 DEF KeptInv, Bounded, InPlay, Numbered
<1>7. StateIn(buf[p], job[p].chart) = job[p].state
  BY <1>4, <1>5, <1>6, ReadState
<1> QED
  BY <1>3, <1>7 DEF Landed, Holding

(* The drawing a service edit replaces is listed among the versions of the *)
(* chart once the edit is in the file.                                     *)
THEOREM EditsUndo == Spec => EditsCanBeUndone
<1>1. KeptInv /\ EditInv /\ [Next]_vars =>
        [\A p \in Procs : Lands(p) /\ collisions = 0 /\ job[p].base.current # <<>> =>
           \E k \in DOMAIN Landed(p).versions :
              Landed(p).versions[k].drawing = job[p].base.current]_vars
  <2> SUFFICES ASSUME KeptInv, EditInv, [Next]_vars, NEW p \in Procs, Lands(p),
                      collisions = 0, job[p].base.current # <<>>
               PROVE  \E k \in DOMAIN Landed(p).versions :
                        Landed(p).versions[k].drawing = job[p].base.current
    OBVIOUS
  <2>1. job[p] # NoJob
    BY DEF NoJob, NoState
  <2>2. Landed(p) = job[p].state
    BY <2>1, LandedIsState
  <2>3. Undoable(job[p])
    BY DEF EditInv
  <2> QED
    BY <2>2, <2>3 DEF Undoable
<1> QED
  BY <1>1, EditHolds, PTL DEF Spec, EditsCanBeUndone

(* A rollback brings back the drawing of the version asked for, unless its *)
(* own push drops that version.                                            *)
THEOREM RollbacksRestore == Spec => RollbackRestores
<1>1. KeptInv /\ EditInv /\ [Next]_vars =>
        [\A p \in Procs :
           (job[p].version # 0 => ~(Full(job[p].base) /\ Oldest(job[p].base) = job[p].version))
             => Restores(p)]_vars
  <2> SUFFICES ASSUME KeptInv, EditInv, [Next]_vars, NEW p \in Procs,
                      job[p].version # 0 =>
                        ~(Full(job[p].base) /\ Oldest(job[p].base) = job[p].version)
               PROVE  Restores(p)
    OBVIOUS
  <2> SUFFICES ASSUME Lands(p), collisions = 0, job[p].version # 0
               PROVE  Landed(p).current = DrawingOf(job[p].base.versions, job[p].version)
    BY DEF Restores
  <2>1. job[p] # NoJob
    BY DEF NoJob
  <2>2. Landed(p) = job[p].state
    BY <2>1, LandedIsState
  <2>3. BringsBack(job[p])
    BY DEF EditInv
  <2> QED
    BY <2>2, <2>3 DEF BringsBack
<1> QED
  BY <1>1, EditHolds, PTL DEF Spec, RollbackRestores
==============================================================================
