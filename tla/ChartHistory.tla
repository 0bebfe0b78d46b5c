---------------------------- MODULE ChartHistory ----------------------------
(***************************************************************************)
(* The annotations of one chart as the application service keeps them: a   *)
(* current drawing and, newest first, the versions it replaced.  In memory *)
(* the drawings of the versions sit in a map keyed by version id, so       *)
(* versions that share an id share a drawing.                              *)
(***************************************************************************)
EXTENDS Integers, Sequences, Sieve

CONSTANTS
  Ids,      \* marker ids
  Prices,   \* marker prices
  Risk,     \* ids of the risk box: entry, stop and target
  Depth     \* versions kept; 12 in the code

ASSUME DepthAssumption == Depth \in Nat \ {0}
ASSUME RiskAssumption == Risk \subseteq Ids

Marker == [id : Ids, price : Prices]

(* What a JSON node that is no marker reads as: empty id and label. *)
Blank == [id |-> "", price |-> 0]
Drawing == Seq(Marker \cup {Blank})
Blanks(n) == [k \in 1..n |-> Blank]

Version == [id : Nat, count : Nat, drawing : Drawing]
State == [current : Drawing, versions : Seq(Version)]
NoState == [current |-> <<>>, versions |-> <<>>]

VersionIds(s) == {s.versions[k].id : k \in DOMAIN s.versions}

LastWith(versions, id) ==
  CHOOSE k \in DOMAIN versions :
     /\ versions[k].id = id
     /\ \A j \in DOMAIN versions : versions[j].id = id => j <= k

(* The map takes the drawing of the last node with the id. *)
DrawingOf(versions, id) == versions[LastWith(versions, id)].drawing

Parsed(versions) ==
  [k \in DOMAIN versions |->
     [versions[k] EXCEPT !.drawing = DrawingOf(versions, versions[k].id)]]

WithDrawing(versions, id, drawing) ==
  [k \in DOMAIN versions |->
     IF versions[k].id = id THEN [versions[k] EXCEPT !.drawing = drawing]
     ELSE versions[k]]

(* Pushing onto a full history drops the oldest version and erases the     *)
(* drawing stored under its id.                                            *)
Full(s) == s.current # <<>> /\ Len(s.versions) >= Depth
Oldest(s) == s.versions[Len(s.versions)].id

(* Faulty: the id of the last version is taken after it was popped. *)
WithoutOldestPoppedFirst(versions) ==
  LET n == Len(versions)
  IN  WithDrawing(SubSeq(versions, 1, n - 1), versions[n - 1].id, <<>>)

WithoutOldest(versions) ==
  LET n == Len(versions)
  IN  WithDrawing(SubSeq(versions, 1, n - 1), versions[n].id, <<>>)

(* Faulty: versions are listed in the order they were made. *)
PushedAtTheEnd(s, id) ==
  IF s.current = <<>> THEN s
  ELSE LET new == [id |-> id, count |-> Len(s.current), drawing |-> s.current]
           all == Append(s.versions, new)
       IN  [s EXCEPT !.versions = IF Full(s) THEN SubSeq(all, 2, Len(all)) ELSE all]

Pushed(s, id) ==
  IF s.current = <<>> THEN s
  ELSE LET new == [id |-> id, count |-> Len(s.current), drawing |-> s.current]
           all == WithDrawing(<<new>> \o s.versions, id, s.current)
       IN  [s EXCEPT !.versions = IF Full(s) THEN WithoutOldest(all) ELSE all]

Has(drawing, id) == \E k \in DOMAIN drawing : drawing[k].id = id
IsFirst(drawing, k) == \A j \in 1..(k - 1) : drawing[j].id # drawing[k].id

(* Faulty: the markers to delete only lose their ids. *)
WithoutInPlace(drawing, ids) ==
  [k \in DOMAIN drawing |-> IF drawing[k].id \in ids THEN [drawing[k] EXCEPT !.id = ""]
                            ELSE drawing[k]]

Without(drawing, ids) ==
  Sifted(drawing, {k \in DOMAIN drawing : drawing[k].id \notin ids})

Repriced(drawing, m) ==
  [k \in DOMAIN drawing |->
     IF drawing[k].id = m.id /\ IsFirst(drawing, k) THEN m ELSE drawing[k]]

Upserted(drawing, m) ==
  IF Has(drawing, m.id) THEN Repriced(drawing, m) ELSE Append(drawing, m)
==============================================================================
