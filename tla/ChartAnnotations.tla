-------------------------- MODULE ChartAnnotations --------------------------
(***************************************************************************)
(* Chart annotations: one JSON file with an entry per account and symbol.  *)
(* The application service (in the API server, and in the desktop for a    *)
(* rollback) stores histories in it; the chart view of the desktop stores  *)
(* plain arrays in the same file, from a copy it read once.  An entry of   *)
(* one format is read by the other program after its own fashion.          *)
(***************************************************************************)
EXTENDS ChartHistory, FiniteSets

CONSTANTS
  server, desktop,  \* the two processes
  Charts,           \* the keys, "account|symbol"
  ViewCharts,       \* those the user of the desktop edits
  Nested,           \* pairs <<inner, outer>>: the key with a dot, "A|BRK.B",
                    \* is a path and lies inside the entry of "A|BRK"
  Drawings,         \* what clients replace a chart's annotations by
  MaxOps,           \* bound: edits ever begun
  MaxFaults         \* bound: crashes, failed writes and edits that share a
                    \* millisecond with another one

ASSUME ChartsAssumption == Charts # {} /\ IsFiniteSet(Charts)
ASSUME DrawingsAssumption == \A drawing \in Drawings : drawing \in Seq(Marker)
ASSUME ViewAssumption == ViewCharts \subseteq Charts
ASSUME NestedAssumption ==
  /\ Nested \subseteq Charts \X Charts
  /\ \A a, b \in Nested : a[2] # b[1]
ASSUME ChartBounds == MaxOps \in Nat /\ MaxFaults \in Nat

VARIABLES
  file,      \* the file: how it parses, and its entries
  now,       \* milliseconds of system_clock, the source of version ids
  pc,        \* what each process is doing
  job,       \* the service's edit: chart, states before and after, rollback id
  buf,       \* the tree each process is about to write
  opened,    \* the chart view has read the file
  notes,     \* manual_annotations_ of the chart view
  saved,     \* history: the entries of the last well-formed file
  collisions,\* history: edits numbered in the millisecond of another one
  ops,       \* number of edits so far
  crashes    \* number of crashes and failed writes so far

vars == <<file, now, pc, job, buf, opened, notes, saved, collisions, ops, crashes>>
view == <<opened, notes>>

Procs == {server, desktop}

(* "array" is the form the chart view writes, "history" the service's. *)
Entry == [kind : {"none", "array", "history"}, state : State]
None == [kind |-> "none", state |-> NoState]
AsHistory(s) == [kind |-> "history", state |-> s]
AsArray(drawing) == [kind |-> "array", state |-> [NoState EXCEPT !.current = drawing]]
Entries == [Charts -> Entry]
Nothing == [c \in Charts |-> None]

Holding(entries) == [ok |-> TRUE, entries |-> entries]
Unreadable == [ok |-> FALSE, entries |-> Nothing]    \* missing, cut short or garbled

Job == [chart : Charts, base : State, state : State, version : Nat]
SomeChart == CHOOSE c \in Charts : TRUE
NoJob == [chart |-> SomeChart, base |-> NoState, state |-> NoState, version |-> 0]

Init ==
  /\ file = Unreadable
  /\ now = 1
  /\ pc = [p \in Procs |-> "idle"]
  /\ job = [p \in Procs |-> NoJob]
  /\ buf = [p \in Procs |-> Nothing]
  /\ opened = FALSE /\ notes = <<>>
  /\ saved = Nothing
  /\ collisions = 0
  /\ ops = 0 /\ crashes = 0

------------------------------------------------------------------------------
(* Reading an entry.                                                       *)

Inner(entries, c) == {d \in Charts : <<d, c>> \in Nested /\ entries[d].kind # "none"}

(* LoadPersistedChartAnnotationState: an array counts as the old format    *)
(* only when its first child has an id; inner keys then read as markers.   *)
StateIn(entries, c) ==
  LET e == entries[c]
  IN  CASE e.kind = "history" -> [e.state EXCEPT !.versions = Parsed(e.state.versions)]
        [] e.kind = "array" /\ e.state.current # <<>> ->
             [NoState EXCEPT !.current = e.state.current
                                           \o Blanks(Cardinality(Inner(entries, c)))]
        [] OTHER -> NoState

(* LoadAnnotationState of the view: every child of an entry is a marker,   *)
(* so a history reads as two blank ones, "current" and "versions".         *)
NotesIn(entries) ==
  LET IsKey(c) == \A d \in Charts : <<c, d>> \notin Nested
      Shown(c) == IF entries[c].kind = "array" THEN entries[c].state.current
                  ELSE IF entries[c].kind = "history" THEN Blanks(2) ELSE <<>>
  IN  [c \in {d \in Charts : IsKey(d) /\ (entries[d].kind # "none"
                                            \/ Inner(entries, d) # {})} |->
         Shown(c) \o Blanks(Cardinality(Inner(entries, c)))]

(* put_child replaces the subtree, with the entries nested inside it. *)
Put(entries, c, e) ==
  [d \in Charts |-> IF d = c THEN e
                    ELSE IF <<d, c>> \in Nested THEN None ELSE entries[d]]

------------------------------------------------------------------------------
(* The application service.                                                *)

Before(c) == StateIn(file.entries, c)

(* The version is numbered in the present or a later millisecond. *)
Edit(p, c, id, version, state) ==
  /\ pc[p] = "idle" /\ ops < MaxOps
  /\ ops' = ops + 1
  /\ now' = id
  /\ collisions' = IF id = now THEN collisions + 1 ELSE collisions
  /\ job' = [job EXCEPT ![p] = [chart |-> c, base |-> Before(c), state |-> state,
                                version |-> version]]
  /\ pc' = [pc EXCEPT ![p] = "loaded"]
  /\ UNCHANGED <<file, buf, view, saved, crashes>>

Times == {now + 1} \cup {t \in {now} : crashes + collisions < MaxFaults}

(* Annotations of other kinds than the four editable ones are dropped;     *)
(* Drawings holds what is left.                                            *)
ReplaceChartAnnotations(c) ==
  \E drawing \in Drawings, id \in Times :
    Edit(server, c, id, 0, [Pushed(Before(c), id) EXCEPT !.current = drawing])

(* Faulty: the edited drawing is pushed instead of the one it replaces. *)
UpsertPushesNew(c) ==
  \E m \in Marker, id \in Times :
    Edit(server, c, id, 0, Pushed([Before(c) EXCEPT !.current = Upserted(@, m)], id))

UpsertChartAnnotation(c) ==
  \E m \in Marker, id \in Times :
    Edit(server, c, id, 0,
         [Pushed(Before(c), id) EXCEPT !.current = Upserted(@, m)])

DeleteChartAnnotation(c) ==
  \E marker \in Ids, id \in Times :
    Edit(server, c, id, 0,
         [Pushed(Before(c), id) EXCEPT !.current = Without(@, {marker})])

(* Faulty: what is restored is found by its place after the push. *)
RestoredByPlace(old, new, v) ==
  {new.versions[k].drawing : k \in {i \in DOMAIN old.versions : old.versions[i].id = v}}

(* The iterator into the map is used after the push, which may have erased *)
(* its node: then anything is read, here the right, no or a blank marker.  *)
Restored(old, new, v) ==
  IF Full(old) /\ Oldest(old) = v
  THEN {DrawingOf(old.versions, v), <<>>, Blanks(1)}
  ELSE {DrawingOf(new.versions, v)}

(* An unknown version throws and changes nothing. *)
RollbackChartAnnotations(p, c) ==
  \E v \in VersionIds(Before(c)), id \in Times :
    LET new == Pushed(Before(c), id)
    IN  \E d \in Restored(Before(c), new, v) :
          Edit(p, c, id, v, [new EXCEPT !.current = d])

(* Save reads the file again for the other charts; one that does not parse *)
(* counts as empty.                                                        *)
Save(p) ==
  /\ pc[p] = "loaded"
  /\ buf' = [buf EXCEPT ![p] = Put(file.entries, job[p].chart, AsHistory(job[p].state))]
  /\ pc' = [pc EXCEPT ![p] = "ready"]
  /\ UNCHANGED <<file, now, job, view, saved, collisions, ops, crashes>>

------------------------------------------------------------------------------
(* The chart view of the desktop.                                          *)

Open ==
  /\ ~opened
  /\ opened' = TRUE
  /\ notes' = NotesIn(file.entries)
  /\ UNCHANGED <<file, now, pc, job, buf, saved, collisions, ops, crashes>>

NotesOn(c) == IF c \in DOMAIN notes THEN notes[c] ELSE <<>>

(* What the view's buttons and a dragged line make of a chart's notes: a   *)
(* new marker, a new price, a risk box set or cleared.                     *)
Redrawn(s) ==
  {Append(s, m) : m \in Marker}
    \cup {Repriced(s, m) : m \in {n \in Marker : Has(s, n.id)}}
    \cup {Without(s, Risk)}
    \cup {Append(Without(s, Risk), m) : m \in {n \in Marker : n.id \in Risk}}

(* PersistAnnotationState writes the view's own copy of all charts. *)
ViewEdit(newNotes) ==
  /\ opened /\ pc[desktop] = "idle" /\ ops < MaxOps
  /\ ops' = ops + 1
  /\ notes' = newNotes
  /\ buf' = [buf EXCEPT ![desktop] =
       [c \in Charts |-> IF c \in DOMAIN newNotes THEN AsArray(newNotes[c]) ELSE None]]
  /\ pc' = [pc EXCEPT ![desktop] = "ready"]
  /\ UNCHANGED <<file, now, job, opened, saved, collisions, crashes>>

Draw(c) == \E s \in Redrawn(NotesOn(c)) :
             ViewEdit([d \in DOMAIN notes \cup {c} |-> IF d = c THEN s ELSE notes[d]])

ClearMarkers(c) == ViewEdit([d \in DOMAIN notes \ {c} |-> notes[d]])

CloseDesktop ==
  /\ opened /\ pc[desktop] = "idle"
  /\ opened' = FALSE /\ notes' = <<>>
  /\ UNCHANGED <<file, now, pc, job, buf, saved, collisions, ops, crashes>>

------------------------------------------------------------------------------
(* Both write alike.                                                       *)

LastSeen == IF file.ok THEN file.entries ELSE saved

Truncate(p) ==
  /\ pc[p] = "ready"
  /\ saved' = LastSeen
  /\ file' = Unreadable
  /\ pc' = [pc EXCEPT ![p] = "writing"]
  /\ UNCHANGED <<now, job, buf, view, collisions, ops, crashes>>

Finish(p) ==
  /\ pc' = [pc EXCEPT ![p] = "idle"]
  /\ job' = [job EXCEPT ![p] = NoJob]
  /\ buf' = [buf EXCEPT ![p] = Nothing]
  /\ UNCHANGED <<now, view, collisions, ops>>

(* The text is written from offset 0: over a file another process has just *)
(* written, a longer old text leaves its tail behind.                      *)
Flush(p) ==
  /\ pc[p] = "writing"
  /\ file' \in {Holding(buf[p])} \cup IF file.ok THEN {Unreadable} ELSE {}
  /\ saved' = LastSeen
  /\ Finish(p)
  /\ UNCHANGED crashes

(* The file cannot be written, or the process dies, wherever it is. *)
WriteFails(p) ==
  /\ pc[p] # "idle" /\ crashes + collisions < MaxFaults
  /\ crashes' = crashes + 1
  /\ Finish(p)
  /\ UNCHANGED <<file, saved>>

Next ==
  \/ \E c \in Charts :
       \/ ReplaceChartAnnotations(c) \/ UpsertChartAnnotation(c)
       \/ DeleteChartAnnotation(c)
       \/ \E p \in Procs : RollbackChartAnnotations(p, c)
  \/ \E c \in ViewCharts : Draw(c) \/ ClearMarkers(c)
  \/ Open \/ CloseDesktop
  \/ \E p \in Procs : Save(p) \/ Truncate(p) \/ Flush(p) \/ WriteFails(p)

Spec == Init /\ [][Next]_vars

------------------------------------------------------------------------------
(* PROPERTIES *)

TypeOK ==
  /\ file \in [ok : BOOLEAN, entries : Entries]
  /\ now \in Nat \ {0}
  /\ pc \in [Procs -> {"idle", "loaded", "ready", "writing"}]
  /\ job \in [Procs -> Job]
  /\ buf \in [Procs -> Entries]
  /\ opened \in BOOLEAN
  /\ DOMAIN notes \subseteq Charts /\ \A c \in DOMAIN notes : notes[c] \in Drawing
  /\ saved \in Entries
  /\ collisions \in Nat
  /\ ops \in Nat /\ crashes \in Nat

Descending(versions) ==
  \A j, k \in DOMAIN versions : j < k => versions[j].id > versions[k].id

(* Whoever writes over whom, a chart's history on disk never exceeds its   *)
(* depth and, unless two versions fell into one millisecond, lists every   *)
(* version once, the newest first.                                         *)
HistoryWellKept ==
  \A c \in Charts : LET versions == file.entries[c].state.versions
                    IN  /\ Len(versions) <= Depth
                        /\ collisions > 0 \/ Descending(versions)

(* What a version id stands for never changes as long as it is listed: the *)
(* same drawing, with the number of markers that is shown beside it, across*)
(* edits, rollbacks, stale write-backs, lost files and the chart view.     *)
SameVersions(old, new) ==
  \A j \in DOMAIN old, k \in DOMAIN new : old[j].id = new[k].id => old[j] = new[k]

VersionsAreImmutable ==
  [][collisions' = 0 => \A c \in Charts :
       SameVersions(LastSeen[c].state.versions, LastSeen'[c].state.versions)]_vars

(* The service edit of p reaches the file and had read what is still there.*)
Lands(p) ==
  /\ pc[p] = "writing" /\ pc'[p] = "idle" /\ file'.ok /\ crashes' = crashes
  /\ job[p].base = StateIn(saved, job[p].chart)

Landed(p) == StateIn(file'.entries, job[p].chart)

(* Every service edit can be undone: the drawing it replaces, unless it    *)
(* was empty, is listed as a version that holds exactly this drawing.      *)
EditsCanBeUndone ==
  [][\A p \in Procs : Lands(p) /\ collisions = 0 /\ job[p].base.current # <<>> =>
       \E k \in DOMAIN Landed(p).versions :
          Landed(p).versions[k].drawing = job[p].base.current]_vars

Restores(p) ==
  LET v == job[p].version
  IN  Lands(p) /\ collisions = 0 /\ v # 0 =>
        Landed(p).current = DrawingOf(job[p].base.versions, v)

(* A rollback brings back the drawing of the version asked for, unless it  *)
(* is the one that the push of the present drawing drops.                  *)
RollbackRestores ==
  [][\A p \in Procs :
       (job[p].version # 0 => ~(Full(job[p].base) /\ Oldest(job[p].base) = job[p].version))
         => Restores(p)]_vars

(* A rollback brings back the drawing of any version that is listed.       *)
RollbackRestoresAll == [][\A p \in Procs : Restores(p)]_vars
==============================================================================
