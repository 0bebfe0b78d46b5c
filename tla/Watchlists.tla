----------------------------- MODULE Watchlists -----------------------------
(***************************************************************************)
(* The local watchlist provider.  All lists live in one JSON file, which   *)
(* each operation of each process reads, edits in memory and writes back   *)
(* whole, without a lock.  A file that cannot be read stands for a set of  *)
(* demonstration lists, and so does one that holds no list.                *)
(***************************************************************************)
EXTENDS WatchlistRows

CONSTANTS
  Procs,       \* the API server, the desktop application
  Names,       \* names clients give to lists
  SymbolSet,   \* ticker symbols
  Slug,        \* MakeSlug: the id made from a name; names may share one
  Demo,        \* the lists of BuildFallbackData
  MaxLists,    \* bound: lists in the file
  MaxOps,      \* bound: operations ever started
  MaxCrashes   \* bound: crashes and failed writes

Ids == {Slug[n] : n \in Names} \cup {Demo[k].id : k \in DOMAIN Demo}

Lists == Seq([id : Ids, name : Names, archived : BOOLEAN,
              rows : Seq([symbol : SymbolSet, pinned : BOOLEAN])])

(* No two of the lists in the file have the same id. *)
IdsOnce(lists) == \A i, j \in DOMAIN lists : lists[i].id = lists[j].id => i = j

ASSUME DemoAssumption ==
  /\ Demo # <<>> /\ Demo \in Lists
  /\ IdsOnce(Demo)
  /\ \A k \in DOMAIN Demo : EachOnce(Demo[k].rows) /\ PinsLead(Demo[k].rows)
ASSUME WatchlistBounds == MaxLists \in Nat /\ MaxOps \in Nat /\ MaxCrashes \in Nat

VARIABLES
  file,      \* the file: how it reads and the lists in it
  pc,        \* what each process is doing
  op,        \* the operation each process is carrying out
  buf,       \* the edited lists each process is about to write
  shown,     \* history: the lists readers saw before the writes under way
  stale,     \* history: processes that read what is not, or no longer, there
  moved,     \* history: some row was moved by hand
  clashed,   \* history: a list was created under the id of another one
  ops,       \* number of operations so far
  crashes    \* number of crashes and failed writes so far

vars == <<file, pc, op, buf, shown, stale, moved, clashed, ops, crashes>>
history == <<moved, clashed>>

OpNames == {"none", "create", "rename", "add", "remove", "pin", "move",
            "archive", "delete", "transfer"}

Unreadable == [state |-> "bad", lists |-> <<>>]
Holding(lists) == [state |-> "ok", lists |-> lists]

(* A file that is missing, or that does not parse, or holds no list. *)
LoadData == IF file.state = "ok" /\ file.lists # <<>> THEN file.lists ELSE Demo

Init ==
  /\ file \in {Unreadable, Holding(Demo)}
  /\ pc = [p \in Procs |-> "idle"]
  /\ op = [p \in Procs |-> "none"]
  /\ buf = [p \in Procs |-> <<>>]
  /\ shown = <<>>
  /\ stale = {}
  /\ moved = FALSE /\ clashed = FALSE
  /\ ops = 0 /\ crashes = 0

(* FindScreen: an id means the first list that has it. *)
FirstWithItsId(lists) ==
  {k \in DOMAIN lists : \A j \in 1..(k - 1) : lists[j].id # lists[k].id}

------------------------------------------------------------------------------
(* The operations.  An unknown id or symbol throws and changes nothing.    *)

Writing == {p \in Procs : pc[p] = "writing"}
Busy == {p \in Procs : pc[p] # "idle"}

Edit(p, name, lists) ==
  /\ pc[p] = "idle" /\ ops < MaxOps
  /\ pc' = [pc EXCEPT ![p] = "loaded"]
  /\ op' = [op EXCEPT ![p] = name]
  /\ buf' = [buf EXCEPT ![p] = lists]
  /\ ops' = ops + 1
  /\ stale' = IF Writing # {} THEN stale \cup {p} ELSE stale
  /\ UNCHANGED <<file, shown, crashes>>

(* Faulty: the name is taken for the id. *)
CreateUnslugged(p) ==
  \E name \in Names :
    /\ Len(LoadData) < MaxLists
    /\ Edit(p, "create", Append(LoadData, [id |-> name, name |-> name,
                                           archived |-> FALSE, rows |-> <<>>]))
    /\ UNCHANGED history

CreateWatchlist(p) ==
  \E name \in Names :
    /\ Len(LoadData) < MaxLists
    /\ Edit(p, "create", Append(LoadData, [id |-> Slug[name], name |-> name,
                                           archived |-> FALSE, rows |-> <<>>]))
    /\ clashed' = (clashed \/ \E k \in DOMAIN LoadData : LoadData[k].id = Slug[name])
    /\ UNCHANGED moved

(* Faulty: the id follows the name. *)
RenameWithId(p) ==
  \E k \in FirstWithItsId(LoadData), name \in Names :
    /\ Edit(p, "rename", [LoadData EXCEPT ![k].name = name, ![k].id = Slug[name]])
    /\ UNCHANGED history

RenameWatchlist(p) ==
  \E k \in FirstWithItsId(LoadData), name \in Names :
    /\ Edit(p, "rename", [LoadData EXCEPT ![k].name = name])
    /\ UNCHANGED history

AddWatchlistSymbol(p) ==
  \E k \in FirstWithItsId(LoadData), symbol \in SymbolSet :
    /\ Edit(p, "add", [LoadData EXCEPT ![k].rows = Added(@, symbol)])
    /\ UNCHANGED history

RemoveWatchlistSymbol(p) ==
  \E k \in FirstWithItsId(LoadData), symbol \in SymbolSet :
    /\ Edit(p, "remove", [LoadData EXCEPT ![k].rows = Removed(@, symbol)])
    /\ UNCHANGED history

PinWatchlistSymbol(p) ==
  \E k \in FirstWithItsId(LoadData) :
    \E symbol \in Symbols(LoadData[k].rows), pinned \in BOOLEAN :
      /\ Edit(p, "pin", [LoadData EXCEPT ![k].rows = Pinned(@, symbol, pinned)])
      /\ UNCHANGED history

MoveWatchlistSymbol(p) ==
  \E k \in FirstWithItsId(LoadData) :
    \E symbol, before \in Symbols(LoadData[k].rows) :
      /\ Edit(p, "move", [LoadData EXCEPT ![k].rows = Moved(@, symbol, before)])
      /\ moved' = TRUE
      /\ UNCHANGED clashed

ArchiveWatchlist(p) ==
  \E k \in FirstWithItsId(LoadData), archived \in BOOLEAN :
    /\ Edit(p, "archive", [LoadData EXCEPT ![k].archived = archived])
    /\ UNCHANGED history

DeleteWatchlist(p) ==
  \E k \in FirstWithItsId(LoadData) :
    /\ Edit(p, "delete", RemoveAt(LoadData, k))
    /\ UNCHANGED history

(* Faulty: the destination is searched before the row leaves the source,   *)
(* which loses a row sent to its own list.                                 *)
TransferredEarlyCheck(lists, k, j, symbol) ==
  LET taken == [lists EXCEPT ![k].rows = Taken(@, symbol)]
  IN  IF PosOf(lists[j].rows, symbol) = 0
      THEN [taken EXCEPT ![j].rows = Append(@, Row(symbol, FALSE))] ELSE taken

(* The row leaves one list and, unless the symbol is there, joins another. *)
Transferred(lists, k, j, symbol) ==
  LET taken == [lists EXCEPT ![k].rows = Taken(@, symbol)]
  IN  [taken EXCEPT ![j].rows = Added(@, symbol)]

MoveSymbolToWatchlist(p) ==
  \E k, j \in FirstWithItsId(LoadData) :
    \E symbol \in Symbols(LoadData[k].rows) :
      /\ ~LoadData[j].archived
      /\ Edit(p, "transfer", Transferred(LoadData, k, j, symbol))
      /\ UNCHANGED history

------------------------------------------------------------------------------
(* SaveData, in two steps: the stream's constructor truncates the file,    *)
(* its destructor flushes.                                                 *)

Shown == IF file.state = "bad" /\ Writing # {} THEN shown ELSE LoadData

Truncate(p) ==
  /\ pc[p] = "loaded"
  /\ shown' = Shown
  /\ stale' = stale \cup (Busy \ {p})
  /\ file' = Unreadable
  /\ pc' = [pc EXCEPT ![p] = "writing"]
  /\ UNCHANGED <<op, buf, history, ops, crashes>>

Done(p) ==
  /\ pc' = [pc EXCEPT ![p] = "idle"]
  /\ op' = [op EXCEPT ![p] = "none"]
  /\ buf' = [buf EXCEPT ![p] = <<>>]
  /\ shown' = IF Writing \ {p} # {} THEN Shown ELSE <<>>
  /\ UNCHANGED <<history, ops>>

(* The text is written from offset 0: over a file another process has just *)
(* written, a longer old text leaves its tail behind.                      *)
Flush(p) ==
  /\ pc[p] = "writing"
  /\ file' \in {Holding(buf[p])} \cup IF file.state = "ok" THEN {Unreadable} ELSE {}
  /\ stale' = Busy \ {p}
  /\ Done(p)
  /\ UNCHANGED crashes

(* A crash, a file that cannot be opened, a full device: what the file     *)
(* holds then depends on whether it was truncated already.                 *)
SaveFails(p) ==
  /\ pc[p] \in {"loaded", "writing"} /\ crashes < MaxCrashes
  /\ crashes' = crashes + 1
  /\ stale' = stale \ {p}
  /\ Done(p)
  /\ UNCHANGED file

Next ==
  \E p \in Procs :
    \/ CreateWatchlist(p) \/ RenameWatchlist(p)
    \/ AddWatchlistSymbol(p) \/ RemoveWatchlistSymbol(p)
    \/ PinWatchlistSymbol(p) \/ MoveWatchlistSymbol(p)
    \/ ArchiveWatchlist(p) \/ DeleteWatchlist(p) \/ MoveSymbolToWatchlist(p)
    \/ Truncate(p) \/ Flush(p) \/ SaveFails(p)

Spec == Init /\ [][Next]_vars

------------------------------------------------------------------------------
(* PROPERTIES *)

TypeOK ==
  /\ file.state \in {"ok", "bad"} /\ file.lists \in Lists
  /\ pc \in [Procs -> {"idle", "loaded", "writing"}]
  /\ op \in [Procs -> OpNames]
  /\ buf \in [Procs -> Lists]
  /\ shown \in Lists
  /\ stale \subseteq Procs
  /\ moved \in BOOLEAN /\ clashed \in BOOLEAN
  /\ ops \in 0..MaxOps /\ crashes \in 0..MaxCrashes

(* No list ever holds a symbol twice, whatever adds, moves and transfers   *)
(* two processes interleave on the file.                                   *)
EachSymbolOnce == \A k \in DOMAIN file.lists : EachOnce(file.lists[k].rows)

(* Pinning, unpinning, adding, removing and transferring keep the pinned   *)
(* rows of every list in front; only moving a row by hand may not.         *)
PinnedRowsLead == ~moved => \A k \in DOMAIN file.lists : PinsLead(file.lists[k].rows)

(* Unless a list was created under a name whose slug was taken, an id      *)
(* names one list: renaming, deleting and re-creating keep ids apart.      *)
IdsNameOneList == ~clashed => IdsOnce(file.lists)

Watched(lists) == UNION {Symbols(lists[k].rows) : k \in DOMAIN lists}

(* A symbol disappears from the lists as a whole only by an operation that *)
(* takes symbols out: no transfer, move or rename loses one.  What else    *)
(* loses one is a write that fails, or one from lists read before, or      *)
(* during, a write of the other process.                                   *)
OnlyRemovalsLose ==
  [][~(Watched(Shown) \subseteq Watched(Shown')) =>
       \E p \in Busy \ Busy' : \/ op[p] \in {"remove", "delete"}
                              \/ p \in stale \/ crashes' > crashes]_vars
==============================================================================
