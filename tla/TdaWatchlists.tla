---------------------------- MODULE TdaWatchlists ----------------------------
(***************************************************************************)
(* The watchlist service with TD Ameritrade configured.  TDA keeps the     *)
(* lists; a local file, the overlay, keeps the order, pins and archive     *)
(* flags of their rows.  What users see is TDA's lists merged with it.  An *)
(* exception anywhere on the way through TDA makes the service repeat the  *)
(* operation with the local provider, whose file is the overlay.           *)
(*                                                                         *)
(* Every call to TDA is a step, since TDA may not answer it, may not carry *)
(* it out, or may be changed in between by the user's other applications.  *)
(* A write of the overlay empties the file first, and may fail before or   *)
(* after that.                                                             *)
(***************************************************************************)
EXTENDS WatchlistRows

CONSTANTS
  AccountIds,      \* get_all_account_ids: a sequence, the primary account twice
  Names,           \* names clients give to lists
  SymbolSet,       \* ticker symbols
  Slug,            \* MakeSlug: the id of a list the local provider creates
  Demo,            \* BuildFallbackData of the local provider
  InitialRemote,   \* TDA's lists at first
  InitialOverlays, \* what the overlay file may hold at first
  MaxLists,        \* bound: lists at TDA
  MaxOps,          \* bound: requests ever made
  MaxTroubles      \* bound: calls TDA does not answer or carry out, writes
                   \*   that fail, aborts, and changes others make at TDA

IdsOf(lists) == {lists[k].id : k \in DOMAIN lists}

(* The ids of lists that are there at first or come from the local         *)
(* provider, and the one TDA gives to the list request n creates.          *)
OldIds ==
  (UNION {IdsOf(lists) : lists \in InitialOverlays \cup {InitialRemote, Demo}})
    \cup Range(Slug)
NewId(n) == <<AccountIds[1], n>>
Ids == OldIds \cup {NewId(n) : n \in 1..MaxOps}

RemoteLists == [id : Ids, name : Names, symbols : Seq(SymbolSet)]
Screens == [id : Ids, name : Names, archived : BOOLEAN,
            rows : Seq([symbol : SymbolSet, pinned : BOOLEAN])]

ASSUME TdaAssumption ==
  /\ AccountIds \in Seq(Range(AccountIds)) /\ AccountIds # <<>>
  /\ MaxLists \in Nat /\ MaxOps \in Nat /\ MaxTroubles \in Nat

ASSUME ListsAssumption ==
  /\ InitialRemote \in Seq(RemoteLists)
  /\ InitialOverlays \subseteq Seq(Screens)
  /\ Demo \in Seq(Screens) /\ Demo # <<>>
  /\ Slug \in [Names -> Range(Slug)]

(* TDA tells lists apart, and gives new ones ids no list has had. *)
ASSUME IdsAssumption ==
  /\ \A j, k \in DOMAIN InitialRemote :
       InitialRemote[j].id = InitialRemote[k].id => j = k
  /\ \A n \in 1..MaxOps : NewId(n) \notin OldIds

(* Nothing has a symbol twice at first. *)
ASSUME OnceAssumption ==
  /\ \A l \in Range(InitialRemote) : \A i, j \in DOMAIN l.symbols :
       l.symbols[i] = l.symbols[j] => i = j
  /\ \A lists \in InitialOverlays \cup {Demo} : \A l \in Range(lists) : EachOnce(l.rows)

ASSUME SymbolsAssumption == "archived" \notin SymbolSet

VARIABLES
  remote,    \* TDA's lists
  overlay,   \* assets/watchlists.json; <<>> stands for an unreadable file too
  pc,        \* where the request being served is
  req,       \* that request
  seen,      \* the screens it resolved and edited: source, destination
  sent,      \* number of them TDA was sent
  answer,    \* the last answer: who gave it, which list it names
  kept,      \* history: acknowledged pins and archive flags nothing has undone
  troubled,  \* history: a call of this request went wrong
  raced,     \* history: TDA's lists were changed since the request was made
  doubled,   \* history: TDA was sent a list with a symbol twice
  ops, troubles

service == <<pc, req, seen, sent, answer>>
history == <<kept, troubled, raced, doubled>>
vars == <<remote, overlay, service, history, ops, troubles>>

Stages == {"idle", "resolving", "sending", "saving", "answering", "local", "down"}
NoRequest == [op |-> "none"]
NoAnswer == [by |-> "none", id |-> <<>>]

(* Faulty: an unknown id means the first list, as it does for a screen. *)
FindOrFirst(lists, id) ==
  LET k == SelectInSeq(lists, LAMBDA l : l.id = id)
  IN  IF k = 0 /\ lists # <<>> THEN 1 ELSE k

(* FindScreen: the first list with an id, 0 for end(). *)
Find(lists, id) == SelectInSeq(lists, LAMBDA l : l.id = id)

------------------------------------------------------------------------------
(* LOADING *)

(* Faulty: the id is taken for the name. *)
AsNamelessScreen(list) ==
  [id |-> list.id, name |-> list.id, archived |-> FALSE,
   rows |-> [i \in DOMAIN list.symbols |-> Row(list.symbols[i], FALSE)]]

AsScreen(list) ==
  [id |-> list.id, name |-> list.name, archived |-> FALSE,
   rows |-> [i \in DOMAIN list.symbols |-> Row(list.symbols[i], FALSE)]]

ListsOf(account) ==
  LET theirs == Sifted(remote, {k \in DOMAIN remote : remote[k].id[1] = account})
  IN  [k \in DOMAIN theirs |-> AsScreen(theirs[k])]

(* LoadRemoteScreens.  An account whose answer is missing, empty or no     *)
(* JSON contributes no lists and no error.                                 *)
LoadRemoteScreens(missed) ==
  FlattenSeq([k \in DOMAIN AccountIds |->
                IF k \in missed THEN <<>> ELSE ListsOf(AccountIds[k])])

(* The overlay's rows that TDA has too, in the overlay's order and with    *)
(* its pins.                                                               *)
KnownRows(screen, over) ==
  Sifted(over.rows, {i \in DOMAIN over.rows :
                       over.rows[i].symbol \in Symbols(screen.rows)})

(* Then come those only TDA has. *)
AddedAll(rows, others) ==
  LET upTo[n \in 0..Len(others)] ==
        IF n = 0 THEN rows ELSE Added(upTo[n - 1], others[n].symbol)
  IN  upTo[Len(others)]

(* Faulty: rows the overlay does not know are left out. *)
MergedKnown(screen, over) ==
  [screen EXCEPT !.archived = over.archived, !.rows = KnownRows(screen, over)]

Merged(screen, over) ==
  [screen EXCEPT !.archived = over.archived,
                 !.rows = AddedAll(KnownRows(screen, over), @)]

SyncOverlayWithRemote(screens) ==
  [k \in DOMAIN screens |->
     LET o == Find(overlay, screens[k].id)
     IN  IF o = 0 THEN screens[k] ELSE Merged(screens[k], overlay[o])]

(* No lists at all is an exception: <<>> stands for it. *)
LoadScreens(missed) == SyncOverlayWithRemote(LoadRemoteScreens(missed))

(* What a client sees when TDA answers. *)
View == LoadScreens({})

(* A call may go wrong: then the request is no longer untroubled. *)
Trouble(wrong) ==
  /\ wrong => troubles < MaxTroubles
  /\ troubles' = IF wrong THEN troubles + 1 ELSE troubles
  /\ troubled' = (troubled \/ wrong)

(* All accounts are missed when authorization fails or TDA reports errors. *)
Loads(missed) == missed \in SUBSET (DOMAIN AccountIds) /\ Trouble(missed # {})

------------------------------------------------------------------------------
(* THE REQUESTS *)

Known == IdsOf(View) \cup IdsOf(overlay)

Requests ==
  [op : {"create"}, name : Names]
    \cup [op : {"rename"}, id : Known, name : Names]
    \cup [op : {"add", "remove"}, id : Known, symbol : SymbolSet]
    \cup [op : {"pin"}, id : Known, symbol : SymbolSet, flag : BOOLEAN]
    \cup [op : {"move"}, id : Known, symbol : SymbolSet, before : SymbolSet]
    \cup [op : {"archive"}, id : Known, flag : BOOLEAN]
    \cup [op : {"delete"}, id : Known]
    \cup [op : {"transfer"}, id : Known, to : Known, symbol : SymbolSet]

Pin(id, symbol) == [id |-> id, what |-> symbol]
Archive(id) == [id |-> id, what |-> "archived"]

Decorations(l) ==
  {Pin(l.id, row.symbol) : row \in {w \in Range(l.rows) : w.pinned}}
    \cup (IF l.archived THEN {Archive(l.id)} ELSE {})

(* What of the acknowledged decorations a request takes back. *)
Undone(r) ==
  CASE r.op = "remove"            -> {Pin(r.id, r.symbol)}
    [] r.op = "pin" /\ ~r.flag     -> {Pin(r.id, r.symbol)}
    [] r.op = "archive" /\ ~r.flag -> {Archive(r.id)}
    [] r.op = "transfer"           -> {Pin(r.id, r.symbol), Pin(r.to, r.symbol)}
    [] r.op = "delete"             -> {d \in kept : d.id = r.id}
    [] OTHER                       -> {}

(* Archiving never asks TDA; creating needs no list to start from. *)
Call ==
  /\ pc = "idle" /\ ops < MaxOps
  /\ \E r \in Requests :
       /\ r.op = "create" => Len(remote) < MaxLists
       /\ req' = r
       /\ kept' = kept \ Undone(r)
       /\ pc' = CASE r.op = "create"  -> "sending"
                  [] r.op = "archive" -> "local"
                  [] OTHER            -> "resolving"
  /\ ops' = ops + 1
  /\ troubled' = FALSE /\ raced' = FALSE
  /\ seen' = <<>> /\ sent' = 0 /\ answer' = NoAnswer
  /\ UNCHANGED <<remote, overlay, doubled, troubles>>

FallBack == pc' = "local" /\ UNCHANGED <<seen, sent, answer>>

(* The rows of the list a request names, edited as TDA is to store them.   *)
EditedRows(rows) ==
  CASE req.op = "add"      -> Added(rows, req.symbol)
    [] req.op = "remove"   -> Removed(rows, req.symbol)
    [] req.op = "pin"      -> IF req.flag
                              THEN <<Row(req.symbol, TRUE)>> \o Taken(rows, req.symbol)
                              ELSE Append(Taken(rows, req.symbol), Row(req.symbol, FALSE))
    [] req.op = "move"     -> Moved(rows, req.symbol, req.before)
    [] req.op = "transfer" -> Taken(rows, req.symbol)
    [] OTHER               -> rows

Edited(screen) ==
  [screen EXCEPT !.name = IF req.op = "rename" THEN req.name ELSE @,
                 !.rows = EditedRows(@)]

(* Pinning, moving and transferring need the rows they name. *)
RowsNeeded ==
  CASE req.op \in {"pin", "transfer"} -> {req.symbol}
    [] req.op = "move"                -> {req.symbol, req.before}
    [] OTHER                          -> {}

(* ResolveWatchlist, and the edit in memory. *)
Resolve ==
  /\ pc = "resolving" /\ seen = <<>>
  /\ \E missed \in SUBSET (DOMAIN AccountIds) :
       LET screens == LoadScreens(missed)
           k == Find(screens, req.id)
       IN  /\ Loads(missed)
           /\ IF k # 0 /\ RowsNeeded \subseteq Symbols(screens[k].rows)
              THEN /\ seen' = <<Edited(screens[k])>>
                   /\ pc' = IF req.op = "transfer" THEN pc ELSE "sending"
                   /\ UNCHANGED <<sent, answer>>
              ELSE FallBack
  /\ UNCHANGED <<remote, overlay, req, kept, raced, doubled, ops>>

(* A transfer resolves its destination by another load.  The row joins it  *)
(* unpinned, whether or not the symbol is there.                           *)
ResolveDestination ==
  /\ pc = "resolving" /\ seen # <<>>
  /\ \E missed \in SUBSET (DOMAIN AccountIds) :
       LET screens == LoadScreens(missed)
           k == Find(screens, req.to)
       IN  /\ Loads(missed)
           /\ IF k # 0
              THEN /\ seen' = Append(seen, [screens[k] EXCEPT
                                              !.rows = Append(@, Row(req.symbol, FALSE))])
                   /\ pc' = "sending"
                   /\ UNCHANGED <<sent, answer>>
              ELSE FallBack
  /\ UNCHANGED <<remote, overlay, req, kept, raced, doubled, ops>>

(* TDA's side of POST, PUT and DELETE. *)
Stored ==
  CASE req.op = "create" ->
         Append(remote, [id |-> NewId(ops), name |-> req.name,
                         symbols |-> <<>>])
    [] req.op = "delete" -> Sifted(remote, {k \in DOMAIN remote : remote[k].id # req.id})
    [] OTHER ->
         LET screen == seen[sent + 1]
         IN  [k \in DOMAIN remote |->
                IF remote[k].id # screen.id THEN remote[k]
                ELSE [id |-> screen.id, name |-> screen.name,
                      symbols |-> [i \in DOMAIN screen.rows |-> screen.rows[i].symbol]]]

(* create_watchlist, replace_watchlist, delete_watchlist: nobody looks at  *)
(* what they return, so one that failed passes for one that did not.       *)
Send ==
  /\ pc = "sending"
  /\ \E lost \in BOOLEAN :
       /\ Trouble(lost)
       /\ remote' = IF lost THEN remote ELSE Stored
  /\ doubled' = (doubled \/ \E k \in DOMAIN seen : ~EachOnce(seen[k].rows))
  /\ sent' = sent + 1
  /\ pc' = IF sent' < Len(seen) THEN pc ELSE "saving"
  /\ UNCHANGED <<overlay, req, seen, answer, kept, raced, ops>>

------------------------------------------------------------------------------
(* THE OVERLAY *)

Upsert(lists, screen) ==
  LET k == Find(lists, screen.id)
  IN  IF k = 0 THEN Append(lists, screen) ELSE [lists EXCEPT ![k] = screen]

AnswerBy(who, id) == answer' = [by |-> who, id |-> id] /\ pc' = "idle"

(* What is kept when the overlay is overwritten by a load. *)
KeptOf(missed) ==
  {d \in kept : \E k \in DOMAIN AccountIds \ missed : AccountIds[k] = d.id[1]}

(* The file becomes what was just loaded, without the lists of an account  *)
(* that did not answer and without those only the local provider knows.    *)
SaveAll(Load(_)) ==
  /\ pc = "saving" /\ req.op \in {"rename", "add", "remove"}
  /\ \E missed \in SUBSET (DOMAIN AccountIds) :
       LET screens == Load(missed)
       IN  /\ Loads(missed)
           /\ IF screens = <<>>
              THEN FallBack /\ UNCHANGED <<overlay, kept>>
              ELSE /\ overlay' = screens
                   /\ kept' = KeptOf(missed)
                   /\ pc' = "answering" /\ UNCHANGED <<seen, sent, answer>>
  /\ UNCHANGED <<remote, req, raced, doubled, ops>>

(* Faulty: what TDA returned is saved before it is merged. *)
SaveUnmerged == SaveAll(LoadRemoteScreens)

(* SaveOverlayScreens(LoadScreens()). *)
SaveMerged == SaveAll(LoadScreens)

(* A new list is the first one with its name. *)
SaveCreated ==
  /\ pc = "saving" /\ req.op = "create"
  /\ \E missed \in SUBSET (DOMAIN AccountIds) :
       LET screens == LoadScreens(missed)
           k == SelectInSeq(screens, LAMBDA l : l.name = req.name)
       IN  /\ Loads(missed)
           /\ overlay' = IF screens = <<>> THEN overlay ELSE screens
           /\ kept' = IF screens = <<>> THEN kept
                      ELSE KeptOf(missed)
           /\ IF k = 0 THEN FallBack
              ELSE AnswerBy("tda", screens[k].id) /\ UNCHANGED <<seen, sent>>
  /\ UNCHANGED <<remote, req, raced, doubled, ops>>

(* The flag is set in the list as it is loaded anew: the overlay's order   *)
(* outlives the order just sent.                                           *)
SavePinned ==
  /\ pc = "saving" /\ req.op = "pin"
  /\ \E missed \in SUBSET (DOMAIN AccountIds) :
       LET screens == LoadScreens(missed)
           k == Find(screens, req.id)
           flagged == [screens[k] EXCEPT !.rows = [i \in DOMAIN @ |->
                         IF @[i].symbol = req.symbol THEN Row(req.symbol, req.flag)
                         ELSE @[i]]]
       IN  /\ Loads(missed)
           /\ IF k = 0
              THEN FallBack /\ UNCHANGED <<overlay, kept>>
              ELSE /\ overlay' = Upsert(overlay, flagged)
                   /\ kept' = IF Row(req.symbol, TRUE) \in Range(flagged.rows)
                              THEN kept \cup {Pin(req.id, req.symbol)} ELSE kept
                   /\ AnswerBy("tda", req.id) /\ UNCHANGED <<seen, sent>>
  /\ UNCHANGED <<remote, req, raced, doubled, ops>>

(* Faulty: the overlay keeps the order it had. *)
SaveWithoutEdits ==
  /\ pc = "saving" /\ req.op \in {"move", "transfer"}
  /\ pc' = "answering"
  /\ UNCHANGED <<remote, overlay, req, seen, sent, answer, history, ops, troubles>>

(* The lists as they were edited go to the overlay, whatever TDA did. *)
SaveEdited ==
  /\ pc = "saving" /\ req.op \in {"move", "transfer"}
  /\ LET source == Upsert(overlay, seen[1])
     IN  overlay' = IF req.op = "move" THEN source ELSE Upsert(source, seen[2])
  /\ pc' = "answering"
  /\ UNCHANGED <<remote, req, seen, sent, answer, history, ops, troubles>>

SaveDeleted ==
  /\ pc = "saving" /\ req.op = "delete"
  /\ overlay' = Sifted(overlay, {k \in DOMAIN overlay : overlay[k].id # req.id})
  /\ AnswerBy("tda", req.id)
  /\ UNCHANGED <<remote, req, seen, sent, history, ops, troubles>>

Target == IF req.op = "transfer" THEN req.to ELSE req.id

(* The summary comes from one more load; without it the service repeats    *)
(* locally what TDA has done already.                                      *)
Answer ==
  /\ pc = "answering"
  /\ \E missed \in SUBSET (DOMAIN AccountIds) :
       /\ Loads(missed)
       /\ IF Target \in IdsOf(LoadScreens(missed))
          THEN AnswerBy("tda", Target) /\ UNCHANGED <<seen, sent>>
          ELSE FallBack
  /\ UNCHANGED <<remote, overlay, req, kept, raced, doubled, ops>>

------------------------------------------------------------------------------
(* THE LOCAL PROVIDER, on the overlay file *)

LoadData == IF overlay = <<>> THEN Demo ELSE overlay

LocallyThrows ==
  LET k == Find(LoadData, req.id)
  IN  /\ req.op # "create"
      /\ \/ k = 0
         \/ ~(RowsNeeded \subseteq Symbols(LoadData[k].rows))
         \/ /\ req.op = "transfer"
            /\ \/ Find(LoadData, req.to) = 0
               \/ LoadData[Find(LoadData, req.to)].archived

LocallyEdited ==
  LET k == Find(LoadData, req.id)
      edited == [LoadData EXCEPT ![k] = Edited(@)]
  IN  CASE req.op = "create" ->
             Append(LoadData, [id |-> Slug[req.name], name |-> req.name,
                               archived |-> FALSE, rows |-> <<>>])
        [] req.op = "delete"  -> RemoveAt(LoadData, k)
        [] req.op = "archive" -> [LoadData EXCEPT ![k].archived = req.flag]
        [] req.op = "pin"     -> [LoadData EXCEPT ![k].rows =
                                    Pinned(@, req.symbol, req.flag)]
        [] req.op = "transfer" -> [edited EXCEPT ![Find(LoadData, req.to)].rows =
                                     Added(@, req.symbol)]
        [] OTHER               -> edited

HasAtTda(id, symbol) ==
  \E l \in Range(remote) : l.id = id /\ symbol \in Range(l.symbols)

(* What the answer of the local provider promises: an archive flag, or a   *)
(* pin if the list has the symbol at TDA.                                  *)
LocallyKept ==
  CASE req.op = "archive" /\ req.flag -> {Archive(req.id)}
    [] req.op = "pin" /\ req.flag /\ HasAtTda(req.id, req.symbol) ->
         {Pin(req.id, req.symbol)}
    [] OTHER -> {}

ServeLocally ==
  /\ pc = "local"
  /\ IF LocallyThrows
     THEN AnswerBy("error", <<>>) /\ UNCHANGED <<overlay, kept>>
     ELSE /\ overlay' = LocallyEdited
          /\ kept' = kept \cup LocallyKept
          /\ AnswerBy("local", IF req.op = "create" THEN Slug[req.name] ELSE req.id)
  /\ UNCHANGED <<remote, req, seen, sent, troubled, raced, doubled, ops, troubles>>

(* The request gets as far as writing the overlay file.                    *)
Saves ==
  \/ pc = "local" /\ ~LocallyThrows
  \/ /\ pc = "saving"
     /\ req.op = "pin" => req.id \in IdsOf(View)
     /\ req.op \in {"create", "rename", "add", "remove"} => View # <<>>

(* The file cannot be opened and stays as it is, or it was emptied and not *)
(* written: the device is full, or the server is stopped in between.  An   *)
(* exception sends a request at TDA's provider to the local one, and one   *)
(* there back to the client.                                               *)
SaveFails ==
  /\ Saves /\ Trouble(TRUE)
  /\ \/ UNCHANGED <<overlay, kept>>
     \/ overlay' = <<>> /\ kept' = {}
  /\ \/ pc = "saving" /\ FallBack
     \/ pc = "local" /\ AnswerBy("error", <<>>) /\ UNCHANGED <<seen, sent>>
     \/ pc' = "down" /\ answer' = NoAnswer /\ UNCHANGED <<seen, sent>>
  /\ UNCHANGED <<remote, req, raced, doubled, ops>>

------------------------------------------------------------------------------
(* THE REST OF THE WORLD *)

(* Without an answer from TDA there is no account list, whose first        *)
(* element is read all the same: the server dies in the middle of a        *)
(* request.  Being stopped there looks the same.                           *)
Abort ==
  /\ pc \notin {"idle", "down"}
  /\ Trouble(TRUE)
  /\ pc' = "down" /\ answer' = NoAnswer
  /\ UNCHANGED <<remote, overlay, req, seen, sent, kept, raced, doubled, ops>>

Restart ==
  /\ pc = "down" /\ pc' = "idle"
  /\ UNCHANGED <<remote, overlay, req, seen, sent, answer, history, ops, troubles>>

(* Another application of the same user adds or removes a symbol, or       *)
(* deletes a list.                                                         *)
Elsewhere ==
  /\ troubles < MaxTroubles /\ troubles' = troubles + 1
  /\ raced' = TRUE
  /\ \E k \in DOMAIN remote :
       LET id == remote[k].id
       IN  \/ \E symbol \in SymbolSet \ Range(remote[k].symbols) :
                /\ remote' = [remote EXCEPT ![k].symbols = Append(@, symbol)]
                /\ UNCHANGED kept
           \/ \E symbol \in Range(remote[k].symbols) :
                /\ remote' = [remote EXCEPT ![k].symbols =
                                Sifted(@, {i \in DOMAIN @ : @[i] # symbol})]
                /\ kept' = kept \ {Pin(id, symbol)}
           \/ /\ remote' = RemoveAt(remote, k)
              /\ kept' = {d \in kept : d.id # id}
  /\ UNCHANGED <<overlay, service, troubled, doubled, ops>>

Init ==
  /\ remote = InitialRemote
  /\ overlay \in InitialOverlays
  /\ pc = "idle" /\ req = NoRequest /\ seen = <<>> /\ sent = 0 /\ answer = NoAnswer
  /\ kept = UNION {Decorations(l) : l \in Range(View)}
  /\ troubled = FALSE /\ raced = FALSE /\ doubled = FALSE
  /\ ops = 0 /\ troubles = 0

Next ==
  \/ Call \/ Resolve \/ ResolveDestination \/ Send
  \/ SaveMerged \/ SaveCreated \/ SavePinned \/ SaveEdited \/ SaveDeleted
  \/ Answer \/ ServeLocally \/ SaveFails \/ Abort \/ Restart \/ Elsewhere

Spec == Init /\ [][Next]_vars

------------------------------------------------------------------------------
(* PROPERTIES *)

TypeOK ==
  /\ remote \in Seq(RemoteLists) /\ overlay \in Seq(Screens) /\ seen \in Seq(Screens)
  /\ pc \in Stages /\ sent \in 0..2
  /\ answer.by \in {"none", "tda", "local", "error"}
  /\ {troubled, raced, doubled} \subseteq BOOLEAN
  /\ ops \in 0..MaxOps /\ troubles \in 0..MaxTroubles

(* Whatever the local provider, outages and half-done operations left in   *)
(* the overlay, users see TDA's lists under TDA's names, each with the     *)
(* symbols TDA has: the overlay neither hides nor invents any.             *)
OverlayOnlyDecorates ==
  LET plain == LoadRemoteScreens({})
      view == View
  IN  /\ DOMAIN view = DOMAIN plain
      /\ \A k \in DOMAIN plain :
           /\ view[k].id = plain[k].id /\ view[k].name = plain[k].name
           /\ Symbols(view[k].rows) = Symbols(plain[k].rows)

(* A pin or an archive flag a client was told of stays until a request or  *)
(* another application takes it back or its row away, whichever provider   *)
(* told it: through aborts, lost calls, local fallbacks and partly         *)
(* answered loads, except the load that overwrites the overlay without the *)
(* lists of the account and the write that empties it and fails.           *)
DecorationsSurvive ==
  LET view == View IN
  \A l \in Range(view) : \A d \in kept :
    l.id = d.id /\ (d = Archive(l.id) \/ d.what \in Symbols(l.rows))
      => d \in Decorations(l)

(* Faulty answers aside, what TDA's provider reports has come true for     *)
(* whoever looks next, through both stores and their merge.                *)
Holds(l) ==
  CASE req.op = "rename"   -> l.name = req.name
    [] req.op = "add"      -> req.symbol \in Symbols(l.rows)
    [] req.op = "remove"   -> req.symbol \notin Symbols(l.rows)
    [] req.op = "pin"      -> Row(req.symbol, ~req.flag) \notin Range(l.rows)
    [] req.op = "move"     -> EachOnce(l.rows) /\ req.symbol # req.before =>
                                PosOf(l.rows, req.before) = PosOf(l.rows, req.symbol) + 1
    [] req.op = "transfer" -> /\ l.id = req.to => req.symbol \in Symbols(l.rows)
                              /\ ~doubled /\ l.id # req.to =>
                                   req.symbol \notin Symbols(l.rows)
    [] OTHER               -> TRUE

AnswersComeTrue ==
  pc = "idle" /\ answer.by = "tda" /\ ~troubled /\ ~raced =>
    CASE req.op = "create" -> \E l \in Range(View) : l.id = answer.id /\ l.name = req.name
      [] req.op = "delete" -> req.id \notin IdsOf(View) \cup IdsOf(overlay)
      [] OTHER -> \A l \in Range(View) :
                    l.id \in {req.id, Target} => Holds(l)

(* As long as nobody else changes TDA's lists during a request, no list    *)
(* loses a symbol to it, however it ends, that the request does not take   *)
(* from that very list.                                                    *)
OnlyAskedSymbolsLeave ==
  [][~raced' => \A l \in Range(remote) : \A s \in Range(l.symbols) :
       \/ \E m \in Range(remote') : m.id = l.id /\ s \in Range(m.symbols)
       \/ /\ req.op \in {"remove", "delete", "transfer"} /\ req.id = l.id
          /\ req.op # "delete" => s = req.symbol]_vars
==============================================================================
