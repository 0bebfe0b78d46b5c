# Premia: TLA+ models, model checks and proofs

Premia is a trading workspace in C++: a desktop application (ImGui) and an HTTP
API server for mobile clients, both built on the same core services, which talk
to brokers (Charles Schwab, TD Ameritrade, Interactive Brokers), to Plaid, and
to JSON files that serve as local fallback. This directory models the parts of
it that change state. Paths are relative to the repository;
`PSC` stands for `src/core/application/provider_service_components.cc`.

Contents: 1 inventory, 2 modules and the code they model, 3 runs, 4 proofs,
5 disagreements found, 6 what is not modelled, 7 what could follow.

## 1. Inventory

| Component | Source | State | Operations | What is hard | What makes it correct |
|---|---|---|---|---|---|
| Local order provider | `src/providers/local/order_provider.cc` | `assets/orders.json` | submit, cancel, replace, open orders, history | whole-file read-modify-write by two processes, truncation before flush, replace = two writes, ids from a clock that restarts at boot | history in order and free of duplicates, closed orders stay closed, a replacement never doubles exposure |
| OrderService | `PSC:1235-1329` | none of its own | the same, offered to Schwab, TDA, local in turn | an exception is the only signal; a lost answer looks like no broker | nothing live without confirmation, one order per request, answers are true |
| Schwab orders | `src/providers/schwab/order_provider.cc`, `src/service/Schwab/client.cc` | the broker's | the same, after a preview | confirmation, lost answers, no timeout | as above |
| TDA orders | `src/providers/tda/order_provider.cc`, `src/service/TDAmeritrade/client.cc` | the broker's | the same | results of the transfers are ignored | as above |
| Local watchlists | `src/providers/local/watchlist_provider.cc` | `assets/watchlists.json` | create, rename, pin, move, archive, delete, add, remove and transfer symbols | ids made from names, pinned prefix, fallback data, transfer = two edits | a symbol once per list, pinned rows lead, ids apart, nothing lost but by removal |
| TDA watchlists, WatchlistService | `src/providers/tda/watchlist_provider.cc`, `PSC:1110-1233`, `src/service/TDAmeritrade/client.cc` | remote lists, and the local file as an overlay with their order, pins and archive flags | the same, offered to TDA, then to the local provider | overlay and remote drift apart, an overlay emptied before it is written, results nobody reads, an exception after the change, accounts that do not answer | the overlay decorates and nothing else, decorations last, answers come true, no symbol leaves unasked |
| Chart annotations | `PSC:353-527,951-1108`, `src/app/view/chart/chart_view.cc` | annotations file with versions, shared with the desktop's chart view | replace, upsert, delete, rollback; draw, clear | bounded version list, version ids from the clock, two formats in one file | versions are immutable, every edit can be undone, a rollback restores |
| Schwab session | `src/service/Schwab/client.cc`, `src/providers/schwab/workflow_provider.cc`, `LoadAuthorizedClient` in four providers | access and refresh token with expiry | load, refresh, exchange, save | rotation, failed parsing, lost answers, two processes refreshing | only granted tokens are stored, the session the broker honours is kept |
| Secrets | `src/infrastructure/secrets/*`, `PSC:166-221` | secure files, keychain copies | write, sync, load, save | two copies of a secret, a temporary name all writers share | a saved secret stays readable |
| Connections and workflows | `PSC:615-705,1426-1488` | connection statuses, workflow counter | refresh, start and complete OAuth / link | callbacks out of order, restarts | a status says what the tokens allow |
| IBKR snapshot | `src/providers/ibkr/account_detail_provider.cc` | flags and lists that callbacks fill, a deadline per wait | connect, ask, wait, cancel, hang up, destroy | two threads, a peer that answers late, in part or never, hanging up while the reader is at work | a returned snapshot is whole, hanging up is quiet, the call comes back |
| TWS reader | `src/service/InteractiveBrokers/tws/EReader*.cpp`, `EClientSocket.cpp` | receive buffer, message queue, signal, socket state | select, receive, cut, queue, signal | messages in pieces, errors found by either thread | messages arrive once, in order; no wake-up is lost |
| Order templates | `src/providers/local/order_template_provider.cc` | templates file | create, update, delete | whole-file rewrite, by one process | what was saved is found again |
| Accounts, RSU, options, quotes | `PSC`, providers | none or a grants file | reads that fall back from broker to broker | mixing answers of several sources | one answer from one source |
| HTTP server | `apps/api/src/http/server.cc` | none | one request at a time | an exception in a GET ends the process | it goes on serving |
| Desktop | `src/app/*` | widgets | calls the same services in its own process | shares the files with the server | |

Interaction: a request (HTTP or a click) calls a service of `CompositionRoot`;
the service constructs a provider per call; the provider reads its file or calls
the broker, and writes the file back. Services keep no lock; the two processes
meet only in the files. The server answers one request at a time
(`io_context{1}`, a blocking accept loop, `server.cc:668-680`), so inside one
process calls are sequential; the concurrency is between the two processes, between
Premia and the brokers, and, in one place, between two threads: the IBKR snapshot
runs the TWS library's reader thread beside the caller's. There are no retries;
curl is used without timeouts, and the only deadlines are those of the snapshot's
waits.

## 2. Modules

### Orders

`OrderBook` is the abstract specification: an append-only history in which
submit, cancel and replace take effect in one step, and in which a failure loses
everything or the second half of a replacement. `LocalOrders` shows its history as
`Told`: while a mutation is under way the file as it was when the request arrived,
otherwise the file.

`LocalOrders` is the provider over its file. One process handles a call in the
steps the code takes: `Call*` (the request arrives), `LoadForSubmit`
(`read_json`), `PlaceOrder` (the id is drawn from `steady_clock` and the order
appended), or `LoadForCancel` (`read_json` and the edit of the tree), `Truncate` (the constructor of `std::ofstream`),
`Flush` (`write_json` and the destructor), `Respond`. `ReplaceOrder` is a
cancellation whose `Flush` leads back to `called` for the submission.
`OrderNotFound`, `WriteFails` and `Crash` are the ways out; `ServeOrders` is the
GET whose exception nobody catches and that ends the server until `Restart`.
`file` is the file, `buf` the tree in memory, `job` the request. An order is its
id and its status; prices and text are left out. `steady_clock` promises only not
to go back while the machine runs: a draw may show the tick of the one before, and
`Reboot` starts the ticks again while the file stays. An id may therefore name two
orders, of which the code finds the first. `ticks` records the draws, and the
history field `nth` of an order says which of them was its own.

`OrderRouting` is `OrderService` and the three providers behind it. A request
moves through the stages `schwab`, `schwab_live`, `tda`, `local`, as the
exceptions carry it; each broker call is a step, which the broker may carry out
and whose answer may be lost (`SchwabAnswerLost`). The local provider's
`ReplaceOrder` is two steps here too, since an exception of the second write
(`LocalWriteFails`) is answered as an error with the cancellation done. `open` are
the orders open at the venues. Two facts of the code shape it: TDA's client looks at neither the
transfer's result nor the HTTP status, so `TdaLive` reports success whatever
happened; and the POST of `place_order_payload` (`service/TDAmeritrade/client.cc`)
drops the header list it built and sends the refresh-token grant in place of the
order, so a TDA submission reported as live places nothing (`TdaActs`).

### Watchlists

`Sieve` is the erase-remove idiom: the elements of a sequence at the places that are
kept, in order. `WatchlistRows` holds the edits of one list's rows (add, remove, pin, move,
take), as `std::find_if`, `erase` and `insert` do them, iterators at `end()`
included. `Watchlists` is the provider: each of the nine mutations loads the
file (`LoadData`, with the demonstration lists for a file that cannot be read or
holds no list), edits, truncates and flushes. Note that deleting the last list
brings the demonstration lists back, while the documentation speaks of a
fallback for a missing or malformed file only. `MCWatchlists` names a list so
that its slug is the id of the demonstration list.

`TdaWatchlists` is the same service with TD Ameritrade configured. A list created at TDA
gets the id `NewId(n)`, which belongs to the primary account and to request `n`;
`KnownRows` and `AddedAll` are the two loops of the merge. `remote` are
TDA's lists, `overlay` the local file; `View` (`SyncOverlayWithRemote`) is what a
client sees. A request is resolved by a load (`Resolve`, for a transfer
`ResolveDestination`), sent (`Send`, twice for a transfer), saved in the overlay
(`SaveMerged`, `SaveCreated`, `SavePinned`, `SaveEdited`, `SaveDeleted`) and
answered from one more load (`Answer`). Any of these writes may fail or be cut
short (`SaveFails`): the file is left as it was or empty, and the request goes on
to the local provider, to an error, or the server is down. `kept` collects the pins
and archive flags clients were told of, by either provider. An exception anywhere
leads to `ServeLocally`, the local provider on the overlay file. Every load may miss
accounts, every call may get lost, the server may die in between (`Abort`: without
an answer the provider reads the first of no accounts), and `Elsewhere` is another
application of the same user. Each step may go wrong on its own, up to
`MaxTroubles`. A write that succeeds is one step here; `Watchlists`, where two
processes share the file, takes it apart.

Some of what the code does is confined by the properties rather than excluded. A
disturbed transfer may leave the symbol in neither list, and an undisturbed one puts
it twice into a destination that had it. An account that does not answer loses its
decorations at the next save, as do the lists the fallback created locally.
`ArchiveWatchlist` is always served locally and fails for a list the overlay does not
have yet. At TDA pinned rows need not lead, since the overlay's order outlives a pin.

### Chart annotations

`ChartHistory` holds the pure part (on top of `Sieve`): a drawing and its versions, `Pushed` (a
version of the present drawing, at most `Depth` of them, 12 in the code, drawings
kept in a map by version id, so that dropping the oldest erases the map's node),
`Upserted`, `Without`. `ChartAnnotations` is the service (in the server, and in
the desktop for a rollback) and the desktop's chart view over the one file
`chart_annotations.json`. The two write different formats, an object with
versions and a plain array, and each reads the other's after its fashion
(`StateIn`, `NotesIn`); a key with a dot (`A|BRK.B`) is a path for
`boost::property_tree` and lies inside the entry of `A|BRK` (`Nested`).
`Restored` is nondeterministic where the code reads through an iterator into an
erased map node: the right drawing, none, or a blank one.

### Schwab session

`SecretFile` is a directory as `WriteSecureText` sees it: the secret, one
temporary file, and for every process what name the file it has open bears by
now. `Opened`, `Flushed`, `Renamed`, `Removed`, `Discarded` are the system calls.
`SchwabSession` is a call that needs Schwab, in either process: `Begin`
(`ResolveTokenPath`: a keychain copy is written over the file, a file without a
copy is copied), `Load` (`LoadTokens` and the decision to ask), `Granted` /
`Refused` / `AnswerLost` (`RefreshAccessToken` or `ExchangeAuthCode`, and
`ParseTokenResponse`), then `OpenTemp`, `Flush`, `Rename` and, when the rename
failed, `Clear` (the secret is removed), `Retry` and `Discard` (so is the temporary
file, whose ever it is by now), then `Remember` (`SaveTokens`). The broker is external: it numbers its responses, honours the
last refresh token it issued, rotates it or not, and may end the session.
`keychain.used` is chosen initially: macOS without `PREMIA_DISABLE_KEYCHAIN`, or
any other platform. Time is `system_clock` in units in which an access token
lasts `AccessLife`.

### IBKR snapshot

`MessageStream` is what a client of the TWS library may rely on: it handles what was
sent, in order and without gaps, and when the connection breaks off inside a message
one damaged message may stand at the end.

`TwsReader` is the library's part: the socket with what is on the wire (a message is
two units, its length and its body, and may arrive in halves), the reader thread
(`ReaderRuns`: `readToQueue`, `bufferedRead`, `putMessageToQueue`, `issueSignal`,
`handleSocketError`), the queue and its signal. The error callback that
`handleSocketError` makes in the reader's thread is taken apart: the look at
`disconnecting_` (`Complains`), the write of `fatal_error_` (`SetFatal`), that of
`error_text_` (`SetText`), and only then the socket is closed (`CloseSocket`). The
caller's thread may run between any two of them; its own side of the hang-up is
`HangUp` (`disconnecting_` is set), `Disconnect` (`eDisconnect`) and `Judge`.
`IbkrSnapshot` adds
`SnapshotClient::Fetch` in the caller's thread, from `eConnect` over three waits to
the destruction of client and reader, and TWS itself, which is external: it answers
requests in order, sends notices, errors and news unasked, and may close or reset the
connection at any moment with any part of the wire lost. `cut` records that TWS or
the network ended the connection. A write to `error_text_` by the reader thread after
its destruction is recorded in `wrapper.smashed`.

## 3. Runs

Every run explores all states of its instance. "pass" runs check the properties
they list; "violation" runs show one disagreement each (section 5).

Fairness is assumed in one place only. Elsewhere the clients decide whether anything
is asked, and curl waits for ever, so the code justifies none. `IbkrSnapshot` has two
threads and deadlines: `FairSpec` says that the caller's thread and the reader thread
keep running (`WF(MainStep)`, `WF(ReaderWorks)`), and that a deadline passes in the
end however often the loop around it goes round (`SF(Deadline)`; `WaitFor` compares
the time on every round, and in between the wait is disabled while messages are being
handled). Nothing is asked of TWS and the network, `Receive` included: an answer may
never come and half a message may be all there is of it.

| Run | Instance | Shows |
|---|---|---|
| `orders_one` | one process, 3 submissions, 3 ticks, 2 faults, reboots | the steps implement `OrderBook` (`ImplementsBook`), closed orders stay closed, order and replacement are never both open, acknowledged orders are stored |
| `orders_shared` | two processes, 2 submissions, 2 ticks, 1 fault, reboots | `InSubmissionOrder`: the history lists orders in the order in which they drew their ids, and none twice |
| `orders_reopen` | two processes, 2 submissions, 3 ticks, no fault | violation of `CancelledStayClosed` |
| `routing_lossy` | both brokers, 3 requests, 2 lost answers, local writes that fail at any time | confirmation, at most one live order per request, true answers, a replaced order is closed before its replacement opens and stays so (`ReplacedOnce`) |
| `watchlists_shared` | two processes, 4 operations, 1 fault, 2 symbols | no duplicates, pinned rows lead, ids apart, no symbol lost but by removal, failure or stale write |
| `watchlists_tda` | two accounts (the primary one listed twice), 2 requests, 1 trouble, an overlay that is missing or decorates both | `OverlayOnlyDecorates`, `DecorationsSurvive`, `AnswersComeTrue`, `OnlyAskedSymbolsLeave` |
| `charts_history` | two charts, one key inside the other, `Depth` 2, 4 edits, 1 fault | bounded ordered histories, immutable versions, undo, rollback |
| `charts_rollback` | one chart, no fault | violation of `RollbackRestoresAll` |
| `sessions_shared` | two processes, 4 calls, 3 grants, time 3, 1 fault, both platforms | only granted tokens stored, session kept, newest session stored, reauthorisation only when it ended |
| `sessions_clash` | the same, no fault | violation of `SubsequentRunsLoad` |
| `ibkr_snapshot` | one snapshot, 2 messages on their way, 1 unasked message | `ImplementsStream`, `NoLostWakeup`, `SnapshotIsWhole`, `HangUpIsQuiet`, and the liveness property `FetchReturns` |
| `ibkr_silent` | 1 message on its way | violation of `HandshakeTimesOut` |

Why these bounds are enough: the interesting cases need two processes with one
call each, at most one earlier call to set the scene and one later call to see
the consequence; a history of depth 2 is full after two edits, so that the third
drops a version and the fourth sees it gone; with two requests at TDA the second meets
whatever the first one's trouble left behind in the overlay, and two accounts let one
answer while the other does not; two messages on their way let a receive bring the
rest of one and the beginning of the next (`MaxLag`), and one unasked message
(`MaxExtras`) reaches every phase of the snapshot; three token responses let two
refreshes race after an authorisation; time 3 lets access and refresh tokens
expire. Every action fires in some pass run, and for every property of a pass run
`PROJECT.json` names a faulty variant of one definition (marked "Faulty" in the
modules) that violates it. `CHECK_DEADLOCK FALSE` stands where the number of
requests is bounded: the instance stops when they are used up. Bounds appear only
in guards and in the constants `Max*`.

Conditions in the properties: `CancelledStayClosed` and `NeverBothOpen` speak of
histories in which no tick was drawn twice (`TicksApart`), since otherwise an id names
two orders; the runs also explore the others, across which `InSubmissionOrder`,
`AcknowledgedAreStored` and `ImplementsBook` hold unconditionally. `DecorationsSurvive`
gives up what a write that emptied the overlay and failed has destroyed, and
`HangUpIsQuiet` speaks of connections that TWS did not end (`cut`).

Assumptions about the platform: `system_clock` is not set back while charts are edited; edits in one
millisecond are counted (`collisions`) and excluded by the properties that need
distinct version ids; a small text is flushed in one write.

## 4. Proofs

TLAPS checks the following for every value of the constants. The constants'
assumptions are the `ASSUME`s of the modules; the bounds need only be naturals.

**Orders, any processes** (`LocalOrdersProofs`): `TypeCorrect`, and `HistoryInOrder`
(`InSubmissionOrder`), for any clock. The property is not inductive: the next content
of the file is a tree in some process's memory, so `IInv` says of every such tree, too,
that it is in the order of the draws and holds no order not yet drawn; a submission
appends the newest one to a tree read before.

**Orders, one process.** With two processes `CancelledStayClosed` is false
(`orders_reopen`), so the following are stated as
`ASSUME NEW p, Procs = {p} PROVE Spec => ...`, for any number of orders, crashes and
failed writes (same module).

* `CancelsLast` and `ReplacedAreClosed` by `ClosedInv` (an
  order whose cancellation was acknowledged, or which was replaced, has an id drawn
  already and is open neither in the file nor in the tree in memory: as long as no
  tick is drawn twice, a new id cannot bring it back); `AcknowledgedAreKept` by `KeptInv`
  (the same of what was acknowledged and must be there, until a fault).
* `FileIsBook`, the refinement of `OrderBook`. `BookInv` says
  that the tree in memory is the file as it was when the request arrived, plus the one
  edit of the mutation. Code and book both edit the first order with an id, so ids need
  not be unique. Every step is then a step of the book or leaves `Told` unchanged.

**Routing** (`OrderRoutingProofs`): `TypeCorrect`; `OneLiveOrder` and
`NothingLiveUnconfirmed` by `ChainInv`, which ties the stage of the request to what it
has placed so far (before `schwab_live` nothing, after a lost answer at most one order
at Schwab; TDA places nothing for a submission and replaces only an order of its own);
`OneOrder`, `AnswersStayTrue` and `ReplacedNotDoubled` (`ReplacedOnce`) by `AnswerInv`
(the number of the next order is new at every venue that may place it, open orders were
placed, the venues that act on an order are those where it is open, and between the two
writes of a local replacement the replaced order is closed for good).

**Watchlists** (`WatchlistsProofs`): `IdsStayApart`, by `IdsInv`: the lists in the file
and the lists in every process's memory have distinct ids until a slug is used again.
An edit of rows keeps the sequence of ids; deleting shortens it; creating appends one
the list did not have.

* `TypeCorrect`, `SymbolsStaySingle` and `PinnedRowsStayInFront` by `RowsInv`: the lists
  about to be written are well-formed, free of duplicates and, until a move, led by
  their pins, like those in the file. Each of the nine edits has a lemma of its own
  that says which rows it leaves and in what order.
* `SymbolsLeaveByRemoval` (`OnlyRemovalsLose`) by `FreshInv`: a process that is not
  stale is about to write what readers see plus its own edit, and nobody else has
  truncated the file since it was read; so only a removal, a failed write or a stale
  one takes symbols from what readers see.

**TDA watchlists** (`TdaWatchlistsProofs`). For any accounts, overlay, requests and
number of troubles; assumed are the types of the initial lists, that TDA's ids are
distinct and new ones were never used, that no list has a symbol twice at first, and
that the model's word for an archive flag is no symbol.
The `...Does` lemmas say once what every action does, in terms of TDA's lists and of
`Shown`, the merge of one list with the overlay; the invariants build on each other.

* `TypeCorrect` by `TypeInv`, which adds to the types which screens a request holds at
  which stage. `OverlayDecorates` (`OverlayOnlyDecorates`) follows from types alone:
  whatever the overlay holds, a merge has the name and the symbols of TDA's list.
* `OthersSymbolsStay` (`OnlyAskedSymbolsLeave`) by `IdsInv` (ids at TDA are distinct, no
  list, row or decoration has an id yet to be given) and `SendInv`: until others
  interfere, a screen still to be sent covers what TDA has under its id, apart from the
  symbol the request takes out. The second screen of a transfer to the same list covers
  the first.
* `DecorationsAreKept` (`DecorationsSurvive`) by `KeptInv`: the overlay carries every
  acknowledged pin and flag of a list TDA has, whichever provider acknowledged it, but
  for what a failed write emptied; TDA has the symbol, the screens about to
  be sent have it too, and nothing the present request takes back is among them.
* `AnswersTrue` (`AnswersComeTrue`) by four more: `OnceInv` (no symbol twice at either
  side until TDA was sent one), `SeenInv` (the edited screens say what was asked),
  `DoneInv` (undisturbed, TDA has the last screen sent for each list) and `AnswerInv`
  (what was asked shows in the merge from the moment the overlay is saved).

**Chart annotations** (`ChartAnnotationsProofs`), for any depth, charts and markers;
assumed are a finite set of charts and one level of nested keys.

* `TypeCorrect`, `HistoriesStayOrdered` (`HistoryWellKept`) and `VersionsKeepTheirMeaning`
  (`VersionsAreImmutable`) by `KeptInv`. A history may come back from anywhere: the file,
  the last content saved, the tree of a process, the job of an edit. The
  invariant speaks of all histories in play at once: each is bounded and ordered, and any
  two give a version id the same drawing.
* `EditsUndo` (`EditsCanBeUndone`) and `RollbacksRestore` (`RollbackRestores`) by `EditInv`:
  the job of an edit can be undone and brings back the version asked for, and the tree to
  be written holds the chart as that job left it.

**Session** (`SchwabSessionProofs`): `TypeCorrect`.

* `OnlyGrantedStored` by `AllGranted`, which follows a text from the response through
  the temporary file, wherever its name has moved, to file and keychain.
* `SavedSessionKept` by `Orderly`: until two writers meet, the temporary file is blank
  exactly while its one writer holds it open, complete when it is renamed, and the
  second try with its two removals is never reached.
* `NewestIsStored` and `ReauthWhenEnded` by `CalmInv`: with one call at a time and no
  fault, what is being written is current (the honoured token, with a week from the
  newest response), and file and keychain are current unless the call under way has a
  response to save. A response leaves the refresh token in place only if the broker
  honours it, so the parsed tokens are current as well.

**IBKR snapshot** (`IbkrSnapshotProofs`).

* `TypeCorrect`; `StreamIsKept`, the refinement of
  `MessageStream`, by `StreamInv`: the messages handled, those in the queue, the one in
  the reader's hand and what is on the wire are, in this order, the messages sent, up
  to the point where the connection broke; after padding or a cut nothing follows.
  `WakeupsAreKept` by `WakeInv`: a message is queued before its signal is given, and
  the signal is cleared before the queue is emptied.
* `SnapshotsAreWhole` by `WholeInv` (a damaged message means that
  the socket is gone, so the cancellations complain and the snapshot is judged a
  failure; TWS sends rows before their ends, and what was handled is a prefix of what
  was sent).
* `HangUpStaysQuiet` (`HangUpIsQuiet`) by `QuietInv`: while TWS has not ended the
  connection, the socket is open until `Disconnect`, so that the reader has nothing to
  complain of before; what it notices afterwards is the closed descriptor (error 509),
  and by then `disconnecting_` is set, so its check, whenever it runs, passes over the
  two writes. `LeavingInv` (once `leaving` is set only the judgement and the destruction
  are left) and `KindsInv` (TWS sends what the session knows) carry it. When TWS ends
  the connection the invariant really fails: the reader may have passed the check, and
  writes both after the judgement; this is why the property says `~cut`.

**Lemmas** (`SequenceLemmas`): what the sieve, insertion, removal, searching, flattening
and the edits of rows do to a sequence, element by element. The library's induction
theorems take an operator as a parameter, which the installed provers cannot
instantiate. The lemmas therefore use a first-order form: a set of numbers that is
closed under successor holds every number up to a bound (`UpwardClosed`, from the least
element `WFMin` gives), and a recursive function is characterised by its steps
(`Stepwise`). `Sifted`, `AddedAll` and `FlattenSeq` are treated this way.

TLAPS 1.4.5 cannot do liveness or `ENABLED`: `FetchReturns` is model-checked only. The
four properties of the violation runs are false. Every other property of
the runs is a theorem. The strengthened invariants of `TdaWatchlists` and `IbkrSnapshot`
were checked with TLC on the instances of `watchlists_tda` and `ibkr_snapshot` before
they were proved.

## 5. Disagreements between the code and what it says of itself

1. Two processes on `orders.json`: an acknowledged cancellation is undone by a
   submission that had read the file before (`orders_reopen`).
2. Rolling back to the oldest version of a full history reads an erased map node
   (`charts_rollback`).
3. Two simultaneous token refreshes, both successful, leave no token file: the loser's
   rename fails, and the fallback removes the winner's file (`sessions_clash`).
4. "ibkr handshake timed out" is what the code says after five seconds, but the first
   answer of TWS is waited for inside `eConnect`, without a limit; an answer that
   redirects the client makes `eConnect` loop for ever (`ibkr_silent`).

Smaller ones, told by the models without a run: a lost Schwab answer turns a live order
into a "simulated" one; a cancellation Schwab did not carry out is offered to TDA and
reported as cancelled whatever TDA did with it; when a reboot or an unmoved clock gives
an order's id to a second one, only the first can be cancelled; "custom notes stay local
to this desktop session", but the chart view overwrites the service's file; deleting the
last watchlist shows the demonstration lists; a TDA submission reported as live carries
no order; a write-back between another process's read and write loses additions to a
watchlist (excluded in `OnlyRemovalsLose` by `stale`); a full device replaces good
tokens by an empty file (`FlushFails`); a snapshot all of whose rows came is thrown away
when TWS closes the connection before the cancellations; when TWS ends the connection
while the client hangs up, the reader thread may set `fatal_error_` after the judgement
and write `error_text_` after its destruction; a full device or a stop in the middle of
a save leaves an empty overlay.

## 6. Not modelled

Abstracted in the modelled parts: prices, quantities and texts of orders, names of
watchlist rows, labels of markers, contents of snapshot rows; no property depends on
them. Of the session, the requests made with the access token, the legacy token path
and an unconfigured Schwab (whose OAuth completion accepts any callback) are left out;
the OAuth state string is created and never compared, so there is nothing to model.
Broker behaviour is modelled from the calls in `src/`, with every outcome the client
can observe.

Left out altogether:

* `ConnectionService` and `WorkflowService`: statuses are computed anew for each
  request from what `SchwabSession` and `IbkrSnapshot` model; what is stored beside
  them shows only for a provider without configuration.
* Plaid: one exchange of one token that never expires, written once by the writer
  `SecretFile` models.
* Order templates: the read, truncate and flush of `LocalOrders`, by one process and
  without acknowledgements or replacements.
* Accounts, quotes, charts and options: reads that ask brokers in a fixed order and
  keep nothing. RSU grants: floating-point arithmetic over a file that is only read.
* The HTTP loop serves one request at a time; its one effect on state, the exception
  that ends it, is in `LocalOrders` (`ServeOrders`) and `TdaWatchlists` (`Abort`).
* TDA's streaming socket: no code opens a streaming session. The vendor's sample
  client for TWS: a list of test requests. Of the vendored TWS library, which is most
  of the repository's lines together with rendering, the encoding of some seventy
  requests the snapshot does not make and the decoding of their answers.
* JSON serialisation, ImGui rendering, the mobile application and its generated
  client.

## 7. What could follow

* A larger TDA instance: two troubles in one request (the state space grows by an
  order of magnitude for each).
* A run with two snapshots in two processes would show nothing new as long as each
  has a connection of its own.
