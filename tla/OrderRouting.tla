---------------------------- MODULE OrderRouting ----------------------------
(***************************************************************************)
(* OrderService: every order request is offered to Schwab; an exception    *)
(* there offers it to TD Ameritrade; an exception there runs it against    *)
(* the local simulated book.  An exception is the only signal, so a broker *)
(* that acted and whose answer was lost looks like one that is not there.  *)
(* The server answers one request at a time; each broker call is a step.   *)
(***************************************************************************)
EXTENDS Integers, FiniteSets

CONSTANTS
  SchwabConfigured,  \* providers/schwab.json holds usable credentials
  TdaConfigured,     \* providers/tda.json holds usable credentials
  External,          \* number of orders placed at each broker by other means
  MaxRequests,       \* bound: requests the clients make
  MaxLost            \* bound: broker answers that get lost

ASSUME ConfiguredAssumption ==
  SchwabConfigured \in BOOLEAN /\ TdaConfigured \in BOOLEAN
ASSUME RoutingBounds == External \in Nat /\ MaxRequests \in Nat /\ MaxLost \in Nat

VARIABLES
  open,      \* the orders open at the three venues
  book,      \* the orders, open or not, that the local file holds
  ever,      \* history: all orders that were ever open
  req,       \* the request being served
  requests,  \* number of requests so far
  lost,      \* number of lost answers so far
  replies    \* history: the answers given to clients

vars == <<open, book, ever, req, requests, lost, replies>>

Brokers == {"schwab", "tda"}
Venues == Brokers \cup {"local"}

(* n is the request that placed the order; orders placed elsewhere have    *)
(* the numbers from -External to -1.                                       *)
Orders == [venue : Venues, n : Int]
Elsewhere == {[venue |-> v, n |-> -i] : v \in Brokers, i \in 1..External}

Ops == {"submit", "cancel", "replace"}
Stages == {"idle", "schwab", "schwab_live", "tda", "local", "local_submit"}
Outcomes == {"not_sent", "submitted", "accepted", "cancelled", "replaced", "error"}

(* The target of a submission has no meaning. *)
NoOrder == [venue |-> "local", n |-> 0]
Request == [op : Ops, confirm : BOOLEAN, target : Orders, stage : Stages]
Idle == [op |-> "submit", confirm |-> FALSE, target |-> NoOrder, stage |-> "idle"]

Reply == [n : Nat, op : Ops, venue : Venues, target : Orders, outcome : Outcomes]

Init ==
  /\ open = Elsewhere /\ ever = Elsewhere /\ book = {}
  /\ req = Idle
  /\ requests = 0 /\ lost = 0
  /\ replies = {}

------------------------------------------------------------------------------
PlacedAt(v) == [venue |-> v, n |-> requests]

Goto(stage) == req' = [req EXCEPT !.stage = stage]

Answer(v, outcome) ==
  /\ req' = Idle
  /\ replies' = replies \cup {[n |-> requests, op |-> req.op, venue |-> v,
                               target |-> req.target, outcome |-> outcome]}

NoEffect == UNCHANGED <<open, ever, book>>

(* What the request does to the orders of a broker when it gets there.     *)
Applies(v) == req.op = "submit" \/ (req.target.venue = v /\ req.target \in open)

Effect(v) ==
  LET gone == IF req.op = "submit" THEN {} ELSE {req.target}
      new  == IF req.op = "cancel" THEN {} ELSE {PlacedAt(v)}
  IN  /\ open' = (open \ gone) \cup new /\ ever' = ever \cup new
      /\ UNCHANGED book

(* A client asks for an order, or to cancel or replace one it knows of.    *)
Receive ==
  /\ req.stage = "idle" /\ requests < MaxRequests
  /\ requests' = requests + 1
  /\ \E op \in Ops, confirm \in BOOLEAN, target \in ever \cup {NoOrder} :
       /\ op = "submit" <=> target = NoOrder
       /\ req' = [op |-> op, confirm |-> confirm, target |-> target,
                  stage |-> "schwab"]
  /\ NoEffect /\ UNCHANGED <<lost, replies>>

(* No session, no such account, or a preview that is refused or lost: the  *)
(* Schwab provider throws before anything was sent.                        *)
SchwabUnavailable ==
  /\ req.stage \in {"schwab", "schwab_live"}
  /\ Goto("tda")
  /\ NoEffect /\ UNCHANGED <<requests, lost, replies>>

(* Faulty: confirmLive is not looked at. *)
SchwabPreviewForAll ==
  /\ req.stage = "schwab" /\ SchwabConfigured
  /\ Goto("schwab_live")
  /\ NoEffect /\ UNCHANGED <<requests, lost, replies>>

(* Session, account and, but for a cancel, the preview are fine. *)
SchwabPreview ==
  /\ req.stage = "schwab" /\ SchwabConfigured /\ req.confirm
  /\ Goto("schwab_live")
  /\ NoEffect /\ UNCHANGED <<requests, lost, replies>>

SchwabNotConfirmed ==
  /\ req.stage = "schwab" /\ SchwabConfigured /\ ~req.confirm
  /\ Answer("schwab", "not_sent")
  /\ NoEffect /\ UNCHANGED <<requests, lost>>

(* Faulty: the status of a cancellation as TD Ameritrade spells it. *)
LiveOutcomeOfTda == [submit |-> "submitted", cancel |-> "CANCELED", replace |-> "replaced"]

LiveOutcome == [submit |-> "submitted", cancel |-> "cancelled", replace |-> "replaced"]

(* Faulty: an answer without a Location header counts as a failure. *)
SchwabLiveNeedsLocation ==
  /\ req.stage = "schwab_live" /\ Applies("schwab")
  /\ Effect("schwab")
  /\ Goto("tda")
  /\ UNCHANGED <<requests, lost, replies>>

(* Faulty: the HTTP status is not looked at. *)
SchwabLiveUnchecked ==
  /\ req.stage = "schwab_live"
  /\ IF Applies("schwab") THEN Effect("schwab") ELSE NoEffect
  /\ Answer("schwab", LiveOutcome[req.op])
  /\ UNCHANGED <<requests, lost>>

(* PlaceOrder, CancelOrder or ReplaceOrder answered with a 2xx status. *)
SchwabLive ==
  /\ req.stage = "schwab_live" /\ Applies("schwab")
  /\ Effect("schwab")
  /\ Answer("schwab", LiveOutcome[req.op])
  /\ UNCHANGED <<requests, lost>>

(* Schwab acted, curl_easy_perform failed: status 0, hence an exception.   *)
SchwabAnswerLost ==
  /\ req.stage = "schwab_live" /\ Applies("schwab") /\ lost < MaxLost
  /\ Effect("schwab")
  /\ lost' = lost + 1
  /\ Goto("tda")
  /\ UNCHANGED <<requests, replies>>

(* The TDA provider throws without credentials and when it has to look     *)
(* the account or a price up and cannot.                                   *)
TdaUnavailable ==
  /\ req.stage = "tda"
  /\ Goto("local")
  /\ NoEffect /\ UNCHANGED <<requests, lost, replies>>

TdaNotConfirmed ==
  /\ req.stage = "tda" /\ TdaConfigured /\ ~req.confirm
  /\ Answer("tda", "not_sent")
  /\ NoEffect /\ UNCHANGED <<requests, lost>>

(* Faulty, for the rest of the chain: the POST would carry the order. *)
TdaWouldPlace == Applies("tda")

(* What TDA does with a request that reaches it.  DELETE and PUT carry the *)
(* bearer token; the POST of place_order_payload does not: the header list *)
(* it builds is dropped and its body is the refresh-token grant instead of *)
(* the order, so TDA has nothing to place.                                 *)
TdaActs == req.op # "submit" /\ Applies("tda")

(* The client looks at neither the transfer's result nor the HTTP status:  *)
(* whatever happened at TDA, the provider reports success.                 *)
TdaLive ==
  /\ req.stage = "tda" /\ TdaConfigured /\ req.confirm
  /\ \/ TdaActs /\ Effect("tda")
     \/ NoEffect
  /\ Answer("tda", LiveOutcome[req.op])
  /\ UNCHANGED <<requests, lost>>

(* The local book does not ask for confirmation: the flag only words the   *)
(* mode and the message.  A cancelled order may be cancelled and replaced  *)
(* again.                                                                  *)
LocalKnows == req.op # "submit" /\ req.target \in book

(* Faulty: an order that was not found is no reason to stop. *)
LocalReplacesAny ==
  /\ req.stage = "local" /\ req.op = "replace"
  /\ open' = IF LocalKnows THEN open \ {req.target} ELSE open
  /\ Goto("local_submit")
  /\ UNCHANGED <<ever, book, requests, lost, replies>>

(* CancelOrder writes the file; ReplaceOrder then goes on to SubmitOrder.  *)
LocalCancels ==
  /\ req.stage = "local" /\ LocalKnows
  /\ open' = open \ {req.target}
  /\ IF req.op = "cancel" THEN Answer("local", "cancelled")
                          ELSE Goto("local_submit") /\ UNCHANGED replies
  /\ UNCHANGED <<ever, book, requests, lost>>

LocalSubmits ==
  /\ req.stage = "local_submit" \/ (req.stage = "local" /\ req.op = "submit")
  /\ open' = open \cup {PlacedAt("local")}
  /\ book' = book \cup {PlacedAt("local")}
  /\ ever' = ever \cup {PlacedAt("local")}
  /\ Answer("local", "accepted")
  /\ UNCHANGED <<requests, lost>>

(* "order not found": an error answer. *)
LocalError ==
  /\ req.stage = "local" /\ req.op # "submit" /\ ~LocalKnows
  /\ Answer("local", "error")
  /\ NoEffect /\ UNCHANGED <<requests, lost>>

(* write_json throws in the first or the second write of the request: the  *)
(* file cannot be opened and stays as it is, or it was truncated and its   *)
(* orders are gone.  What a replacement has cancelled stays cancelled.     *)
(* (Crashes of the server are the subject of LocalOrders.)                 *)
LocalWriteFails ==
  /\ req.stage = "local_submit"
       \/ (req.stage = "local" /\ (req.op = "submit" \/ LocalKnows))
  /\ \/ UNCHANGED <<open, book>>
     \/ open' = open \ book /\ book' = {}
  /\ Answer("local", "error")
  /\ UNCHANGED <<ever, requests, lost>>

Next ==
  \/ Receive
  \/ SchwabUnavailable \/ SchwabPreview \/ SchwabNotConfirmed
  \/ SchwabLive \/ SchwabAnswerLost
  \/ TdaUnavailable \/ TdaNotConfirmed \/ TdaLive
  \/ LocalCancels \/ LocalSubmits \/ LocalError \/ LocalWriteFails

Spec == Init /\ [][Next]_vars

------------------------------------------------------------------------------
(* PROPERTIES *)

TypeOK ==
  /\ open \subseteq Orders /\ ever \subseteq Orders /\ book \subseteq Orders
  /\ req \in Request
  /\ requests \in Nat /\ lost \in Nat
  /\ replies \subseteq Reply

LiveOrders == {o \in open : o.venue \in Brokers}

(* The orders open at the two brokers change only while a request with     *)
(* confirmLive is served, whatever fails on the way through the chain.     *)
LiveNeedsConfirmation == [][LiveOrders' # LiveOrders => req.confirm]_vars

PlacedBy(n) == {o \in ever : o.n = n}

(* However answers are lost and requests fall through, one request never   *)
(* opens more than one order at the brokers.                               *)
OneLiveOrderPerRequest ==
  \A n \in 1..requests : \A a, b \in PlacedBy(n) :
     a.venue \in Brokers /\ b.venue \in Brokers => a = b

(* Until an answer is lost, one request opens at most one order anywhere:  *)
(* falling through to the next venue never doubles an order.               *)
OneOrderPerRequest ==
  lost = 0 => \A n \in 1..requests : \A a, b \in PlacedBy(n) : a = b

Answered(n, v, outcomes) ==
  \E r \in replies : r.n = n /\ r.venue = v /\ r.outcome \in outcomes

(* An order that Schwab or the local book acknowledged exists there, and   *)
(* one they acknowledged as cancelled or replaced is closed at Schwab for  *)
(* good: no later request, retry or replacement opens it again.            *)
AnswersAreTrue ==
  \A r \in replies :
     /\ (r.op # "cancel" /\ r.venue # "tda"
           /\ r.outcome \in {"submitted", "replaced", "accepted"})
          => [venue |-> r.venue, n |-> r.n] \in ever
     /\ (r.venue # "tda" /\ r.op # "submit" /\ r.outcome \notin {"not_sent", "error"})
          => r.target \notin open

(* The request n is, or was, to replace order o. *)
Replacing(n, o) ==
  \/ req.op = "replace" /\ req.stage # "idle" /\ n = requests /\ o = req.target
  \/ \E r \in replies : r.op = "replace" /\ r.n = n /\ r.target = o

(* Once a replacement of an order was opened at any venue, the order is    *)
(* closed and stays so: neither a lost answer and the venues tried after   *)
(* it, nor a local replacement cut short between its two writes, nor a     *)
(* later request leaves both open.                                         *)
ReplacedOnce ==
  \A n \in 1..requests : \A o \in open :
     Replacing(n, o) => PlacedBy(n) = {}
==============================================================================
