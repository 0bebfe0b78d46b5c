------------------------- MODULE OrderRoutingProofs -------------------------
(***************************************************************************)
(* Proofs about the order chain, for every configuration and every number  *)
(* of requests and lost answers.                                           *)
(***************************************************************************)
EXTENDS OrderRouting, TLAPS

USE DEF Brokers, Venues

(* What the stages of the chain know: a request is asked for confirmation  *)
(* before Schwab is asked to act; no order carries the number of a request *)
(* that has not reached its first acting venue; when Schwab's answer was   *)
(* lost, what it did concerns only an order TDA cannot act on.             *)
ChainInv ==
  /\ TypeOK
  /\ req.stage = "schwab_live" => req.confirm
  /\ req.stage # "idle" => requests # 0
  /\ \A o \in ever : o.n <= requests
  /\ \A o \in book : o.venue = "local"
  /\ req.stage = "local_submit" => req.op = "replace" /\ req.target.venue = "local"
  /\ req.stage \in {"schwab", "schwab_live"} => \A o \in ever : o.n # requests
  /\ req.stage = "tda" =>
       \A o \in ever : o.n = requests =>
          /\ o.venue = "schwab"
          /\ req.op = "submit" \/ req.target.venue = "schwab"
  /\ OneLiveOrderPerRequest

LEMMA InitChain == Init => ChainInv
<1> SUFFICES ASSUME Init PROVE ChainInv
  OBVIOUS
<1>1. ASSUME NEW o \in Elsewhere PROVE o \in Orders /\ o.n \in Int /\ o.n < 0
  <2>1. PICK v \in Brokers, i \in 1..External : o = [venue |-> v, n |-> -i]
    BY DEF Elsewhere
  <2> QED
    BY <2>1, RoutingBounds DEF Orders
<1>2. TypeOK
  BY <1>1 DEF Init, TypeOK, Idle, Request, Ops, Stages, NoOrder, Orders
<1> QED
  <2>1. ever = Elsewhere /\ requests = 0 /\ req.stage = "idle" /\ book = {}
    BY DEF Init, Idle
  <2>2. OneLiveOrderPerRequest
    BY <2>1 DEF OneLiveOrderPerRequest
  <2>3. \A o \in ever : o.n <= requests
    BY <1>1, <2>1
  <2> QED
    BY <1>2, <2>1, <2>2, <2>3 DEF ChainInv

(* Serving a request at venue v keeps the order sets typed. *)
LEMMA EffectTyped ==
  ASSUME TypeOK, NEW v \in Venues, Effect(v)
  PROVE  /\ open' \subseteq Orders /\ ever' \subseteq Orders /\ book' = book
         /\ \A o \in ever' : o \in ever \/ (o = PlacedAt(v) /\ req.op # "cancel")
BY DEF TypeOK, Effect, PlacedAt, Orders

(* Answering keeps the request and the answers typed. *)
LEMMA AnswerTyped ==
  ASSUME TypeOK, NEW v \in Venues, NEW o \in Outcomes, Answer(v, o)
  PROVE  req' \in Request /\ replies' \subseteq Reply /\ req'.stage = "idle"
<1>1. req' = Idle /\ Idle \in Request
  BY DEF Answer, Idle, Request, Ops, Stages, NoOrder, Orders
<1>2. [n |-> requests, op |-> req.op, venue |-> v,
       target |-> req.target, outcome |-> o] \in Reply
  BY DEF TypeOK, Request, Reply
<1> QED
  BY <1>1, <1>2 DEF Answer, TypeOK, Idle

(* A venue that acts for the first time on this request opens the only     *)
(* live order of the request.                                              *)
LEMMA StillOneLive ==
  ASSUME ChainInv, NEW v \in Venues, Effect(v), requests' = requests,
         v = "local" \/ \A o \in ever : o.n # requests
  PROVE  /\ OneLiveOrderPerRequest'
         /\ \A o \in ever' : o.n <= requests
         /\ \A o \in ever' : o.n = requests => o \in ever \/ o.venue = v
<1>1. \A o \in ever' : o \in ever \/ o = PlacedAt(v)
  BY EffectTyped DEF ChainInv
<1>2. PlacedAt(v).n = requests /\ PlacedAt(v).venue = v
  BY DEF PlacedAt
<1>3. requests \in Nat
  BY DEF ChainInv, TypeOK
<1>4. OneLiveOrderPerRequest'
  <2> SUFFICES ASSUME NEW n \in 1..requests, NEW a \in ever', NEW b \in ever',
                      a.n = n, b.n = n, a.venue \in Brokers, b.venue \in Brokers
               PROVE  a = b
    BY DEF OneLiveOrderPerRequest, PlacedBy
  <2> QED
    BY <1>1, <1>2 DEF ChainInv, OneLiveOrderPerRequest, PlacedBy
<1>5. \A o \in ever' : o.n <= requests
  BY <1>1, <1>2, <1>3 DEF ChainInv
<1> QED
  BY <1>1, <1>2, <1>4, <1>5

LEMMA NextChain == ChainInv /\ [Next]_vars => ChainInv'
<1> SUFFICES ASSUME ChainInv, [Next]_vars PROVE ChainInv'
  OBVIOUS
<1> USE DEF ChainInv
<1>1. CASE Receive
  <2>1. PICK op \in Ops, confirm \in BOOLEAN, target \in ever \cup {NoOrder} :
          req' = [op |-> op, confirm |-> confirm, target |-> target, stage |-> "schwab"]
    BY <1>1 DEF Receive
  <2>2. req' \in Request /\ req'.stage = "schwab"
    BY <2>1 DEF Request, Stages, TypeOK, NoOrder, Orders
  <2>3. requests' = requests + 1 /\ UNCHANGED <<open, ever, book, lost, replies>>
    BY <1>1 DEF Receive, NoEffect
  <2>4. TypeOK' /\ \A o \in ever' : o.n < requests'
    BY <2>2, <2>3 DEF TypeOK, Orders
  <2>5. OneLiveOrderPerRequest'
    <3> SUFFICES ASSUME NEW n \in 1..(requests + 1), NEW a \in ever, NEW b \in ever,
                        a.n = n, b.n = n, a.venue \in Brokers, b.venue \in Brokers
                 PROVE  a = b
      BY <2>3 DEF OneLiveOrderPerRequest, PlacedBy
    <3>1. n \in 1..requests
      BY DEF TypeOK
    <3> QED
      BY <3>1 DEF OneLiveOrderPerRequest, PlacedBy
  <2>6. /\ \A o \in ever' : o.n <= requests' /\ o.n # requests'
        /\ \A o \in book' : o.venue = "local"
        /\ requests' # 0
    BY <2>3, <2>4 DEF TypeOK, Orders
  <2> QED
    BY <2>2, <2>4, <2>5, <2>6
<1>2. CASE SchwabUnavailable \/ SchwabPreview \/ TdaUnavailable
  <2>1. TypeOK'
    BY <1>2 DEF SchwabUnavailable, SchwabPreview, TdaUnavailable, Goto, NoEffect,
                TypeOK, Request, Stages
  <2> QED
    BY <1>2, <2>1 DEF SchwabUnavailable, SchwabPreview, TdaUnavailable, Goto, NoEffect,
                      TypeOK, Request, OneLiveOrderPerRequest, PlacedBy
<1>3. CASE SchwabNotConfirmed \/ TdaNotConfirmed \/ LocalError
  <2>1. PICK v \in Venues, out \in Outcomes : Answer(v, out)
    BY <1>3 DEF SchwabNotConfirmed, TdaNotConfirmed, LocalError, Outcomes
  <2>2. UNCHANGED <<open, ever, book, requests, lost>>
    BY <1>3 DEF SchwabNotConfirmed, TdaNotConfirmed, LocalError, NoEffect
  <2> QED
    BY <2>1, <2>2, AnswerTyped DEF TypeOK, OneLiveOrderPerRequest, PlacedBy
<1>4. CASE SchwabLive
  <2>1. Effect("schwab") /\ UNCHANGED <<requests, lost>> /\ req.stage = "schwab_live"
    BY <1>4 DEF SchwabLive
  <2>2. PICK out \in Outcomes : Answer("schwab", out)
    BY <1>4 DEF SchwabLive, LiveOutcome, Outcomes, TypeOK, Request, Ops
  <2> QED
    BY <2>1, <2>2, AnswerTyped, EffectTyped, StillOneLive DEF TypeOK
<1>5. CASE SchwabAnswerLost
  <2>1. /\ Effect("schwab") /\ UNCHANGED <<requests, replies>>
        /\ req.stage = "schwab_live" /\ lost' = lost + 1
        /\ req' = [req EXCEPT !.stage = "tda"] /\ Applies("schwab")
    BY <1>5 DEF SchwabAnswerLost, Goto
  <2>2. req' \in Request /\ req'.stage = "tda" /\ req'.op = req.op /\ req'.target = req.target
    BY <2>1 DEF TypeOK, Request, Stages
  <2>3. TypeOK'
    BY <2>1, <2>2, EffectTyped DEF TypeOK
  <2>4. OneLiveOrderPerRequest' /\ \A o \in ever' : o.n <= requests
    BY <2>1, StillOneLive
  <2>5. \A o \in ever' : o.n = requests => o.venue = "schwab"
    BY <2>1, StillOneLive
  <2>6. req.op = "submit" \/ req.target.venue = "schwab"
    BY <2>1 DEF Applies
  <2>7. \A o \in book' : o.venue = "local"
    BY <2>1 DEF Effect
  <2>8. req.stage # "idle" /\ requests' = requests
    BY <2>1
  <2> QED
    BY <2>2, <2>3, <2>4, <2>5, <2>6, <2>7, <2>8
<1>6. CASE TdaLive
  <2>1. PICK out \in Outcomes : Answer("tda", out)
    BY <1>6 DEF TdaLive, LiveOutcome, Outcomes, TypeOK, Request, Ops
  <2>2. UNCHANGED <<requests, lost>> /\ req.stage = "tda"
    BY <1>6 DEF TdaLive
  <2>3. CASE TdaActs /\ Effect("tda")
    <3>1. \A o \in ever : o.n # requests
      BY <2>2, <2>3 DEF TdaActs, Applies
    <3> QED
      BY <2>1, <2>2, <2>3, <3>1, AnswerTyped, EffectTyped, StillOneLive DEF TypeOK
  <2>4. CASE NoEffect
    BY <2>1, <2>2, <2>4, AnswerTyped DEF NoEffect, TypeOK, OneLiveOrderPerRequest, PlacedBy
  <2> QED
    BY <1>6, <2>3, <2>4 DEF TdaLive
<1>7. CASE LocalSubmits
  <2>1. /\ Answer("local", "accepted") /\ "accepted" \in Outcomes /\ UNCHANGED <<requests, lost>>
        /\ open' = open \cup {PlacedAt("local")}
        /\ ever' = ever \cup {PlacedAt("local")}
        /\ book' = book \cup {PlacedAt("local")}
    BY <1>7 DEF LocalSubmits, Outcomes
  <2>2. PlacedAt("local") \in Orders /\ PlacedAt("local").venue = "local"
        /\ PlacedAt("local").n = requests
    BY DEF PlacedAt, Orders, TypeOK
  <2>3. OneLiveOrderPerRequest'
    BY <2>1, <2>2 DEF OneLiveOrderPerRequest, PlacedBy
  <2>4. TypeOK'
    BY <2>1, <2>2, AnswerTyped DEF TypeOK
  <2>5. \A o \in ever' : o.n <= requests'
    BY <2>1, <2>2 DEF TypeOK
  <2> QED
    BY <2>1, <2>2, <2>3, <2>4, <2>5, AnswerTyped
<1>9. CASE LocalCancels /\ req.op = "cancel"
  <2>1. /\ Answer("local", "cancelled") /\ "cancelled" \in Outcomes
        /\ UNCHANGED <<ever, book, requests, lost>> /\ open' \subseteq open
    BY <1>9 DEF LocalCancels, Outcomes
  <2> QED
    BY <2>1, AnswerTyped DEF TypeOK, OneLiveOrderPerRequest, PlacedBy
<1>10. CASE LocalCancels /\ req.op # "cancel"
  <2>1. /\ req' = [req EXCEPT !.stage = "local_submit"] /\ req.op # "submit"
        /\ req.target \in book
        /\ UNCHANGED <<ever, book, requests, lost, replies>> /\ open' \subseteq open
    BY <1>10 DEF LocalCancels, LocalKnows, Goto
  <2>2. /\ req' \in Request /\ req'.stage = "local_submit" /\ req'.op = "replace"
        /\ req'.target.venue = "local"
    BY <1>10, <2>1 DEF TypeOK, Request, Stages, Ops
  <2>3. TypeOK'
    BY <2>1, <2>2 DEF TypeOK
  <2>4. OneLiveOrderPerRequest'
    BY <2>1 DEF OneLiveOrderPerRequest, PlacedBy
  <2>5. \A o \in ever' : o.n <= requests'
    BY <2>1
  <2>6. \A o \in book' : o.venue = "local"
    BY <2>1
  <2>7. requests' # 0
    BY <1>10, <2>1 DEF LocalCancels
  <2> QED
    BY <2>2, <2>3, <2>4, <2>5, <2>6, <2>7
<1>11. CASE LocalWriteFails
  <2>1. /\ Answer("local", "error") /\ "error" \in Outcomes
        /\ UNCHANGED <<ever, requests, lost>> /\ open' \subseteq open /\ book' \subseteq book
    BY <1>11 DEF LocalWriteFails, Outcomes
  <2> QED
    BY <2>1, AnswerTyped DEF TypeOK, OneLiveOrderPerRequest, PlacedBy
<1>8. CASE UNCHANGED vars
  BY <1>8 DEF vars, TypeOK, OneLiveOrderPerRequest, PlacedBy
<1> QED
  BY <1>1, <1>2, <1>3, <1>4, <1>5, <1>6, <1>7, <1>8, <1>9, <1>10, <1>11 DEF Next

THEOREM ChainInvHolds == Spec => []ChainInv
BY InitChain, NextChain, PTL DEF Spec

(* A request opens at most one order at the brokers, however many answers  *)
(* are lost and however far it falls through the chain.                    *)
THEOREM OneLiveOrder == Spec => []OneLiveOrderPerRequest
<1>1. ChainInv => OneLiveOrderPerRequest
  BY DEF ChainInv
<1> QED
  BY <1>1, ChainInvHolds, PTL

(* The local book's steps leave the brokers' orders alone. *)
LEMMA LocalLeavesLive ==
  ASSUME ChainInv, LocalCancels \/ LocalSubmits \/ LocalWriteFails
  PROVE  LiveOrders' = LiveOrders
<1>1. PlacedAt("local").venue = "local"
  BY DEF PlacedAt
<1>2. CASE LocalCancels
  <2>1. req.target.venue = "local"
    BY <1>2 DEF LocalCancels, LocalKnows, ChainInv
  <2> QED
    BY <1>2, <2>1 DEF LocalCancels, LiveOrders
<1>3. CASE LocalSubmits
  BY <1>1, <1>3 DEF LocalSubmits, LiveOrders
<1>4. CASE LocalWriteFails
  BY <1>4 DEF LocalWriteFails, LiveOrders, ChainInv
<1> QED
  BY <1>2, <1>3, <1>4

(* No order at a broker opens or closes on behalf of a request that does   *)
(* not carry confirmLive.                                                  *)
THEOREM NothingLiveUnconfirmed == Spec => LiveNeedsConfirmation
<1>1. ChainInv /\ [Next]_vars => [LiveOrders' # LiveOrders => req.confirm]_vars
  <2> SUFFICES ASSUME ChainInv, Next, LiveOrders' # LiveOrders
               PROVE  req.confirm
    OBVIOUS
  <2>1. CASE SchwabLive \/ SchwabAnswerLost
    BY <2>1 DEF SchwabLive, SchwabAnswerLost, ChainInv
  <2>2. CASE TdaLive
    BY <2>2 DEF TdaLive
  <2>3. CASE LocalCancels \/ LocalSubmits \/ LocalWriteFails
    BY <2>3, LocalLeavesLive
  <2>4. CASE \/ Receive \/ SchwabUnavailable \/ SchwabPreview
             \/ SchwabNotConfirmed \/ TdaUnavailable \/ TdaNotConfirmed \/ LocalError
    BY <2>4 DEF Receive, SchwabUnavailable, SchwabPreview, SchwabNotConfirmed,
                TdaUnavailable, TdaNotConfirmed, LocalError, NoEffect, LiveOrders
  <2> QED
    BY <2>1, <2>2, <2>3, <2>4 DEF Next
<1> QED
  BY <1>1, ChainInvHolds, PTL DEF Spec, LiveNeedsConfirmation

------------------------------------------------------------------------------
(* The type invariant of the chain. *)
THEOREM TypeCorrect == Spec => []TypeOK
<1>1. ChainInv => TypeOK
  BY DEF ChainInv
<1> QED
  BY <1>1, ChainInvHolds, PTL

(* What the answers rest on: an order that a venue is about to open is not *)
(* known to anyone yet, and until an answer is lost no venue before it has *)
(* opened one for the same request; a request and an answer name orders    *)
(* that exist, and a request is answered once.                             *)
AnswerInv ==
  /\ open \subseteq ever /\ book \subseteq ever
  /\ req.stage # "idle" /\ req.op # "submit" =>
       req.target \in ever /\ req.target.n # requests
  /\ req.stage \in {"local", "local_submit"} => PlacedAt("local") \notin ever
  /\ req.stage = "local_submit" => req.target \notin open
  /\ req.stage \in {"tda", "local", "local_submit"} /\ lost = 0 => \A o \in ever : o.n # requests
  /\ \A r \in replies : /\ r.op # "submit" => r.target \in ever
                        /\ r.n \in 1..requests
                        /\ req.stage # "idle" => r.n # requests
  /\ OneOrderPerRequest
  /\ AnswersAreTrue
  /\ ReplacedOnce

(* What a request that is served does to the orders, wherever it is: the   *)
(* second write of a local replacement finds its target closed already.    *)
Serves(v) ==
  LET gone == IF req.op = "submit" THEN {} ELSE {req.target}
      new  == IF req.op = "cancel" THEN {} ELSE {PlacedAt(v)}
  IN  open' = (open \ gone) \cup new /\ ever' = ever \cup new

LEMMA InitAnswer == Init => AnswerInv
<1> SUFFICES ASSUME Init PROVE AnswerInv
  OBVIOUS
<1>1. /\ open = ever /\ book = {} /\ replies = {} /\ requests = 0
      /\ req.stage = "idle"
  BY DEF Init, Idle
<1> QED
  BY <1>1 DEF AnswerInv, OneOrderPerRequest, AnswersAreTrue, ReplacedOnce

(* The order a venue opens is new to everybody.                            *)
LEMMA FreshOrder ==
  ASSUME ChainInv, AnswerInv
  PROVE  /\ req.stage = "schwab_live" => PlacedAt("schwab") \notin ever
         /\ req.stage = "tda" => PlacedAt("tda") \notin ever
         /\ req.stage \in {"local", "local_submit"} => PlacedAt("local") \notin ever
         /\ req.stage = "schwab_live"
              \/ (req.stage \in {"tda", "local", "local_submit"} /\ lost = 0)
              => \A o \in ever : o.n # requests
BY DEF ChainInv, AnswerInv, PlacedAt

(* Serving a request with an order that is new keeps what is known of the  *)
(* answers already given: what they acknowledged stays true.               *)
LEMMA EffectKeepsAnswers ==
  ASSUME ChainInv, AnswerInv, NEW v \in Venues, Serves(v), PlacedAt(v) \notin ever,
         requests' = requests, lost' \in Nat,
         lost' # 0 \/ (lost = 0 /\ \A o \in ever : o.n # requests)
  PROVE  /\ open' \subseteq ever' /\ ever \subseteq ever'
         /\ OneOrderPerRequest'
         /\ \A o \in ever : o \notin open => o \notin open'
<1>1. PICK gone, new :
        /\ new \subseteq {PlacedAt(v)}
        /\ open' = (open \ gone) \cup new /\ ever' = ever \cup new
  BY DEF Serves
<1>2. OneOrderPerRequest'
  <2> SUFFICES ASSUME lost' = 0, NEW n \in 1..requests,
                      NEW a \in ever', NEW b \in ever', a.n = n, b.n = n
               PROVE  a = b
    BY DEF OneOrderPerRequest, PlacedBy
  <2>1. PlacedAt(v).n = requests
    BY DEF PlacedAt
  <2> QED
    BY <1>1, <2>1 DEF AnswerInv, OneOrderPerRequest, PlacedBy
<1> QED
  BY <1>1, <1>2 DEF AnswerInv

(* What closes the order to be replaced before, or as, it opens another    *)
(* keeps replaced orders closed.                                           *)
LEMMA EffectKeepsReplaced ==
  ASSUME ChainInv, AnswerInv, NEW v \in Venues, Serves(v), PlacedAt(v) \notin ever,
         req.stage # "idle", requests' = requests,
         \A n, o : Replacing(n, o)' => Replacing(n, o)
  PROVE  ReplacedOnce'
<1> SUFFICES ASSUME NEW n \in 1..requests, NEW o \in open', Replacing(n, o)'
             PROVE  PlacedBy(n)' = {}
  BY DEF ReplacedOnce
<1>1. Replacing(n, o)
  OBVIOUS
<1>2. o \in ever
  BY <1>1 DEF Replacing, AnswerInv
<1>3. o \in open /\ (req.op # "submit" => o # req.target)
  BY <1>2 DEF Serves
<1>4. PICK r \in replies : r.op = "replace" /\ r.n = n /\ r.target = o
  BY <1>1, <1>3 DEF Replacing
<1>5. n # requests /\ PlacedBy(n) = {}
  BY <1>1, <1>3, <1>4 DEF AnswerInv, ReplacedOnce
<1>6. \A x \in ever' : x \in ever \/ x.n = requests
  BY DEF Serves, PlacedAt
<1> QED
  BY <1>5, <1>6 DEF PlacedBy

(* Closing orders, or going on with the request, opens none.               *)
LEMMA ClosingKeepsReplaced ==
  ASSUME ReplacedOnce, open' \subseteq open, ever' = ever, requests' = requests,
         \A n, o : Replacing(n, o)' => Replacing(n, o)
  PROVE  ReplacedOnce'
BY DEF ReplacedOnce, PlacedBy

LEMMA AnswerKeepsReplacing ==
  ASSUME NEW v, NEW out, Answer(v, out), req.stage # "idle", requests' = requests
  PROVE  \A n, o : Replacing(n, o)' => Replacing(n, o)
<1>1. ~(req'.stage # "idle")
  BY DEF Answer, Idle
<1>2. \A r \in replies' :
        r \in replies \/ (r.op = req.op /\ r.n = requests /\ r.target = req.target)
  BY DEF Answer
<1> QED
  BY <1>1, <1>2 DEF Replacing

LEMMA GotoKeepsReplacing ==
  ASSUME TypeOK, NEW stage, req' = [req EXCEPT !.stage = stage], req.stage # "idle",
         requests' = requests, replies' = replies
  PROVE  \A n, o : Replacing(n, o)' => Replacing(n, o)
<1>1. req'.op = req.op /\ req'.target = req.target
  BY DEF TypeOK, Request
<1> QED
  BY <1>1 DEF Replacing

(* An answer that is true when it is given.                                *)
LEMMA AnswerKeepsAnswers ==
  ASSUME ChainInv, AnswerInv, NEW v \in Venues, NEW out, Answer(v, out),
         req.stage # "idle", requests' = requests, requests # 0,
         ever \subseteq ever', \A o \in ever : o \notin open => o \notin open',
         req.op # "cancel" /\ v # "tda" /\ out \in {"submitted", "replaced", "accepted"}
           => PlacedAt(v) \in ever',
         v # "tda" /\ req.op # "submit" /\ out \notin {"not_sent", "error"}
           => req.target \notin open'
  PROVE  /\ AnswersAreTrue'
         /\ \A r \in replies' : /\ r.op # "submit" => r.target \in ever'
                                /\ r.n \in 1..requests
<1> DEFINE new == [n |-> requests, op |-> req.op, venue |-> v,
                   target |-> req.target, outcome |-> out]
<1>1. replies' = replies \cup {new}
  BY DEF Answer
<1>2. ASSUME NEW r \in replies
      PROVE  /\ (r.op # "cancel" /\ r.venue # "tda"
                  /\ r.outcome \in {"submitted", "replaced", "accepted"})
                  => [venue |-> r.venue, n |-> r.n] \in ever'
             /\ (r.venue # "tda" /\ r.op # "submit" /\ r.outcome \notin {"not_sent", "error"})
                  => r.target \notin open'
             /\ r.op # "submit" => r.target \in ever'
             /\ r.n \in 1..requests
  BY DEF AnswerInv, AnswersAreTrue
<1>3. (new.op # "submit" => new.target \in ever') /\ new.n \in 1..requests
  BY DEF AnswerInv, ChainInv, TypeOK
<1>4. [venue |-> new.venue, n |-> new.n] = PlacedAt(v)
  BY DEF PlacedAt
<1>5. /\ (new.op # "cancel" /\ new.venue # "tda"
           /\ new.outcome \in {"submitted", "replaced", "accepted"})
           => [venue |-> new.venue, n |-> new.n] \in ever'
      /\ (new.venue # "tda" /\ new.op # "submit" /\ new.outcome \notin {"not_sent", "error"})
           => new.target \notin open'
  BY <1>4
<1> QED
  BY <1>1, <1>2, <1>3, <1>5 DEF AnswersAreTrue

(* Where a venue serves the request and says so, its answer is true.       *)
LEMMA ServedIsTrue ==
  ASSUME ChainInv, AnswerInv, NEW v \in Venues, Serves(v), PlacedAt(v) \notin ever,
         req.stage # "idle"
  PROVE  /\ req.op # "cancel" => PlacedAt(v) \in ever'
         /\ req.op # "submit" => req.target \notin open'
<1>1. req.op # "submit" => req.target.n # requests
  BY DEF AnswerInv
<1>2. PlacedAt(v).n = requests
  BY DEF PlacedAt
<1> QED
  BY <1>1, <1>2 DEF Serves

LEMMA NextAnswer == ChainInv /\ AnswerInv /\ [Next]_vars => AnswerInv'
<1> SUFFICES ASSUME ChainInv, AnswerInv, [Next]_vars PROVE AnswerInv'
  OBVIOUS
<1>0. lost \in Nat /\ requests \in Nat /\ (req.stage # "idle" => requests # 0)
  BY DEF ChainInv, TypeOK
<1>1. CASE Receive
  <2>1. PICK op \in Ops, confirm \in BOOLEAN, target \in ever \cup {NoOrder} :
          /\ op = "submit" <=> target = NoOrder
          /\ req' = [op |-> op, confirm |-> confirm, target |-> target, stage |-> "schwab"]
    BY <1>1 DEF Receive
  <2>2. /\ requests' = requests + 1 /\ req.stage = "idle"
        /\ open' = open /\ ever' = ever /\ book' = book /\ lost' = lost /\ replies' = replies
    BY <1>1 DEF Receive, NoEffect
  <2>3. \A o \in ever : o.n \in Int /\ o.n # requests + 1
    BY <1>0 DEF ChainInv, TypeOK, Orders
  <2>4. req'.op # "submit" => req'.target \in ever' /\ req'.target.n # requests'
    BY <2>1, <2>2, <2>3
  <2>5. OneOrderPerRequest'
    <3> SUFFICES ASSUME lost = 0, NEW n \in 1..(requests + 1),
                        NEW a \in ever, NEW b \in ever, a.n = n, b.n = n
                 PROVE  a = b
      BY <2>2 DEF OneOrderPerRequest, PlacedBy
    <3>1. n \in 1..requests
      BY <1>0, <2>3
    <3> QED
      BY <3>1 DEF AnswerInv, OneOrderPerRequest, PlacedBy
  <2>6. req'.stage = "schwab"
    BY <2>1
  <2>7. AnswersAreTrue'
    BY <2>2 DEF AnswerInv, AnswersAreTrue
  <2>8. /\ open' \subseteq ever' /\ book' \subseteq ever'
        /\ \A r \in replies' : /\ r.op # "submit" => r.target \in ever'
                               /\ r.n \in 1..requests' /\ r.n # requests'
    BY <1>0, <2>2 DEF AnswerInv
  <2>9. ReplacedOnce'
    <3> SUFFICES ASSUME NEW n \in 1..(requests + 1), NEW o \in open, Replacing(n, o)'
                 PROVE  PlacedBy(n) = {}
      BY <2>2 DEF ReplacedOnce, PlacedBy
    <3>1. CASE n = requests + 1
      BY <2>3, <3>1 DEF PlacedBy
    <3>2. CASE n # requests + 1
      <4>1. n \in 1..requests /\ Replacing(n, o)
        BY <1>0, <2>2, <3>2 DEF Replacing
      <4> QED
        BY <4>1 DEF AnswerInv, ReplacedOnce
    <3> QED
      BY <3>1, <3>2
  <2> QED
    BY <2>4, <2>5, <2>6, <2>7, <2>8, <2>9 DEF AnswerInv
<1>2. CASE SchwabUnavailable \/ SchwabPreview \/ TdaUnavailable
  <2>1. PICK stage \in {"schwab_live", "tda", "local"} : req' = [req EXCEPT !.stage = stage]
    BY <1>2 DEF SchwabUnavailable, SchwabPreview, TdaUnavailable, Goto
  <2>2. req'.stage = stage /\ req'.op = req.op /\ req'.target = req.target
    BY <2>1 DEF ChainInv, TypeOK, Request
  <2>3. /\ open' = open /\ ever' = ever /\ book' = book /\ requests' = requests
        /\ lost' = lost /\ replies' = replies
    BY <1>2 DEF SchwabUnavailable, SchwabPreview, TdaUnavailable, NoEffect
  <2>4. req.stage # "idle" /\ (stage = "local" => req.stage = "tda")
    BY <1>2, <2>2 DEF SchwabUnavailable, SchwabPreview, TdaUnavailable, Goto,
                      ChainInv, TypeOK, Request
  <2>5. stage = "local" => PlacedAt("local") \notin ever
    BY <2>4 DEF ChainInv, PlacedAt
  <2>6. stage \in {"tda", "local"} /\ lost = 0 => \A o \in ever : o.n # requests
    BY <1>2, <2>2 DEF SchwabUnavailable, SchwabPreview, TdaUnavailable, Goto, ChainInv, AnswerInv
  <2>7. OneOrderPerRequest' /\ AnswersAreTrue'
    BY <2>3 DEF AnswerInv, OneOrderPerRequest, PlacedBy, AnswersAreTrue
  <2>8. PlacedAt("local")' = PlacedAt("local")
    BY <2>3 DEF PlacedAt
  <2>9. req'.stage # "idle" /\ req'.op # "submit" => req'.target \in ever' /\ req'.target.n # requests'
    BY <2>2, <2>3, <2>4 DEF AnswerInv
  <2>10. /\ req'.stage \in {"local", "local_submit"} => PlacedAt("local")' \notin ever'
         /\ req'.stage # "local_submit"
         /\ req'.stage \in {"tda", "local", "local_submit"} /\ lost' = 0
              => \A o \in ever' : o.n # requests'
    BY <2>2, <2>3, <2>5, <2>6, <2>8
  <2>11. /\ open' \subseteq ever' /\ book' \subseteq ever'
         /\ \A r \in replies' : /\ r.op # "submit" => r.target \in ever'
                                /\ r.n \in 1..requests' /\ r.n # requests'
    BY <2>3, <2>4 DEF AnswerInv
  <2>12. ReplacedOnce'
    <3>1. \A n, o : Replacing(n, o)' => Replacing(n, o)
      BY <2>1, <2>3, <2>4, GotoKeepsReplacing DEF ChainInv
    <3> QED
      BY <2>3, <3>1, ClosingKeepsReplaced DEF AnswerInv
  <2> QED
    BY <2>7, <2>9, <2>10, <2>11, <2>12 DEF AnswerInv
<1>3. ASSUME NEW v \in Venues, NEW out, Answer(v, out), req.stage # "idle",
             open' \subseteq open, book' \subseteq book, UNCHANGED <<ever, requests, lost>>,
             v = "tda" \/ out \in {"not_sent", "error"}
      PROVE  AnswerInv'
  <2>0. ever' = ever /\ requests' = requests /\ lost' = lost
    BY <1>3
  <2>1. req'.stage = "idle"
    BY <1>3 DEF Answer, Idle
  <2>2. /\ AnswersAreTrue'
        /\ \A r \in replies' : /\ r.op # "submit" => r.target \in ever'
                               /\ r.n \in 1..requests'
    BY <1>0, <1>3, <2>0, AnswerKeepsAnswers
  <2>3. OneOrderPerRequest'
    BY <2>0 DEF AnswerInv, OneOrderPerRequest, PlacedBy
  <2>4. open' \subseteq ever' /\ book' \subseteq ever'
    BY <1>3, <2>0 DEF AnswerInv
  <2>5. ReplacedOnce'
    <3>1. \A n, o : Replacing(n, o)' => Replacing(n, o)
      BY <1>3, <2>0, AnswerKeepsReplacing
    <3> QED
      BY <1>3, <2>0, <3>1, ClosingKeepsReplaced DEF AnswerInv
  <2> QED
    BY <2>1, <2>2, <2>3, <2>4, <2>5 DEF AnswerInv
<1>4. ASSUME NEW v \in Venues, NEW out, Answer(v, out), req.stage # "idle",
             Serves(v), PlacedAt(v) \notin ever, requests' = requests, lost' = lost,
             book' \subseteq ever', lost = 0 => \A o \in ever : o.n # requests
      PROVE  AnswerInv'
  <2>1. req'.stage = "idle"
    BY <1>4 DEF Answer, Idle
  <2>2. /\ open' \subseteq ever' /\ ever \subseteq ever'
        /\ OneOrderPerRequest'
        /\ \A o \in ever : o \notin open => o \notin open'
    BY <1>0, <1>4, EffectKeepsAnswers
  <2>3. /\ req.op # "cancel" => PlacedAt(v) \in ever'
        /\ req.op # "submit" => req.target \notin open'
    BY <1>4, ServedIsTrue
  <2>4. /\ AnswersAreTrue'
        /\ \A r \in replies' : /\ r.op # "submit" => r.target \in ever'
                               /\ r.n \in 1..requests'
    BY <1>0, <1>4, <2>2, <2>3, AnswerKeepsAnswers
  <2>5. ReplacedOnce'
    <3>1. \A n, o : Replacing(n, o)' => Replacing(n, o)
      BY <1>4, AnswerKeepsReplacing
    <3> QED
      BY <1>4, <3>1, EffectKeepsReplaced
  <2> QED
    BY <1>4, <2>1, <2>2, <2>4, <2>5 DEF AnswerInv
<1>5. CASE SchwabNotConfirmed \/ TdaNotConfirmed \/ LocalError \/ LocalWriteFails
  BY <1>3, <1>5 DEF SchwabNotConfirmed, TdaNotConfirmed, LocalError, LocalWriteFails, NoEffect
<1>6. CASE SchwabLive
  <2>1. Serves("schwab") /\ book' \subseteq ever'
    BY <1>6 DEF SchwabLive, Effect, Serves, AnswerInv
  <2> QED
    BY <1>4, <1>6, <2>1, FreshOrder DEF SchwabLive
<1>7. CASE SchwabAnswerLost
  <2>1. /\ Effect("schwab") /\ requests' = requests /\ replies' = replies
        /\ req.stage = "schwab_live" /\ lost' = lost + 1
        /\ req' = [req EXCEPT !.stage = "tda"]
    BY <1>7 DEF SchwabAnswerLost, Goto
  <2>2. req'.stage = "tda" /\ req'.op = req.op /\ req'.target = req.target
    BY <2>1 DEF ChainInv, TypeOK, Request
  <2>3. lost' \in Nat /\ lost' # 0 /\ PlacedAt("schwab") \notin ever
    BY <1>0, <2>1, FreshOrder
  <2>a. Serves("schwab") /\ book' = book
    BY <2>1 DEF Effect, Serves
  <2>4. /\ open' \subseteq ever' /\ ever \subseteq ever'
        /\ OneOrderPerRequest'
        /\ \A o \in ever : o \notin open => o \notin open'
    BY <2>1, <2>3, <2>a, EffectKeepsAnswers
  <2>5. AnswersAreTrue'
    BY <2>1, <2>4 DEF AnswerInv, AnswersAreTrue
  <2>6. req'.op # "submit" => req'.target \in ever' /\ req'.target.n # requests'
    BY <2>1, <2>2, <2>4 DEF AnswerInv
  <2>7. /\ book' \subseteq ever'
        /\ \A r \in replies' : /\ r.op # "submit" => r.target \in ever'
                               /\ r.n \in 1..requests' /\ r.n # requests'
    BY <2>1, <2>4, <2>a DEF AnswerInv
  <2>8. ReplacedOnce'
    <3>1. \A n, o : Replacing(n, o)' => Replacing(n, o)
      BY <2>1, GotoKeepsReplacing DEF ChainInv
    <3> QED
      BY <2>1, <2>3, <2>a, <3>1, EffectKeepsReplaced
  <2> QED
    BY <2>2, <2>3, <2>4, <2>5, <2>6, <2>7, <2>8 DEF AnswerInv
<1>8. CASE TdaLive
  <2>1. /\ Answer("tda", LiveOutcome[req.op]) /\ req.stage = "tda"
        /\ requests' = requests /\ lost' = lost
    BY <1>8 DEF TdaLive
  <2>2. CASE Effect("tda")
    <3>1. Serves("tda") /\ book' \subseteq ever'
      BY <2>2 DEF Effect, Serves, AnswerInv
    <3> QED
      BY <1>4, <2>1, <3>1, FreshOrder
  <2>3. CASE NoEffect
    BY <1>3, <2>1, <2>3 DEF NoEffect
  <2> QED
    BY <1>8, <2>2, <2>3 DEF TdaLive
<1>9. CASE LocalSubmits
  <2>1. Serves("local") /\ book' \subseteq ever'
    BY <1>9 DEF LocalSubmits, Serves, ChainInv, AnswerInv
  <2>2. req.stage \in {"local", "local_submit"} /\ UNCHANGED <<requests, lost>>
        /\ Answer("local", "accepted")
    BY <1>9 DEF LocalSubmits
  <2> QED
    BY <1>4, <2>1, <2>2, FreshOrder
<1>10. CASE LocalCancels /\ req.op = "cancel"
  <2>1. Serves("local") /\ book' \subseteq ever'
    BY <1>10 DEF LocalCancels, Serves, AnswerInv
  <2> QED
    BY <1>4, <1>10, <2>1, FreshOrder DEF LocalCancels
<1>11. CASE LocalCancels /\ req.op # "cancel"
  <2>1. /\ req' = [req EXCEPT !.stage = "local_submit"] /\ req.stage = "local"
        /\ req.op # "submit" /\ open' = open \ {req.target}
        /\ ever' = ever /\ book' = book /\ requests' = requests
        /\ lost' = lost /\ replies' = replies
    BY <1>11 DEF LocalCancels, LocalKnows, Goto
  <2>2. req'.stage = "local_submit" /\ req'.op = req.op /\ req'.target = req.target
    BY <2>1 DEF ChainInv, TypeOK, Request
  <2>3. PlacedAt("local")' = PlacedAt("local")
    BY <2>1 DEF PlacedAt
  <2>4. OneOrderPerRequest' /\ AnswersAreTrue'
    BY <2>1 DEF AnswerInv, OneOrderPerRequest, PlacedBy, AnswersAreTrue
  <2>5. ReplacedOnce'
    <3>1. \A n, o : Replacing(n, o)' => Replacing(n, o)
      BY <2>1, GotoKeepsReplacing DEF ChainInv
    <3> QED
      BY <2>1, <3>1, ClosingKeepsReplaced DEF AnswerInv
  <2>6. /\ open' \subseteq ever' /\ book' \subseteq ever' /\ req'.target \notin open'
        /\ req'.target \in ever' /\ req'.target.n # requests'
        /\ PlacedAt("local")' \notin ever'
        /\ lost' = 0 => \A o \in ever' : o.n # requests'
    BY <2>1, <2>2, <2>3 DEF AnswerInv
  <2>7. \A r \in replies' : /\ r.op # "submit" => r.target \in ever'
                            /\ r.n \in 1..requests' /\ r.n # requests'
    BY <2>1 DEF AnswerInv
  <2> QED
    BY <2>2, <2>4, <2>5, <2>6, <2>7 DEF AnswerInv
<1>12. CASE UNCHANGED vars
  <2>1. /\ open' = open /\ ever' = ever /\ book' = book /\ req' = req
        /\ requests' = requests /\ lost' = lost /\ replies' = replies
    BY <1>12 DEF vars
  <2> QED
    BY <2>1 DEF AnswerInv, PlacedAt, OneOrderPerRequest, PlacedBy, AnswersAreTrue,
                ReplacedOnce, Replacing
<1> QED
  BY <1>1, <1>2, <1>5, <1>6, <1>7, <1>8, <1>9, <1>10, <1>11, <1>12 DEF Next

THEOREM AnswerInvHolds == Spec => []AnswerInv
BY InitAnswer, NextAnswer, ChainInvHolds, PTL DEF Spec

(* Falling through the chain never doubles an order as long as no answer   *)
(* was lost.                                                               *)
THEOREM OneOrder == Spec => []OneOrderPerRequest
<1>1. AnswerInv => OneOrderPerRequest
  BY DEF AnswerInv
<1> QED
  BY <1>1, AnswerInvHolds, PTL

(* What Schwab and the local book acknowledged stays true: the orders      *)
(* exist, and what was cancelled or replaced is never open again.          *)
THEOREM AnswersStayTrue == Spec => []AnswersAreTrue
<1>1. AnswerInv => AnswersAreTrue
  BY DEF AnswerInv
<1> QED
  BY <1>1, AnswerInvHolds, PTL

(* An order whose replacement was opened at any venue is closed for good,  *)
(* whatever was lost or failed on the way.                                 *)
THEOREM ReplacedNotDoubled == Spec => []ReplacedOnce
<1>1. AnswerInv => ReplacedOnce
  BY DEF AnswerInv
<1> QED
  BY <1>1, AnswerInvHolds, PTL
==============================================================================
