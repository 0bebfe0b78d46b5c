-------------------------- MODULE LocalOrdersProofs --------------------------
(***************************************************************************)
(* Proofs about the local order file, for every set of processes and       *)
(* every bound: the state keeps its types, and the history on disk lists   *)
(* orders as they were submitted whatever interleavings, crashes and       *)
(* reboots happen.  The strengthening also speaks of the trees in memory,  *)
(* because any of them may be the next content of the file, and ties every *)
(* order in them to the tick it drew, because the next order has to follow *)
(* all of them.                                                            *)
(***************************************************************************)
EXTENDS LocalOrders, SequenceTheorems, TLAPS

(* A history of some of the orders that drew the ticks ts. *)
Recorded(s, ts) ==
  /\ Chronological(s)
  /\ \A k \in DOMAIN s : s[k].nth \in DOMAIN ts /\ s[k].id = ts[s[k].nth]

IInv == /\ TypeOK
        /\ Recorded(file.orders, ticks)
        /\ \A p \in Procs : Recorded(buf[p], ticks)

(* Cancelling an order changes no id, no place and no type. *)
LEMMA CancelKeepsIds ==
  ASSUME NEW s \in Orders, NEW id
  PROVE  /\ WithCancelled(s, id) \in Orders
         /\ DOMAIN WithCancelled(s, id) = DOMAIN s
         /\ \A k \in DOMAIN s : /\ WithCancelled(s, id)[k].id = s[k].id
                               /\ WithCancelled(s, id)[k].nth = s[k].nth
<1> DEFINE t == WithCancelled(s, id)
<1>1. DOMAIN t = DOMAIN s
  BY DEF WithCancelled
<1>2. \A k \in DOMAIN s : t[k] \in Order /\ t[k].id = s[k].id /\ t[k].nth = s[k].nth
  <2> SUFFICES ASSUME NEW k \in DOMAIN s
               PROVE  t[k] \in Order /\ t[k].id = s[k].id /\ t[k].nth = s[k].nth
    OBVIOUS
  <2>1. s[k] \in Order
    BY DEF Orders
  <2>2. CASE IsFirst(s, k, id)
    <3>1. t[k] = [s[k] EXCEPT !.status = "cancelled"]
      BY <2>2 DEF WithCancelled
    <3> QED
      BY <2>1, <3>1 DEF Order, Status
  <2>3. CASE ~IsFirst(s, k, id)
    BY <2>1, <2>3 DEF WithCancelled
  <2> QED
    BY <2>2, <2>3
<1>3. t \in Orders
  <2>1. Len(s) \in Nat /\ DOMAIN s = 1..Len(s)
    BY LenProperties DEF Orders
  <2>2. t \in [1..Len(s) -> Order]
    BY <1>2, <2>1 DEF WithCancelled
  <2> HIDE DEF t
  <2> QED
    BY <2>1, <2>2, SeqDef DEF Orders
<1> QED
  BY <1>1, <1>2, <1>3

(* The tick just drawn stands at the end of those drawn, and changes none. *)
LEMMA DrawnTicks ==
  ASSUME NEW ts \in Seq(Nat), NEW t \in Nat
  PROVE  /\ Append(ts, t) \in Seq(Nat)
         /\ Len(ts) \in Nat /\ DOMAIN ts = 1..Len(ts)
         /\ DOMAIN Append(ts, t) = 1..(Len(ts) + 1)
         /\ \A n \in DOMAIN ts : Append(ts, t)[n] = ts[n]
         /\ Append(ts, t)[Len(ts) + 1] = t
BY AppendProperties, LenProperties

(* What was recorded stays so when another tick is drawn. *)
LEMMA LaterTick ==
  ASSUME NEW ts \in Seq(Nat), NEW t \in Nat, NEW s, Recorded(s, ts)
  PROVE  Recorded(s, Append(ts, t))
BY DrawnTicks DEF Recorded

(* The order that drew the tick may be appended. *)
LEMMA AppendTick ==
  ASSUME NEW s \in Orders, NEW ts \in Seq(Nat), NEW t \in Nat, Recorded(s, ts)
  PROVE  /\ NewOrder(t, Len(ts) + 1) \in Order
         /\ Append(s, NewOrder(t, Len(ts) + 1)) \in Orders
         /\ Recorded(Append(s, NewOrder(t, Len(ts) + 1)), Append(ts, t))
<1> DEFINE o == NewOrder(t, Len(ts) + 1)
           new == Append(s, o)
           tn == Append(ts, t)
<1>0. /\ Len(ts) \in Nat /\ DOMAIN ts = 1..Len(ts) /\ DOMAIN tn = 1..(Len(ts) + 1)
      /\ \A n \in DOMAIN ts : tn[n] = ts[n]
      /\ tn[Len(ts) + 1] = t
  BY DrawnTicks
<1>1. o \in Order /\ o.nth = Len(ts) + 1 /\ o.id = t
  BY <1>0 DEF NewOrder, Order, Status
<1> HIDE DEF o, tn
<1>2. new \in Orders /\ DOMAIN new = 1..(Len(s) + 1) /\ Len(s) \in Nat
  BY <1>1, AppendProperties, LenProperties DEF Orders
<1>3. \A k \in DOMAIN s : new[k] = s[k] /\ k <= Len(s)
  BY <1>1, AppendProperties, LenProperties DEF Orders
<1>4. new[Len(s) + 1] = o
  BY <1>1, AppendProperties DEF Orders
<1> HIDE DEF new
<1>5. \A k \in DOMAIN new : k \in DOMAIN s \/ k = Len(s) + 1
  BY <1>2 DEF Orders
<1>6. \A k \in DOMAIN s : s[k].nth \in 1..Len(ts)
  BY <1>0 DEF Recorded
<1>7. \A k \in DOMAIN new : new[k].nth \in DOMAIN tn /\ new[k].id = tn[new[k].nth]
  <2> SUFFICES ASSUME NEW k \in DOMAIN new
               PROVE  new[k].nth \in DOMAIN tn /\ new[k].id = tn[new[k].nth]
    OBVIOUS
  <2>1. CASE k \in DOMAIN s
    BY <1>0, <1>3, <1>6, <2>1 DEF Recorded
  <2>2. CASE k = Len(s) + 1
    BY <1>0, <1>1, <1>4, <2>2
  <2> QED
    BY <1>5, <2>1, <2>2
<1>8. Chronological(new)
  <2> SUFFICES ASSUME NEW i \in DOMAIN new, NEW j \in DOMAIN new, i < j
               PROVE  new[i].nth < new[j].nth
    BY DEF Chronological
  <2>1. CASE j \in DOMAIN s
    BY <1>2, <1>3, <1>5, <2>1 DEF Chronological, Recorded
  <2>2. CASE j = Len(s) + 1
    BY <1>0, <1>1, <1>2, <1>3, <1>4, <1>5, <1>6, <2>2
  <2> QED
    BY <1>5, <2>1, <2>2
<1> QED
  BY <1>1, <1>2, <1>7, <1>8 DEF Recorded, o, new, tn

LEMMA InitIInv == Init => IInv
<1> SUFFICES ASSUME Init PROVE IInv
  OBVIOUS
<1>1. <<>> \in Orders /\ <<>> \in Seq(Nat) /\ \A k \in DOMAIN <<>> : FALSE
  BY DEF Orders
<1>2. NoJob \in Job
  BY <1>1 DEF NoJob, Job
<1>3. file \in File /\ file.orders = <<>>
  BY <1>1 DEF Init, File, Absent, Holding
<1>4. TypeOK
  BY <1>1, <1>2, <1>3 DEF Init, TypeOK, Phases
<1> QED
  BY <1>1, <1>3, <1>4 DEF Init, IInv, Recorded, Chronological

(* Facts about the file that every mutation starts from. *)
LEMMA FileOrders ==
  ASSUME IInv
  PROVE  file.orders \in Orders /\ ticks \in Seq(Nat) /\ Recorded(file.orders, ticks)
<1>1. <<>> \in Orders
  BY EmptySeq DEF Orders
<1> QED
  BY <1>1 DEF IInv, TypeOK, File

(* The tree CancelOrder is about to write. *)
LEMMA CancelledRecorded ==
  ASSUME IInv, NEW id
  PROVE  /\ WithCancelled(file.orders, id) \in Orders
         /\ Recorded(WithCancelled(file.orders, id), ticks)
<1> DEFINE s == file.orders
           t == WithCancelled(s, id)
<1>1. s \in Orders /\ Recorded(s, ticks)
  BY FileOrders
<1>2. /\ t \in Orders /\ DOMAIN t = DOMAIN s
      /\ \A k \in DOMAIN s : t[k].id = s[k].id /\ t[k].nth = s[k].nth
  BY <1>1, CancelKeepsIds
<1> HIDE DEF s, t
<1>3. Recorded(t, ticks)
  BY <1>1, <1>2 DEF Recorded, Chronological
<1> QED
  BY <1>2, <1>3 DEF s, t

(* What PlaceOrder does, once the tick is known. *)
LEMMA Placed ==
  ASSUME NEW p \in Procs, IInv, PlaceOrder(p)
  PROVE  \E t \in Nat \ {0} :
           LET new == Append(buf[p], NewOrder(t, Len(ticks) + 1)) IN
           /\ clock' = t /\ ticks' = Append(ticks, t)
           /\ new \in Orders /\ Recorded(new, ticks')
           /\ buf' = [buf EXCEPT ![p] = new]
           /\ job' = [job EXCEPT ![p].placed = t]
           /\ pc[p] = "parsed" /\ pc' = [pc EXCEPT ![p] = "loaded"]
           /\ UNCHANGED <<file, crashes, acks, chain>>
<1>1. PICK t \in clock..MaxTick : DrawTick(t) /\ AppendNew(p, t)
  BY DEF PlaceOrder
<1>2. t \in Nat \ {0}
  BY <1>1, BoundsAssumption DEF IInv, TypeOK
<1> DEFINE new == Append(buf[p], NewOrder(t, Len(ticks) + 1))
<1>3. /\ clock' = t /\ ticks' = Append(ticks, t)
      /\ buf' = [buf EXCEPT ![p] = new]
      /\ job' = [job EXCEPT ![p].placed = t]
      /\ pc[p] = "parsed" /\ pc' = [pc EXCEPT ![p] = "loaded"]
      /\ UNCHANGED <<file, crashes, acks, chain>>
  BY <1>1 DEF DrawTick, AppendNew, Goto, IInv, TypeOK
<1>4. buf[p] \in Orders /\ ticks \in Seq(Nat) /\ Recorded(buf[p], ticks)
  BY DEF IInv, TypeOK
<1>5. new \in Orders /\ Recorded(new, ticks')
  BY <1>2, <1>3, <1>4, AppendTick
<1> HIDE DEF new
<1> QED
  BY <1>2, <1>3, <1>5 DEF new

(* Every step of a process preserves the strengthening. *)
LEMMA StepIInv ==
  ASSUME IInv, NEW p \in Procs, Step(p)
  PROVE  IInv'
<1> USE DEF IInv
<1>0. /\ file.orders \in Orders /\ ticks \in Seq(Nat) /\ clock \in Nat \ {0}
      /\ NoJob \in Job
      /\ <<>> \in Orders /\ Recorded(<<>>, ticks)
  <2>1. <<>> \in Orders /\ \A k \in DOMAIN <<>> : FALSE
    BY EmptySeq DEF Orders
  <2> QED
    BY <2>1, FileOrders DEF NoJob, Job, Recorded, Chronological, TypeOK
<1>1. ASSUME NEW op \in {"submit", "cancel", "replace"}, NEW id \in Nat,
             Call(p, op, id)
      PROVE  IInv'
  <2>1. job'[p] \in Job
    BY <1>0, <1>1 DEF Call, TypeOK, NoJob, Job
  <2>2. TypeOK'
    BY <1>1, <2>1 DEF Call, Goto, TypeOK, Phases, acks, time
  <2> QED
    BY <1>1, <2>2 DEF Call, acks, time
<1>2. CASE CallSubmit(p) \/ CallCancel(p) \/ CallReplace(p)
  <2>1. \A id \in IdsGiven : id \in Nat
    BY <1>0 DEF IdsGiven
  <2> QED
    BY <1>1, <1>2, <2>1 DEF CallSubmit, CallCancel, CallReplace
<1>3. CASE LoadForSubmit(p)
  <2>1. /\ buf' = [buf EXCEPT ![p] = file.orders]
        /\ pc' = [pc EXCEPT ![p] = "parsed"]
        /\ UNCHANGED <<file, clock, ticks, job, crashes, acks, chain>>
    BY <1>3 DEF LoadForSubmit, ParseForSubmit, Goto, time
  <2>2. TypeOK'
    BY <1>0, <2>1 DEF TypeOK, Phases, acks
  <2>3. \A q \in Procs : Recorded(buf'[q], ticks')
    BY <1>0, <2>1 DEF TypeOK
  <2> QED
    BY <2>1, <2>2, <2>3
<1>4. CASE PlaceOrder(p)
  <2>1. PICK t \in Nat \ {0} :
           LET new == Append(buf[p], NewOrder(t, Len(ticks) + 1)) IN
           /\ clock' = t /\ ticks' = Append(ticks, t)
           /\ new \in Orders /\ Recorded(new, ticks')
           /\ buf' = [buf EXCEPT ![p] = new]
           /\ job' = [job EXCEPT ![p].placed = t]
           /\ pc[p] = "parsed" /\ pc' = [pc EXCEPT ![p] = "loaded"]
           /\ UNCHANGED <<file, crashes, acks, chain>>
    BY <1>4, Placed
  <2> DEFINE new == Append(buf[p], NewOrder(t, Len(ticks) + 1))
  <2>2. new \in Orders /\ Recorded(new, ticks') /\ buf' = [buf EXCEPT ![p] = new]
    BY <2>1
  <2> HIDE DEF new
  <2>3. ticks' \in Seq(Nat)
    BY <1>0, <2>1, DrawnTicks
  <2>4. job' \in [Procs -> Job] /\ pc' \in [Procs -> Phases]
    BY <1>0, <2>1 DEF TypeOK, Phases, Job
  <2>5. TypeOK'
    BY <1>0, <2>1, <2>2, <2>3, <2>4 DEF TypeOK, acks
  <2>6. Recorded(file'.orders, ticks')
    BY <1>0, <2>1, LaterTick
  <2>7. \A q \in Procs : Recorded(buf'[q], ticks')
    <3> SUFFICES ASSUME NEW q \in Procs PROVE Recorded(buf'[q], ticks')
      OBVIOUS
    <3>1. Recorded(buf[q], ticks')
      BY <1>0, <2>1, LaterTick
    <3> QED
      BY <2>2, <3>1 DEF TypeOK
  <2> QED
    BY <2>5, <2>6, <2>7
<1>5. CASE LoadForCancel(p)
  <2> DEFINE t == WithCancelled(file.orders, job[p].target)
  <2>1. t \in Orders /\ Recorded(t, ticks)
    BY CancelledRecorded
  <2> HIDE DEF t
  <2>2. /\ buf' = [buf EXCEPT ![p] = t]
        /\ pc' = [pc EXCEPT ![p] = "loaded"]
        /\ UNCHANGED <<file, clock, ticks, job, crashes, acks, chain>>
    BY <1>5 DEF LoadForCancel, Goto, t, time
  <2>3. TypeOK'
    BY <2>1, <2>2 DEF TypeOK, Phases, acks
  <2>4. \A q \in Procs : Recorded(buf'[q], ticks')
    BY <2>1, <2>2 DEF TypeOK
  <2> QED
    BY <2>2, <2>3, <2>4
<1>6. CASE OrderNotFound(p)
  <2>1. TypeOK'
    BY <1>0, <1>6 DEF OrderNotFound, Goto, TypeOK, Phases, acks, time
  <2> QED
    BY <1>6, <2>1 DEF OrderNotFound, time
<1>7. CASE Truncate(p)
  <2>1. TypeOK'
    BY <1>7 DEF Truncate, Goto, TypeOK, Phases, acks, Empty, File, time
  <2> QED
    BY <1>0, <1>7, <2>1 DEF Truncate, Empty, time
<1>8. CASE Flush(p)
  <2>1. buf[p] \in Orders /\ Recorded(buf[p], ticks)
    BY DEF TypeOK
  <2>2. file' \in File /\ Recorded(file'.orders, ticks)
    BY <1>0, <1>8, <2>1 DEF Flush, Overlay, Holding, Garbled, File
  <2>3. chain' \subseteq Nat \X Nat
    BY <1>8 DEF Flush, NewPair, TypeOK, Job
  <2>4. pc' \in [Procs -> Phases] /\ job' \in [Procs -> Job]
    <3>1. CASE MoreToDo(p)
      <4>1. /\ pc' = [pc EXCEPT ![p] = "called"]
            /\ job' = [job EXCEPT ![p].stage = "submit"]
        BY <1>8, <3>1 DEF Flush, Goto
      <4> QED
        BY <4>1 DEF TypeOK, Phases, Job
    <3>2. CASE ~MoreToDo(p)
      BY <1>8, <3>2 DEF Flush, Goto, TypeOK, Phases
    <3> QED
      BY <3>1, <3>2
  <2>5. buf' = [buf EXCEPT ![p] = <<>>] /\ UNCHANGED <<clock, ticks, crashes, acks>>
    BY <1>8 DEF Flush, time
  <2>6. TypeOK'
    BY <1>0, <2>2, <2>3, <2>4, <2>5 DEF TypeOK, acks
  <2>7. \A q \in Procs : Recorded(buf'[q], ticks')
    BY <1>0, <2>5 DEF TypeOK
  <2> QED
    BY <2>2, <2>5, <2>6, <2>7
<1>9. CASE Respond(p)
  <2>1. cancelAcks' \subseteq Nat /\ submitAcks' \subseteq Nat
    BY <1>9 DEF Respond, TypeOK, Job
  <2>2. TypeOK'
    BY <1>0, <1>9, <2>1 DEF Respond, Goto, TypeOK, Phases, time
  <2> QED
    BY <1>9, <2>2 DEF Respond, time
<1>10. CASE ServeOrders(p) \/ Restart(p)
  <2>1. TypeOK'
    BY <1>10 DEF ServeOrders, Restart, Goto, TypeOK, Phases, acks, time
  <2> QED
    BY <1>10, <2>1 DEF ServeOrders, Restart, time
<1>11. CASE Crash(p) \/ WriteFails(p)
  <2>1. PICK phase \in {"dead", "idle"} :
           /\ pc' = [pc EXCEPT ![p] = phase]
           /\ job' = [job EXCEPT ![p] = NoJob]
           /\ buf' = [buf EXCEPT ![p] = <<>>]
           /\ crashes' = crashes + 1
           /\ file' \in {file, Garbled}
           /\ UNCHANGED <<clock, ticks, acks, chain>>
    BY <1>11 DEF Crash, WriteFails, Goto, time
  <2>2. file' \in File /\ Recorded(file'.orders, ticks)
    BY <1>0, <2>1 DEF Garbled, File, TypeOK
  <2>3. TypeOK'
    BY <1>0, <2>1, <2>2 DEF TypeOK, Phases, acks
  <2>4. \A q \in Procs : Recorded(buf'[q], ticks')
    BY <1>0, <2>1 DEF TypeOK
  <2> QED
    BY <2>1, <2>2, <2>3, <2>4
<1> QED
  BY <1>2, <1>3, <1>4, <1>5, <1>6, <1>7, <1>8, <1>9, <1>10, <1>11 DEF Step, Submit

THEOREM IInvHolds == Spec => []IInv
<1>1. IInv /\ [Next]_vars => IInv'
  <2> SUFFICES ASSUME IInv, [Next]_vars PROVE IInv'
    OBVIOUS
  <2>1. CASE \E p \in Procs : Step(p)
    BY <2>1, StepIInv
  <2>2. CASE Reboot
    <3>0. /\ clock' = 1 /\ pc' = [q \in Procs |-> "dead"]
          /\ UNCHANGED <<file, ticks, job, buf, crashes, acks, chain>>
      BY <2>2 DEF Reboot
    <3>1. TypeOK'
      <4>1. pc' \in [Procs -> Phases]
        BY <3>0 DEF Phases
      <4>2. TypeOK
        BY DEF IInv
      <4> QED
        BY <3>0, <4>1, <4>2 DEF TypeOK, acks
    <3> QED
      BY <2>2, <3>1 DEF Reboot, IInv
  <2>3. CASE UNCHANGED vars
    BY <2>3 DEF vars, acks, IInv, TypeOK
  <2> QED
    BY <2>1, <2>2, <2>3 DEF Next
<1> QED
  BY <1>1, InitIInv, PTL DEF Spec

(* Every variable keeps its type in every reachable state. *)
THEOREM TypeCorrect == Spec => []TypeOK
<1>1. IInv => TypeOK
  BY DEF IInv
<1> QED
  BY <1>1, IInvHolds, PTL

(* The order history on disk lists the orders as they were submitted and   *)
(* none twice, for any processes sharing the file, any crashes and any     *)
(* clock, one that starts again at each reboot included.                   *)
THEOREM HistoryInOrder == Spec => []InSubmissionOrder
<1>1. IInv => InSubmissionOrder
  BY DEF IInv, Recorded, InSubmissionOrder
<1> QED
  BY <1>1, IInvHolds, PTL

------------------------------------------------------------------------------
(***************************************************************************)
(* What the order file promises to a process that has it for itself, for   *)
(* every number of orders and failures: nothing that was cancelled or      *)
(* replaced is open again, an order is never open beside its replacement   *)
(* and until something fails nothing acknowledged is missing.  None of     *)
(* this holds for two processes (LocalOrders_reopen.cfg).                  *)
(***************************************************************************)

(* Histories. *)

Unique(s) == \A j, k \in DOMAIN s : s[j].id = s[k].id => j = k

(* While no tick was drawn twice, no two orders share an id. *)
LEMMA IdsUnique ==
  ASSUME NEW s \in Orders, NEW ts \in Seq(Nat), Recorded(s, ts), Apart(ts)
  PROVE  Unique(s)
<1> SUFFICES ASSUME NEW j \in DOMAIN s, NEW k \in DOMAIN s, s[j].id = s[k].id
             PROVE  j = k
  BY DEF Unique
<1>1. j \in Int /\ k \in Int /\ s[j].nth \in Int /\ s[k].nth \in Int
  <2>1. DOMAIN s = 1..Len(s) /\ Len(s) \in Nat /\ DOMAIN ts = 1..Len(ts) /\ Len(ts) \in Nat
    BY LenProperties DEF Orders
  <2> QED
    BY <2>1 DEF Recorded
<1>2. s[j].nth = s[k].nth
  BY DEF Recorded, Apart
<1>3. ~(j < k) /\ ~(k < j)
  BY <1>1, <1>2 DEF Recorded, Chronological
<1> QED
  BY <1>1, <1>3

(* Cancelling an order opens none, and closes it where ids are unique. *)
LEMMA CancelCloses ==
  ASSUME NEW s \in Orders, NEW id
  PROVE  /\ \A x : ~OpenIn(s, x) => ~OpenIn(WithCancelled(s, id), x)
         /\ Unique(s) => ~OpenIn(WithCancelled(s, id), id)
<1> DEFINE t == WithCancelled(s, id)
<1>1. /\ DOMAIN t = DOMAIN s /\ \A k \in DOMAIN s : t[k].id = s[k].id
      /\ \A k \in DOMAIN s : s[k] \in Order
  BY CancelKeepsIds DEF Orders
<1>2. ASSUME NEW k \in DOMAIN s
      PROVE  IF IsFirst(s, k, id) THEN t[k].status = "cancelled" ELSE t[k] = s[k]
  BY <1>1 DEF WithCancelled, Order
<1> HIDE DEF t
<1>3. ASSUME NEW x, ~OpenIn(s, x) PROVE ~OpenIn(t, x)
  BY <1>1, <1>2, <1>3 DEF OpenIn, IsOpenOrderStatus
<1>4. ASSUME Unique(s) PROVE ~OpenIn(t, id)
  <2>1. \A k \in DOMAIN s : s[k].id = id => IsFirst(s, k, id)
    <3> SUFFICES ASSUME NEW k \in DOMAIN s, s[k].id = id, NEW j \in 1..(k - 1)
                 PROVE  s[j].id # id
      BY DEF IsFirst
    <3>1. DOMAIN s = 1..Len(s) /\ Len(s) \in Nat
      BY LenProperties DEF Orders
    <3>2. j \in DOMAIN s /\ j < k
      BY <3>1
    <3> QED
      BY <1>1, <1>4, <3>1, <3>2 DEF Unique
  <2> QED
    BY <1>1, <1>2, <2>1 DEF OpenIn, IsOpenOrderStatus
<1> QED
  BY <1>3, <1>4 DEF t

(* Appending an order opens no other. *)
LEMMA AppendOpensOne ==
  ASSUME NEW s \in Orders, NEW o \in Order, NEW x, x # o.id, ~OpenIn(s, x)
  PROVE  ~OpenIn(Append(s, o), x)
<1>1. DOMAIN Append(s, o) = 1..(Len(s) + 1) /\ Len(s) \in Nat /\ DOMAIN s = 1..Len(s)
  BY AppendProperties, LenProperties DEF Orders
<1>2. /\ \A k \in DOMAIN s : Append(s, o)[k] = s[k]
      /\ Append(s, o)[Len(s) + 1] = o
  BY <1>1, AppendProperties DEF Orders
<1>3. \A k \in DOMAIN Append(s, o) : k \in DOMAIN s \/ k = Len(s) + 1
  BY <1>1
<1> QED
  BY <1>2, <1>3 DEF OpenIn

Stored(s, id) == PositionsOf(s, id) # {}

(* Neither appending nor cancelling takes an order out of the history. *)
LEMMA StaysStored ==
  ASSUME NEW s \in Orders, NEW o \in Order, NEW id
  PROVE  /\ \A x : Stored(s, x) => Stored(Append(s, o), x) /\ Stored(WithCancelled(s, id), x)
         /\ Stored(Append(s, o), o.id)
<1>1. /\ DOMAIN s \subseteq DOMAIN Append(s, o) /\ Len(s) + 1 \in DOMAIN Append(s, o)
      /\ \A k \in DOMAIN s : Append(s, o)[k] = s[k]
      /\ Append(s, o)[Len(s) + 1] = o
  BY AppendProperties, LenProperties DEF Orders
<1>2. /\ DOMAIN WithCancelled(s, id) = DOMAIN s
      /\ \A k \in DOMAIN s : WithCancelled(s, id)[k].id = s[k].id
  BY CancelKeepsIds
<1> QED
  BY <1>1, <1>2 DEF Stored, PositionsOf

------------------------------------------------------------------------------
(* Cancelled and replaced orders. *)

(* The orders that were cancelled in the file: callers were told so, a     *)
(* replacement was written, or the request is past its cancellation.       *)
Closed(p) ==
  cancelAcks \cup {pair[1] : pair \in chain}
    \cup {id \in {job[p].target} :
            \/ job[p].op = "replace" /\ job[p].stage = "submit"
            \/ job[p].op # "submit" /\ pc[p] = "written"}

ClosedInv(p) ==
  /\ job[p].op = "cancel" => job[p].stage = "cancel"
  /\ job[p].op = "submit" => job[p].stage = "submit"
  /\ pc[p] = "parsed" => job[p].stage = "submit"
  /\ job[p].op # "submit" => job[p].target \in IdsGiven
  /\ TicksApart /\ job[p].stage = "cancel" /\ pc[p] \in {"loaded", "truncated"} =>
       ~OpenIn(buf[p], job[p].target)
  /\ \A id \in Closed(p) :
       /\ id \in IdsGiven
       /\ TicksApart => ~OpenIn(file.orders, id) /\ ~OpenIn(buf[p], id)

(* The ids given only become more, and differed before if they still do. *)
LEMMA AnotherTick ==
  ASSUME ticks \in Seq(Nat), NEW t \in Nat, ticks' = Append(ticks, t)
  PROVE  /\ IdsGiven \subseteq IdsGiven'
         /\ TicksApart' => TicksApart /\ t \notin IdsGiven
<1>1. /\ Len(ticks) \in Nat /\ DOMAIN ticks = 1..Len(ticks)
      /\ DOMAIN ticks' = 1..(Len(ticks) + 1)
      /\ \A n \in DOMAIN ticks : ticks'[n] = ticks[n]
      /\ ticks'[Len(ticks) + 1] = t
  BY DrawnTicks
<1>2. IdsGiven \subseteq IdsGiven'
  BY <1>1 DEF IdsGiven
<1>3. ASSUME TicksApart' PROVE TicksApart /\ t \notin IdsGiven
  <2>1. \A i, j \in DOMAIN ticks' : i # j => ticks'[i] # ticks'[j]
    BY <1>3 DEF TicksApart, Apart
  <2> HIDE <1>3
  <2>2. TicksApart
    BY <1>1, <2>1 DEF TicksApart, Apart
  <2>3. ASSUME NEW n \in DOMAIN ticks PROVE ticks[n] # t
    BY <1>1, <2>1
  <2> QED
    BY <2>2, <2>3 DEF IdsGiven
<1> QED
  BY <1>2, <1>3

(* Nothing about ids changes while no tick is drawn. *)
LEMMA SameTicks ==
  ASSUME ticks' = ticks
  PROVE  IdsGiven' = IdsGiven /\ (TicksApart' <=> TicksApart)
BY DEF IdsGiven, TicksApart, Apart

LEMMA NothingOpen == \A id : ~OpenIn(<<>>, id)
BY DEF OpenIn

LEMMA InitClosed ==
  ASSUME NEW p \in Procs, Init
  PROVE  ClosedInv(p)
<1>1. Closed(p) = {}
  BY DEF Init, Closed, NoJob
<1> QED
  BY <1>1 DEF Init, ClosedInv, NoJob

LEMMA StepClosed ==
  ASSUME NEW p \in Procs, IInv, ClosedInv(p), Step(p)
  PROVE  ClosedInv(p)'
<1>0. /\ file.orders \in Orders /\ ticks \in Seq(Nat) /\ Recorded(file.orders, ticks)
      /\ buf[p] \in Orders /\ job[p] \in Job
      /\ job \in [Procs -> Job] /\ pc \in [Procs -> Phases] /\ buf \in [Procs -> Orders]
  BY FileOrders DEF IInv, TypeOK
<1> USE <1>0
(* Where nothing becomes closed that was not, it is enough that no order   *)
(* of the closed ones opens.                                               *)
<1>1. ASSUME NEW op \in {"submit", "cancel", "replace"}, NEW id \in Nat,
             Call(p, op, id), op = "submit" \/ id \in IdsGiven
      PROVE  ClosedInv(p)'
  <2>1. /\ job'[p].op = op /\ job'[p].target = id /\ pc'[p] = "called"
        /\ job'[p].stage = IF op = "submit" THEN "submit" ELSE "cancel"
    BY <1>1 DEF Call, Goto, NoJob
  <2>2. UNCHANGED <<file, ticks, buf, cancelAcks, chain>>
    BY <1>1 DEF Call, acks, time
  <2>3. Closed(p)' \subseteq Closed(p)
    BY <2>1, <2>2 DEF Closed
  <2> QED
    BY <1>1, <2>1, <2>2, <2>3, SameTicks DEF ClosedInv
<1>2. CASE CallSubmit(p) \/ CallCancel(p) \/ CallReplace(p)
  <2>1. \A id \in IdsGiven : id \in Nat
    BY DEF IdsGiven
  <2> QED
    BY <1>1, <1>2, <2>1 DEF CallSubmit, CallCancel, CallReplace
<1>3. CASE LoadForSubmit(p)
  <2>1. /\ buf'[p] = file.orders /\ pc'[p] = "parsed" /\ job[p].stage = "submit"
        /\ UNCHANGED <<file, ticks, job, cancelAcks, chain>>
    BY <1>3 DEF LoadForSubmit, ParseForSubmit, Goto, acks, time
  <2>2. Closed(p)' \subseteq Closed(p)
    BY <2>1 DEF Closed
  <2> QED
    BY <2>1, <2>2, SameTicks DEF ClosedInv
<1>11. CASE PlaceOrder(p)
  <2>1. PICK t \in Nat \ {0} :
           LET new == Append(buf[p], NewOrder(t, Len(ticks) + 1)) IN
           /\ clock' = t /\ ticks' = Append(ticks, t)
           /\ new \in Orders /\ Recorded(new, ticks')
           /\ buf' = [buf EXCEPT ![p] = new]
           /\ job' = [job EXCEPT ![p].placed = t]
           /\ pc[p] = "parsed" /\ pc' = [pc EXCEPT ![p] = "loaded"]
           /\ UNCHANGED <<file, crashes, acks, chain>>
    BY <1>11, Placed
  <2> DEFINE o == NewOrder(t, Len(ticks) + 1)
  <2>2. o \in Order /\ o.id = t
    BY DrawnTicks DEF NewOrder, Order, Status
  <2>3. buf'[p] = Append(buf[p], o)
    BY <2>1
  <2> HIDE DEF o
  <2>4. /\ job'[p].op = job[p].op /\ job'[p].stage = job[p].stage
        /\ job'[p].target = job[p].target /\ pc'[p] = "loaded" /\ job[p].stage = "submit"
        /\ UNCHANGED <<file, cancelAcks, chain>>
    BY <2>1 DEF acks, Job, ClosedInv
  <2>5. IdsGiven \subseteq IdsGiven' /\ (TicksApart' => TicksApart /\ t \notin IdsGiven)
    BY <2>1, AnotherTick
  <2>6. Closed(p)' \subseteq Closed(p)
    BY <2>4 DEF Closed
  <2>7. ASSUME NEW id \in Closed(p), TicksApart' PROVE ~OpenIn(buf'[p], id)
    <3>1. id # o.id /\ ~OpenIn(buf[p], id)
      BY <2>2, <2>5, <2>7 DEF ClosedInv
    <3> QED
      BY <2>2, <2>3, <3>1, AppendOpensOne
  <2>8. \A id \in Closed(p) : id \in IdsGiven' /\ (TicksApart' => ~OpenIn(file'.orders, id))
    BY <2>4, <2>5 DEF ClosedInv
  <2>9. job[p].op # "submit" => job[p].target \in IdsGiven'
    BY <2>5 DEF ClosedInv
  <2>10. \A id \in Closed(p)' :
            /\ id \in IdsGiven'
            /\ TicksApart' => ~OpenIn(file'.orders, id) /\ ~OpenIn(buf'[p], id)
    BY <2>6, <2>7, <2>8
  <2>11. /\ job[p].op = "cancel" => job[p].stage = "cancel"
         /\ job[p].op = "submit" => job[p].stage = "submit"
    BY DEF ClosedInv
  <2> QED
    BY <2>4, <2>9, <2>10, <2>11 DEF ClosedInv
<1>4. CASE LoadForCancel(p)
  <2>1. /\ buf'[p] = WithCancelled(file.orders, job[p].target)
        /\ pc'[p] = "loaded"
        /\ UNCHANGED <<file, ticks, job, cancelAcks, chain>>
    BY <1>4 DEF LoadForCancel, Goto, acks, time
  <2>2. Closed(p)' \subseteq Closed(p)
    BY <2>1 DEF Closed
  <2>3. \A id : ~OpenIn(file.orders, id) => ~OpenIn(buf'[p], id)
    BY <2>1, CancelCloses
  <2>4. TicksApart => ~OpenIn(buf'[p], job[p].target)
    BY <2>1, CancelCloses, IdsUnique DEF TicksApart
  <2> QED
    BY <2>1, <2>2, <2>3, <2>4, SameTicks DEF ClosedInv
<1>5. CASE OrderNotFound(p)
  <2>1. /\ job'[p] = NoJob /\ pc'[p] = "idle"
        /\ UNCHANGED <<file, ticks, buf, cancelAcks, chain>>
    BY <1>5 DEF OrderNotFound, Goto, acks, time
  <2>2. Closed(p)' \subseteq Closed(p)
    BY <2>1 DEF Closed, NoJob
  <2> QED
    BY <2>1, <2>2, SameTicks DEF ClosedInv, NoJob
<1>6. CASE Truncate(p)
  <2>1. /\ file'.orders = <<>> /\ pc[p] = "loaded" /\ pc'[p] = "truncated"
        /\ UNCHANGED <<ticks, job, buf, cancelAcks, chain>>
    BY <1>6 DEF Truncate, Goto, Empty, acks, time
  <2>2. Closed(p)' \subseteq Closed(p)
    BY <2>1 DEF Closed
  <2> QED
    BY <2>1, <2>2, NothingOpen, SameTicks DEF ClosedInv
<1>7. CASE Flush(p)
  <2>1. /\ pc[p] = "truncated" /\ file'.orders \in {buf[p], <<>>} /\ buf'[p] = <<>>
        /\ chain' = chain \cup NewPair(p)
        /\ UNCHANGED <<ticks, cancelAcks>>
    BY <1>7 DEF Flush, Overlay, Holding, Garbled, acks, time
  <2>2. /\ job'[p].op = job[p].op /\ job'[p].target = job[p].target
        /\ IF MoreToDo(p) THEN pc'[p] = "called" /\ job'[p].stage = "submit"
                          ELSE pc'[p] = "written" /\ job'[p].stage = job[p].stage
    <3>1. CASE MoreToDo(p)
      BY <1>7, <3>1 DEF Flush, Goto, Job
    <3>2. CASE ~MoreToDo(p)
      BY <1>7, <3>2 DEF Flush, Goto, Job
    <3> QED
      BY <3>1, <3>2
  <2>3. job[p].stage \in {"submit", "cancel"} /\ job[p].op \in {"submit", "cancel", "replace"}
    BY DEF Job
  <2>4. \A pair \in NewPair(p) :
          pair[1] = job[p].target /\ job[p].op = "replace" /\ job[p].stage = "submit"
    BY DEF NewPair
  <2>5. ASSUME NEW id \in Closed(p)'
        PROVE  id \in Closed(p) \/ (id = job[p].target /\ job[p].stage = "cancel")
    <3>1. CASE id \in cancelAcks \/ \E pair \in chain : id = pair[1]
      BY <3>1 DEF Closed
    <3>2. CASE id = job[p].target /\ job[p].op # "submit"
      <4>1. CASE job[p].stage = "cancel"
        BY <3>2, <4>1
      <4>2. CASE job[p].stage = "submit"
        BY <2>3, <3>2, <4>2 DEF Closed, ClosedInv
      <4> QED
        BY <2>3, <4>1, <4>2
    <3> QED
      BY <2>1, <2>2, <2>4, <2>5, <3>1, <3>2 DEF Closed
  <2>6. \A id \in Closed(p)' :
           /\ id \in IdsGiven
           /\ TicksApart => ~OpenIn(file'.orders, id) /\ ~OpenIn(buf'[p], id)
    <3>1. job[p].stage = "cancel" => job[p].op # "submit"
      BY DEF ClosedInv
    <3> QED
      BY <2>1, <2>5, <3>1, NothingOpen DEF ClosedInv
  <2> QED
    BY <2>1, <2>2, <2>6, SameTicks DEF ClosedInv, MoreToDo
<1>8. CASE Respond(p)
  <2>1. /\ cancelAcks' = IF job[p].op # "submit"
                         THEN cancelAcks \cup {job[p].target} ELSE cancelAcks
        /\ pc[p] = "written" /\ pc'[p] = "idle" /\ job'[p] = NoJob
        /\ UNCHANGED <<file, ticks, buf, chain>>
    BY <1>8 DEF Respond, Goto, time
  <2>2. Closed(p)' \subseteq Closed(p)
    BY <2>1 DEF Closed, NoJob
  <2> QED
    BY <2>1, <2>2, SameTicks DEF ClosedInv, NoJob
<1>9. CASE ServeOrders(p) \/ Restart(p)
  <2>1. /\ pc'[p] \in {"dead", "idle"}
        /\ UNCHANGED <<file, ticks, job, buf, cancelAcks, chain>>
    BY <1>9 DEF ServeOrders, Restart, Goto, acks, time
  <2>2. Closed(p)' \subseteq Closed(p)
    BY <2>1 DEF Closed
  <2> QED
    BY <2>1, <2>2, SameTicks DEF ClosedInv
<1>10. CASE Crash(p) \/ WriteFails(p)
  <2>1. /\ pc'[p] \in {"dead", "idle"} /\ job'[p] = NoJob /\ buf'[p] = <<>>
        /\ file'.orders \in {file.orders, <<>>}
        /\ UNCHANGED <<ticks, cancelAcks, chain>>
    BY <1>10 DEF Crash, WriteFails, Goto, Garbled, acks, time
  <2>2. Closed(p)' \subseteq Closed(p)
    BY <2>1 DEF Closed, NoJob
  <2> QED
    BY <2>1, <2>2, NothingOpen, SameTicks DEF ClosedInv, NoJob
<1> QED
  BY <1>2, <1>3, <1>4, <1>5, <1>6, <1>7, <1>8, <1>9, <1>10, <1>11 DEF Step, Submit

LEMMA NextClosed ==
  ASSUME NEW p, Procs = {p}, IInv, ClosedInv(p), [Next]_vars
  PROVE  ClosedInv(p)'
<1>1. CASE \E q \in Procs : Step(q)
  BY <1>1, StepClosed
<1>2. CASE Reboot
  <2>1. /\ pc[p] \in {"dead", "idle"} /\ pc'[p] = "dead"
        /\ UNCHANGED <<file, ticks, job, buf, cancelAcks, chain>>
    BY <1>2 DEF Reboot, acks
  <2>2. Closed(p)' \subseteq Closed(p)
    BY <2>1 DEF Closed
  <2> QED
    BY <2>1, <2>2, SameTicks DEF ClosedInv
<1>3. CASE UNCHANGED vars
  BY <1>3 DEF vars, acks, ClosedInv, Closed, IdsGiven, TicksApart, Apart
<1> QED
  BY <1>1, <1>2, <1>3 DEF Next

THEOREM ClosedInvHolds ==
  ASSUME NEW p, Procs = {p}
  PROVE  Spec => []ClosedInv(p)
<1>1. Init => ClosedInv(p)
  BY InitClosed
<1>2. IInv /\ ClosedInv(p) /\ [Next]_vars => ClosedInv(p)'
  BY NextClosed
<1> QED
  BY <1>1, <1>2, IInvHolds, PTL DEF Spec

(* A lone process never reopens an order whose cancellation it reported,   *)
(* neither by a later mutation nor by a crash in the middle of one.        *)
THEOREM CancelsLast ==
  ASSUME NEW p, Procs = {p}
  PROVE  Spec => []CancelledStayClosed
<1>1. ClosedInv(p) => CancelledStayClosed
  BY DEF ClosedInv, Closed, CancelledStayClosed
<1> QED
  BY <1>1, ClosedInvHolds, PTL

(* A lone process never has an order open beside the one that replaced it. *)
THEOREM ReplacedAreClosed ==
  ASSUME NEW p, Procs = {p}
  PROVE  Spec => []NeverBothOpen
<1>1. ClosedInv(p) => NeverBothOpen
  BY DEF ClosedInv, Closed, NeverBothOpen
<1> QED
  BY <1>1, ClosedInvHolds, PTL

------------------------------------------------------------------------------
(* Acknowledged submissions. *)

(* Until something fails, the acknowledged orders are in the file, and     *)
(* while a mutation rewrites it, in the tree that will be its content; so  *)
(* is the order just placed, before anybody is told of it.                 *)
KeptInv(p) ==
  crashes = 0 =>
    /\ IF pc[p] = "truncated" THEN file.state = "empty" ELSE ~Unreadable
    /\ \A id \in submitAcks :
         /\ pc[p] # "truncated" => Stored(file.orders, id)
         /\ pc[p] \in {"parsed", "loaded", "truncated"} => Stored(buf[p], id)
    /\ pc[p] \in {"loaded", "truncated"} /\ job[p].stage = "submit" =>
         Stored(buf[p], job[p].placed)
    /\ pc[p] = "written" /\ job[p].op # "cancel" =>
         Stored(file.orders, job[p].placed)

LEMMA StepKept ==
  ASSUME NEW p \in Procs, IInv, ClosedInv(p), KeptInv(p), Step(p)
  PROVE  KeptInv(p)'
<1>0. /\ file.orders \in Orders /\ ticks \in Seq(Nat) /\ crashes \in Nat
      /\ buf[p] \in Orders /\ job[p] \in Job
      /\ job \in [Procs -> Job] /\ pc \in [Procs -> Phases] /\ buf \in [Procs -> Orders]
  BY FileOrders DEF IInv, TypeOK
<1> USE <1>0
<1>1. ASSUME NEW op, NEW id, Call(p, op, id) PROVE KeptInv(p)'
  <2>1. pc[p] = "idle" /\ pc'[p] = "called" /\ UNCHANGED <<file, buf, crashes, submitAcks>>
    BY <1>1 DEF Call, Goto, acks
  <2> QED
    BY <2>1 DEF KeptInv, Unreadable
<1>2. CASE CallSubmit(p) \/ CallCancel(p) \/ CallReplace(p)
  BY <1>1, <1>2 DEF CallSubmit, CallCancel, CallReplace
<1>3. CASE LoadForSubmit(p)
  <2>1. /\ buf'[p] = file.orders /\ pc[p] = "called" /\ pc'[p] = "parsed"
        /\ UNCHANGED <<file, crashes, submitAcks>>
    BY <1>3 DEF LoadForSubmit, ParseForSubmit, Goto, acks
  <2> QED
    BY <2>1 DEF KeptInv, Unreadable
<1>11. CASE PlaceOrder(p)
  <2>1. PICK t \in Nat \ {0} :
           LET new == Append(buf[p], NewOrder(t, Len(ticks) + 1)) IN
           /\ clock' = t /\ ticks' = Append(ticks, t)
           /\ new \in Orders /\ Recorded(new, ticks')
           /\ buf' = [buf EXCEPT ![p] = new]
           /\ job' = [job EXCEPT ![p].placed = t]
           /\ pc[p] = "parsed" /\ pc' = [pc EXCEPT ![p] = "loaded"]
           /\ UNCHANGED <<file, crashes, acks, chain>>
    BY <1>11, Placed
  <2> DEFINE o == NewOrder(t, Len(ticks) + 1)
  <2>2. o \in Order /\ o.id = t
    BY DrawnTicks DEF NewOrder, Order, Status
  <2>3. buf'[p] = Append(buf[p], o) /\ job'[p].placed = t
    BY <2>1
  <2> HIDE DEF o
  <2>4. /\ \A x : Stored(buf[p], x) => Stored(buf'[p], x)
        /\ Stored(buf'[p], t)
    BY <2>2, <2>3, StaysStored
  <2>5. /\ pc[p] = "parsed" /\ pc'[p] = "loaded" /\ UNCHANGED <<file, crashes, submitAcks>>
    BY <2>1 DEF acks
  <2> QED
    BY <2>3, <2>4, <2>5 DEF KeptInv, Unreadable
<1>4. CASE LoadForCancel(p)
  <2>1. /\ buf'[p] = WithCancelled(file.orders, job[p].target)
        /\ pc[p] = "called" /\ pc'[p] = "loaded" /\ job[p].stage = "cancel"
        /\ UNCHANGED <<file, job, crashes, submitAcks>>
    BY <1>4 DEF LoadForCancel, Goto, acks
  <2>2. [id |-> 0, nth |-> 0, status |-> "accepted"] \in Order
    BY DEF Order, Status
  <2>3. \A x : Stored(file.orders, x) => Stored(buf'[p], x)
    BY <2>1, <2>2, StaysStored
  <2> QED
    BY <2>1, <2>3 DEF KeptInv, Unreadable
<1>5. CASE OrderNotFound(p)
  <2>1. pc[p] = "called" /\ pc'[p] = "idle" /\ UNCHANGED <<file, crashes, submitAcks>>
    BY <1>5 DEF OrderNotFound, Goto, acks
  <2> QED
    BY <2>1 DEF KeptInv, Unreadable
<1>6. CASE Truncate(p)
  <2>1. /\ file'.state = "empty" /\ pc[p] = "loaded" /\ pc'[p] = "truncated"
        /\ UNCHANGED <<job, buf, crashes, submitAcks>>
    BY <1>6 DEF Truncate, Goto, Empty, acks
  <2> QED
    BY <2>1 DEF KeptInv
<1>7. CASE Flush(p)
  <2>1. /\ pc[p] = "truncated" /\ UNCHANGED <<crashes, submitAcks>>
        /\ file.state = "empty" => file' = Holding(buf[p])
    BY <1>7 DEF Flush, Overlay, acks
  <2>2. /\ job'[p].op = job[p].op /\ job'[p].placed = job[p].placed
        /\ IF MoreToDo(p) THEN pc'[p] = "called" ELSE pc'[p] = "written"
    <3>1. CASE MoreToDo(p)
      BY <1>7, <3>1 DEF Flush, Goto, Job
    <3>2. CASE ~MoreToDo(p)
      BY <1>7, <3>2 DEF Flush, Goto, Job
    <3> QED
      BY <3>1, <3>2
  <2>3. job[p].op # "cancel" /\ ~MoreToDo(p) => job[p].stage = "submit"
    BY DEF MoreToDo, ClosedInv, Job
  <2>4. file' = Holding(buf[p]) => file'.orders = buf[p] /\ ~Unreadable'
    BY DEF Holding, Unreadable
  <2> QED
    BY <2>1, <2>2, <2>3, <2>4 DEF KeptInv
<1>8. CASE Respond(p)
  <2>1. /\ submitAcks' = IF job[p].op # "cancel"
                         THEN submitAcks \cup {job[p].placed} ELSE submitAcks
        /\ pc[p] = "written" /\ pc'[p] = "idle"
        /\ UNCHANGED <<file, crashes>>
    BY <1>8 DEF Respond, Goto
  <2> QED
    BY <2>1 DEF KeptInv, Unreadable
<1>9. CASE ServeOrders(p) \/ Restart(p)
  <2>1. /\ pc[p] \in {"dead", "idle"} /\ pc'[p] \in {"dead", "idle"}
        /\ UNCHANGED <<file, crashes, submitAcks>>
    BY <1>9 DEF ServeOrders, Restart, Goto, acks
  <2> QED
    BY <2>1 DEF KeptInv, Unreadable
<1>10. CASE Crash(p) \/ WriteFails(p)
  BY <1>10 DEF Crash, WriteFails, KeptInv
<1> QED
  BY <1>2, <1>3, <1>4, <1>5, <1>6, <1>7, <1>8, <1>9, <1>10, <1>11 DEF Step, Submit

THEOREM KeptInvHolds ==
  ASSUME NEW p, Procs = {p}
  PROVE  Spec => []KeptInv(p)
<1>1. Init => KeptInv(p)
  BY DEF Init, KeptInv, Unreadable, Absent, Holding
<1>2. IInv /\ ClosedInv(p) /\ KeptInv(p) /\ [Next]_vars => KeptInv(p)'
  <2>1. CASE \E q \in Procs : Step(q)
    BY <2>1, StepKept
  <2>2. CASE Reboot
    <3>1. /\ pc[p] \in {"dead", "idle"} /\ pc'[p] = "dead"
          /\ UNCHANGED <<file, crashes, submitAcks>>
      BY <2>2 DEF Reboot, acks
    <3> QED
      BY <3>1 DEF KeptInv, Unreadable
  <2>3. CASE UNCHANGED vars
    BY <2>3 DEF vars, acks, KeptInv, Unreadable
  <2> QED
    BY <2>1, <2>2, <2>3 DEF Next
<1> QED
  BY <1>1, <1>2, IInvHolds, ClosedInvHolds, PTL DEF Spec

(* Until something fails, a lone process has every order it acknowledged   *)
(* in a readable file whenever it is not in the middle of writing it.      *)
THEOREM AcknowledgedAreKept ==
  ASSUME NEW p, Procs = {p}
  PROVE  Spec => []AcknowledgedAreStored
<1>1. KeptInv(p) => AcknowledgedAreStored
  BY DEF KeptInv, AcknowledgedAreStored, Stored
<1> QED
  BY <1>1, KeptInvHolds, PTL

------------------------------------------------------------------------------
(***************************************************************************)
(* A process that has the order file for itself implements OrderBook, for  *)
(* every number of orders and failures: the truncating, two-step writes of *)
(* its mutations look like single steps of an append-only history.         *)
(***************************************************************************)
(* The second history is the first with one more order, an accepted one. *)
Adds(t, s) == \E o \in Order : o.status = "accepted" /\ t = Append(s, o)

(* The file while the second half of a replacement is on its way. *)
Halfway(p) == job[p].op = "replace" /\ job[p].stage = "submit"

(* What a mutation has in hand, compared with the history it started from. *)
BookInv(p) ==
  /\ pc[p] = "truncated" => file.state = "empty"
  /\ pc[p] \in {"called", "parsed", "loaded"} =>
       file.orders = IF Halfway(p) THEN WithCancelled(job[p].base, job[p].target)
                                   ELSE job[p].base
  /\ Halfway(p) => Stored(job[p].base, job[p].target)
  /\ pc[p] = "parsed" => buf[p] = file.orders
  /\ pc[p] \in {"loaded", "truncated"} =>
       CASE job[p].stage = "cancel" ->
              /\ Stored(job[p].base, job[p].target)
              /\ buf[p] = WithCancelled(job[p].base, job[p].target)
         [] Halfway(p) -> Adds(buf[p], WithCancelled(job[p].base, job[p].target))
         [] OTHER -> Adds(buf[p], job[p].base)

LEMMA InitBook ==
  ASSUME NEW p \in Procs, Init
  PROVE  BookInv(p)
BY DEF Init, BookInv, NoJob, Halfway

LEMMA StepBook ==
  ASSUME NEW p \in Procs, IInv, ClosedInv(p), BookInv(p), Step(p)
  PROVE  BookInv(p)'
<1>0. /\ file.orders \in Orders /\ ticks \in Seq(Nat)
      /\ buf[p] \in Orders /\ job[p] \in Job
      /\ job \in [Procs -> Job] /\ pc \in [Procs -> Phases] /\ buf \in [Procs -> Orders]
  BY FileOrders DEF IInv, TypeOK
<1>a. NoJob.op = "submit"
  BY DEF NoJob
<1> USE <1>0
<1>1. ASSUME NEW op \in {"submit", "cancel", "replace"}, NEW id, Call(p, op, id)
      PROVE  BookInv(p)'
  <2>1. /\ job'[p].op = op /\ job'[p].base = file.orders /\ pc'[p] = "called"
        /\ job'[p].stage = IF op = "submit" THEN "submit" ELSE "cancel"
        /\ file' = file
    BY <1>1 DEF Call, Goto, NoJob
  <2>2. ~Halfway(p)'
    BY <2>1 DEF Halfway
  <2> QED
    BY <2>1, <2>2 DEF BookInv
<1>2. CASE CallSubmit(p) \/ CallCancel(p) \/ CallReplace(p)
  BY <1>1, <1>2 DEF CallSubmit, CallCancel, CallReplace
<1>3. CASE LoadForSubmit(p)
  <2>1. /\ buf'[p] = file.orders /\ UNCHANGED <<file, job>>
        /\ pc[p] = "called" /\ pc'[p] = "parsed"
    BY <1>3 DEF LoadForSubmit, ParseForSubmit, Goto
  <2>2. Halfway(p)' <=> Halfway(p)
    BY <2>1 DEF Halfway
  <2>3. CASE Halfway(p)
    BY <2>1, <2>2, <2>3 DEF BookInv
  <2>4. CASE ~Halfway(p)
    BY <2>1, <2>2, <2>4 DEF BookInv
  <2> QED
    BY <2>3, <2>4
<1>9. CASE PlaceOrder(p)
  <2>1. PICK t \in Nat \ {0} :
           LET new == Append(buf[p], NewOrder(t, Len(ticks) + 1)) IN
           /\ clock' = t /\ ticks' = Append(ticks, t)
           /\ new \in Orders /\ Recorded(new, ticks')
           /\ buf' = [buf EXCEPT ![p] = new]
           /\ job' = [job EXCEPT ![p].placed = t]
           /\ pc[p] = "parsed" /\ pc' = [pc EXCEPT ![p] = "loaded"]
           /\ UNCHANGED <<file, crashes, acks, chain>>
    BY <1>9, Placed
  <2>2. NewOrder(t, Len(ticks) + 1) \in Order /\ NewOrder(t, Len(ticks) + 1).status = "accepted"
    BY DrawnTicks DEF NewOrder, Order, Status
  <2>3. buf'[p] = Append(buf[p], NewOrder(t, Len(ticks) + 1))
    BY <2>1
  <2>4. Adds(buf'[p], buf[p])
    BY <2>2, <2>3 DEF Adds
  <2>5. /\ job'[p].op = job[p].op /\ job'[p].stage = job[p].stage /\ job[p].stage = "submit"
        /\ job'[p].target = job[p].target /\ job'[p].base = job[p].base
        /\ pc[p] = "parsed" /\ pc'[p] = "loaded" /\ file' = file
    BY <2>1 DEF Job, ClosedInv
  <2>6. (Halfway(p)' <=> Halfway(p)) /\ buf[p] = file.orders
    BY <2>5 DEF Halfway, BookInv
  <2>7. CASE Halfway(p)
    BY <2>4, <2>5, <2>6, <2>7 DEF BookInv
  <2>8. CASE ~Halfway(p)
    BY <2>4, <2>5, <2>6, <2>8 DEF BookInv
  <2> QED
    BY <2>7, <2>8
<1>4. CASE LoadForCancel(p)
  <2>1. /\ buf'[p] = WithCancelled(file.orders, job[p].target)
        /\ Stored(file.orders, job[p].target)
        /\ pc[p] = "called" /\ pc'[p] = "loaded" /\ job[p].stage = "cancel"
        /\ UNCHANGED <<file, job>>
    BY <1>4 DEF LoadForCancel, Goto, Stored
  <2>2. ~Halfway(p) /\ ~Halfway(p)'
    BY <2>1 DEF Halfway
  <2> QED
    BY <2>1, <2>2 DEF BookInv
<1>5. CASE OrderNotFound(p) \/ Respond(p) \/ Crash(p) \/ WriteFails(p)
  <2>1. job'[p] = NoJob /\ pc'[p] \in {"idle", "dead"}
    BY <1>5 DEF OrderNotFound, Respond, Crash, WriteFails, Goto
  <2> QED
    BY <1>a, <2>1 DEF BookInv, Halfway
<1>6. CASE Truncate(p)
  <2>1. /\ file'.state = "empty" /\ pc[p] = "loaded" /\ pc'[p] = "truncated"
        /\ UNCHANGED <<job, buf>>
    BY <1>6 DEF Truncate, Goto, Empty
  <2>2. Halfway(p)' <=> Halfway(p)
    BY <2>1 DEF Halfway
  <2> QED
    BY <2>1, <2>2 DEF BookInv
<1>7. CASE Flush(p)
  <2>1. pc[p] = "truncated" /\ file'.orders = buf[p]
    BY <1>7 DEF Flush, Overlay, BookInv, Holding
  <2>2. CASE MoreToDo(p)
    <3>1. /\ job'[p].op = "replace" /\ job'[p].stage = "submit" /\ pc'[p] = "called"
          /\ job'[p].base = job[p].base /\ job'[p].target = job[p].target
          /\ job[p].stage = "cancel"
      BY <1>7, <2>2 DEF Flush, MoreToDo, Goto, Job
    <3>2. Halfway(p)'
      BY <3>1 DEF Halfway
    <3>3. ~Halfway(p)
      BY <3>1 DEF Halfway
    <3>4. /\ Stored(job[p].base, job[p].target)
          /\ buf[p] = WithCancelled(job[p].base, job[p].target)
      BY <2>1, <3>1, <3>3 DEF BookInv
    <3> QED
      BY <2>1, <3>1, <3>2, <3>4 DEF BookInv
  <2>3. CASE ~MoreToDo(p)
    <3>1. pc'[p] = "written" /\ job' = job
      BY <1>7, <2>3 DEF Flush, Goto
    <3>2. Halfway(p)' <=> Halfway(p)
      BY <3>1 DEF Halfway
    <3> QED
      BY <3>1, <3>2 DEF BookInv
  <2> QED
    BY <2>2, <2>3
<1>8. CASE ServeOrders(p) \/ Restart(p)
  <2>1. pc'[p] \in {"dead", "idle"} /\ job' = job
    BY <1>8 DEF ServeOrders, Restart, Goto
  <2>2. Halfway(p)' <=> Halfway(p)
    BY <2>1 DEF Halfway
  <2> QED
    BY <2>1, <2>2 DEF BookInv
<1> QED
  BY <1>2, <1>3, <1>4, <1>5, <1>6, <1>7, <1>8, <1>9 DEF Step, Submit

THEOREM BookInvHolds ==
  ASSUME NEW p, Procs = {p}
  PROVE  Spec => []BookInv(p)
<1>1. Init => BookInv(p)
  BY InitBook
<1>2. IInv /\ ClosedInv(p) /\ BookInv(p) /\ [Next]_vars => BookInv(p)'
  <2>1. CASE \E q \in Procs : Step(q)
    BY <2>1, StepBook
  <2>2. CASE Reboot
    <3>1. pc'[p] = "dead" /\ job' = job
      BY <2>2 DEF Reboot
    <3>2. Halfway(p)' <=> Halfway(p)
      BY <3>1 DEF Halfway
    <3> QED
      BY <3>1, <3>2 DEF BookInv
  <2>3. CASE UNCHANGED vars
    BY <2>3 DEF vars, acks, BookInv, Halfway
  <2> QED
    BY <2>1, <2>2, <2>3 DEF Next
<1> QED
  BY <1>1, <1>2, IInvHolds, ClosedInvHolds, PTL DEF Spec

------------------------------------------------------------------------------
(* Steps of the file as steps of the book. *)

LEMMA ToldAlone ==
  ASSUME NEW p, Procs = {p}
  PROVE  /\ Told = IF InProgress(p) THEN job[p].base ELSE file.orders
         /\ Told' = IF InProgress(p)' THEN job'[p].base ELSE file'.orders
BY DEF Told

(* The scan of CancelOrder stops at the order the book cancels. *)
LEMMA CancelIsBook ==
  ASSUME NEW id, Stored(Told, id)
  PROVE  /\ WithCancelled(Told, id) = Book!Cancelled(id)
         /\ Book!Known(id)
         /\ \E k \in DOMAIN Told : Told[k].id = id
<1>1. WithCancelled(Told, id) = Book!Cancelled(id)
  BY DEF WithCancelled, IsFirst, Book!Cancelled, Book!Named
<1>2. Book!Known(id) /\ \E k \in DOMAIN Told : Told[k].id = id
  BY DEF Stored, PositionsOf, Book!Known
<1> QED
  BY <1>1, <1>2

(* What a submission appends is the last of the history. *)
LEMMA AddedIsLast ==
  ASSUME NEW s \in Orders, NEW t, Adds(t, s)
  PROVE  t # <<>> /\ t[Len(t)].status = "accepted" /\ t = Append(s, t[Len(t)])
<1>1. PICK o \in Order : o.status = "accepted" /\ t = Append(s, o)
  BY DEF Adds
<1>2. Len(t) = Len(s) + 1 /\ Len(s) \in Nat /\ t[Len(s) + 1] = o
  BY <1>1, AppendProperties, LenProperties DEF Orders
<1>3. t # <<>>
  BY <1>2
<1> QED
  BY <1>1, <1>2, <1>3

LEMMA StepIsBook ==
  ASSUME NEW p, Procs = {p}, IInv, ClosedInv(p), BookInv(p), Step(p)
  PROVE  Book!Next \/ UNCHANGED <<Told, crashes>>
<1>0. /\ p \in Procs /\ file.orders \in Orders /\ ticks \in Seq(Nat)
      /\ buf[p] \in Orders /\ job[p] \in Job /\ job[p].base \in Orders
      /\ job \in [Procs -> Job] /\ pc \in [Procs -> Phases] /\ buf \in [Procs -> Orders]
  BY FileOrders DEF IInv, TypeOK, Job
<1>a. /\ Told = IF InProgress(p) THEN job[p].base ELSE file.orders
      /\ Told' = IF InProgress(p)' THEN job'[p].base ELSE file'.orders
  BY ToldAlone
<1> USE <1>0
<1>1. ASSUME NEW op \in {"submit", "cancel", "replace"}, NEW id, Call(p, op, id)
      PROVE  UNCHANGED <<Told, crashes>>
  <2>1. /\ job'[p].op = op /\ pc'[p] = "called" /\ pc[p] = "idle"
        /\ job'[p].stage = IF op = "submit" THEN "submit" ELSE "cancel"
        /\ UNCHANGED <<file, crashes>>
    BY <1>1 DEF Call, Goto, NoJob
  <2>2. ~InProgress(p) /\ ~InProgress(p)'
    BY <2>1 DEF InProgress
  <2> QED
    BY <1>a, <2>1, <2>2
<1>2. CASE CallSubmit(p) \/ CallCancel(p) \/ CallReplace(p)
  BY <1>1, <1>2 DEF CallSubmit, CallCancel, CallReplace
<1>3. CASE LoadForSubmit(p)
  <2>1. /\ pc[p] = "called" /\ pc'[p] = "parsed" /\ UNCHANGED <<file, job, crashes>>
    BY <1>3 DEF LoadForSubmit, ParseForSubmit, Goto
  <2>2. InProgress(p)' <=> InProgress(p)
    BY <2>1 DEF InProgress
  <2> QED
    BY <1>a, <2>1, <2>2
<1>9. CASE PlaceOrder(p)
  <2>1. PICK t \in Nat \ {0} :
           LET new == Append(buf[p], NewOrder(t, Len(ticks) + 1)) IN
           /\ clock' = t /\ ticks' = Append(ticks, t)
           /\ new \in Orders /\ Recorded(new, ticks')
           /\ buf' = [buf EXCEPT ![p] = new]
           /\ job' = [job EXCEPT ![p].placed = t]
           /\ pc[p] = "parsed" /\ pc' = [pc EXCEPT ![p] = "loaded"]
           /\ UNCHANGED <<file, crashes, acks, chain>>
    BY <1>9, Placed
  <2>2. /\ job'[p].op = job[p].op /\ job'[p].stage = job[p].stage
        /\ job'[p].base = job[p].base
        /\ pc[p] = "parsed" /\ pc'[p] = "loaded" /\ UNCHANGED <<file, crashes>>
    BY <2>1 DEF Job
  <2>3. InProgress(p)' <=> InProgress(p)
    BY <2>2 DEF InProgress
  <2> QED
    BY <1>a, <2>2, <2>3
<1>4. CASE LoadForCancel(p) \/ OrderNotFound(p)
  <2>1. /\ job[p].stage = "cancel" /\ pc[p] = "called"
        /\ \/ pc'[p] = "loaded" /\ job' = job
           \/ pc'[p] = "idle"
        /\ UNCHANGED <<file, crashes>>
    BY <1>4 DEF LoadForCancel, OrderNotFound, Goto
  <2>2. ~InProgress(p) /\ ~InProgress(p)'
    BY <2>1 DEF InProgress
  <2> QED
    BY <1>a, <2>1, <2>2
<1>5. CASE Respond(p) \/ ServeOrders(p) \/ Restart(p)
  <2>1. /\ pc[p] \in {"written", "idle", "dead"} /\ pc'[p] \in {"idle", "dead"}
        /\ UNCHANGED <<file, crashes>>
    BY <1>5 DEF Respond, ServeOrders, Restart, Goto
  <2>2. ~InProgress(p) /\ ~InProgress(p)'
    BY <2>1 DEF InProgress
  <2> QED
    BY <1>a, <2>1, <2>2
<1>6. CASE Truncate(p)
  <2>1. /\ pc[p] = "loaded" /\ pc'[p] = "truncated" /\ UNCHANGED <<job, crashes>>
    BY <1>6 DEF Truncate, Goto
  <2>2. InProgress(p)'
    BY <2>1 DEF InProgress
  <2>3. ~InProgress(p) => file.orders = job[p].base
    BY <2>1 DEF InProgress, BookInv, Halfway
  <2> QED
    BY <1>a, <2>1, <2>2, <2>3
<1>7. CASE Flush(p)
  <2>1. /\ pc[p] = "truncated" /\ file'.orders = buf[p] /\ crashes' = crashes
    BY <1>7 DEF Flush, Overlay, BookInv, Holding
  <2>2. Told = job[p].base
    BY <1>a, <2>1 DEF InProgress
  <2>3. CASE MoreToDo(p)
    <3>1. /\ job'[p].op = "replace" /\ job'[p].stage = "submit" /\ pc'[p] = "called"
          /\ job'[p].base = job[p].base
      BY <1>7, <2>3 DEF Flush, MoreToDo, Goto, Job
    <3>2. InProgress(p)'
      BY <3>1 DEF InProgress
    <3> QED
      BY <1>a, <2>1, <2>2, <3>1, <3>2
  <2>4. CASE ~MoreToDo(p)
    <3>1. pc'[p] = "written"
      BY <1>7, <2>4 DEF Flush, Goto
    <3>2. Told' = buf[p]
      BY <1>a, <2>1, <3>1 DEF InProgress
    <3>3. Told \in Orders
      BY <2>2
    <3>4. CASE job[p].stage = "cancel"
      <4>1. ~Halfway(p)
        BY <3>4 DEF Halfway
      <4>2. /\ Stored(Told, job[p].target)
            /\ Told' = WithCancelled(Told, job[p].target)
        BY <2>1, <2>2, <3>2, <3>4, <4>1 DEF BookInv
      <4>3. \E k \in DOMAIN Told : Book!Cancel(Told[k].id)
        BY <4>2, CancelIsBook DEF Book!Cancel
      <4> QED
        BY <2>1, <4>3 DEF Book!Next, Book!Operation
    <3>5. CASE Halfway(p)
      <4>1. job[p].stage # "cancel"
        BY <3>5 DEF Halfway
      <4>2. /\ Stored(Told, job[p].target)
            /\ Adds(Told', WithCancelled(Told, job[p].target))
        BY <2>1, <2>2, <3>2, <3>5, <4>1 DEF BookInv
      <4>3. WithCancelled(Told, job[p].target) \in Orders
        BY <3>3, CancelKeepsIds
      <4>4. /\ Told' # <<>> /\ Told'[Len(Told')].status = "accepted"
            /\ Told' = Append(WithCancelled(Told, job[p].target), Told'[Len(Told')])
        BY <4>2, <4>3, AddedIsLast
      <4>5. /\ WithCancelled(Told, job[p].target) = Book!Cancelled(job[p].target)
            /\ Book!Known(job[p].target)
            /\ \E k \in DOMAIN Told : Told[k].id = job[p].target
        BY <4>2, CancelIsBook
      <4>6. Book!Replace(job[p].target, Told'[Len(Told')])
        BY <4>4, <4>5 DEF Book!Replace
      <4> QED
        BY <2>1, <4>4, <4>5, <4>6 DEF Book!Next, Book!Operation
    <3>6. CASE job[p].stage = "submit" /\ ~Halfway(p)
      <4>1. Adds(Told', Told)
        BY <2>1, <2>2, <3>2, <3>6 DEF BookInv
      <4>2. /\ Told' # <<>> /\ Told'[Len(Told')].status = "accepted"
            /\ Told' = Append(Told, Told'[Len(Told')])
        BY <3>3, <4>1, AddedIsLast
      <4>3. Book!Submit(Told'[Len(Told')])
        BY <4>2 DEF Book!Submit
      <4> QED
        BY <2>1, <4>2, <4>3 DEF Book!Next, Book!Operation
    <3> QED
      BY <3>4, <3>5, <3>6 DEF Job
  <2> QED
    BY <2>3, <2>4
<1>8. CASE Crash(p) \/ WriteFails(p)
  <2>1. /\ crashes' = crashes + 1 /\ pc'[p] \in {"dead", "idle"}
        /\ file' \in {file} \cup IF pc[p] = "truncated" THEN {Garbled} ELSE {}
    BY <1>8 DEF Crash, WriteFails, Goto
  <2>2. Told' = file'.orders
    BY <1>a, <2>1 DEF InProgress
  <2>3. CASE pc[p] = "truncated"
    <3>1. file.orders = <<>>
      BY <2>3 DEF BookInv, IInv, TypeOK, File
    <3>2. Book!Lose
      BY <2>1, <2>2, <3>1 DEF Book!Lose, Garbled
    <3> QED
      BY <2>1, <3>2 DEF Book!Next, Book!Failure
  <2>4. CASE pc[p] # "truncated" /\ InProgress(p)
    <3>1. /\ Halfway(p) /\ pc[p] \in {"called", "parsed", "loaded"}
          /\ Told = job[p].base /\ file' = file
      BY <1>a, <2>1, <2>4 DEF InProgress, Halfway
    <3>2. /\ Stored(Told, job[p].target)
          /\ Told' = WithCancelled(Told, job[p].target)
      BY <2>2, <3>1 DEF BookInv
    <3>3. Book!HalfReplace
      BY <3>2, CancelIsBook DEF Book!HalfReplace, Book!Cancel
    <3> QED
      BY <2>1, <3>3 DEF Book!Next, Book!Failure
  <2>5. CASE pc[p] # "truncated" /\ ~InProgress(p)
    <3>1. Told' = Told
      BY <1>a, <2>1, <2>2, <2>5
    <3> QED
      BY <2>1, <3>1 DEF Book!Next, Book!Failure
  <2> QED
    BY <2>3, <2>4, <2>5
<1> QED
  BY <1>2, <1>3, <1>4, <1>5, <1>6, <1>7, <1>8, <1>9 DEF Step, Submit

(* A lone process' mutations take effect at once, ReplaceOrder's two       *)
(* writes included; a failure inside one loses the whole history or the    *)
(* second half of a replacement, and nothing else happens to the history.  *)
THEOREM FileIsBook ==
  ASSUME NEW p, Procs = {p}
  PROVE  Spec => ImplementsBook
<1>1. Init => Book!Init
  <2> SUFFICES ASSUME Init PROVE Book!Init
    OBVIOUS
  <2>1. file.orders = <<>> /\ crashes = 0 /\ pc[p] = "idle"
    BY DEF Init, Absent, Holding
  <2>2. Told = <<>>
    BY <2>1, ToldAlone DEF InProgress
  <2> QED
    BY <2>1, <2>2 DEF Book!Init
<1>2. IInv /\ ClosedInv(p) /\ BookInv(p) /\ [Next]_vars
        => [Book!Next]_<<Told, crashes>>
  <2>1. CASE \E q \in Procs : Step(q)
    BY <2>1, StepIsBook
  <2>2. CASE Reboot
    <3>1. /\ pc[p] \in {"dead", "idle"} /\ pc'[p] = "dead" /\ UNCHANGED <<file, crashes>>
      BY <2>2 DEF Reboot
    <3>2. ~InProgress(p) /\ ~InProgress(p)'
      BY <3>1 DEF InProgress
    <3> QED
      BY <3>1, <3>2, ToldAlone
  <2>3. CASE UNCHANGED vars
    BY <2>3 DEF vars, Told, InProgress
  <2> QED
    BY <2>1, <2>2, <2>3 DEF Next
<1> QED
  BY <1>1, <1>2, IInvHolds, ClosedInvHolds, BookInvHolds, PTL
  DEF Spec, ImplementsBook, Book!Spec
==============================================================================
