----------------------------- MODULE LocalOrders -----------------------------
(***************************************************************************)
(* The local order provider: simulated orders kept in assets/orders.json.  *)
(* Every mutation reads the whole file, edits the parsed tree and writes   *)
(* the whole file back through an std::ofstream, whose constructor         *)
(* truncates the file before the new text is flushed.  The API server and  *)
(* the desktop application are separate processes that run the same        *)
(* provider over the same file, without a lock.                            *)
(***************************************************************************)
EXTENDS Integers, Sequences, FiniteSets

CONSTANTS
  Procs,        \* the processes that use the file
  Servers,      \* those that are API servers: a GET that throws ends them
  MaxOrders,    \* bound: no submission is begun after this many ids were drawn
  MaxTick,      \* bound: the ticks steady_clock can show
  MaxCrashes    \* bound: crashes of a process and failed writes

ASSUME ServersAssumption == Servers \subseteq Procs
ASSUME BoundsAssumption ==
  MaxOrders \in Nat /\ MaxTick \in Nat \ {0} /\ MaxCrashes \in Nat

VARIABLES
  file,         \* the file: how it parses and the orders it holds
  clock,        \* the tick steady_clock has reached, the source of order ids
  ticks,        \* history: the ticks drawn for orders, in the order drawn
  pc,           \* what each process is doing
  job,          \* the request each process is serving
  buf,          \* the parsed and edited tree each process is about to write
  crashes,      \* number of crashes and failed writes so far
  cancelAcks,   \* history: ids whose cancellation a caller was told of
  submitAcks,   \* history: ids whose submission a caller was told of
  chain         \* history: <<replaced, replacement>> pairs ever written

vars == <<file, clock, ticks, pc, job, buf, crashes, cancelAcks, submitAcks, chain>>
time == <<clock, ticks>>
acks == <<cancelAcks, submitAcks>>

Status == {"accepted", "cancelled"}

(* The field nth is history: the order was the nth that drew a tick. *)
Order == [id : Nat, nth : Nat, status : Status]
Orders == Seq(Order)

(* An empty or garbled file makes read_json throw. *)
File == [state : {"absent", "empty", "garbled"}, orders : {<<>>}]
          \cup [state : {"ok"}, orders : Orders]

Absent == [state |-> "absent", orders |-> <<>>]
Empty == [state |-> "empty", orders |-> <<>>]
Garbled == [state |-> "garbled", orders |-> <<>>]
Holding(s) == [state |-> "ok", orders |-> s]

Unreadable == file.state \in {"empty", "garbled"}

Phases == {"idle", "called", "parsed", "loaded", "truncated", "written", "dead"}

Job == [op : {"submit", "cancel", "replace"}, stage : {"submit", "cancel"},
        target : Nat, placed : Nat, base : Orders]
NoJob == [op |-> "submit", stage |-> "submit", target |-> 0, placed |-> 0,
          base |-> <<>>]

IsOpenOrderStatus(status) == status \in {"accepted", "submitted", "working"}

OpenIn(s, id) == \E k \in DOMAIN s : s[k].id = id /\ IsOpenOrderStatus(s[k].status)

PositionsOf(s, id) == {k \in DOMAIN s : s[k].id = id}

(* The scan of CancelOrder stops at the first order with the id. *)
IsFirst(s, k, id) == s[k].id = id /\ \A j \in 1..(k - 1) : s[j].id # id

(* Faulty variants, each a plausible slip, stand before the definition     *)
(* they vary; PROJECT.json names the property each of them breaks.         *)

(* Cancelling takes the order out of the history. *)
WithErased(s, id) == SelectSeq(s, LAMBDA o : o.id # id)

(* The status is spelled as TD Ameritrade spells it. *)
WithCanceled(s, id) ==
  [k \in DOMAIN s |-> IF IsFirst(s, k, id)
                      THEN [s[k] EXCEPT !.status = "canceled"] ELSE s[k]]

WithCancelled(s, id) ==
  [k \in DOMAIN s |-> IF IsFirst(s, k, id)
                      THEN [s[k] EXCEPT !.status = "cancelled"] ELSE s[k]]

------------------------------------------------------------------------------
Init ==
  /\ file \in {Absent, Holding(<<>>)}
  /\ clock = 1 /\ ticks = <<>>
  /\ pc = [p \in Procs |-> "idle"]
  /\ job = [p \in Procs |-> NoJob]
  /\ buf = [p \in Procs |-> <<>>]
  /\ crashes = 0
  /\ cancelAcks = {} /\ submitAcks = {} /\ chain = {}

Goto(p, phase) == pc' = [pc EXCEPT ![p] = phase]

(* A request reaches an idle process.  Clients name ids they were given;   *)
(* an id lost with the file is then unknown, as a made-up one would be.    *)
Call(p, op, target) ==
  /\ pc[p] = "idle"
  /\ job' = [job EXCEPT ![p] =
       [NoJob EXCEPT !.op = op, !.target = target, !.base = file.orders,
                     !.stage = IF op = "submit" THEN "submit" ELSE "cancel"]]
  /\ Goto(p, "called")
  /\ UNCHANGED <<file, time, buf, crashes, acks, chain>>

IdsGiven == {ticks[n] : n \in DOMAIN ticks}
MayOrder == Len(ticks) < MaxOrders

CallSubmit(p) == MayOrder /\ Call(p, "submit", 0)
CallCancel(p) == \E id \in IdsGiven : Call(p, "cancel", id)
CallReplace(p) == MayOrder /\ \E id \in IdsGiven : Call(p, "replace", id)

(* SubmitOrder parses the file ... *)
ParseForSubmit(p, s) ==
  /\ pc[p] = "called" /\ job[p].stage = "submit"
  /\ buf' = [buf EXCEPT ![p] = s]
  /\ Goto(p, "parsed")
  /\ UNCHANGED <<file, time, job, crashes, acks, chain>>

(* Faulty: the tree parsed for the cancellation is used for the submission. *)
SubmitOnOldTree(p) == ParseForSubmit(p, job[p].base)

(* Faulty: every submission starts a new file. *)
SubmitOnNothing(p) == ParseForSubmit(p, <<>>)

(* A file that is missing or does not parse is an empty book. *)
LoadForSubmit(p) == ParseForSubmit(p, file.orders)

(* MakeRuntimeId: time has passed since the last tick, or not enough for   *)
(* the clock to show it.                                                   *)
DrawTick(t) ==
  /\ t \in clock..MaxTick
  /\ clock' = t
  /\ ticks' = Append(ticks, t)

NewOrder(id, n) == [id |-> id, nth |-> n, status |-> "accepted"]

(* ... and appends an order whose id it draws after the parse. *)
AppendNew(p, id) ==
  /\ pc[p] = "parsed"
  /\ buf' = [buf EXCEPT ![p] = Append(@, NewOrder(id, Len(ticks) + 1))]
  /\ job' = [job EXCEPT ![p].placed = id]
  /\ Goto(p, "loaded")
  /\ UNCHANGED <<file, crashes, acks, chain>>

(* Faulty: orders are numbered by their position. *)
PlaceNumbered(p) ==
  \E t \in clock..MaxTick : DrawTick(t) /\ AppendNew(p, Len(buf[p]) + 1)

PlaceOrder(p) == \E t \in clock..MaxTick : DrawTick(t) /\ AppendNew(p, t)

(* Faulty: the tick PreviewOrder drew before the parse is used again. *)
SubmitPreviewed(p) ==
  \/ /\ pc[p] = "called" /\ job[p].stage = "submit"
     /\ \E t \in clock..MaxTick :
          DrawTick(t) /\ job' = [job EXCEPT ![p].placed = t]
     /\ Goto(p, "parsed")
     /\ UNCHANGED <<file, buf, crashes, acks, chain>>
  \/ /\ pc[p] = "parsed"
     /\ \E n \in DOMAIN ticks :
          /\ ticks[n] = job[p].placed
          /\ buf' = [buf EXCEPT ![p] = Append(file.orders, NewOrder(ticks[n], n))]
     /\ Goto(p, "loaded")
     /\ UNCHANGED <<file, time, job, crashes, acks, chain>>

Submit(p) == LoadForSubmit(p) \/ PlaceOrder(p)

(* CancelOrder: the status of the order found is not looked at. *)
LoadForCancel(p) ==
  /\ pc[p] = "called" /\ job[p].stage = "cancel"
  /\ PositionsOf(file.orders, job[p].target) # {}
  /\ buf' = [buf EXCEPT ![p] = WithCancelled(file.orders, job[p].target)]
  /\ Goto(p, "loaded")
  /\ UNCHANGED <<file, time, job, crashes, acks, chain>>

(* "order not found": the exception leaves the file alone. *)
OrderNotFound(p) ==
  /\ pc[p] = "called" /\ job[p].stage = "cancel"
  /\ PositionsOf(file.orders, job[p].target) = {}
  /\ Goto(p, "idle")
  /\ job' = [job EXCEPT ![p] = NoJob]
  /\ UNCHANGED <<file, time, buf, crashes, acks, chain>>

(* std::ofstream output(path_) *)
Truncate(p) ==
  /\ pc[p] = "loaded"
  /\ file' = Empty
  /\ Goto(p, "truncated")
  /\ UNCHANGED <<time, job, buf, crashes, acks, chain>>

(* The text is written from offset 0.  When another process wrote since    *)
(* the truncation, a longer old text leaves its tail behind the new one.   *)
Overlay(p) == IF file.state = "empty"
              THEN {Holding(buf[p])}
              ELSE {Holding(buf[p]), Garbled}

NewPair(p) == IF job[p].op = "replace" /\ job[p].stage = "submit"
              THEN {<<job[p].target, job[p].placed>>} ELSE {}

(* ReplaceOrder goes on to SubmitOrder, which reads the file again. *)
MoreToDo(p) == job[p].op = "replace" /\ job[p].stage = "cancel"

Flush(p) ==
  /\ pc[p] = "truncated"
  /\ file' \in Overlay(p)
  /\ chain' = chain \cup NewPair(p)
  /\ IF MoreToDo(p)
     THEN Goto(p, "called") /\ job' = [job EXCEPT ![p].stage = "submit"]
     ELSE Goto(p, "written") /\ UNCHANGED job
  /\ buf' = [buf EXCEPT ![p] = <<>>]
  /\ UNCHANGED <<time, crashes, acks>>

Respond(p) ==
  /\ pc[p] = "written"
  /\ cancelAcks' = IF job[p].op # "submit"
                   THEN cancelAcks \cup {job[p].target} ELSE cancelAcks
  /\ submitAcks' = IF job[p].op # "cancel"
                   THEN submitAcks \cup {job[p].placed} ELSE submitAcks
  /\ Goto(p, "idle")
  /\ job' = [job EXCEPT ![p] = NoJob]
  /\ UNCHANGED <<file, time, buf, crashes, chain>>

(* GetOpenOrders and GetOrderHistory do not catch read_json's exception,   *)
(* HandleGet does not either, and main returns: the server is gone.  (The  *)
(* desktop shows the error; a readable file changes nothing.)              *)
ServeOrders(p) ==
  /\ p \in Servers
  /\ pc[p] = "idle"
  /\ Unreadable
  /\ Goto(p, "dead")
  /\ UNCHANGED <<file, time, job, buf, crashes, acks, chain>>

(* The process dies: killed, or by an http::write to a client that left.   *)
(* In the middle of the flush a part of the text is on disk.               *)
Crash(p) ==
  /\ crashes < MaxCrashes
  /\ pc[p] \notin {"dead", "idle"}
  /\ file' \in {file} \cup IF pc[p] = "truncated" THEN {Garbled} ELSE {}
  /\ crashes' = crashes + 1
  /\ Goto(p, "dead")
  /\ job' = [job EXCEPT ![p] = NoJob]
  /\ buf' = [buf EXCEPT ![p] = <<>>]
  /\ UNCHANGED <<time, acks, chain>>

(* The file cannot be opened for writing, or the device fills up: the      *)
(* exception of write_json is answered as an error and the process goes on *)
(* with what the truncation left of the file.                              *)
WriteFails(p) ==
  /\ crashes < MaxCrashes
  /\ pc[p] \in {"loaded", "truncated"}
  /\ file' \in {file} \cup IF pc[p] = "truncated" THEN {Garbled} ELSE {}
  /\ crashes' = crashes + 1
  /\ Goto(p, "idle")
  /\ job' = [job EXCEPT ![p] = NoJob]
  /\ buf' = [buf EXCEPT ![p] = <<>>]
  /\ UNCHANGED <<time, acks, chain>>

Restart(p) ==
  /\ pc[p] = "dead"
  /\ Goto(p, "idle")
  /\ UNCHANGED <<file, time, job, buf, crashes, acks, chain>>

(* The machine is shut down: steady_clock counts from its start, so the    *)
(* ticks begin again while the file stays.  (A process that is in the      *)
(* middle of something crashes first.)                                     *)
Reboot ==
  /\ \A p \in Procs : pc[p] \in {"idle", "dead"}
  /\ clock' = 1
  /\ pc' = [p \in Procs |-> "dead"]
  /\ UNCHANGED <<file, ticks, job, buf, crashes, acks, chain>>

Step(p) ==
  \/ CallSubmit(p) \/ CallCancel(p) \/ CallReplace(p)
  \/ Submit(p) \/ LoadForCancel(p) \/ OrderNotFound(p)
  \/ Truncate(p) \/ Flush(p) \/ Respond(p)
  \/ ServeOrders(p) \/ Crash(p) \/ WriteFails(p) \/ Restart(p)

Next == Reboot \/ \E p \in Procs : Step(p)

Spec == Init /\ [][Next]_vars

------------------------------------------------------------------------------
(* PROPERTIES *)

TypeOK ==
  /\ file \in File
  /\ clock \in Nat \ {0} /\ ticks \in Seq(Nat)
  /\ pc \in [Procs -> Phases]
  /\ job \in [Procs -> Job]
  /\ buf \in [Procs -> Orders]
  /\ crashes \in Nat
  /\ cancelAcks \subseteq Nat /\ submitAcks \subseteq Nat
  /\ chain \subseteq Nat \X Nat

Chronological(s) == \A i, j \in DOMAIN s : i < j => s[i].nth < s[j].nth

(* Whatever several processes interleave, wherever they crash and however  *)
(* often the clock starts again, the history on disk lists orders in the   *)
(* order in which they drew their ids and none twice: SubmitOrder draws    *)
(* the id after it parsed the orders the id must follow, so stale          *)
(* write-backs may lose orders but never duplicate or reorder them.        *)
InSubmissionOrder == Chronological(file.orders)

(* Ids are ticks, so two orders get the same id when the clock does not    *)
(* tick between them or shows the same tick again after a reboot; which    *)
(* of them an id names is then open.                                       *)
Apart(ts) == \A i, j \in DOMAIN ts : i # j => ts[i] # ts[j]
TicksApart == Apart(ticks)

(* An order whose cancellation a caller was told of is never open again:   *)
(* neither a later mutation nor a crash brings it back.  Holds for one     *)
(* process while no tick was drawn twice; a second process can write a     *)
(* stale tree back over the cancel.                                        *)
CancelledStayClosed ==
  TicksApart => \A id \in cancelAcks : ~OpenIn(file.orders, id)

(* An order and its replacement are never open at the same time, at any    *)
(* instant of ReplaceOrder or after a crash inside it: the exposure is     *)
(* moved, never doubled.  Again for one process and ids that differ.       *)
NeverBothOpen ==
  TicksApart =>
  \A pair \in chain : ~(/\ OpenIn(file.orders, pair[1])
                        /\ OpenIn(file.orders, pair[2]))

(* Until something fails, every acknowledged submission is in the history  *)
(* whenever no write is under way, and the file can be read: holds for one *)
(* process, which never overwrites what another one added.                 *)
AcknowledgedAreStored ==
  (crashes = 0 /\ \A p \in Procs : pc[p] # "truncated") =>
     /\ ~Unreadable
     /\ \A id \in submitAcks : PositionsOf(file.orders, id) # {}

(* With one process the file, outside a mutation in progress, is the       *)
(* history that OrderBook promises; during one it is the history before.   *)
InProgress(p) ==
  \/ pc[p] = "truncated"
  \/ pc[p] \in {"called", "parsed", "loaded"} /\ job[p].op = "replace" /\ job[p].stage = "submit"

Told == IF \E p \in Procs : InProgress(p)
        THEN job[CHOOSE p \in Procs : InProgress(p)].base
        ELSE file.orders

Book == INSTANCE OrderBook WITH book <- Told, failures <- crashes

(* Each call of the one process takes effect at once, the two writes of    *)
(* ReplaceOrder included.  A crash or a failed write inside a mutation     *)
(* loses the whole history at worst, and one inside ReplaceOrder leaves    *)
(* its cancellation; nothing else ever happens to the history.             *)
ImplementsBook == Book!Spec
==============================================================================
