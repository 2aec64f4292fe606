------------------------------ MODULE EdgeSync ------------------------------
(***************************************************************************)
(* Store Edge: the agent on the till's computer (internal/storeedge,       *)
(* cmd/store-edge) sells from a local snapshot of one product while the    *)
(* cloud is out of reach, and pushes the sales to the cloud (internal/edge *)
(* and the /v1/edge handlers of cmd/api) when it is back.                  *)
(*                                                                         *)
(* Every method of Store holds the store's mutex and is one action; the    *)
(* calls to the cloud happen outside it.  Several Syncer.Run may be under  *)
(* way at once: the ticker's, the one each offline sale starts, and those  *)
(* of the sync, retry and pair requests.                                   *)
(***************************************************************************)
EXTENDS Integers, FiniteSets

CONSTANTS
  MaxSales,       \* bound: local operation ids drawn in a behaviour
  SaleLines,      \* the quantities on the lines of each sale
  MaxLines, MaxQty,
  Runs,           \* bound: Syncer.Run calls under way at once
  Devices,        \* device ids the cloud may issue
  NoDevice,
  Opening,        \* on_hand of the product in the cloud at the start
  MaxElsewhere,   \* bound: units other channels sell
  MaxFaults       \* bound: lost calls, failed writes and restarts

Sales == 1 .. MaxSales

ASSUME EdgeAssumption ==
  /\ MaxSales \in Nat
  /\ {MaxLines, MaxQty} \subseteq Nat
  /\ \A s \in Sales : \E n \in 1 .. MaxLines :
       SaleLines[s] \in [1 .. n -> 1 .. MaxQty]
  /\ NoDevice \notin Devices
  /\ {Opening, MaxElsewhere, MaxFaults} \subseteq Nat

VARIABLES
  state, stateFile,     \* Store.state and state.json
  config, configFile,   \* Store.config (its DeviceID) and config.json
  receipts,             \* sales the till has confirmed to the cashier
  minted,               \* local operation ids drawn so far
  run,                  \* the Syncer.Run calls
  late,                 \* pushes given up by the agent that may still arrive
  pairing, active,      \* store_edge_pairings, and the devices not revoked
  onHand, posted,       \* the cloud's balance, and its sales by key
  elsewhere,            \* units sold by other channels
  faults,
  \* History variables, which no guard reads.
  unread,               \* sales of the file that this process failed to read
  lost                  \* sales written over by a process that had not read them

storeVars == <<state, stateFile, receipts, minted, unread, lost>>
configVars == <<config, configFile, pairing, active>>
cloudVars == <<onHand, posted, elsewhere>>
vars == <<storeVars, configVars, cloudVars, run, late, faults>>

SaleStatus == {"pending", "conflict", "synced"}

\* The units on all lines of the sales in S, and their number.
Units(S) ==
  {u \in S \X ((1 .. MaxLines) \X (1 .. MaxQty)) :
     /\ u[2][1] \in DOMAIN SaleLines[u[1]]
     /\ u[2][2] <= SaleLines[u[1]][u[2][1]]}
Quantity(S) == Cardinality(Units(S))

\* unseen is history: the sales other Runs have marked since this one listed
\* the queue, or since it fetched the snapshot.
Idle == [at |-> "idle", device |-> NoDevice, todo |-> {}, stock |-> 0,
         unseen |-> {}]

\* overlooked is history: the sales that the snapshot still counts as stock
\* although they were already synced, and so not deducted, when it came.
Empty == [sales |-> [s \in Sales |-> "none"], available |-> 0,
          overlooked |-> {}]

Init ==
  /\ state = Empty
  /\ stateFile = state
  /\ config = NoDevice
  /\ configFile = NoDevice
  /\ receipts = {}
  /\ minted = 0
  /\ run = [w \in Runs |-> Idle]
  /\ late = {}
  /\ pairing = [d \in Devices |-> "open"]
  /\ active = {}
  /\ onHand = Opening
  /\ posted = [d \in Devices |-> [s \in Sales |-> 0]]
  /\ elsewhere = 0
  /\ faults = 0
  /\ unread = {}
  /\ lost = {}

Fault ==
  /\ faults < MaxFaults
  /\ faults' = faults + 1

-----------------------------------------------------------------------------
(* The store *)

\* A write of state.json, by a temporary file and a rename: it happens or it
\* fails, and a failure leaves the memory changed.
Written(new) ==
  /\ stateFile' = new
  /\ lost' = lost \cup unread
  /\ unread' = {}
NotWritten == UNCHANGED <<stateFile, lost, unread>>

Saved(new) == state' = new /\ Written(new) /\ UNCHANGED faults
NotSaved(new) == state' = new /\ NotWritten /\ Fault

Queued == {s \in Sales : state.sales[s] # "none"}
WithStatus(status) == {s \in Sales : state.sales[s] = status}

Marked(s, status) == [state EXCEPT !.sales[s] = status]

Sold(s) == [Marked(s, "pending") EXCEPT !.available = @ - Quantity({s})]

\* Mistake (see README, Mistakes): the cashier is answered before the write.
QueueSaleAnsweredEarly(s) ==
  /\ config # NoDevice
  /\ s = minted + 1
  /\ \A i \in DOMAIN SaleLines[s] : SaleLines[s][i] <= state.available
  /\ Saved(Sold(s)) \/ NotSaved(Sold(s))
  /\ receipts' = receipts \cup {s}
  /\ minted' = s
  /\ UNCHANGED <<configVars, cloudVars, run, late>>

\* QueueSale.  Each line is compared with the availability before the sale.
\* When the write fails the cashier gets an error, but the sale stays queued.
QueueSale(s) ==
  /\ config # NoDevice
  /\ s = minted + 1
  /\ \A i \in DOMAIN SaleLines[s] : SaleLines[s][i] <= state.available
  /\ \/ Saved(Sold(s)) /\ receipts' = receipts \cup {s}
     \/ NotSaved(Sold(s)) /\ UNCHANGED receipts
  /\ minted' = s
  /\ UNCHANGED <<configVars, cloudVars, run, late>>

\* Retry, by the operator; the Run it starts is one of BeginRun.
Retry(s) ==
  /\ state.sales[s] = "conflict"
  /\ Saved(Marked(s, "pending")) \/ NotSaved(Marked(s, "pending"))
  /\ UNCHANGED <<receipts, minted, configVars, cloudVars, run, late>>

-----------------------------------------------------------------------------
(* The cloud *)

\* Mistake: sales.Create does not look the idempotency key up.
BookSaleAgain(d, s) ==
  /\ Quantity({s}) <= onHand
  /\ onHand' = onHand - Quantity({s})
  /\ posted' = [posted EXCEPT ![d][s] = @ + 1]

\* sales.Create under the key "edge:<device>:<local id>".
BookSale(d, s) ==
  \/ /\ posted[d][s] > 0
     /\ UNCHANGED <<onHand, posted>>
  \/ /\ posted[d][s] = 0
     /\ Quantity({s}) <= onHand
     /\ onHand' = onHand - Quantity({s})
     /\ posted' = [posted EXCEPT ![d][s] = @ + 1]

\* POST /v1/edge/sales.  Every error is a 4xx: 401 for a device that is not
\* active, 409 for whatever keeps Create from committing, a serialization
\* failure or a full database among them.
HandleSale(d, s, answer) ==
  /\ UNCHANGED elsewhere
  /\ \/ /\ answer = "created"
        /\ d \in active
        /\ BookSale(d, s)
        /\ UNCHANGED faults
     \/ /\ answer = "refused"
        /\ UNCHANGED <<onHand, posted>>
        /\ \/ d \notin active /\ UNCHANGED faults
           \/ /\ posted[d][s] = 0
              /\ onHand < Quantity({s})
              /\ UNCHANGED faults
           \/ Fault

\* A push whose sender no longer waits for the answer.
ServeLate(d, s) ==
  /\ <<d, s>> \in late
  /\ late' = late \ {<<d, s>>}
  /\ \E answer \in {"created", "refused"} : HandleSale(d, s, answer)
  /\ UNCHANGED <<storeVars, configVars, run>>

\* Web, network and other tills sell the same product.
SellElsewhere ==
  /\ elsewhere < MaxElsewhere
  /\ onHand > 0
  /\ onHand' = onHand - 1
  /\ elsewhere' = elsewhere + 1
  /\ UNCHANGED <<storeVars, configVars, posted, run, late, faults>>

-----------------------------------------------------------------------------
(* Syncer.Run *)

Go(w, at) == run' = [run EXCEPT ![w].at = at]

\* PendingSales keeps the order in which the sales were queued.
NextSale(w) == CHOOSE s \in run[w].todo : \A t \in run[w].todo : s <= t

\* The configuration is copied once: a Run goes on with the device it began.
BeginRun(w) ==
  /\ run[w].at = "idle"
  /\ config # NoDevice
  /\ run' = [run EXCEPT ![w] = [Idle EXCEPT !.at = "list", !.device = config]]
  /\ UNCHANGED <<storeVars, configVars, cloudVars, late, faults>>

\* Mistake: conflicts are pushed again without the operator.
ListQueuedSales(w) ==
  /\ run[w].at = "list"
  /\ run' = [run EXCEPT ![w].at = "push",
                        ![w].todo = Queued \ WithStatus("synced"),
                        ![w].unseen = {}]
  /\ UNCHANGED <<storeVars, configVars, cloudVars, late, faults>>

ListPendingSales(w) ==
  /\ run[w].at = "list"
  /\ run' = [run EXCEPT ![w].at = "push", ![w].todo = WithStatus("pending"),
                        ![w].unseen = {}]
  /\ UNCHANGED <<storeVars, configVars, cloudVars, late, faults>>

PushSale(w) ==
  /\ run[w].at = "push"
  /\ run[w].todo # {}
  /\ Go(w, "sent")
  /\ UNCHANGED <<storeVars, configVars, cloudVars, late, faults>>

ServePush(w) ==
  /\ run[w].at = "sent"
  /\ \E answer \in {"created", "refused"} :
       /\ HandleSale(run[w].device, NextSale(w), answer)
       /\ Go(w, answer)
  /\ UNCHANGED <<storeVars, configVars, late>>

\* Mistake: a call that brought no answer counts as accepted.
LosePushAsCreated(w) ==
  /\ run[w].at \in {"sent", "created", "refused"}
  /\ Fault
  /\ Go(w, "created")
  /\ UNCHANGED late
  /\ UNCHANGED <<storeVars, configVars, cloudVars>>

\* The call fails or times out: the request was lost, or is still on its way,
\* or the answer was lost.
LosePush(w) ==
  /\ run[w].at \in {"sent", "created", "refused"}
  /\ Fault
  /\ Go(w, "failed")
  /\ \/ UNCHANGED late
     \/ /\ run[w].at = "sent"
        /\ late' = late \cup {<<run[w].device, NextSale(w)>>}
  /\ UNCHANGED <<storeVars, configVars, cloudVars>>

\* The Run w goes on as new; a sale it marked is news to the other Runs.
Marks(w, new) ==
  run' = [v \in Runs |->
            IF v = w THEN new
            ELSE IF run[v].at = "idle" THEN run[v]
            ELSE [run[v] EXCEPT !.unseen = @ \cup {NextSale(w)}]]

Forward(w) ==
  Marks(w, [run[w] EXCEPT !.at = "push", !.todo = @ \ {NextSale(w)}])
Abandon(w) == Marks(w, Idle)
Stop(w) == run' = [run EXCEPT ![w] = Idle]

\* MarkAttempt "synced": an error of the write ends the Run.
MarkSynced(w) ==
  LET new == Marked(NextSale(w), "synced")
  IN  /\ run[w].at = "created"
      /\ \/ Saved(new) /\ Forward(w)
         \/ NotSaved(new) /\ Abandon(w)
      /\ UNCHANGED <<receipts, minted, configVars, cloudVars, late>>

\* MarkAttempt "conflict": an error of the write is ignored.
MarkConflict(w) ==
  LET new == Marked(NextSale(w), "conflict")
  IN  /\ run[w].at = "refused"
      /\ Saved(new) \/ NotSaved(new)
      /\ Forward(w)
      /\ UNCHANGED <<receipts, minted, configVars, cloudVars, late>>

\* Mistake: a sale whose push failed gets a status nothing looks for.
MarkFailed(w) ==
  LET new == Marked(NextSale(w), "failed")
  IN  /\ run[w].at = "failed"
      /\ Saved(new) \/ NotSaved(new)
      /\ Abandon(w)
      /\ UNCHANGED <<receipts, minted, configVars, cloudVars, late>>

\* MarkAttempt "pending" and SetSyncResult: the Run ends without a snapshot.
MarkPending(w) ==
  LET new == Marked(NextSale(w), "pending")
  IN  /\ run[w].at = "failed"
      /\ Saved(new) \/ NotSaved(new)
      /\ Abandon(w)
      /\ UNCHANGED <<receipts, minted, configVars, cloudVars, late>>

\* GET /v1/edge/snapshot.
FetchSnapshot(w) ==
  /\ run[w].at = "push"
  /\ run[w].todo = {}
  /\ run[w].device \in active
  /\ run' = [run EXCEPT ![w].at = "fetched", ![w].stock = onHand,
                        ![w].unseen = {}]
  /\ UNCHANGED <<storeVars, configVars, cloudVars, late, faults>>

\* The snapshot is refused or its answer lost; SetSyncResult writes the state.
LoseSnapshot(w) ==
  /\ \/ /\ run[w].at = "push"
        /\ run[w].todo = {}
        /\ run[w].device \notin active
        /\ Saved(state) \/ NotSaved(state)
     \/ /\ \/ run[w].at = "push" /\ run[w].todo = {}
           \/ run[w].at = "fetched"
        /\ Fault
        /\ UNCHANGED state
        /\ Written(state) \/ NotWritten
  /\ Stop(w)
  /\ UNCHANGED <<receipts, minted, configVars, cloudVars, late>>

\* Mistake: only pending sales are deducted from the fresh snapshot.
AvailableAfterPending(stock) ==
  LET left == stock - Quantity(WithStatus("pending"))
  IN  IF left > 0 THEN left ELSE 0

\* All sales the cloud has not confirmed are deducted, conflicts too.
AvailableAfterQueue(stock) ==
  LET left == stock - Quantity(Queued \ WithStatus("synced"))
  IN  IF left > 0 THEN left ELSE 0

\* ReplaceSnapshot.
ReplaceSnapshot(w) ==
  LET new == [state EXCEPT
                !.available = AvailableAfterQueue(run[w].stock),
                !.overlooked = run[w].unseen \cap WithStatus("synced")]
  IN  /\ run[w].at = "fetched"
      /\ Saved(new) \/ NotSaved(new)
      /\ Stop(w)
      /\ UNCHANGED <<receipts, minted, configVars, cloudVars, late>>

-----------------------------------------------------------------------------
(* Pairing, and the end of the process *)

\* PairDevice: the cloud accepts a one-time code and issues a device.
PairDevice(d) ==
  /\ pairing[d] = "open"
  /\ pairing' = [pairing EXCEPT ![d] = "issued"]
  /\ active' = active \cup {d}
  /\ UNCHANGED <<storeVars, config, configFile, cloudVars, run, late, faults>>

\* SavePairing overwrites the device the agent had; sales stay queued.
SavePairing(d) ==
  /\ pairing[d] = "issued"
  /\ pairing' = [pairing EXCEPT ![d] = "closed"]
  /\ config' = d
  /\ \/ configFile' = d /\ UNCHANGED faults
     \/ UNCHANGED configFile /\ Fault
  /\ UNCHANGED <<storeVars, active, cloudVars, run, late>>

\* Revoke, by the owner of the store.
Revoke(d) ==
  /\ d \in active
  /\ active' = active \ {d}
  /\ UNCHANGED <<storeVars, config, configFile, pairing, cloudVars, run, late,
                 faults>>

\* Open reads state.json, or cannot: readJSON's error is dropped, and the
\* process goes on with an empty state.
OpenState ==
  /\ UNCHANGED <<stateFile, lost>>
  /\ \/ state' = stateFile /\ unread' = {}
     \/ /\ state' = Empty
        /\ unread' = {s \in Sales : stateFile.sales[s] # "none"}

\* Likewise config.json: without it the agent is not paired.
OpenConfig ==
  /\ UNCHANGED configFile
  /\ config' \in {configFile, NoDevice}

\* The process ends at any point and Open reads the files again.  A push that
\* was under way may still reach the cloud.
Restart ==
  /\ Fault
  /\ OpenState
  /\ OpenConfig
  /\ run' = [w \in Runs |-> Idle]
  /\ \E reaching \in SUBSET {w \in Runs : run[w].at = "sent"} :
       late' = late \cup {<<run[w].device, NextSale(w)>> : w \in reaching}
  /\ pairing' = [d \in Devices |-> IF pairing[d] = "issued" THEN "closed"
                                                           ELSE pairing[d]]
  /\ UNCHANGED <<receipts, minted, active, cloudVars>>

-----------------------------------------------------------------------------
\* What a Run does next, or has done to it.
RunStep(w) ==
  \/ ListPendingSales(w)
  \/ PushSale(w)
  \/ ServePush(w)
  \/ LosePush(w)
  \/ MarkSynced(w)
  \/ MarkConflict(w)
  \/ MarkPending(w)
  \/ FetchSnapshot(w)
  \/ LoseSnapshot(w)
  \/ ReplaceSnapshot(w)

Next ==
  \/ \E s \in Sales : QueueSale(s) \/ Retry(s)
  \/ \E d \in Devices, s \in Sales : ServeLate(d, s)
  \/ SellElsewhere
  \/ \E w \in Runs : BeginRun(w) \/ RunStep(w)
  \/ \E d \in Devices : PairDevice(d) \/ SavePairing(d) \/ Revoke(d)
  \/ Restart

Spec == Init /\ [][Next]_vars

\* The ticker starts a Run again and again, and every call of a Run ends: the
\* HTTP client gives up after its timeout.
FairSpec ==
  /\ Spec
  /\ WF_vars(\E w \in Runs : BeginRun(w))
  /\ \A w \in Runs : WF_vars(RunStep(w))

-----------------------------------------------------------------------------
(* Safety *)

SaleState ==
  [sales : [Sales -> SaleStatus \cup {"none"}], available : Int,
   overlooked : SUBSET Sales]

RunState ==
  [at : {"idle", "list", "push", "sent", "created", "refused", "failed",
         "fetched"},
   device : Devices \cup {NoDevice}, todo : SUBSET Sales, stock : Nat,
   unseen : SUBSET Sales]

\* The type invariant.
TypeOK ==
  /\ state \in SaleState
  /\ stateFile \in SaleState
  /\ {config, configFile} \subseteq Devices \cup {NoDevice}
  /\ receipts \subseteq Sales
  /\ minted \in 0 .. MaxSales
  /\ run \in [Runs -> RunState]
  /\ late \subseteq Devices \X Sales
  /\ pairing \in [Devices -> {"open", "issued", "closed"}]
  /\ active \subseteq Devices
  /\ onHand \in Nat
  /\ posted \in [Devices -> [Sales -> Nat]]
  /\ elsewhere \in 0 .. MaxElsewhere
  /\ faults \in 0 .. MaxFaults
  /\ {unread, lost} \subseteq SUBSET Sales

PostedBy(d) == {s \in Sales : posted[d][s] > 0}
InBooks == UNION {PostedBy(d) : d \in Devices}

\* A sale the cashier has a receipt for is in the queue and in its file,
\* whatever the disk, the network and the cloud do, with one exception: a start
\* that could not read the file leaves the sale out of the queue, and the next
\* write of that process removes it from the file.
ReceiptsKept ==
  \A s \in receipts \ lost :
    /\ stateFile.sales[s] # "none"
    /\ state.sales[s] # "none" \/ s \in unread

\* The agent calls a sale synced, in memory or on disk, only when the cloud
\* has it in its books: a lost or late answer is never taken for a yes.
SyncedIsInBooks ==
  \A s \in Sales :
    "synced" \in {state.sales[s], stateFile.sales[s]} => s \in InBooks

\* However often a sale is pushed under one device, by whichever Run and
\* however late, the cloud posts it once.
PostedOncePerDevice == \A d \in Devices, s \in Sales : posted[d][s] <= 1

\* What PHASE_15_7_RUN.md says of the key made from device and local id: a
\* replay makes no second sale.
ReplayMakesNoSale ==
  \A s \in Sales, d, e \in Devices :
    s \in PostedBy(d) \cap PostedBy(e) => d = e

\* The till never offers a unit it has sold already: what it can still sell
\* and what it has sold were all in the cloud's stock.
NoDoubleAvailability ==
  state.available > 0 => state.available + Quantity(Queued) <= Opening

\* What the till offers beyond that are units of sales that another Run marked
\* synced between the fetch of the snapshot in use and its application: no
\* lost answer, failed write, restart, retry or other channel adds to it.
DoubleAvailabilityBounded ==
  state.available > 0 =>
    state.available + Quantity(Queued) <= Opening + Quantity(state.overlooked)

\* A conflict waits for the operator: only Retry makes it pending again (or a
\* restart, when the file still says so).
ConflictWaitsForOperator ==
  [][\A s \in WithStatus("conflict") :
       state'.sales[s] = "pending" => Retry(s) \/ Restart]_vars

\* The only other way is a Run whose push of the sale failed, when another Run
\* has recorded the conflict since the first one listed the queue.
OnlyOverlapReopens ==
  [][\A s \in WithStatus("conflict") :
       state'.sales[s] = "pending" =>
         \/ Retry(s) \/ Restart
         \/ \E w \in Runs : s \in run[w].unseen /\ MarkPending(w)]_vars

-----------------------------------------------------------------------------
(* Liveness *)

\* Every receipt is settled in the end, or waits for the operator as a
\* conflict, unless the agent has lost its pairing, or the file of its queue,
\* in a restart.
ReceiptsSettle ==
  \A s \in Sales :
    s \in receipts ~>
      \/ state.sales[s] \in {"synced", "conflict"}
      \/ s \in lost \cup unread
      \/ config = NoDevice
=============================================================================
