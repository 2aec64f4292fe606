--------------------------- MODULE EdgeSyncProofs ---------------------------
(***************************************************************************)
(* Proofs about EdgeSync, for any number of sales, runs, devices and       *)
(* faults; the last part is about what Runs that overlap do to each other. *)
(***************************************************************************)
EXTENDS EdgeSync, FiniteSetTheorems, WellFoundedInduction, TLAPS

-----------------------------------------------------------------------------
(* The inductive invariant *)

\* A Run between two steps of a push has a sale to push, under a device of
\* its own.
RunsReady ==
  \A w \in Runs :
    /\ run[w].at # "idle" => run[w].device \in Devices
    /\ run[w].at \in {"sent", "created", "refused", "failed"}
         => run[w].todo # {}

\* The cloud has booked what it has said yes to.
AnsweredIsInBooks ==
  \A w \in Runs : run[w].at = "created" => NextSale(w) \in InBooks

EdgeInv ==
  /\ TypeOK
  /\ RunsReady
  /\ ReceiptsKept
  /\ AnsweredIsInBooks
  /\ SyncedIsInBooks
  /\ PostedOncePerDevice

-----------------------------------------------------------------------------
(* Sales *)

(* The quantity of any set of sales is a natural number. *)
LEMMA QuantityType ==
  ASSUME NEW S \in SUBSET Sales
  PROVE  Quantity(S) \in Nat
<1> DEFINE places == (1 .. MaxLines) \X (1 .. MaxQty)
<1>1. IsFiniteSet(1 .. MaxLines) /\ IsFiniteSet(1 .. MaxQty)
  BY EdgeAssumption, FS_Interval
<1>2. IsFiniteSet(places)
  BY <1>1, FS_Product
<1>3. IsFiniteSet(Sales)
  BY EdgeAssumption, FS_Interval DEF Sales
<1>4. IsFiniteSet(S)
  BY <1>3, FS_Subset
<1>5. IsFiniteSet(S \X places)
  BY <1>2, <1>4, FS_Product
<1>6. Units(S) \in SUBSET (S \X places)
  BY DEF Units
<1>7. IsFiniteSet(Units(S))
  BY <1>5, <1>6, FS_Subset
<1> QED
  BY <1>7, FS_CardinalityType DEF Quantity

(* A set of numbers that is not empty has a smallest one. *)
LEMMA SmallestExists ==
  ASSUME NEW T \in SUBSET Nat, T # {}
  PROVE  \E s \in T : \A t \in T : s <= t
<1> DEFINE less == {p \in Nat \X Nat : p[1] < p[2]}
<1>1. IsWellFoundedOn(less, Nat)
  BY NatLessThanWellFounded, Zenon DEF OpToRel
<1> HIDE DEF less
<1>2. PICK s \in T : \A t \in T : ~ (<<t, s>> \in less)
  BY <1>1, WFMin
<1>3. ASSUME NEW t \in T
      PROVE  s <= t
  <2>1. ~ (<<t, s>> \in less)
    BY <1>2
  <2>2. ~ (t < s)
    BY <2>1 DEF less
  <2> QED
    BY <2>2
<1> QED
  BY <1>3

(* A Run with sales to push has a first one. *)
LEMMA NextSaleInTodo ==
  ASSUME TypeOK, NEW w \in Runs, run[w].todo # {}
  PROVE  NextSale(w) \in run[w].todo /\ NextSale(w) \in Sales
<1>1. run[w].todo \subseteq Sales
  BY DEF TypeOK, RunState
<1>2. run[w].todo \in SUBSET Nat
  BY <1>1, EdgeAssumption DEF Sales
<1>3. \E s \in run[w].todo : \A t \in run[w].todo : s <= t
  BY <1>2, SmallestExists
<1> QED
  BY <1>1, <1>3 DEF NextSale

-----------------------------------------------------------------------------
(* What the writers of the store and of the runs have in common *)

(* A method of Store that forgets no sale and calls only booked sales synced *)
(* keeps the promises about sales, whether its write fails or not.           *)
LEMMA StoreStep ==
  ASSUME EdgeInv,
         NEW new \in SaleState,
         \A s \in Sales : state.sales[s] # "none" => new.sales[s] # "none",
         \A s \in Sales : new.sales[s] = "synced" => s \in InBooks,
         Saved(new) \/ NotSaved(new),
         UNCHANGED <<receipts, posted>>
  PROVE  /\ state' \in SaleState /\ stateFile' \in SaleState
         /\ {unread', lost'} \subseteq SUBSET Sales
         /\ faults' \in 0 .. MaxFaults
         /\ ReceiptsKept'
         /\ SyncedIsInBooks'
<1>1. faults \in Nat /\ MaxFaults \in Nat /\ faults <= MaxFaults
  BY EdgeAssumption DEF EdgeInv, TypeOK
<1>2. faults' \in 0 .. MaxFaults
  BY <1>1 DEF Saved, NotSaved, Fault
<1>3. /\ state' = new
      /\ \/ stateFile' = new /\ lost' = lost \cup unread /\ unread' = {}
         \/ UNCHANGED <<stateFile, lost, unread>>
  BY DEF Saved, NotSaved, Written, NotWritten
<1>4. InBooks' = InBooks
  BY DEF InBooks, PostedBy
<1>5. /\ state' \in SaleState /\ stateFile' \in SaleState
      /\ {unread', lost'} \subseteq SUBSET Sales
  BY <1>3 DEF EdgeInv, TypeOK
<1>6. ReceiptsKept'
  BY <1>3 DEF EdgeInv, ReceiptsKept, TypeOK
<1>7. SyncedIsInBooks'
  BY <1>3, <1>4 DEF EdgeInv, SyncedIsInBooks
<1> QED
  BY <1>2, <1>5, <1>6, <1>7

(* MarkAttempt is such a method. *)
LEMMA MarkedKeeps ==
  ASSUME EdgeInv, NEW s \in Sales, NEW status \in SaleStatus,
         status = "synced" => s \in InBooks
  PROVE  /\ Marked(s, status) \in SaleState
         /\ \A t \in Sales : state.sales[t] # "none"
              => Marked(s, status).sales[t] # "none"
         /\ \A t \in Sales : Marked(s, status).sales[t] = "synced"
              => t \in InBooks
<1>1. state \in SaleState
  BY DEF EdgeInv, TypeOK
<1>2. /\ Marked(s, status) \in SaleState
      /\ \A t \in Sales : Marked(s, status).sales[t]
           = IF t = s THEN status ELSE state.sales[t]
  BY <1>1 DEF Marked, SaleState, SaleStatus
<1> QED
  BY <1>2 DEF SaleStatus, EdgeInv, SyncedIsInBooks

(* A step of one Run leaves the others where they are. *)
LEMMA RunStepKeeps ==
  ASSUME EdgeInv, NEW w \in Runs, NEW r \in RunState,
         \/ run' = [run EXCEPT ![w] = r]
         \/ Marks(w, r) /\ NextSale(w) \in Sales,
         r.at # "idle" => r.device \in Devices,
         r.at \in {"sent", "created", "refused", "failed"} => r.todo # {},
         r.at = "created" => r.todo = run[w].todo /\ NextSale(w) \in InBooks',
         InBooks \subseteq InBooks'
  PROVE  /\ run' \in [Runs -> RunState]
         /\ RunsReady'
         /\ AnsweredIsInBooks'
<1>1. run \in [Runs -> RunState]
  BY DEF EdgeInv, TypeOK
<1>2. /\ run' \in [Runs -> RunState]
      /\ run'[w] = r
      /\ \A v \in Runs \ {w} : /\ run'[v].at = run[v].at
                               /\ run'[v].device = run[v].device
                               /\ run'[v].todo = run[v].todo
  <2>1. CASE run' = [run EXCEPT ![w] = r]
    BY <1>1, <2>1
  <2>2. CASE Marks(w, r) /\ NextSale(w) \in Sales
    <3> DEFINE u(v) == [run[v] EXCEPT !.unseen = @ \cup {NextSale(w)}]
    <3>1. \A v \in Runs : /\ u(v) \in RunState /\ u(v).at = run[v].at
                          /\ u(v).device = run[v].device
                          /\ u(v).todo = run[v].todo
      BY <1>1, <2>2 DEF RunState
    <3>2. run' = [v \in Runs |-> IF v = w THEN r
                                 ELSE IF run[v].at = "idle" THEN run[v] ELSE u(v)]
      BY <2>2 DEF Marks
    <3> HIDE DEF u
    <3> QED
      BY <1>1, <3>1, <3>2
  <2> QED
    BY <2>1, <2>2
<1>3. RunsReady'
  BY <1>2 DEF EdgeInv, RunsReady
<1>4. ASSUME NEW v \in Runs, run'[v].at = "created"
      PROVE  NextSale(v)' \in InBooks'
  <2>1. CASE v = w
    <3>1. run'[w].todo = run[w].todo
      BY <1>2, <1>4, <2>1
    <3>2. NextSale(w)' = NextSale(w)
      BY <3>1 DEF NextSale
    <3> QED
      BY <1>2, <1>4, <2>1, <3>2
  <2>2. CASE v # w
    <3>1. run'[v].at = run[v].at /\ run'[v].todo = run[v].todo
      BY <1>2, <2>2
    <3>2. NextSale(v)' = NextSale(v)
      BY <3>1 DEF NextSale
    <3> QED
      BY <1>4, <3>1, <3>2 DEF EdgeInv, AnsweredIsInBooks
  <2> QED
    BY <2>1, <2>2
<1> QED
  BY <1>2, <1>3, <1>4 DEF AnsweredIsInBooks

-----------------------------------------------------------------------------
(* The steps of a Run *)

(* The answer to a push: the cloud may book the sale, and says yes only when *)
(* it has it.                                                                *)
LEMMA HandleSaleKeeps ==
  ASSUME EdgeInv, NEW d \in Devices, NEW s \in Sales,
         NEW answer \in {"created", "refused"}, HandleSale(d, s, answer)
  PROVE  /\ onHand' \in Nat
         /\ posted' \in [Devices -> [Sales -> Nat]]
         /\ elsewhere' \in 0 .. MaxElsewhere
         /\ faults' \in 0 .. MaxFaults
         /\ InBooks \subseteq InBooks'
         /\ answer = "created" => s \in InBooks'
         /\ PostedOncePerDevice'
<1>1. /\ onHand \in Nat /\ posted \in [Devices -> [Sales -> Nat]]
      /\ elsewhere \in 0 .. MaxElsewhere
      /\ faults \in 0 .. MaxFaults /\ MaxFaults \in Nat
  BY EdgeAssumption DEF EdgeInv, TypeOK
<1>2. PostedOncePerDevice
  BY DEF EdgeInv
<1>3. /\ elsewhere' \in 0 .. MaxElsewhere
      /\ faults' \in 0 .. MaxFaults
  BY <1>1 DEF HandleSale, Fault
<1>4. CASE UNCHANGED <<onHand, posted>>
  <2>1. answer = "created" => posted[d][s] > 0
    BY <1>1, <1>4 DEF HandleSale, BookSale
  <2>2. InBooks' = InBooks
    BY <1>4 DEF InBooks, PostedBy
  <2>3. PostedOncePerDevice'
    BY <1>2, <1>4 DEF PostedOncePerDevice
  <2>4. answer = "created" => s \in InBooks
    BY <2>1 DEF InBooks, PostedBy
  <2> QED
    BY <1>1, <1>3, <1>4, <2>2, <2>3, <2>4
<1>5. CASE /\ posted[d][s] = 0
           /\ Quantity({s}) <= onHand
           /\ onHand' = onHand - Quantity({s})
           /\ posted' = [posted EXCEPT ![d][s] = @ + 1]
  <2>1. Quantity({s}) \in Nat
    BY QuantityType
  <2>2. onHand' \in Nat
    BY <1>1, <1>5, <2>1
  <2>3. /\ posted' \in [Devices -> [Sales -> Nat]]
        /\ posted'[d][s] = 1
        /\ \A e \in Devices, t \in Sales :
             <<e, t>> # <<d, s>> => posted'[e][t] = posted[e][t]
    BY <1>1, <1>5
  <2>4. \A e \in Devices, t \in Sales :
          posted[e][t] > 0 => posted'[e][t] > 0
    BY <1>1, <1>5, <2>3
  <2>5. InBooks \subseteq InBooks' /\ s \in InBooks'
    BY <2>3, <2>4 DEF InBooks, PostedBy
  <2>6. PostedOncePerDevice'
    BY <1>2, <2>3 DEF PostedOncePerDevice
  <2> QED
    BY <1>3, <2>2, <2>3, <2>5, <2>6
<1> QED
  BY <1>4, <1>5 DEF HandleSale, BookSale

(* The actions that only move a Run. *)
LEMMA MovesKeep ==
  ASSUME EdgeInv, NEW w \in Runs,
         \/ BeginRun(w) \/ ListPendingSales(w) \/ PushSale(w)
         \/ FetchSnapshot(w)
  PROVE  EdgeInv'
<1>1. /\ run \in [Runs -> RunState] /\ run[w] \in RunState
      /\ onHand \in Nat /\ config \in Devices \cup {NoDevice}
  BY DEF EdgeInv, TypeOK
<1>2. UNCHANGED <<storeVars, configVars, cloudVars, late, faults>>
  BY DEF BeginRun, ListPendingSales, PushSale, FetchSnapshot
<1>3. InBooks' = InBooks
  BY <1>2 DEF InBooks, PostedBy, cloudVars
<1>4. run' \in [Runs -> RunState] /\ RunsReady' /\ AnsweredIsInBooks'
  <2>1. CASE BeginRun(w)
    <3> DEFINE r == [Idle EXCEPT !.at = "list", !.device = config]
    <3>1. /\ r \in RunState /\ r.at = "list" /\ r.device \in Devices
          /\ run' = [run EXCEPT ![w] = r]
      BY <1>1, <2>1 DEF BeginRun, Idle, RunState
    <3> HIDE DEF r
    <3> QED
      BY <1>3, <3>1, RunStepKeeps
  <2>2. CASE ListPendingSales(w)
    <3> DEFINE r == [run[w] EXCEPT !.at = "push", !.todo = WithStatus("pending"),
                                   !.unseen = {}]
    <3>1. WithStatus("pending") \in SUBSET Sales
      BY DEF WithStatus
    <3>2. /\ r \in RunState /\ r.at = "push" /\ r.device = run[w].device
          /\ run' = [run EXCEPT ![w] = r]
      BY <1>1, <2>2, <3>1 DEF ListPendingSales, RunState
    <3>3. r.device \in Devices
      BY <2>2, <3>2 DEF ListPendingSales, EdgeInv, RunsReady
    <3> HIDE DEF r
    <3> QED
      BY <1>3, <3>2, <3>3, RunStepKeeps
  <2>3. CASE PushSale(w)
    <3> DEFINE r == [run[w] EXCEPT !.at = "sent"]
    <3>1. /\ r \in RunState /\ r.at = "sent" /\ r.device = run[w].device
          /\ r.todo # {}
          /\ run' = [run EXCEPT ![w] = r]
      BY <1>1, <2>3 DEF PushSale, Go, RunState
    <3>2. r.device \in Devices
      BY <2>3, <3>1 DEF PushSale, EdgeInv, RunsReady
    <3> HIDE DEF r
    <3> QED
      BY <1>3, <3>1, <3>2, RunStepKeeps
  <2>4. CASE FetchSnapshot(w)
    <3> DEFINE r == [run[w] EXCEPT !.at = "fetched", !.stock = onHand,
                                   !.unseen = {}]
    <3>1. /\ r \in RunState /\ r.at = "fetched" /\ r.device = run[w].device
          /\ run' = [run EXCEPT ![w] = r]
      BY <1>1, <2>4 DEF FetchSnapshot, RunState
    <3>2. r.device \in Devices
      BY <2>4, <3>1 DEF FetchSnapshot, EdgeInv, RunsReady
    <3> HIDE DEF r
    <3> QED
      BY <1>3, <3>1, <3>2, RunStepKeeps
  <2> QED
    BY <2>1, <2>2, <2>3, <2>4
<1>5. TypeOK'
  BY <1>2, <1>4 DEF EdgeInv, TypeOK, storeVars, configVars, cloudVars
<1>6. ReceiptsKept' /\ SyncedIsInBooks' /\ PostedOncePerDevice'
  BY <1>2, <1>3 DEF EdgeInv, ReceiptsKept, SyncedIsInBooks,
     PostedOncePerDevice, storeVars, cloudVars
<1> QED
  BY <1>4, <1>5, <1>6 DEF EdgeInv

(* The answer to a push, and its loss. *)
LEMMA PushKeeps ==
  ASSUME EdgeInv, NEW w \in Runs, ServePush(w) \/ LosePush(w)
  PROVE  EdgeInv'
<1>1. /\ run \in [Runs -> RunState] /\ run[w] \in RunState
      /\ late \subseteq Devices \X Sales
      /\ faults \in 0 .. MaxFaults /\ MaxFaults \in Nat
  BY EdgeAssumption DEF EdgeInv, TypeOK
<1>2. run[w].at \in {"sent", "created", "refused"}
  BY DEF ServePush, LosePush
<1>3. /\ run[w].device \in Devices
      /\ run[w].todo # {}
  BY <1>2 DEF EdgeInv, RunsReady
<1>4. NextSale(w) \in Sales
  BY <1>3, NextSaleInTodo DEF EdgeInv
<1>5. UNCHANGED <<storeVars, configVars>>
  BY DEF ServePush, LosePush
<1>6. CASE ServePush(w)
  <2>1. PICK answer \in {"created", "refused"} :
          /\ HandleSale(run[w].device, NextSale(w), answer)
          /\ Go(w, answer)
    BY <1>6 DEF ServePush
  <2>2. /\ onHand' \in Nat
        /\ posted' \in [Devices -> [Sales -> Nat]]
        /\ elsewhere' \in 0 .. MaxElsewhere
        /\ faults' \in 0 .. MaxFaults
        /\ InBooks \subseteq InBooks'
        /\ answer = "created" => NextSale(w) \in InBooks'
        /\ PostedOncePerDevice'
    BY <1>3, <1>4, <2>1, HandleSaleKeeps
  <2> DEFINE r == [run[w] EXCEPT !.at = answer]
  <2>3. /\ r \in RunState /\ r.at = answer /\ r.device = run[w].device
        /\ r.todo = run[w].todo
        /\ run' = [run EXCEPT ![w] = r]
    BY <1>1, <2>1 DEF Go, RunState
  <2> HIDE DEF r
  <2>4. run' \in [Runs -> RunState] /\ RunsReady' /\ AnsweredIsInBooks'
    BY <1>3, <2>2, <2>3, RunStepKeeps
  <2>5. TypeOK'
    BY <1>5, <1>6, <2>2, <2>4
    DEF EdgeInv, TypeOK, ServePush, storeVars, configVars
  <2>6. ReceiptsKept' /\ SyncedIsInBooks'
    BY <1>5, <2>2 DEF EdgeInv, ReceiptsKept, SyncedIsInBooks, storeVars
  <2> QED
    BY <2>2, <2>4, <2>5, <2>6 DEF EdgeInv
<1>7. CASE LosePush(w)
  <2> DEFINE r == [run[w] EXCEPT !.at = "failed"]
  <2>1. /\ r \in RunState /\ r.at = "failed" /\ r.device = run[w].device
        /\ r.todo = run[w].todo
        /\ run' = [run EXCEPT ![w] = r]
    BY <1>1, <1>7 DEF LosePush, Go, RunState
  <2> HIDE DEF r
  <2>2. UNCHANGED cloudVars
    BY <1>7 DEF LosePush
  <2>3. InBooks' = InBooks
    BY <2>2 DEF InBooks, PostedBy, cloudVars
  <2>4. run' \in [Runs -> RunState] /\ RunsReady' /\ AnsweredIsInBooks'
    BY <1>3, <2>1, <2>3, RunStepKeeps
  <2>5. late' \subseteq Devices \X Sales
    BY <1>1, <1>3, <1>4, <1>7 DEF LosePush
  <2>6. faults' \in 0 .. MaxFaults
    BY <1>1, <1>7 DEF LosePush, Fault
  <2>7. TypeOK'
    BY <1>5, <2>2, <2>4, <2>5, <2>6
    DEF EdgeInv, TypeOK, storeVars, configVars, cloudVars
  <2>8. ReceiptsKept' /\ SyncedIsInBooks' /\ PostedOncePerDevice'
    BY <1>5, <2>2, <2>3 DEF EdgeInv, ReceiptsKept, SyncedIsInBooks,
       PostedOncePerDevice, storeVars, cloudVars
  <2> QED
    BY <2>4, <2>7, <2>8 DEF EdgeInv
<1> QED
  BY <1>6, <1>7

(* A Run that has written the store goes on with its next sale, or stops. *)
LEMMA WritingRunKeeps ==
  ASSUME EdgeInv, NEW w \in Runs, run[w].device \in Devices,
         NEW new \in SaleState,
         \A s \in Sales : state.sales[s] # "none" => new.sales[s] # "none",
         \A s \in Sales : new.sales[s] = "synced" => s \in InBooks,
         Saved(new) \/ NotSaved(new),
         \/ Stop(w)
         \/ NextSale(w) \in Sales /\ (Forward(w) \/ Abandon(w)),
         UNCHANGED <<receipts, minted, configVars, cloudVars, late>>
  PROVE  EdgeInv'
<1>1. run \in [Runs -> RunState] /\ run[w] \in RunState
  BY DEF EdgeInv, TypeOK
<1>2. InBooks' = InBooks
  BY DEF InBooks, PostedBy, cloudVars
<1>3. run' \in [Runs -> RunState] /\ RunsReady' /\ AnsweredIsInBooks'
  <2>1. CASE NextSale(w) \in Sales /\ Forward(w)
    <3> DEFINE r == [run[w] EXCEPT !.at = "push", !.todo = @ \ {NextSale(w)}]
    <3>1. /\ r \in RunState /\ r.at = "push" /\ r.device \in Devices
          /\ Marks(w, r)
      BY <1>1, <2>1 DEF Forward, RunState
    <3> HIDE DEF r
    <3> QED
      BY <1>2, <2>1, <3>1, RunStepKeeps
  <2>3. CASE NextSale(w) \in Sales /\ Abandon(w)
    <3>1. Idle \in RunState /\ Idle.at = "idle" /\ Marks(w, Idle)
      BY <2>3 DEF Abandon, Idle, RunState
    <3> QED
      BY <1>2, <2>3, <3>1, RunStepKeeps
  <2>2. CASE Stop(w)
    <3>1. /\ Idle \in RunState /\ Idle.at = "idle"
          /\ run' = [run EXCEPT ![w] = Idle]
      BY <2>2 DEF Stop, Idle, RunState
    <3> QED
      BY <1>2, <3>1, RunStepKeeps
  <2> QED
    BY <2>1, <2>2, <2>3
<1>4. /\ state' \in SaleState /\ stateFile' \in SaleState
      /\ {unread', lost'} \subseteq SUBSET Sales
      /\ faults' \in 0 .. MaxFaults
      /\ ReceiptsKept' /\ SyncedIsInBooks'
  BY StoreStep DEF cloudVars
<1>5. TypeOK'
  BY <1>3, <1>4 DEF EdgeInv, TypeOK, configVars, cloudVars
<1>6. PostedOncePerDevice'
  BY DEF EdgeInv, PostedOncePerDevice, cloudVars
<1> QED
  BY <1>3, <1>4, <1>5, <1>6 DEF EdgeInv

(* The marks of a Run. *)
LEMMA MarksKeep ==
  ASSUME EdgeInv, NEW w \in Runs,
         MarkSynced(w) \/ MarkConflict(w) \/ MarkPending(w)
  PROVE  EdgeInv'
<1>1. /\ run[w].at \in {"created", "refused", "failed"}
      /\ run[w].device \in Devices /\ run[w].todo # {}
  BY DEF MarkSynced, MarkConflict, MarkPending, EdgeInv, RunsReady
<1>2. NextSale(w) \in Sales
  BY <1>1, NextSaleInTodo DEF EdgeInv
<1>3. PICK status \in SaleStatus :
        /\ \/ Saved(Marked(NextSale(w), status))
           \/ NotSaved(Marked(NextSale(w), status))
        /\ status = "synced" => run[w].at = "created"
        /\ Forward(w) \/ Abandon(w)
        /\ UNCHANGED <<receipts, minted, configVars, cloudVars, late>>
  BY DEF MarkSynced, MarkConflict, MarkPending, SaleStatus
<1>4. status = "synced" => NextSale(w) \in InBooks
  BY <1>3 DEF EdgeInv, AnsweredIsInBooks
<1> DEFINE new == Marked(NextSale(w), status)
<1>5. /\ new \in SaleState
      /\ \A s \in Sales : state.sales[s] # "none" => new.sales[s] # "none"
      /\ \A s \in Sales : new.sales[s] = "synced" => s \in InBooks
  BY <1>2, <1>4, MarkedKeeps
<1> HIDE DEF new
<1>6. Saved(new) \/ NotSaved(new)
  BY <1>3 DEF new
<1> QED
  BY <1>1, <1>2, <1>3, <1>5, <1>6, WritingRunKeeps

(* The end of a Run, with a snapshot or without. *)
LEMMA SnapshotKeeps ==
  ASSUME EdgeInv, NEW w \in Runs, LoseSnapshot(w) \/ ReplaceSnapshot(w)
  PROVE  EdgeInv'
<1>1. /\ state \in SaleState /\ run[w] \in RunState
      /\ run[w].device \in Devices
  BY DEF LoseSnapshot, ReplaceSnapshot, EdgeInv, TypeOK, RunsReady
<1>2. \A s \in Sales : state.sales[s] = "synced" => s \in InBooks
  BY DEF EdgeInv, SyncedIsInBooks
<1>3. CASE LoseSnapshot(w)
  <2>1. Saved(state) \/ NotSaved(state) \/ /\ UNCHANGED state
                                           /\ Written(state)
                                           /\ Fault
    BY <1>3 DEF LoseSnapshot, NotSaved
  <2>2. Stop(w) /\ UNCHANGED <<receipts, minted, configVars, cloudVars, late>>
    BY <1>3 DEF LoseSnapshot
  <2>3. CASE Saved(state) \/ NotSaved(state)
    BY <1>1, <1>2, <2>2, <2>3, WritingRunKeeps
  <2>4. CASE UNCHANGED state /\ Written(state) /\ Fault
    <3>1. /\ Idle \in RunState /\ Idle.at = "idle"
          /\ run' = [run EXCEPT ![w] = Idle]
      BY <2>2 DEF Stop, Idle, RunState
    <3>2. InBooks' = InBooks
      BY <2>2 DEF InBooks, PostedBy, cloudVars
    <3>3. run' \in [Runs -> RunState] /\ RunsReady' /\ AnsweredIsInBooks'
      BY <3>1, <3>2, RunStepKeeps
    <3>4. faults' \in 0 .. MaxFaults
      BY <2>4, EdgeAssumption DEF Fault, EdgeInv, TypeOK
    <3>5. TypeOK'
      BY <2>2, <2>4, <3>3, <3>4 DEF EdgeInv, TypeOK, Written, configVars,
         cloudVars
    <3>6. ReceiptsKept' /\ SyncedIsInBooks' /\ PostedOncePerDevice'
      BY <2>2, <2>4, <3>2 DEF EdgeInv, TypeOK, ReceiptsKept, SyncedIsInBooks,
         PostedOncePerDevice, Written, cloudVars
    <3> QED
      BY <3>3, <3>5, <3>6 DEF EdgeInv
  <2> QED
    BY <2>1, <2>3, <2>4
<1>4. CASE ReplaceSnapshot(w)
  <2> DEFINE n == AvailableAfterQueue(run[w].stock)
             over == run[w].unseen \cap WithStatus("synced")
             new == [state EXCEPT !.available = n, !.overlooked = over]
  <2>1. n \in Int /\ over \subseteq Sales
    <3>1. Quantity(Queued \ WithStatus("synced")) \in Nat
      BY QuantityType DEF Queued
    <3>2. run[w].stock \in Nat
      BY <1>1 DEF RunState
    <3> QED
      BY <3>1, <3>2 DEF AvailableAfterQueue, WithStatus
  <2> HIDE DEF n, over
  <2>2. new \in SaleState /\ new.sales = state.sales
    BY <1>1, <2>1 DEF SaleState
  <2>3. /\ Saved(new) \/ NotSaved(new)
        /\ Stop(w)
        /\ UNCHANGED <<receipts, minted, configVars, cloudVars, late>>
    BY <1>4 DEF ReplaceSnapshot, n, over
  <2> HIDE DEF new
  <2> QED
    BY <1>1, <1>2, <2>2, <2>3, WritingRunKeeps
<1> QED
  BY <1>3, <1>4

-----------------------------------------------------------------------------
(* The other steps *)

(* A sale is queued with its receipt, or left in memory without one. *)
LEMMA QueueSaleKeeps ==
  ASSUME EdgeInv, NEW s \in Sales, QueueSale(s)
  PROVE  EdgeInv'
<1>1. /\ state \in SaleState /\ receipts \subseteq Sales
      /\ minted \in 0 .. MaxSales
  BY DEF EdgeInv, TypeOK
<1>2. Quantity({s}) \in Nat
  BY QuantityType
<1>3. /\ Sold(s) \in SaleState
      /\ \A t \in Sales : Sold(s).sales[t]
           = IF t = s THEN "pending" ELSE state.sales[t]
  <2> DEFINE m == Marked(s, "pending")
             q == Quantity({s})
  <2>1. /\ m \in SaleState
        /\ \A t \in Sales : m.sales[t]
             = IF t = s THEN "pending" ELSE state.sales[t]
    BY <1>1 DEF Marked, SaleState, SaleStatus
  <2>2. Sold(s) = [m EXCEPT !.available = m.available - q]
    BY DEF Sold
  <2>3. q \in Nat
    BY <1>2
  <2> HIDE DEF m, q
  <2> QED
    BY <2>1, <2>2, <2>3 DEF SaleState
<1>4. UNCHANGED <<configVars, cloudVars, run, late>>
  BY DEF QueueSale
<1>5. minted' \in 0 .. MaxSales
  BY EdgeAssumption DEF QueueSale, Sales
<1>6. InBooks' = InBooks
  BY <1>4 DEF InBooks, PostedBy, cloudVars
<1>7. /\ state' = Sold(s)
      /\ \/ /\ stateFile' = Sold(s) /\ receipts' = receipts \cup {s}
            /\ lost' = lost \cup unread /\ unread' = {}
            /\ UNCHANGED faults
         \/ UNCHANGED <<stateFile, lost, unread, receipts>> /\ Fault
  BY DEF QueueSale, Saved, NotSaved, Written, NotWritten
<1>8. faults' \in 0 .. MaxFaults
  BY <1>7, EdgeAssumption DEF Fault, EdgeInv, TypeOK
<1>9. TypeOK'
  BY <1>1, <1>3, <1>4, <1>5, <1>7, <1>8
  DEF EdgeInv, TypeOK, configVars, cloudVars
<1>10. ReceiptsKept'
  BY <1>1, <1>3, <1>7 DEF EdgeInv, TypeOK, ReceiptsKept
<1>11. SyncedIsInBooks'
  BY <1>3, <1>6, <1>7 DEF EdgeInv, SyncedIsInBooks
<1>12. RunsReady' /\ AnsweredIsInBooks' /\ PostedOncePerDevice'
  BY <1>4, <1>6 DEF EdgeInv, RunsReady, AnsweredIsInBooks, NextSale,
     PostedOncePerDevice, cloudVars
<1> QED
  BY <1>9, <1>10, <1>11, <1>12 DEF EdgeInv

(* The operator takes a conflict up again. *)
LEMMA RetryKeeps ==
  ASSUME EdgeInv, NEW s \in Sales, Retry(s)
  PROVE  EdgeInv'
<1> DEFINE new == Marked(s, "pending")
<1>1. /\ new \in SaleState
      /\ \A t \in Sales : state.sales[t] # "none" => new.sales[t] # "none"
      /\ \A t \in Sales : new.sales[t] = "synced" => t \in InBooks
  BY MarkedKeeps DEF SaleStatus
<1>2. /\ Saved(new) \/ NotSaved(new)
      /\ UNCHANGED <<receipts, minted, configVars, cloudVars, run, late>>
  BY DEF Retry
<1> HIDE DEF new
<1>3. /\ state' \in SaleState /\ stateFile' \in SaleState
      /\ {unread', lost'} \subseteq SUBSET Sales
      /\ faults' \in 0 .. MaxFaults
      /\ ReceiptsKept' /\ SyncedIsInBooks'
  BY <1>1, <1>2, StoreStep DEF cloudVars
<1>4. TypeOK'
  BY <1>2, <1>3 DEF EdgeInv, TypeOK, configVars, cloudVars
<1>5. RunsReady' /\ AnsweredIsInBooks' /\ PostedOncePerDevice'
  BY <1>2 DEF EdgeInv, RunsReady, AnsweredIsInBooks, NextSale, InBooks,
     PostedBy, PostedOncePerDevice, cloudVars
<1> QED
  BY <1>3, <1>4, <1>5 DEF EdgeInv

(* Steps of the cloud that no Run waits for. *)
LEMMA CloudKeeps ==
  ASSUME EdgeInv,
         \/ \E d \in Devices, s \in Sales : ServeLate(d, s)
         \/ SellElsewhere
  PROVE  EdgeInv'
<1>1. UNCHANGED <<storeVars, configVars, run>>
  BY DEF ServeLate, SellElsewhere
<1>2. /\ onHand' \in Nat
      /\ posted' \in [Devices -> [Sales -> Nat]]
      /\ elsewhere' \in 0 .. MaxElsewhere
      /\ faults' \in 0 .. MaxFaults
      /\ late' \subseteq Devices \X Sales
      /\ InBooks \subseteq InBooks'
      /\ PostedOncePerDevice'
  <2>1. CASE \E d \in Devices, s \in Sales : ServeLate(d, s)
    <3>1. PICK d \in Devices, s \in Sales : ServeLate(d, s)
      BY <2>1
    <3>2. late' \subseteq Devices \X Sales
      BY <3>1 DEF ServeLate, EdgeInv, TypeOK
    <3>3. PICK answer \in {"created", "refused"} : HandleSale(d, s, answer)
      BY <3>1 DEF ServeLate
    <3> QED
      BY <3>2, <3>3, HandleSaleKeeps
  <2>2. CASE SellElsewhere
    <3>1. /\ onHand' \in Nat /\ elsewhere' \in 0 .. MaxElsewhere
          /\ UNCHANGED <<posted, late, faults>>
      BY <2>2, EdgeAssumption DEF SellElsewhere, EdgeInv, TypeOK
    <3> QED
      BY <3>1 DEF EdgeInv, TypeOK, InBooks, PostedBy, PostedOncePerDevice
  <2> QED
    BY <2>1, <2>2
<1>3. TypeOK'
  BY <1>1, <1>2 DEF EdgeInv, TypeOK, storeVars, configVars
<1>4. ReceiptsKept' /\ SyncedIsInBooks'
  BY <1>1, <1>2 DEF EdgeInv, ReceiptsKept, SyncedIsInBooks, storeVars
<1>5. RunsReady' /\ AnsweredIsInBooks'
  BY <1>1, <1>2 DEF EdgeInv, RunsReady, AnsweredIsInBooks, NextSale
<1> QED
  BY <1>2, <1>3, <1>4, <1>5 DEF EdgeInv

(* Pairing and revoking change no sale and no Run. *)
LEMMA PairingKeeps ==
  ASSUME EdgeInv, NEW d \in Devices,
         PairDevice(d) \/ SavePairing(d) \/ Revoke(d)
  PROVE  EdgeInv'
<1>1. UNCHANGED <<storeVars, cloudVars, run, late>>
  BY DEF PairDevice, SavePairing, Revoke
<1>2. /\ {config', configFile'} \subseteq Devices \cup {NoDevice}
      /\ pairing' \in [Devices -> {"open", "issued", "closed"}]
      /\ active' \subseteq Devices
      /\ faults' \in 0 .. MaxFaults
  <2>1. CASE PairDevice(d)
    BY <2>1 DEF PairDevice, EdgeInv, TypeOK
  <2>2. CASE SavePairing(d)
    BY <2>2, EdgeAssumption DEF SavePairing, Fault, EdgeInv, TypeOK
  <2>3. CASE Revoke(d)
    BY <2>3 DEF Revoke, EdgeInv, TypeOK
  <2> QED
    BY <2>1, <2>2, <2>3
<1>3. TypeOK'
  BY <1>1, <1>2 DEF EdgeInv, TypeOK, storeVars, cloudVars
<1>4. /\ RunsReady' /\ ReceiptsKept' /\ AnsweredIsInBooks'
      /\ SyncedIsInBooks' /\ PostedOncePerDevice'
  BY <1>1 DEF EdgeInv, RunsReady, ReceiptsKept, AnsweredIsInBooks, NextSale,
     InBooks, PostedBy, SyncedIsInBooks, PostedOncePerDevice, storeVars,
     cloudVars
<1> QED
  BY <1>3, <1>4 DEF EdgeInv

(* What is on disk is enough to go on; what could not be read stays on disk. *)
LEMMA RestartKeeps ==
  ASSUME EdgeInv, Restart
  PROVE  EdgeInv'
<1>1. /\ config' \in {configFile, NoDevice}
      /\ run' = [w \in Runs |-> Idle]
      /\ UNCHANGED <<stateFile, lost, configFile, receipts, minted, active,
                     cloudVars>>
      /\ \/ state' = stateFile /\ unread' = {}
         \/ /\ state' = Empty
            /\ unread' = {s \in Sales : stateFile.sales[s] # "none"}
  BY DEF Restart, OpenState, OpenConfig
<1> DEFINE e == Empty
<1>9. e \in SaleState /\ \A s \in Sales : e.sales[s] = "none"
  BY DEF Empty, SaleState
<1>10. state' \in {stateFile, e}
  BY <1>1
<1> HIDE DEF e
<1>2. late' \subseteq Devices \X Sales
  <2>1. PICK reaching \in SUBSET {w \in Runs : run[w].at = "sent"} :
          late' = late \cup {<<run[w].device, NextSale(w)>> : w \in reaching}
    BY DEF Restart
  <2>2. ASSUME NEW w \in reaching
        PROVE  run[w].device \in Devices /\ NextSale(w) \in Sales
    BY <2>1, NextSaleInTodo DEF EdgeInv, RunsReady
  <2> QED
    BY <2>1, <2>2 DEF EdgeInv, TypeOK
<1>3. faults' \in 0 .. MaxFaults
  BY EdgeAssumption DEF Restart, Fault, EdgeInv, TypeOK
<1>4. pairing' \in [Devices -> {"open", "issued", "closed"}]
  BY DEF Restart, EdgeInv, TypeOK
<1>5. run' \in [Runs -> RunState] /\ \A w \in Runs : run'[w].at = "idle"
  BY <1>1 DEF Idle, RunState
<1>6. TypeOK'
  BY <1>1, <1>2, <1>3, <1>4, <1>5, <1>9, <1>10 DEF EdgeInv, TypeOK, cloudVars
<1>7. RunsReady' /\ AnsweredIsInBooks'
  BY <1>5 DEF RunsReady, AnsweredIsInBooks
<1>8. ReceiptsKept'
  BY <1>1 DEF EdgeInv, TypeOK, ReceiptsKept
<1>11. SyncedIsInBooks' /\ PostedOncePerDevice'
  BY <1>1, <1>9, <1>10 DEF EdgeInv, SyncedIsInBooks, InBooks, PostedBy,
     PostedOncePerDevice, cloudVars
<1> QED
  BY <1>6, <1>7, <1>8, <1>11 DEF EdgeInv

-----------------------------------------------------------------------------
(* The theorems *)

(* EdgeInv holds of a new installation. *)
LEMMA EdgeInvInit == Init => EdgeInv
<1> SUFFICES ASSUME Init PROVE EdgeInv
  OBVIOUS
<1>1. run \in [Runs -> RunState] /\ \A w \in Runs : run[w].at = "idle"
  BY DEF Init, Idle, RunState
<1>2. state \in SaleState /\ stateFile \in SaleState
  BY DEF Init, Empty, SaleState
<1>3. TypeOK
  BY <1>1, <1>2, EdgeAssumption DEF Init, TypeOK
<1>4. RunsReady /\ AnsweredIsInBooks
  BY <1>1 DEF RunsReady, AnsweredIsInBooks
<1>5. ReceiptsKept /\ SyncedIsInBooks /\ PostedOncePerDevice
  BY DEF Init, Empty, ReceiptsKept, SyncedIsInBooks, PostedOncePerDevice
<1> QED
  BY <1>3, <1>4, <1>5 DEF EdgeInv

(* EdgeInv is inductive. *)
LEMMA EdgeInvNext == EdgeInv /\ [Next]_vars => EdgeInv'
<1> SUFFICES ASSUME EdgeInv, [Next]_vars PROVE EdgeInv'
  OBVIOUS
<1>1. CASE \E s \in Sales : QueueSale(s) \/ Retry(s)
  BY <1>1, QueueSaleKeeps, RetryKeeps
<1>2. CASE (\E d \in Devices, s \in Sales : ServeLate(d, s)) \/ SellElsewhere
  BY <1>2, CloudKeeps
<1>3. CASE \E w \in Runs : BeginRun(w) \/ RunStep(w)
  BY <1>3, MovesKeep, PushKeeps, MarksKeep, SnapshotKeeps DEF RunStep
<1>4. CASE \E d \in Devices : PairDevice(d) \/ SavePairing(d) \/ Revoke(d)
  BY <1>4, PairingKeeps
<1>5. CASE Restart
  BY <1>5, RestartKeeps
<1>6. CASE UNCHANGED vars
  <2>1. UNCHANGED <<storeVars, configVars, cloudVars, run, late, faults>>
    BY <1>6 DEF vars
  <2> QED
    BY <2>1 DEF EdgeInv, TypeOK, RunsReady, ReceiptsKept, AnsweredIsInBooks,
       NextSale, InBooks, PostedBy, SyncedIsInBooks, PostedOncePerDevice,
       storeVars, configVars, cloudVars
<1> QED
  BY <1>1, <1>2, <1>3, <1>4, <1>5, <1>6 DEF Next

(* The type invariant holds in every reachable state. *)
THEOREM EdgeTypeCorrect == Spec => []TypeOK
<1>1. EdgeInv => TypeOK
  BY DEF EdgeInv
<1> QED
  BY <1>1, EdgeInvInit, EdgeInvNext, PTL DEF Spec

(* The till loses a sale with a receipt in one way only: a start that cannot *)
(* read state.json, and a write of the process so started (store.go, Open,   *)
(* QueueSale, MarkAttempt, ReplaceSnapshot).  For any number of sales, runs, *)
(* restarts, failed reads and failed writes.                                 *)
THEOREM ReceiptsAreKept == Spec => []ReceiptsKept
<1>1. EdgeInv => ReceiptsKept
  BY DEF EdgeInv
<1> QED
  BY <1>1, EdgeInvInit, EdgeInvNext, PTL DEF Spec

(* What the till calls synced is in the cloud's books (sync.go, Run).        *)
THEOREM SyncedSalesAreInBooks == Spec => []SyncedIsInBooks
<1>1. EdgeInv => SyncedIsInBooks
  BY DEF EdgeInv
<1> QED
  BY <1>1, EdgeInvInit, EdgeInvNext, PTL DEF Spec

(* Under one device a sale is booked once, whatever is repeated or late.     *)
THEOREM PostedOnce == Spec => []PostedOncePerDevice
<1>1. EdgeInv => PostedOncePerDevice
  BY DEF EdgeInv
<1> QED
  BY <1>1, EdgeInvInit, EdgeInvNext, PTL DEF Spec

-----------------------------------------------------------------------------
(* Runs that overlap                                                         *)

QueuedIn(st) == {s \in Sales : st.sales[s] # "none"}
SyncedIn(st) == {s \in Sales : st.sales[s] = "synced"}

\* What a state offers and what it has sold were in the cloud's stock, but for
\* the sales its snapshot overlooks.
Covered(st) ==
  st.available > 0 =>
    st.available + Quantity(QueuedIn(st)) <= Opening + Quantity(st.overlooked)

\* What is in the books has left the stock, whoever posted it and how often.
BooksLeaveStock == onHand + Quantity(InBooks) <= Opening

\* Ids are drawn in order.
UndrawnIsNew ==
  \A s \in Sales : s > minted => state.sales[s] = "none"
                                 /\ stateFile.sales[s] = "none"

Pushing == {"push", "sent", "created", "refused", "failed"}

\* A Run pushes what is pending still, and goes on from a snapshot that is not
\* older than the last sale marked, but for the sales others have marked since.
Current(r, st) ==
  /\ r.at \in Pushing
       => \A s \in r.todo : /\ st.sales[s] # "none"
                            /\ s \in r.unseen \/ st.sales[s] = "pending"
  /\ r.at = "fetched"
       => r.stock + Quantity(SyncedIn(st) \ r.unseen) <= Opening

RunsAreCurrent == \A w \in Runs : Current(run[w], state)

OverlapInv ==
  /\ BooksLeaveStock
  /\ Covered(state) /\ Covered(stateFile)
  /\ UndrawnIsNew
  /\ RunsAreCurrent

(* Sets of sales have finitely many units, the larger ones no fewer.         *)
LEMMA QuantityOfSets ==
  ASSUME NEW S \in SUBSET Sales, NEW T \in SUBSET Sales
  PROVE  /\ S \subseteq T => Quantity(S) <= Quantity(T)
         /\ Quantity(S \cup T) <= Quantity(S) + Quantity(T)
         /\ S \cap T = {} => Quantity(S \cup T) = Quantity(S) + Quantity(T)
<1> DEFINE places == (1 .. MaxLines) \X (1 .. MaxQty)
<1>1. IsFiniteSet(1 .. MaxLines) /\ IsFiniteSet(1 .. MaxQty)
  BY EdgeAssumption, FS_Interval
<1>2. IsFiniteSet(places)
  BY <1>1, FS_Product
<1>3. IsFiniteSet(Sales)
  BY EdgeAssumption, FS_Interval DEF Sales
<1>4. ASSUME NEW X \in SUBSET Sales
      PROVE  IsFiniteSet(Units(X))
  <2>1. IsFiniteSet(X)
    BY <1>3, FS_Subset
  <2>2. IsFiniteSet(X \X places)
    BY <1>2, <2>1, FS_Product
  <2>3. Units(X) \in SUBSET (X \X places)
    BY DEF Units
  <2> QED
    BY <2>2, <2>3, FS_Subset
<1>5. IsFiniteSet(Units(S)) /\ IsFiniteSet(Units(T))
  BY <1>4
<1>6. S \subseteq T => Quantity(S) <= Quantity(T)
  <2> SUFFICES ASSUME S \subseteq T
               PROVE  Quantity(S) <= Quantity(T)
    OBVIOUS
  <2>1. Units(S) \subseteq Units(T)
    BY DEF Units
  <2> QED
    BY <1>5, <2>1, FS_Subset DEF Quantity
<1>7. Units(S \cup T) = Units(S) \cup Units(T)
  BY DEF Units
<1>8. Cardinality(Units(S) \cup Units(T))
        = Cardinality(Units(S)) + Cardinality(Units(T))
            - Cardinality(Units(S) \cap Units(T))
  BY <1>5, FS_Union
<1>9. Cardinality(Units(S) \cap Units(T)) \in Nat
  <2>1. IsFiniteSet(Units(S) \cap Units(T))
    BY <1>5, FS_Subset
  <2> QED
    BY <2>1, FS_CardinalityType
<1>10. Cardinality(Units(S)) \in Nat /\ Cardinality(Units(T)) \in Nat
  BY <1>5, FS_CardinalityType
<1>11. S \cap T = {} => Cardinality(Units(S) \cap Units(T)) = 0
  <2> SUFFICES ASSUME S \cap T = {}
               PROVE  Cardinality(Units(S) \cap Units(T)) = 0
    OBVIOUS
  <2>1. Units(S) \cap Units(T) = {}
    BY DEF Units
  <2> QED
    BY <2>1, FS_EmptySet
<1>12. Quantity(S \cup T)
         = Quantity(S) + Quantity(T) - Cardinality(Units(S) \cap Units(T))
  BY <1>7, <1>8, Zenon DEF Quantity
<1>13. Quantity(S) \in Nat /\ Quantity(T) \in Nat
  BY <1>10 DEF Quantity
<1> QED
  BY <1>6, <1>9, <1>11, <1>12, <1>13

(* A Run stays current while what others mark is unseen, and what they do    *)
(* not mark stays pending and becomes synced no more.                        *)
LEMMA CurrentLater ==
  ASSUME NEW r \in RunState, NEW q \in RunState, NEW st, NEW new, Current(r, st),
         q.at = r.at, q.todo = r.todo, q.stock = r.stock,
         r.unseen \subseteq q.unseen,
         \A s \in Sales : st.sales[s] # "none" => new.sales[s] # "none",
         \A s \in Sales \ q.unseen :
           /\ st.sales[s] = "pending" => new.sales[s] = "pending"
           /\ new.sales[s] = "synced" => st.sales[s] = "synced"
  PROVE  Current(q, new)
<1>1. q.at \in Pushing
        => \A s \in q.todo : /\ new.sales[s] # "none"
                             /\ s \in q.unseen \/ new.sales[s] = "pending"
  BY DEF Current, RunState
<1>2. ASSUME q.at = "fetched"
      PROVE  q.stock + Quantity(SyncedIn(new) \ q.unseen) <= Opening
  <2> DEFINE A == SyncedIn(new) \ q.unseen
             B == SyncedIn(st) \ r.unseen
  <2>1. A \in SUBSET Sales /\ B \in SUBSET Sales /\ A \subseteq B
    BY DEF SyncedIn
  <2>2. r.stock + Quantity(B) <= Opening
    BY <1>2 DEF Current
  <2> HIDE DEF A, B
  <2>3. Quantity(A) <= Quantity(B)
    BY <2>1, QuantityOfSets
  <2>4. /\ Quantity(A) \in Nat /\ Quantity(B) \in Nat /\ r.stock \in Nat
        /\ Opening \in Nat
    BY <2>1, QuantityType, EdgeAssumption DEF RunState
  <2>5. q.stock + Quantity(A) <= Opening
    BY <2>2, <2>3, <2>4
  <2> QED
    BY <2>5 DEF A
<1> QED
  BY <1>1, <1>2 DEF Current

(* A step of one Run that marks nothing.                                     *)
LEMMA RunMoves ==
  ASSUME EdgeInv, OverlapInv, NEW w \in Runs, NEW r,
         run' = [run EXCEPT ![w] = r], state'.sales = state.sales,
         Current(r, state')
  PROVE  RunsAreCurrent'
<1>1. run \in [Runs -> RunState]
  BY DEF EdgeInv, TypeOK
<1>2. ASSUME NEW v \in Runs \ {w}
      PROVE  Current(run'[v], state')
  <2>1. run'[v] = run[v] /\ run[v] \in RunState
    BY <1>1
  <2>2. Current(run[v], state)
    BY DEF OverlapInv, RunsAreCurrent
  <2> QED
    BY <2>1, <2>2, CurrentLater
<1> QED
  BY <1>1, <1>2 DEF RunsAreCurrent

(* A mark: to the other Runs it is unseen.                                   *)
LEMMA RunMarks ==
  ASSUME EdgeInv, OverlapInv, NEW w \in Runs, NEW r, Marks(w, r),
         NextSale(w) \in Sales,
         \A s \in Sales : s # NextSale(w) => state'.sales[s] = state.sales[s],
         state'.sales[NextSale(w)] # "none",
         Current(r, state')
  PROVE  RunsAreCurrent'
<1>1. run \in [Runs -> RunState]
  BY DEF EdgeInv, TypeOK
<1>2. ASSUME NEW v \in Runs \ {w}
      PROVE  Current(run'[v], state')
  <2> DEFINE u == [run[v] EXCEPT !.unseen = @ \cup {NextSale(w)}]
  <2>1. run[v] \in RunState /\ Current(run[v], state)
    BY <1>1 DEF OverlapInv, RunsAreCurrent
  <2>2. /\ u \in RunState /\ u.at = run[v].at /\ u.todo = run[v].todo
        /\ u.stock = run[v].stock
        /\ u.unseen = run[v].unseen \cup {NextSale(w)}
    BY <2>1 DEF RunState
  <2>3. run'[v] = IF run[v].at = "idle" THEN run[v] ELSE u
    BY <1>1 DEF Marks
  <2> HIDE DEF u
  <2>4. CASE run[v].at = "idle"
    BY <2>3, <2>4 DEF Current, Pushing
  <2>5. CASE run[v].at # "idle"
    BY <2>1, <2>2, <2>3, <2>5, CurrentLater
  <2> QED
    BY <2>4, <2>5
<1>3. run'[w] = r
  BY <1>1 DEF Marks
<1> QED
  BY <1>2, <1>3 DEF RunsAreCurrent

(* A Run that is idle has nothing to be current about.                       *)
LEMMA IdleIsCurrent ==
  ASSUME NEW st
  PROVE  Current(Idle, st)
BY DEF Current, Idle, Pushing

(* A method of Store, whether its write fails or not.                        *)
LEMMA StoreCovers ==
  ASSUME OverlapInv, NEW new, Covered(new),
         \A s \in Sales : s > minted' => new.sales[s] = "none",
         Saved(new) \/ NotSaved(new),
         minted \in Nat, minted' \in Nat, minted <= minted'
  PROVE  Covered(state') /\ Covered(stateFile') /\ UndrawnIsNew'
<1>1. state' = new /\ stateFile' \in {new, stateFile}
  BY DEF Saved, NotSaved, Written, NotWritten
<1>2. \A s \in Sales : s > minted' => stateFile.sales[s] = "none"
  <2>1. \A s \in Sales : s \in Int
    BY EdgeAssumption DEF Sales
  <2> QED
    BY <2>1 DEF OverlapInv, UndrawnIsNew
<1> QED
  BY <1>1, <1>2 DEF OverlapInv, UndrawnIsNew

(* A mark changes neither what is queued nor what is offered.                *)
LEMMA MarkedCovers ==
  ASSUME EdgeInv, OverlapInv, NEW s \in Sales, state.sales[s] # "none",
         NEW status \in SaleStatus
  PROVE  /\ Covered(Marked(s, status))
         /\ \A t \in Sales : t > minted => Marked(s, status).sales[t] = "none"
         /\ \A t \in Sales : Marked(s, status).sales[t]
              = IF t = s THEN status ELSE state.sales[t]
<1>1. state \in SaleState
  BY DEF EdgeInv, TypeOK
<1> DEFINE new == Marked(s, status)
<1>2. /\ new.available = state.available
      /\ new.overlooked = state.overlooked
      /\ \A t \in Sales : new.sales[t] = IF t = s THEN status ELSE state.sales[t]
  BY <1>1 DEF Marked, SaleState
<1> HIDE DEF new
<1>3. QueuedIn(new) = QueuedIn(state)
  BY <1>2 DEF QueuedIn, SaleStatus
<1>4. Covered(new)
  BY <1>2, <1>3 DEF Covered, OverlapInv
<1>5. \A t \in Sales : t > minted => new.sales[t] = "none"
  BY <1>2 DEF OverlapInv, UndrawnIsNew
<1> QED
  BY <1>2, <1>4, <1>5 DEF new

(* The steps that move a Run.                                                *)
LEMMA MovesCover ==
  ASSUME EdgeInv, OverlapInv, NEW w \in Runs,
         \/ BeginRun(w) \/ ListPendingSales(w) \/ PushSale(w)
         \/ FetchSnapshot(w) \/ LosePush(w)
  PROVE  OverlapInv'
<1>1. /\ UNCHANGED <<storeVars, cloudVars>>
      /\ run \in [Runs -> RunState]
      /\ Current(run[w], state)
  BY DEF BeginRun, ListPendingSales, PushSale, FetchSnapshot, LosePush, EdgeInv,
     TypeOK, OverlapInv, RunsAreCurrent
<1>2. /\ UNCHANGED <<state, stateFile, minted, onHand, posted>>
      /\ InBooks' = InBooks
  BY <1>1 DEF storeVars, cloudVars, InBooks, PostedBy
<1>3. BooksLeaveStock' /\ Covered(state') /\ Covered(stateFile') /\ UndrawnIsNew'
  BY <1>2 DEF OverlapInv, BooksLeaveStock, UndrawnIsNew
<1>4. RunsAreCurrent'
  <2>1. CASE BeginRun(w)
    <3> DEFINE r == [Idle EXCEPT !.at = "list", !.device = config]
    <3>1. r.at = "list" /\ run' = [run EXCEPT ![w] = r]
      BY <2>1 DEF BeginRun, Idle
    <3> HIDE DEF r
    <3>2. Current(r, state)
      BY <3>1 DEF Current, Pushing
    <3> QED
      BY <1>2, <3>1, <3>2, RunMoves
  <2>2. CASE ListPendingSales(w)
    <3> DEFINE r == [run[w] EXCEPT !.at = "push", !.todo = WithStatus("pending"),
                                   !.unseen = {}]
    <3>1. /\ r.at = "push" /\ r.todo = WithStatus("pending")
          /\ run' = [run EXCEPT ![w] = r]
      BY <1>1, <2>2 DEF ListPendingSales, RunState
    <3> HIDE DEF r
    <3>2. Current(r, state)
      BY <3>1 DEF Current, WithStatus
    <3> QED
      BY <1>2, <3>1, <3>2, RunMoves
  <2>3. CASE PushSale(w) \/ LosePush(w)
    <3> PICK at \in {"sent", "failed"} : Go(w, at)
      BY <2>3 DEF PushSale, LosePush
    <3> DEFINE r == [run[w] EXCEPT !.at = at]
    <3>1. /\ r.at = at /\ r.todo = run[w].todo /\ r.unseen = run[w].unseen
          /\ run' = [run EXCEPT ![w] = r]
      BY <1>1 DEF Go, RunState
    <3> HIDE DEF r
    <3>2. run[w].at \in Pushing
      BY <2>3 DEF PushSale, LosePush, Pushing
    <3>3. Current(r, state)
      BY <1>1, <3>1, <3>2 DEF Current
    <3> QED
      BY <1>2, <3>1, <3>3, RunMoves
  <2>4. CASE FetchSnapshot(w)
    <3> DEFINE r == [run[w] EXCEPT !.at = "fetched", !.stock = onHand,
                                   !.unseen = {}]
    <3>1. /\ r.at = "fetched" /\ r.stock = onHand /\ r.unseen = {}
          /\ run' = [run EXCEPT ![w] = r]
      BY <1>1, <2>4 DEF FetchSnapshot, RunState
    <3>2. onHand + Quantity(SyncedIn(state) \ {}) <= Opening
      <4>1. SyncedIn(state) \ {} \subseteq InBooks /\ InBooks \subseteq Sales
        BY DEF SyncedIn, EdgeInv, SyncedIsInBooks, InBooks, PostedBy
      <4>2. Quantity(SyncedIn(state) \ {}) <= Quantity(InBooks)
        BY <4>1, QuantityOfSets
      <4>3. /\ Quantity(SyncedIn(state) \ {}) \in Nat /\ Quantity(InBooks) \in Nat
            /\ onHand \in Nat /\ Opening \in Nat
        BY <4>1, QuantityType, EdgeAssumption DEF EdgeInv, TypeOK
      <4> QED
        BY <4>2, <4>3 DEF OverlapInv, BooksLeaveStock
    <3> HIDE DEF r
    <3>3. Current(r, state)
      BY <3>1, <3>2 DEF Current, Pushing
    <3> QED
      BY <1>2, <3>1, <3>3, RunMoves
  <2> QED
    BY <2>1, <2>2, <2>3, <2>4
<1> QED
  BY <1>3, <1>4 DEF OverlapInv

(* Whoever posts a sale, on time or late, what it takes is what it adds.     *)
LEMMA HandleSaleCovers ==
  ASSUME EdgeInv, OverlapInv, NEW d \in Devices, NEW s \in Sales,
         NEW answer, HandleSale(d, s, answer)
  PROVE  BooksLeaveStock'
<1>1. /\ onHand \in Nat /\ posted \in [Devices -> [Sales -> Nat]]
      /\ InBooks \in SUBSET Sales /\ Opening \in Nat
  BY EdgeAssumption DEF EdgeInv, TypeOK, InBooks, PostedBy
<1>2. CASE UNCHANGED <<onHand, posted>>
  BY <1>2 DEF OverlapInv, BooksLeaveStock, InBooks, PostedBy
<1>3. CASE /\ Quantity({s}) <= onHand
           /\ onHand' = onHand - Quantity({s})
           /\ posted' = [posted EXCEPT ![d][s] = @ + 1]
  <2>1. \A e \in Devices, t \in Sales : t # s => posted'[e][t] = posted[e][t]
    BY <1>1, <1>3
  <2>2. InBooks' \in SUBSET (InBooks \cup {s})
    BY <2>1 DEF InBooks, PostedBy
  <2> DEFINE after == InBooks'
  <2> HIDE DEF after
  <2>3. after \in SUBSET Sales /\ after \subseteq InBooks \cup {s}
    BY <1>1, <2>2 DEF after
  <2>4. Quantity(after) <= Quantity(InBooks \cup {s})
    BY <1>1, <2>3, QuantityOfSets
  <2>5. Quantity(InBooks \cup {s}) <= Quantity(InBooks) + Quantity({s})
    BY <1>1, QuantityOfSets
  <2>6. /\ Quantity(after) \in Nat /\ Quantity(InBooks) \in Nat
        /\ Quantity({s}) \in Nat /\ Quantity(InBooks \cup {s}) \in Nat
    BY <1>1, <2>3, QuantityType
  <2>7. onHand' + Quantity(after) <= Opening
    BY <1>1, <1>3, <2>4, <2>5, <2>6 DEF OverlapInv, BooksLeaveStock
  <2> QED
    BY <2>7 DEF BooksLeaveStock, after
<1> QED
  BY <1>2, <1>3 DEF HandleSale, BookSale

(* The answer to a push, and what no Run waits for.                          *)
LEMMA CloudCovers ==
  ASSUME EdgeInv, OverlapInv,
         \/ \E w \in Runs : ServePush(w)
         \/ \E d \in Devices, s \in Sales : ServeLate(d, s)
         \/ SellElsewhere
  PROVE  OverlapInv'
<1>1. UNCHANGED <<state, stateFile, minted>>
  BY DEF ServePush, ServeLate, SellElsewhere, storeVars
<1>2. BooksLeaveStock'
  <2>1. ASSUME NEW w \in Runs, ServePush(w)
        PROVE  BooksLeaveStock'
    <3>1. /\ run[w].device \in Devices /\ run[w].todo # {}
      BY <2>1 DEF ServePush, EdgeInv, RunsReady
    <3>2. NextSale(w) \in Sales
      BY <3>1, NextSaleInTodo DEF EdgeInv
    <3> QED
      BY <2>1, <3>1, <3>2, HandleSaleCovers DEF ServePush
  <2>2. ASSUME NEW d \in Devices, NEW s \in Sales, ServeLate(d, s)
        PROVE  BooksLeaveStock'
    BY <2>2, HandleSaleCovers DEF ServeLate
  <2>3. CASE SellElsewhere
    <3>1. onHand' = onHand - 1 /\ posted' = posted /\ onHand \in Nat
      BY <2>3 DEF SellElsewhere, EdgeInv, TypeOK
    <3>2. InBooks' = InBooks /\ InBooks \in SUBSET Sales
      BY <3>1 DEF InBooks, PostedBy
    <3>3. Quantity(InBooks) \in Nat /\ Opening \in Nat
      BY <3>2, QuantityType, EdgeAssumption
    <3> QED
      BY <3>1, <3>2, <3>3 DEF OverlapInv, BooksLeaveStock
  <2> QED
    BY <2>1, <2>2, <2>3
<1>3. Covered(state') /\ Covered(stateFile') /\ UndrawnIsNew'
  BY <1>1 DEF OverlapInv, UndrawnIsNew
<1>4. RunsAreCurrent'
  <2>1. ASSUME NEW w \in Runs, ServePush(w)
        PROVE  RunsAreCurrent'
    <3>1. PICK answer \in {"created", "refused"} : Go(w, answer)
      BY <2>1 DEF ServePush
    <3> DEFINE r == [run[w] EXCEPT !.at = answer]
    <3>2. run \in [Runs -> RunState] /\ Current(run[w], state)
      BY DEF EdgeInv, TypeOK, OverlapInv, RunsAreCurrent
    <3>3. /\ r.at = answer /\ r.todo = run[w].todo /\ r.unseen = run[w].unseen
          /\ run' = [run EXCEPT ![w] = r]
      BY <3>1, <3>2 DEF Go, RunState
    <3> HIDE DEF r
    <3>4. run[w].at \in Pushing
      BY <2>1 DEF ServePush, Pushing
    <3>5. Current(r, state)
      BY <3>2, <3>3, <3>4 DEF Current
    <3> QED
      BY <1>1, <3>3, <3>5, RunMoves
  <2>2. CASE UNCHANGED run
    BY <1>1, <2>2 DEF OverlapInv, RunsAreCurrent
  <2> QED
    BY <2>1, <2>2 DEF ServeLate, SellElsewhere
<1> QED
  BY <1>2, <1>3, <1>4 DEF OverlapInv

\* Nothing is posted or sold elsewhere meanwhile.
LEMMA BooksQuiet ==
  ASSUME OverlapInv, UNCHANGED <<onHand, posted>>
  PROVE  BooksLeaveStock'
BY DEF OverlapInv, BooksLeaveStock, InBooks, PostedBy

(* The marks of a Run, on the sale it has pushed.                            *)
LEMMA MarksCover ==
  ASSUME EdgeInv, OverlapInv, NEW w \in Runs,
         MarkSynced(w) \/ MarkConflict(w) \/ MarkPending(w)
  PROVE  OverlapInv'
<1> DEFINE s == NextSale(w)
<1>1. /\ run[w].at \in Pushing /\ run[w].todo # {}
      /\ run \in [Runs -> RunState]
      /\ Current(run[w], state)
  BY DEF MarkSynced, MarkConflict, MarkPending, EdgeInv, RunsReady, OverlapInv,
     RunsAreCurrent, Pushing, TypeOK
<1>2. s \in run[w].todo /\ s \in Sales
  BY <1>1, NextSaleInTodo DEF EdgeInv
<1>3. PICK status \in SaleStatus :
        /\ Saved(Marked(s, status)) \/ NotSaved(Marked(s, status))
        /\ Forward(w) \/ Abandon(w)
        /\ UNCHANGED <<minted, onHand, posted>>
  BY DEF MarkSynced, MarkConflict, MarkPending, SaleStatus, cloudVars
<1> HIDE DEF s
<1>4. state.sales[s] # "none"
  BY <1>1, <1>2 DEF Current
<1> DEFINE new == Marked(s, status)
<1>5. /\ Covered(new)
      /\ \A t \in Sales : t > minted => new.sales[t] = "none"
      /\ \A t \in Sales : new.sales[t] = IF t = s THEN status ELSE state.sales[t]
  BY <1>2, <1>4, MarkedCovers
<1>6. Saved(new) \/ NotSaved(new)
  BY <1>3
<1> HIDE DEF new
<1>7. state' = new
  BY <1>6 DEF Saved, NotSaved
<1>8. Covered(state') /\ Covered(stateFile') /\ UndrawnIsNew'
  <2>1. minted \in Nat /\ minted' = minted
    BY <1>3, EdgeAssumption DEF EdgeInv, TypeOK
  <2> QED
    BY <1>5, <1>6, <2>1, StoreCovers
<1>9. RunsAreCurrent'
  <2>1. /\ NextSale(w) \in Sales
        /\ \A t \in Sales : t # NextSale(w) => state'.sales[t] = state.sales[t]
        /\ state'.sales[NextSale(w)] # "none"
    BY <1>2, <1>5, <1>7 DEF s, SaleStatus
  <2>2. CASE Forward(w)
    <3> DEFINE r == [run[w] EXCEPT !.at = "push", !.todo = @ \ {NextSale(w)}]
    <3>1. /\ r.at = "push" /\ r.todo = run[w].todo \ {s}
          /\ r.unseen = run[w].unseen
          /\ Marks(w, r)
      BY <1>1, <2>2 DEF Forward, RunState, s
    <3> HIDE DEF r
    <3>2. run[w].todo \subseteq Sales
      BY <1>1 DEF RunState
    <3>3. Current(r, state')
      BY <1>1, <1>5, <1>7, <3>1, <3>2 DEF Current
    <3> QED
      BY <2>1, <3>1, <3>3, RunMarks
  <2>3. CASE Abandon(w)
    <3>1. Marks(w, Idle)
      BY <2>3 DEF Abandon
    <3> QED
      BY <2>1, <3>1, RunMarks, IdleIsCurrent
  <2> QED
    BY <1>3, <2>2, <2>3
<1> QED
  BY <1>3, <1>8, <1>9, BooksQuiet DEF OverlapInv

(* The end of a Run: what the snapshot offers beyond what is queued was in   *)
(* the stock with all that is synced, but for what it overlooks.             *)
LEMMA SnapshotCovers ==
  ASSUME EdgeInv, OverlapInv, NEW w \in Runs,
         LoseSnapshot(w) \/ ReplaceSnapshot(w)
  PROVE  OverlapInv'
<1>1. /\ run \in [Runs -> RunState] /\ state \in SaleState /\ run[w] \in RunState
      /\ UNCHANGED <<minted, onHand, posted>>
      /\ minted \in Nat
  BY EdgeAssumption
     DEF EdgeInv, TypeOK, LoseSnapshot, ReplaceSnapshot, cloudVars
<1>2. RunsAreCurrent'
  <2>1. run' = [run EXCEPT ![w] = Idle]
    BY DEF LoseSnapshot, ReplaceSnapshot, Stop
  <2>2. state'.sales = state.sales
    BY <1>1 DEF LoseSnapshot, ReplaceSnapshot, Saved, NotSaved, SaleState
  <2> QED
    BY <2>1, <2>2, RunMoves, IdleIsCurrent
<1>3. CASE LoseSnapshot(w)
  <2>1. state' = state /\ stateFile' \in {state, stateFile}
    BY <1>3 DEF LoseSnapshot, Saved, NotSaved, Written, NotWritten
  <2>2. Covered(state') /\ Covered(stateFile') /\ UndrawnIsNew'
    BY <1>1, <2>1 DEF OverlapInv, UndrawnIsNew
  <2> QED
    BY <1>1, <1>2, <2>2, BooksQuiet DEF OverlapInv
<1>4. CASE ReplaceSnapshot(w)
  <2> DEFINE rest == Queued \ WithStatus("synced")
             n == AvailableAfterQueue(run[w].stock)
             over == run[w].unseen \cap WithStatus("synced")
             seen == SyncedIn(state) \ run[w].unseen
             new == [state EXCEPT !.available = n, !.overlooked = over]
             got == run[w].stock
  <2>1. /\ Queued = QueuedIn(state) /\ QueuedIn(state) \in SUBSET Sales
        /\ rest \in SUBSET Sales /\ seen \in SUBSET Sales
        /\ over \in SUBSET Sales /\ rest \cup seen \in SUBSET Sales
        /\ (rest \cup seen) \cup over = QueuedIn(state)
    BY DEF Queued, QueuedIn, SyncedIn, WithStatus
  <2>3. got + Quantity(seen) <= Opening
    BY <1>4 DEF ReplaceSnapshot, OverlapInv, RunsAreCurrent, Current
  <2>4. /\ Quantity(rest) \in Nat /\ Quantity(seen) \in Nat
        /\ Quantity(over) \in Nat /\ Quantity(rest \cup seen) \in Nat
        /\ Quantity(QueuedIn(state)) \in Nat /\ got \in Nat /\ Opening \in Nat
    BY <1>1, <2>1, QuantityType, EdgeAssumption DEF RunState
  <2>5. n = IF got - Quantity(rest) > 0 THEN got - Quantity(rest) ELSE 0
    BY DEF AvailableAfterQueue
  <2> HIDE DEF rest, n, got, over, seen
  <2>2. Quantity(QueuedIn(state)) <= Quantity(rest) + Quantity(seen) + Quantity(over)
    <3>1. Quantity(rest \cup seen) <= Quantity(rest) + Quantity(seen)
      BY <2>1, QuantityOfSets
    <3>2. Quantity((rest \cup seen) \cup over)
            <= Quantity(rest \cup seen) + Quantity(over)
      BY <2>1, QuantityOfSets
    <3>3. Quantity(QueuedIn(state)) <= Quantity(rest \cup seen) + Quantity(over)
      BY <2>1, <3>2
    <3>4. /\ Quantity(rest) \in Nat /\ Quantity(seen) \in Nat
          /\ Quantity(over) \in Nat /\ Quantity(rest \cup seen) \in Nat
          /\ Quantity(QueuedIn(state)) \in Nat
      BY <2>4
    <3> QED
      BY <3>1, <3>3, <3>4
  <2>6. n > 0 => n + Quantity(QueuedIn(state)) <= Opening + Quantity(over)
    BY <2>2, <2>3, <2>4, <2>5
  <2>7. new.available = n /\ new.sales = state.sales /\ new.overlooked = over
    BY <1>1 DEF SaleState
  <2>8. Saved(new) \/ NotSaved(new)
    BY <1>4 DEF ReplaceSnapshot, n, over
  <2> HIDE DEF new
  <2>9. QueuedIn(new) = QueuedIn(state)
    BY <2>7 DEF QueuedIn
  <2>10. Covered(new)
    BY <2>6, <2>7, <2>9 DEF Covered
  <2>11. \A s \in Sales : s > minted' => new.sales[s] = "none"
    BY <1>1, <2>7 DEF OverlapInv, UndrawnIsNew
  <2>12. minted' = minted /\ minted' \in Nat /\ minted <= minted'
    BY <1>1
  <2>13. Covered(state') /\ Covered(stateFile') /\ UndrawnIsNew'
    BY <1>1, <2>8, <2>10, <2>11, <2>12, StoreCovers
  <2> QED
    BY <1>1, <1>2, <2>13, BooksQuiet DEF OverlapInv
<1> QED
  BY <1>3, <1>4

(* A sale the till accepts takes from what it offers what it adds to what it *)
(* has sold.                                                                 *)
LEMMA QueueSaleCovers ==
  ASSUME EdgeInv, OverlapInv, NEW s \in Sales, QueueSale(s)
  PROVE  /\ OverlapInv'
         /\ \A t \in Sales : state.sales[t] # "none"
                              => state'.sales[t] = state.sales[t]
<1> DEFINE new == Sold(s)
           q == Quantity({s})
<1>1. /\ state \in SaleState /\ minted \in Nat /\ s \in Int
      /\ Opening \in Nat
  BY EdgeAssumption DEF EdgeInv, TypeOK, Sales
<1>2. q \in Nat /\ Quantity(state.overlooked) \in Nat
  BY <1>1, QuantityType DEF SaleState
<1>3. /\ s = minted + 1 /\ minted' = s
      /\ Saved(new) \/ NotSaved(new)
      /\ UNCHANGED <<onHand, posted, run>>
  BY DEF QueueSale, cloudVars
<1>4. /\ new.available = state.available - q
      /\ new.overlooked = state.overlooked
      /\ \A t \in Sales : new.sales[t] = IF t = s THEN "pending" ELSE state.sales[t]
  BY <1>1 DEF Sold, Marked, SaleState
<1> HIDE DEF new, q
<1>5. state.sales[s] = "none"
  BY <1>1, <1>3 DEF OverlapInv, UndrawnIsNew
<1>6. Covered(new)
  <2>1. /\ QueuedIn(new) = QueuedIn(state) \cup {s}
        /\ QueuedIn(state) \cap {s} = {}
        /\ QueuedIn(state) \in SUBSET Sales
    BY <1>4, <1>5 DEF QueuedIn
  <2>2. Quantity(QueuedIn(new)) = Quantity(QueuedIn(state)) + q
    <3>1. Quantity(QueuedIn(state) \cup {s}) = Quantity(QueuedIn(state)) + q
      BY <2>1, QuantityOfSets DEF q
    <3> QED
      BY <2>1, <3>1
  <2>3. Quantity(QueuedIn(state)) \in Nat /\ state.available \in Int
    BY <1>1, <2>1, QuantityType DEF SaleState
  <2>4. new.available > 0
          => state.available + Quantity(QueuedIn(state))
               <= Opening + Quantity(state.overlooked)
    BY <1>2, <1>4, <2>3 DEF OverlapInv, Covered
  <2> QED
    BY <1>1, <1>2, <1>4, <2>2, <2>3, <2>4 DEF Covered
<1>7. \A t \in Sales : t > minted' => new.sales[t] = "none"
  <2>1. \A t \in Sales : t \in Int
    BY EdgeAssumption DEF Sales
  <2> QED
    BY <1>1, <1>3, <1>4, <2>1 DEF OverlapInv, UndrawnIsNew
<1>8. Covered(state') /\ Covered(stateFile') /\ UndrawnIsNew'
  <2>1. minted' \in Nat /\ minted <= minted'
    BY <1>1, <1>3
  <2> QED
    BY <1>1, <1>3, <1>6, <1>7, <2>1, StoreCovers
<1>9. state' = new
  BY <1>3 DEF Saved, NotSaved
<1>10. RunsAreCurrent'
  <2>1. ASSUME NEW w \in Runs
        PROVE  Current(run[w], new)
    <3>1. run[w] \in RunState /\ Current(run[w], state)
      BY DEF EdgeInv, TypeOK, OverlapInv, RunsAreCurrent
    <3>2. \A t \in Sales :
            /\ state.sales[t] # "none" => new.sales[t] # "none"
            /\ state.sales[t] = "pending" => new.sales[t] = "pending"
            /\ new.sales[t] = "synced" => state.sales[t] = "synced"
      BY <1>4
    <3> QED
      BY <3>1, <3>2, CurrentLater
  <2> QED
    BY <1>3, <1>9, <2>1 DEF RunsAreCurrent
<1> QED
  BY <1>3, <1>4, <1>5, <1>8, <1>9, <1>10, BooksQuiet DEF OverlapInv

(* A conflict taken up again.                                             *)
LEMMA RetryCovers ==
  ASSUME EdgeInv, OverlapInv, NEW s \in Sales, Retry(s)
  PROVE  OverlapInv'
<1> DEFINE new == Marked(s, "pending")
<1>1. /\ state.sales[s] = "conflict"
      /\ Saved(new) \/ NotSaved(new)
      /\ UNCHANGED <<minted, onHand, posted, run>>
  BY DEF Retry, cloudVars
<1>2. /\ Covered(new)
      /\ \A t \in Sales : t > minted => new.sales[t] = "none"
      /\ \A t \in Sales : new.sales[t] = IF t = s THEN "pending" ELSE state.sales[t]
  BY <1>1, MarkedCovers DEF SaleStatus
<1> HIDE DEF new
<1>3. Covered(state') /\ Covered(stateFile') /\ UndrawnIsNew'
  <2>1. minted \in Nat /\ minted' = minted
    BY <1>1, EdgeAssumption DEF EdgeInv, TypeOK
  <2>2. minted' \in Nat /\ minted <= minted'
    BY <2>1
  <2>3. \A t \in Sales : t > minted' => new.sales[t] = "none"
    BY <1>2, <2>1
  <2>4. Saved(new) \/ NotSaved(new)
    BY <1>1
  <2> QED
    BY <1>2, <2>1, <2>2, <2>3, <2>4, StoreCovers
<1>4. state' = new
  BY <1>1 DEF Saved, NotSaved, Retry, new
<1>5. RunsAreCurrent'
  <2>1. ASSUME NEW w \in Runs
        PROVE  Current(run[w], new)
    <3>1. run[w] \in RunState /\ Current(run[w], state)
      BY DEF EdgeInv, TypeOK, OverlapInv, RunsAreCurrent
    <3>2. \A t \in Sales :
            /\ state.sales[t] # "none" => new.sales[t] # "none"
            /\ state.sales[t] = "pending" => new.sales[t] = "pending"
            /\ new.sales[t] = "synced" => state.sales[t] = "synced"
      BY <1>2
    <3> QED
      BY <3>1, <3>2, CurrentLater
  <2> QED
    BY <1>1, <1>4, <2>1 DEF RunsAreCurrent
<1> QED
  BY <1>1, <1>3, <1>5, BooksQuiet DEF OverlapInv

(* Pairing, revoking and a restart, which goes on from the file or empty.    *)
LEMMA OthersCover ==
  ASSUME EdgeInv, OverlapInv,
         \/ \E d \in Devices : PairDevice(d) \/ SavePairing(d) \/ Revoke(d)
         \/ Restart
         \/ UNCHANGED vars
  PROVE  OverlapInv'
<1>1. CASE UNCHANGED <<state, stateFile, minted, onHand, posted, run>>
  BY <1>1 DEF OverlapInv, BooksLeaveStock, InBooks, PostedBy, UndrawnIsNew,
     RunsAreCurrent
<1>2. CASE Restart
  <2> DEFINE e == Empty
  <2>1. /\ state' \in {stateFile, e} /\ stateFile' = stateFile
        /\ UNCHANGED <<minted, onHand, posted>>
        /\ run' = [w \in Runs |-> Idle]
    BY <1>2 DEF Restart, OpenState, cloudVars
  <2>2. Covered(e) /\ \A s \in Sales : e.sales[s] = "none"
    BY DEF Empty, Covered
  <2> HIDE DEF e
  <2>3. Covered(state') /\ Covered(stateFile') /\ UndrawnIsNew'
    BY <2>1, <2>2 DEF OverlapInv, UndrawnIsNew
  <2>4. RunsAreCurrent'
    BY <2>1, IdleIsCurrent DEF RunsAreCurrent
  <2> QED
    BY <2>1, <2>3, <2>4, BooksQuiet DEF OverlapInv
<1> QED
  BY <1>1, <1>2
     DEF PairDevice, SavePairing, Revoke, vars, storeVars, cloudVars

(* OverlapInv holds of a new installation.                                 *)
LEMMA OverlapInvInit == Init => OverlapInv
<1> SUFFICES ASSUME Init PROVE OverlapInv
  OBVIOUS
<1>1. InBooks = {} /\ onHand = Opening /\ Opening \in Nat
  BY EdgeAssumption DEF Init, InBooks, PostedBy
<1>2. Quantity({}) = 0
  <2>1. Units({}) = {}
    BY DEF Units
  <2> QED
    BY <2>1, FS_EmptySet DEF Quantity
<1>3. BooksLeaveStock
  BY <1>1, <1>2 DEF BooksLeaveStock
<1>4. Covered(state) /\ Covered(stateFile) /\ UndrawnIsNew
  BY DEF Init, Empty, Covered, UndrawnIsNew
<1>5. RunsAreCurrent
  BY IdleIsCurrent DEF Init, RunsAreCurrent
<1> QED
  BY <1>3, <1>4, <1>5 DEF OverlapInv

(* OverlapInv is inductive, with EdgeInv.                                    *)
LEMMA OverlapInvNext == EdgeInv /\ OverlapInv /\ [Next]_vars => OverlapInv'
<1> SUFFICES ASSUME EdgeInv, OverlapInv, [Next]_vars PROVE OverlapInv'
  OBVIOUS
<1>1. CASE \E s \in Sales : QueueSale(s) \/ Retry(s)
  BY <1>1, QueueSaleCovers, RetryCovers
<1>2. CASE (\E d \in Devices, s \in Sales : ServeLate(d, s)) \/ SellElsewhere
  BY <1>2, CloudCovers
<1>3. CASE \E w \in Runs : BeginRun(w) \/ RunStep(w)
  BY <1>3, MovesCover, CloudCovers, MarksCover, SnapshotCovers DEF RunStep
<1>4. CASE \/ \E d \in Devices : PairDevice(d) \/ SavePairing(d) \/ Revoke(d)
           \/ Restart \/ UNCHANGED vars
  BY <1>4, OthersCover
<1> QED
  BY <1>1, <1>2, <1>3, <1>4 DEF Next

(* Beyond the cloud's stock the till offers only the units of sales another  *)
(* Run marked synced between the fetch and the application of the snapshot   *)
(* in use: for any number of Runs that overlap, any sales, devices, restarts,*)
(* failed reads and writes, lost and late calls, and whatever other channels *)
(* sell (sync.go, Run; store.go, QueueSale, MarkAttempt, ReplaceSnapshot).   *)
THEOREM OnlyOverlookedIsOfferedTwice == Spec => []DoubleAvailabilityBounded
<1>1. EdgeInv /\ OverlapInv => DoubleAvailabilityBounded
  <2>1. Queued = QueuedIn(state)
    BY DEF Queued, QueuedIn
  <2> QED
    BY <2>1 DEF OverlapInv, Covered, DoubleAvailabilityBounded
<1> QED
  BY <1>1, EdgeInvInit, EdgeInvNext, OverlapInvInit, OverlapInvNext, PTL DEF Spec

(* A conflict becomes pending again only when the operator retries it, when  *)
(* a restart finds it pending in the file, or when a push fails whose Run    *)
(* has not seen that another Run has recorded the conflict since: for any    *)
(* number of Runs that overlap (sync.go, Run; store.go, MarkAttempt, Retry). *)
THEOREM ConflictsReopenOnlyByOverlap == Spec => OnlyOverlapReopens
<1> DEFINE Waits == \A s \in WithStatus("conflict") :
                      state'.sales[s] = "pending" =>
                        \/ Retry(s) \/ Restart
                        \/ \E w \in Runs : s \in run[w].unseen /\ MarkPending(w)
<1>1. EdgeInv /\ OverlapInv /\ [Next]_vars => [Waits]_vars
  <2> SUFFICES ASSUME EdgeInv, OverlapInv, [Next]_vars,
                      NEW s \in WithStatus("conflict"), ~ Retry(s), ~ Restart,
                      \A w \in Runs : ~ (s \in run[w].unseen /\ MarkPending(w))
               PROVE  state'.sales[s] # "pending"
    OBVIOUS
  <2>1. s \in Sales /\ state.sales[s] = "conflict" /\ state \in SaleState
    BY DEF WithStatus, EdgeInv, TypeOK
  <2>2. CASE state'.sales = state.sales
    BY <2>1, <2>2
  <2>3. ASSUME NEW t \in Sales, QueueSale(t)
        PROVE  state'.sales[s] # "pending"
    BY <2>1, <2>3, QueueSaleCovers
  <2>4. ASSUME NEW t \in Sales, Retry(t)
        PROVE  state'.sales[s] # "pending"
    <3>1. state' = Marked(t, "pending") /\ t # s
      BY <2>4 DEF Retry, Saved, NotSaved
    <3> QED
      BY <2>1, <3>1 DEF Marked, SaleState
  <2>5. ASSUME NEW w \in Runs, MarkSynced(w) \/ MarkConflict(w)
        PROVE  state'.sales[s] # "pending"
    <3>1. PICK status \in {"synced", "conflict"} :
            state' = Marked(NextSale(w), status)
      BY <2>5 DEF MarkSynced, MarkConflict, Saved, NotSaved
    <3> QED
      BY <2>1, <3>1 DEF Marked, SaleState
  <2>6. ASSUME NEW w \in Runs, MarkPending(w)
        PROVE  state'.sales[s] # "pending"
    <3>1. /\ run[w].at \in Pushing /\ run[w].todo # {}
          /\ Current(run[w], state) /\ s \notin run[w].unseen
      BY <2>6 DEF MarkPending, EdgeInv, RunsReady, OverlapInv, RunsAreCurrent,
         Pushing
    <3>2. s \notin run[w].todo
      BY <2>1, <3>1 DEF Current
    <3>3. NextSale(w) # s
      BY <3>1, <3>2, NextSaleInTodo DEF EdgeInv
    <3>4. state' = Marked(NextSale(w), "pending")
      BY <2>6 DEF MarkPending, Saved, NotSaved
    <3> QED
      BY <2>1, <3>3, <3>4 DEF Marked, SaleState
  <2>7. ASSUME NEW w \in Runs, LoseSnapshot(w) \/ ReplaceSnapshot(w)
        PROVE  state'.sales = state.sales
    BY <2>1, <2>7 DEF LoseSnapshot, ReplaceSnapshot, Saved, NotSaved, SaleState
  <2>8. CASE UNCHANGED state
    BY <2>2, <2>8
  <2> QED
    BY <2>2, <2>3, <2>4, <2>5, <2>6, <2>7, <2>8
       DEF Next, RunStep, BeginRun, ListPendingSales, PushSale, ServePush,
           LosePush, FetchSnapshot, ServeLate, SellElsewhere, PairDevice,
           SavePairing, Revoke, vars, storeVars
<1> QED
  BY <1>1, EdgeInvInit, EdgeInvNext, OverlapInvInit, OverlapInvNext, PTL
     DEF Spec, OnlyOverlapReopens
=============================================================================
